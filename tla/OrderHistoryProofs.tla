------------------------- MODULE OrderHistoryProofs --------------------------
(***************************************************************************)
(* OrderHistory, for any calls, keys, accounts, carts, catalogs and        *)
(* readers: a history shows orders of the account, each once and whole,    *)
(* and none that somebody had been told of is missing from it.             *)
(***************************************************************************)
EXTENDS OrderHistory, FoldLemmas

-----------------------------------------------------------------------------
(* What the query returns *)

\* s lists the rows, each once, by their order.
Lists(s, rows) ==
  /\ s \in [1..Cardinality(rows) -> rows]
  /\ \A x \in rows : \E i \in DOMAIN s : s[i] = x
  /\ \A i, j \in DOMAIN s : s[i] = s[j] => i = j
  /\ \A i, j \in DOMAIN s : i < j => s[i].id <= s[j].id

\* Rows that are numbered within their orders, the orders one after the other,
\* have the numbers from 1 to the number of rows.
LEMMA ResultsAreLists ==
  ASSUME NEW a, IsFiniteSet(RowsFor(a)), \A x \in RowsFor(a) : x.id \in Nat,
         NEW s \in Results(a)
  PROVE  Lists(s, RowsFor(a))
<1> DEFINE rows == RowsFor(a)
           n == Cardinality(rows)
<1>1. PICK f \in Numberings(rows) :
        s = [i \in 1..n |-> CHOOSE x \in rows : i = Cardinality(Before(x, rows)) + f[x]]
  BY DEF Results
<1> DEFINE before == [x \in rows |-> Cardinality(Before(x, rows))]
           beside == [x \in rows |-> Cardinality(Beside(x, rows))]
           pos    == [x \in rows |-> Cardinality(Before(x, rows)) + f[x]]
<1>2. ASSUME NEW x \in rows
      PROVE  /\ IsFiniteSet(Before(x, rows)) /\ IsFiniteSet(Beside(x, rows))
             /\ before[x] \in Nat /\ beside[x] \in Nat
             /\ IsFiniteSet(Before(x, rows) \cup Beside(x, rows))
             /\ Cardinality(Before(x, rows) \cup Beside(x, rows)) = before[x] + beside[x]
  <2>1. Before(x, rows) \in SUBSET rows /\ Beside(x, rows) \in SUBSET rows
    BY DEF Before, Beside
  <2>2. IsFiniteSet(Before(x, rows)) /\ IsFiniteSet(Beside(x, rows))
    BY <2>1, FS_Subset
  <2>3. Before(x, rows) \cap Beside(x, rows) = {}
    BY DEF Before, Beside
  <2>4. Cardinality(Before(x, rows) \cap Beside(x, rows)) = 0
    BY <2>3, FS_EmptySet
  <2>5. before[x] \in Nat /\ beside[x] \in Nat
    BY <2>2, FS_CardinalityType
  <2>6. /\ Cardinality(Before(x, rows) \cup Beside(x, rows)) = before[x] + beside[x] - 0
        /\ IsFiniteSet(Before(x, rows) \cup Beside(x, rows))
    BY <2>2, <2>4, FS_Union
  <2> HIDE DEF rows, before, beside
  <2> QED
    BY <2>2, <2>5, <2>6
<1>3. ASSUME NEW x \in rows
      PROVE  f[x] \in 1..beside[x] /\ pos[x] = before[x] + f[x]
  <2>1. x \in Beside(x, rows)
    BY DEF Beside
  <2>2. {f[y] : y \in Beside(x, rows)} = 1..beside[x]
    BY DEF Numberings
  <2>3. f[x] \in 1..beside[x]
    <3> HIDE DEF rows, beside
    <3> QED
      BY <2>1, <2>2
  <2> QED
    BY <2>3
<1>4. n \in Nat /\ before \in [rows -> Nat] /\ beside \in [rows -> Nat]
  BY <1>2, FS_CardinalityType
<1>5. \A x \in rows : pos[x] \in 1..n
  <2> SUFFICES ASSUME NEW x \in rows
               PROVE  pos[x] \in 1..n
    OBVIOUS
  <2>1. Before(x, rows) \cup Beside(x, rows) \in SUBSET rows
    BY DEF Before, Beside
  <2>2. Cardinality(Before(x, rows) \cup Beside(x, rows)) <= n
    BY <2>1, FS_Subset
  <2>3. before[x] + beside[x] <= n
    BY <1>2, <2>2
  <2> HIDE DEF rows, before, beside, pos, n
  <2> QED
    BY <1>3, <1>4, <2>3
<1>6. ASSUME NEW x \in rows, NEW y \in rows, x.id < y.id
      PROVE  pos[x] < pos[y]
  <2>1. Before(x, rows) \cup Beside(x, rows) \in SUBSET Before(y, rows)
    BY <1>6 DEF Before, Beside
  <2>2. Cardinality(Before(x, rows) \cup Beside(x, rows)) <= before[y]
    BY <1>2, <2>1, FS_Subset
  <2>3. before[x] + beside[x] <= before[y]
    BY <1>2, <2>2
  <2> HIDE DEF rows, before, beside, pos
  <2> QED
    BY <1>3, <1>4, <2>3
<1>7. ASSUME NEW x \in rows, NEW y \in rows, x.id = y.id, pos[x] = pos[y]
      PROVE  x = y
  <2> DEFINE B == Beside(x, rows)
             h == [z \in B |-> f[z]]
  <2>1. x \in B /\ y \in B /\ before[x] = before[y]
    BY <1>7 DEF Before, Beside
  <2>2. {f[z] : z \in B} = 1..beside[x]
    BY DEF Numberings
  <2>3. h \in Surjection(B, 1..beside[x])
    <3> HIDE DEF B, beside
    <3>1. h \in [B -> 1..beside[x]] /\ \A k \in 1..beside[x] : \E z \in B : h[z] = k
      BY <2>2
    <3> QED
      BY <3>1 DEF Surjection
  <2>4. Cardinality(1..beside[x]) = Cardinality(B)
    <3>1. beside[x] \in Nat /\ beside[x] = Cardinality(B)
      BY <1>2
    <3> HIDE DEF beside, B
    <3>2. Cardinality(1..beside[x]) = beside[x]
      BY <3>1, CountTo
    <3> QED
      BY <3>1, <3>2
  <2>5. h \in Injection(B, 1..beside[x])
    <3>1. IsFiniteSet(B)
      BY <1>2
    <3> HIDE DEF h, B, beside
    <3> QED
      BY <2>3, <2>4, <3>1, FS_Surjection
  <2>6. f[x] = f[y]
    <3> HIDE DEF rows, before, beside, pos
    <3>1. before[x] \in Int /\ f[x] \in Int /\ f[y] \in Int
      BY <1>3, <1>4
    <3>2. before[x] + f[x] = before[x] + f[y]
      BY <1>3, <1>7, <2>1
    <3>3. \A i, j, k \in Int : i + j = i + k => j = k
      OBVIOUS
    <3> QED
      BY <3>1, <3>2, <3>3
  <2>7. h[x] = h[y]
    BY <2>1, <2>6
  <2> HIDE DEF B, h
  <2> QED
    BY <2>1, <2>5, <2>7 DEF Injection, IsInjective
<1>8. \A x, y \in rows : pos[x] = pos[y] => x = y
  <2> HIDE DEF pos
  <2>1. \A x, y \in rows : pos[x] \in Int
    BY <1>4, <1>5
  <2>2. \A x \in rows : x.id \in Nat
    OBVIOUS
  <2> HIDE DEF rows
  <2> QED
    BY <1>6, <1>7, <2>1, <2>2
<1>9. \A i \in 1..n : \E x \in rows : pos[x] = i
  <2>1. pos \in [rows -> 1..n]
    BY <1>5
  <2>2. Cardinality(1..n) = n /\ IsFiniteSet(1..n)
    <3> HIDE DEF n
    <3> QED
      BY <1>4, CountTo
  <2>3. pos \in Injection(rows, 1..n)
    <3> HIDE DEF rows, pos
    <3> QED
      BY <1>8, <2>1 DEF Injection, IsInjective
  <2>4. pos \in Surjection(rows, 1..n)
    <3> HIDE DEF pos
    <3> QED
      BY <2>2, <2>3, FS_Injection
  <2> HIDE DEF rows, pos
  <2> QED
    BY <2>4 DEF Surjection
<1>10. \A i \in 1..n : s[i] \in rows /\ pos[s[i]] = i
  <2>1. \A i \in 1..n : \E x \in rows : i = Cardinality(Before(x, rows)) + f[x]
    BY <1>9
  <2>2. \A i \in 1..n : /\ s[i] \in rows
                        /\ i = Cardinality(Before(s[i], rows)) + f[s[i]]
    BY <1>1, <2>1
  <2> QED
    BY <2>2
<1>11. s = [i \in 1..n |-> s[i]]
  BY <1>1
<1> HIDE DEF pos
<1>12. s \in [1..n -> rows] /\ DOMAIN s = 1..n
  BY <1>10, <1>11
<1>13. \A x \in rows : \E i \in DOMAIN s : s[i] = x
  <2> HIDE DEF rows, n
  <2> QED
    BY <1>5, <1>8, <1>10, <1>12
<1>14. \A i, j \in DOMAIN s : s[i] = s[j] => i = j
  <2> HIDE DEF rows, n
  <2> QED
    BY <1>10, <1>12
<1>15. \A i, j \in DOMAIN s : i < j => s[i].id <= s[j].id
  <2>1. \A x \in rows : x.id \in Nat
    OBVIOUS
  <2> HIDE DEF rows, n
  <2>2. ASSUME NEW i \in DOMAIN s, NEW j \in DOMAIN s, i < j, ~ (s[i].id <= s[j].id)
        PROVE  FALSE
    <3>1. s[i] \in rows /\ s[j] \in rows /\ pos[s[i]] = i /\ pos[s[j]] = j
      BY <1>10, <1>12
    <3>2. s[j].id < s[i].id
      BY <2>1, <2>2, <3>1
    <3>3. j < i
      BY <1>6, <3>1, <3>2
    <3> QED
      BY <1>4, <1>12, <2>2, <3>3
  <2> QED
    BY <2>2
<1> QED
  <2> HIDE DEF n
  <2>1. n = Cardinality(rows)
    BY DEF n
  <2> HIDE DEF rows
  <2>2. Lists(s, rows)
    BY <1>12, <1>13, <1>14, <1>15, <2>1 DEF Lists
  <2> QED
    BY <2>2 DEF rows

-----------------------------------------------------------------------------
(* The grouping of the rows *)

\* The values that the loop handles, when those of the rows are in A.
RowOf(A)    == [id : A, account : A, total : A, product : A, quantity : A]
LineOf(A)   == [id : A, quantity : A]
HeadOf(A)   == [id : A, account : A, total : A]
ClosedOf(A) == [id : A, account : A, total : A, products : Seq(LineOf(A))]
LoopOf(A)   == [orders : Seq(ClosedOf(A)), last : HeadOf(A), products : Seq(LineOf(A))]

LineIn(x) == [id |-> x.product, quantity |-> x.quantity]

\* The rows of the order with this id.
RowsWith(id, rows) == {x \in rows : x.id = id}

\* Order o was made from all of its rows, each of them one line.
Whole(o, rows) ==
  /\ \E x \in rows : x.id = o.id /\ x.account = o.account /\ x.total = o.total
  /\ Len(o.products) = Cardinality(RowsWith(o.id, rows))
  /\ {o.products[i] : i \in DOMAIN o.products} = {LineIn(x) : x \in RowsWith(o.id, rows)}

\* What the loop has done with the rows so far.
Gathered(g, rows) ==
  /\ \A i, j \in DOMAIN g.orders : g.orders[i].id = g.orders[j].id => i = j
  /\ \A i \in DOMAIN g.orders : Whole(g.orders[i], rows) /\ g.orders[i].id # g.last.id
  /\ Whole(Closed(g), rows)
  /\ \A x \in rows : x.id = g.last.id \/ \E i \in DOMAIN g.orders : g.orders[i].id = x.id
  /\ \A x \in rows : x.id <= g.last.id

\* The loop stays within these values.
LEMMA GroupRowType ==
  ASSUME NEW A, NEW g \in LoopOf(A), NEW x \in RowOf(A)
  PROVE  GroupRow(g, x) \in LoopOf(A)
<1>1. /\ LineIn(x) \in LineOf(A)
      /\ [id |-> x.id, account |-> x.account, total |-> x.total] \in HeadOf(A)
  BY DEF RowOf, LineIn, LineOf, HeadOf
<1>2. g.orders \in Seq(ClosedOf(A)) /\ g.last \in HeadOf(A) /\ g.products \in Seq(LineOf(A))
  BY DEF LoopOf
<1>3. Closed(g) \in ClosedOf(A)
  BY <1>2 DEF Closed, HeadOf, ClosedOf
<1>4. /\ Append(g.orders, Closed(g)) \in Seq(ClosedOf(A))
      /\ Append(g.products, LineIn(x)) \in Seq(LineOf(A))
      /\ Append(<<>>, LineIn(x)) \in Seq(LineOf(A))
  BY <1>1, <1>2, <1>3
<1>5. /\ GroupRow(g, x).orders \in Seq(ClosedOf(A))
      /\ GroupRow(g, x).last \in HeadOf(A)
      /\ GroupRow(g, x).products \in Seq(LineOf(A))
  BY <1>1, <1>2, <1>4 DEF GroupRow, LineIn
<1> QED
  BY <1>5 DEF GroupRow, LoopOf

\* An order keeps being made from all of its rows when one of another arrives.
LEMMA WholeStays ==
  ASSUME NEW rows, NEW x, NEW o, Whole(o, rows), x.id # o.id
  PROVE  Whole(o, rows \cup {x})
<1>1. RowsWith(o.id, rows \cup {x}) = RowsWith(o.id, rows)
  BY DEF RowsWith
<1> QED
  BY <1>1 DEF Whole

\* The first row, or the first of another order, opens an order.
LEMMA RowOpens ==
  ASSUME NEW A, NEW g \in LoopOf(A), NEW rows, NEW x \in RowOf(A), x.id \in Int,
         \A y \in rows : y.id \in Int /\ y.id < x.id,
         NEW h \in LoopOf(A),
         h.last = [id |-> x.id, account |-> x.account, total |-> x.total],
         h.products = <<LineIn(x)>>
  PROVE  Whole(Closed(h), rows \cup {x})
<1>1. Closed(h) = [id |-> x.id, account |-> x.account, total |-> x.total,
                   products |-> <<LineIn(x)>>]
  BY DEF Closed
<1>2. RowsWith(x.id, rows \cup {x}) = {x}
  BY DEF RowsWith
<1>3. Cardinality({x}) = 1
  BY FS_Singleton
<1> DEFINE c  == Closed(h)
           ps == <<LineIn(x)>>
<1>4. /\ Len(ps) = 1
      /\ {ps[i] : i \in DOMAIN ps} = {LineIn(y) : y \in {x}}
  OBVIOUS
<1>5. c.id = x.id /\ c.account = x.account /\ c.total = x.total /\ c.products = ps
  BY <1>1
<1>6. Whole(c, rows \cup {x})
  <2> HIDE DEF c, ps
  <2> QED
    BY <1>2, <1>3, <1>4, <1>5 DEF Whole
<1> QED
  BY <1>6

\* A further row of the order that is open.
LEMMA RowJoins ==
  ASSUME NEW A, NEW g \in LoopOf(A), NEW rows, IsFiniteSet(rows),
         NEW x \in RowOf(A), x \notin rows,
         x.id = g.last.id, Whole(Closed(g), rows),
         NEW h \in LoopOf(A),
         h.last = [id |-> x.id, account |-> x.account, total |-> x.total],
         h.products = Append(g.products, LineIn(x))
  PROVE  Whole(Closed(h), rows \cup {x})
<1> DEFINE mine == RowsWith(x.id, rows)
           ps   == g.products
           qs   == h.products
<1>1. ps \in Seq(LineOf(A)) /\ LineIn(x) \in LineOf(A)
  BY DEF LoopOf, RowOf, LineIn, LineOf
<1>2. /\ Len(ps) = Cardinality(mine)
      /\ {ps[i] : i \in DOMAIN ps} = {LineIn(y) : y \in mine}
  BY DEF Whole, Closed
<1>3. RowsWith(x.id, rows \cup {x}) = mine \cup {x} /\ x \notin mine /\ mine \subseteq rows
  BY DEF RowsWith
<1>4. Cardinality(mine \cup {x}) = Cardinality(mine) + 1
  <2>1. IsFiniteSet(mine)
    BY <1>3, FS_Subset
  <2> HIDE DEF mine
  <2> QED
    BY <1>3, <2>1, FS_AddElement
<1>5. /\ Len(qs) = Len(ps) + 1 /\ DOMAIN qs = 1..(Len(ps) + 1) /\ DOMAIN ps = 1..Len(ps)
      /\ Len(ps) \in Nat
      /\ \A i \in 1..Len(ps) : qs[i] = ps[i]
      /\ qs[Len(ps) + 1] = LineIn(x)
  <2>1. qs = Append(ps, LineIn(x))
    OBVIOUS
  <2> HIDE DEF ps, qs
  <2> QED
    BY <1>1, <2>1
<1>6. {qs[i] : i \in DOMAIN qs} = {LineIn(y) : y \in mine \cup {x}}
  <2>1. {qs[i] : i \in DOMAIN qs} = {ps[i] : i \in DOMAIN ps} \cup {LineIn(x)}
    <3> HIDE DEF ps, qs
    <3>1. 1..(Len(ps) + 1) = 1..Len(ps) \cup {Len(ps) + 1}
      BY <1>5
    <3> QED
      BY <1>5, <3>1
  <2> HIDE DEF ps, qs, mine
  <2> QED
    BY <1>2, <2>1
<1> DEFINE c == Closed(h)
<1>7. c.id = x.id /\ c.account = x.account /\ c.total = x.total /\ c.products = qs
  BY DEF Closed
<1>8. Whole(c, rows \cup {x})
  <2> HIDE DEF c, ps, qs, mine
  <2>1. RowsWith(c.id, rows \cup {x}) = mine \cup {x}
    BY <1>3, <1>7
  <2>2. \E y \in rows \cup {x} : y.id = c.id /\ y.account = c.account /\ y.total = c.total
    BY <1>7
  <2>3. Len(c.products) = Cardinality(RowsWith(c.id, rows \cup {x}))
    BY <1>2, <1>4, <1>5, <1>7, <2>1
  <2>4. {c.products[i] : i \in DOMAIN c.products}
          = {LineIn(y) : y \in RowsWith(c.id, rows \cup {x})}
    BY <1>6, <1>7, <2>1
  <2> QED
    BY <2>2, <2>3, <2>4 DEF Whole
<1> QED
  BY <1>8

\* The loop opens an order with the first row.
LEMMA FirstRowGathered ==
  ASSUME NEW A, GroupInit \in LoopOf(A), NEW x \in RowOf(A), x.id \in Int
  PROVE  Gathered(GroupRow(GroupInit, x), {x})
<1> DEFINE h == GroupRow(GroupInit, x)
<1>1. /\ h.orders = <<>>
      /\ h.last = [id |-> x.id, account |-> x.account, total |-> x.total]
      /\ h.products = <<LineIn(x)>>
  BY DEF GroupRow, GroupInit, LineIn
<1>2. h \in LoopOf(A)
  BY GroupRowType
<1>3. Whole(Closed(h), {} \cup {x})
  <2> HIDE DEF h
  <2> QED
    BY <1>1, <1>2, RowOpens
<1>4. {} \cup {x} = {x}
  OBVIOUS
<1>5. h.last.id = x.id /\ DOMAIN h.orders = {}
  BY <1>1
<1>6. Gathered(h, {x})
  <2> HIDE DEF h
  <2> QED
    BY <1>3, <1>4, <1>5 DEF Gathered
<1> QED
  BY <1>6

\* It adds a further row to the open order, or closes that and opens the next.
LEMMA NextRowGathered ==
  ASSUME NEW A, NEW g \in LoopOf(A), NEW rows, IsFiniteSet(rows),
         \A y \in rows : y.id \in Nat \ {0},
         NEW x \in RowOf(A), x \notin rows, x.id \in Nat \ {0},
         \A y \in rows : y.id <= x.id,
         Gathered(g, rows)
  PROVE  Gathered(GroupRow(g, x), rows \cup {x})
<1> DEFINE h  == GroupRow(g, x)
           os == g.orders
           qs == h.orders
<1>1. /\ h \in LoopOf(A)
      /\ h.last = [id |-> x.id, account |-> x.account, total |-> x.total]
  BY GroupRowType DEF GroupRow
<1>2. h.last.id = x.id
  BY <1>1
<1>3. PICK y \in rows : y.id = g.last.id
  BY DEF Gathered, Whole, Closed
<1>4. g.last.id \in Nat \ {0} /\ g.last.id <= x.id
  BY <1>3
<1>5. os \in Seq(ClosedOf(A)) /\ Closed(g) \in ClosedOf(A)
  BY DEF LoopOf, Closed, ClosedOf, HeadOf
<1>6. \A i \in DOMAIN os : \E z \in rows : z.id = os[i].id
  BY DEF Gathered, Whole
<1>7. \A z \in rows \cup {x} : z.id <= h.last.id
  BY <1>2
<1>8. CASE g.last.id = x.id
  <2>1. qs = os /\ h.products = Append(g.products, LineIn(x))
    BY <1>8 DEF GroupRow, LineIn
  <2>2. Whole(Closed(h), rows \cup {x})
    <3>1. Whole(Closed(g), rows)
      BY DEF Gathered
    <3> HIDE DEF h
    <3> QED
      BY <1>1, <1>8, <2>1, <3>1, RowJoins
  <2>3. \A i \in DOMAIN qs : Whole(qs[i], rows \cup {x}) /\ qs[i].id # h.last.id
    <3>1. \A i \in DOMAIN os : Whole(os[i], rows) /\ os[i].id # x.id
      BY <1>8 DEF Gathered
    <3> HIDE DEF h, os, qs
    <3> QED
      BY <1>2, <2>1, <3>1, WholeStays
  <2>4. /\ \A i, j \in DOMAIN qs : qs[i].id = qs[j].id => i = j
        /\ \A z \in rows \cup {x} : z.id = h.last.id \/ \E i \in DOMAIN qs : qs[i].id = z.id
    <3>1. /\ \A i, j \in DOMAIN os : os[i].id = os[j].id => i = j
          /\ \A z \in rows : z.id = g.last.id \/ \E i \in DOMAIN os : os[i].id = z.id
      BY DEF Gathered
    <3> HIDE DEF h, os, qs
    <3> QED
      BY <1>2, <1>8, <2>1, <3>1
  <2>5. Gathered(h, rows \cup {x})
    <3> HIDE DEF h
    <3> QED
      BY <1>7, <2>2, <2>3, <2>4 DEF Gathered, qs
  <2> QED
    BY <2>5
<1>9. CASE g.last.id # x.id
  <2>1. /\ qs = Append(os, Closed(g))
        /\ h.products = <<LineIn(x)>>
    <3>1. h.orders = Append(g.orders, Closed(g)) /\ h.products = Append(<<>>, LineIn(x))
      BY <1>4, <1>9 DEF GroupRow, LineIn, NoId
    <3>2. Append(<<>>, LineIn(x)) = <<LineIn(x)>>
      OBVIOUS
    <3> HIDE DEF h
    <3> QED
      BY <3>1, <3>2
  <2>2. \A z \in rows : z.id \in Int /\ z.id < x.id
    <3>1. g.last.id < x.id
      BY <1>4, <1>9
    <3>2. \A z \in rows : z.id <= g.last.id
      BY DEF Gathered
    <3> QED
      BY <1>4, <3>1, <3>2
  <2>3. Whole(Closed(h), rows \cup {x})
    <3> HIDE DEF h
    <3>1. x.id \in Int
      OBVIOUS
    <3> QED
      BY <1>1, <2>1, <2>2, <3>1, RowOpens
  <2> DEFINE n == Len(os)
  <2>4. /\ DOMAIN os = 1..n /\ DOMAIN qs = 1..(n + 1) /\ n \in Nat
        /\ \A i \in 1..n : qs[i] = os[i]
        /\ qs[n + 1] = Closed(g)
    <3> HIDE DEF os, qs
    <3> QED
      BY <1>5, <2>1
  <2>5. Closed(g).id = g.last.id
    BY DEF Closed
  <2>6. \A i \in DOMAIN qs : i \in 1..n \/ i = n + 1
    BY <2>4
  <2>7. \A i \in 1..n : qs[i].id # g.last.id /\ Whole(qs[i], rows) /\ qs[i].id # x.id
    <3>1. \A i \in DOMAIN os : Whole(os[i], rows) /\ os[i].id # g.last.id
      BY DEF Gathered
    <3> HIDE DEF os, qs
    <3> QED
      BY <1>6, <2>2, <2>4, <3>1
  <2>8. \A i \in DOMAIN qs : Whole(qs[i], rows) /\ qs[i].id # x.id
    <3>1. Whole(Closed(g), rows)
      BY DEF Gathered
    <3> HIDE DEF os, qs, n
    <3> QED
      BY <1>9, <2>4, <2>5, <2>6, <2>7, <3>1
  <2>9. \A i \in DOMAIN qs : Whole(qs[i], rows \cup {x}) /\ qs[i].id # h.last.id
    <3> HIDE DEF os, qs, h
    <3> QED
      BY <1>2, <2>8, WholeStays
  <2>10. \A i, j \in DOMAIN qs : qs[i].id = qs[j].id => i = j
    <3>1. \A i, j \in DOMAIN os : os[i].id = os[j].id => i = j
      BY DEF Gathered
    <3> HIDE DEF os, qs, n
    <3> QED
      BY <2>4, <2>5, <2>6, <2>7, <3>1
  <2>11. \A z \in rows \cup {x} : z.id = h.last.id \/ \E i \in DOMAIN qs : qs[i].id = z.id
    <3>1. \A z \in rows : z.id = g.last.id \/ \E i \in DOMAIN os : os[i].id = z.id
      BY DEF Gathered
    <3>2. n + 1 \in DOMAIN qs /\ DOMAIN os \subseteq DOMAIN qs
      <4> HIDE DEF os, qs
      <4> QED
        BY <2>4
    <3> HIDE DEF os, qs, n, h
    <3> QED
      BY <1>2, <2>4, <2>5, <3>1, <3>2
  <2>12. Gathered(h, rows \cup {x})
    <3> HIDE DEF h
    <3> QED
      BY <1>7, <2>3, <2>9, <2>10, <2>11 DEF Gathered, qs
  <2> QED
    BY <2>12
<1> QED
  BY <1>8, <1>9

\* These orders are those of the rows, each once; the order with no id aside.
AreOrdersOf(orders, rows) ==
  /\ \A i, j \in DOMAIN orders : orders[i].id = orders[j].id => i = j
  /\ \A i \in DOMAIN orders : orders[i].id # NoId => Whole(orders[i], rows)
  /\ \A x \in rows : \E i \in DOMAIN orders : orders[i].id = x.id

\* The loop over rows that are listed by their order comes to their orders: row
\* by row it has gathered the rows so far.
LEMMA GroupedAreOrders ==
  ASSUME NEW A, 0 \in A, NEW rows, IsFiniteSet(rows), rows \subseteq RowOf(A),
         \A x \in rows : x.id \in Nat \ {0},
         NEW s, Lists(s, rows)
  PROVE  Grouped(s) \in Seq(ClosedOf(A)) /\ AreOrdersOf(Grouped(s), rows)
<1> DEFINE S == DOMAIN s
           n == Cardinality(rows)
           V == LoopOf(A)
           pick == [I \in SUBSET S |-> Max(I)]
           take == [p \in S \X V |-> GroupRow(p[2], s[p[1]])]
           Folds(F) == F = [I \in SUBSET S |->
                              IF I = {} THEN GroupInit
                              ELSE GroupRow(F[I \ {Max(I)}], s[Max(I)])]
           G == CHOOSE F : Folds(F)
           First(i) == {s[k] : k \in 1..i}
<1>1. S = 1..n /\ n \in Nat /\ IsFiniteSet(S)
  <2>1. S = 1..n /\ n \in Nat
    BY FS_CardinalityType DEF Lists
  <2> HIDE DEF S, n
  <2> QED
    BY <2>1, FS_Interval
<1>2. \A I \in SUBSET S : I # {} => Max(I) \in I
  <2> HIDE DEF S, n
  <2> QED
    BY <1>1, LargestMember
<1>3. \A i \in S : s[i] \in rows /\ s[i] \in RowOf(A)
  BY DEF Lists
<1>4. GroupInit \in V
  <2>1. <<>> \in Seq(ClosedOf(A)) /\ <<>> \in Seq(LineOf(A))
    OBVIOUS
  <2>2. [id |-> NoId, account |-> NoId, total |-> 0] \in HeadOf(A)
    BY DEF HeadOf, NoId
  <2> QED
    BY <2>1, <2>2 DEF GroupInit, LoopOf
<1>5. \A g \in V, i \in S : GroupRow(g, s[i]) \in V
  BY <1>3, GroupRowType
<1>6. FoldLeft(GroupRow, GroupInit, s) = G[S]
  BY DEF FoldLeft, MapThenFoldSet
<1>7. \E F : Folds(F)
  <2>1. PICK F \in [SUBSET S -> V] : IsFold(F, S, GroupInit, pick, take)
    <3>1. \A I \in SUBSET S : I # {} => pick[I] \in I
      BY <1>2
    <3>2. take \in [S \X V -> V]
      BY <1>5
    <3> HIDE DEF S, V, pick, take
    <3> QED
      BY <1>1, <1>4, <3>1, <3>2, FoldExists
  <2>2. ASSUME NEW I \in SUBSET S, I # {}
        PROVE  take[<<pick[I], F[I \ {pick[I]}]>>] = GroupRow(F[I \ {Max(I)}], s[Max(I)])
    <3>1. pick[I] = Max(I) /\ Max(I) \in S /\ F[I \ {Max(I)}] \in V
      BY <1>2, <2>2
    <3> HIDE DEF S, V, pick
    <3> QED
      BY <3>1
  <2>3. Folds(F)
    <3> HIDE DEF S, V, pick, take
    <3> QED
      BY <2>1, <2>2 DEF IsFold
  <2> QED
    BY <2>3
<1>8. Folds(G)
  <2> HIDE DEF Folds
  <2> QED
    BY <1>7
<1>9. /\ G[{}] = GroupInit
      /\ \A I \in SUBSET S : I # {} => G[I] = GroupRow(G[I \ {Max(I)}], s[Max(I)])
  <2> HIDE DEF G, S
  <2> QED
    BY <1>8
<1> HIDE DEF G
<1>10. ASSUME NEW i \in Nat, i + 1 <= n
       PROVE  /\ G[1..(i + 1)] = GroupRow(G[1..i], s[i + 1])
              /\ First(i + 1) = First(i) \cup {s[i + 1]}
              /\ s[i + 1] \in rows /\ s[i + 1] \notin First(i)
              /\ First(i) \subseteq rows
              /\ \A y \in First(i) : y.id <= s[i + 1].id
  <2> DEFINE I == 1..(i + 1)
  <2>1. I \subseteq S /\ i + 1 \in I /\ I \ {i + 1} = 1..i /\ I = 1..i \cup {i + 1}
    <3> HIDE DEF S, n
    <3> QED
      BY <1>1, <1>10
  <2>2. Max(I) = i + 1
    <3>1. \A x \in I : (\A y \in I : x >= y) <=> x = i + 1
      OBVIOUS
    <3> QED
      BY <2>1, <3>1 DEF Max
  <2>3. G[I] = GroupRow(G[1..i], s[i + 1])
    <3> HIDE DEF S
    <3>1. I # {}
      BY <2>1
    <3> HIDE DEF I
    <3> QED
      BY <1>9, <2>1, <2>2, <3>1
  <2>4. First(i + 1) = First(i) \cup {s[i + 1]}
    <3> HIDE DEF I
    <3>1. First(i + 1) = {s[k] : k \in I}
      BY DEF I
    <3> QED
      BY <2>1, <3>1
  <2>5. \A k \in 1..i : k \in S /\ i + 1 \in S /\ k < i + 1
    <3> HIDE DEF S, n
    <3> QED
      BY <2>1
  <2>6. i + 1 \in S
    BY <2>1
  <2>7. s[i + 1] \notin First(i) /\ \A y \in First(i) : y.id <= s[i + 1].id
    BY <2>5 DEF Lists
  <2>8. First(i) \subseteq rows
    <3> HIDE DEF S
    <3> QED
      BY <1>3, <2>5
  <2> QED
    BY <1>3, <2>3, <2>4, <2>6, <2>7, <2>8
<1> DEFINE T == {i \in Nat : i <= n => /\ G[1..i] \in V
                                       /\ i # 0 => Gathered(G[1..i], First(i))}
<1>11. 0 \in T
  <2>1. 1..0 = {}
    OBVIOUS
  <2> HIDE DEF First, V
  <2> QED
    BY <1>4, <1>9, <2>1
<1>12. ASSUME NEW i \in Nat, i \in T
       PROVE  i + 1 \in T
  <2> SUFFICES ASSUME i + 1 <= n
               PROVE  /\ G[1..(i + 1)] \in V
                      /\ Gathered(G[1..(i + 1)], First(i + 1))
    OBVIOUS
  <2> DEFINE g == G[1..i]
             x == s[i + 1]
  <2>1. i <= n
    BY <1>1
  <2>2. g \in V /\ (i # 0 => Gathered(g, First(i)))
    BY <1>12, <2>1
  <2>3. /\ G[1..(i + 1)] = GroupRow(g, x)
        /\ First(i + 1) = First(i) \cup {x}
        /\ x \in rows /\ x \notin First(i) /\ First(i) \subseteq rows
        /\ \A y \in First(i) : y.id <= x.id
    BY <1>10
  <2>4. x \in RowOf(A) /\ x.id \in Nat \ {0} /\ \A y \in First(i) : y.id \in Nat \ {0}
    BY <2>3
  <2>5. IsFiniteSet(First(i))
    BY <2>3, FS_Subset
  <2>6. CASE i = 0
    <3>1. 1..i = {} /\ First(i) = {}
      BY <2>6
    <3>2. g = GroupInit
      BY <1>9, <3>1
    <3>3. First(i) \cup {x} = {x} /\ x.id \in Int
      BY <2>4, <3>1
    <3> HIDE DEF g, x, First
    <3>4. Gathered(GroupRow(g, x), {x}) /\ GroupRow(g, x) \in V
      BY <1>4, <2>4, <3>2, <3>3, FirstRowGathered, GroupRowType
    <3> QED
      BY <2>3, <3>3, <3>4
  <2>7. CASE i # 0
    <3> HIDE DEF g, x, First
    <3>1. Gathered(GroupRow(g, x), First(i) \cup {x})
      BY <2>2, <2>3, <2>4, <2>5, <2>7, NextRowGathered
    <3>2. GroupRow(g, x) \in V
      BY <2>2, <2>4, GroupRowType
    <3> QED
      BY <2>3, <3>1, <3>2
  <2> QED
    BY <2>6, <2>7
<1>13. n \in T
  <2>1. Nat \subseteq T
    <3> HIDE DEF T
    <3> QED
      BY <1>11, <1>12, NaturalsBySteps
  <2> HIDE DEF T
  <2> QED
    BY <1>1, <2>1
<1> DEFINE g  == G[S]
           os == Grouped(s)
<1>14. g \in V /\ (n # 0 => Gathered(g, First(n))) /\ os = Append(g.orders, Closed(g))
  <2>1. g \in V /\ (n # 0 => Gathered(g, First(n)))
    <3> HIDE DEF V, First, n, S
    <3> QED
      BY <1>1, <1>13
  <2>2. os = Append(g.orders, Closed(g))
    BY <1>6 DEF Grouped
  <2> QED
    BY <2>1, <2>2
<1>15. First(n) = rows
  <2>1. First(n) \subseteq rows
    <3> HIDE DEF S, n
    <3> QED
      BY <1>1, <1>3
  <2>2. rows \subseteq First(n)
    <3>1. \A x \in rows : \E k \in S : s[k] = x
      BY DEF Lists
    <3> HIDE DEF S, n
    <3> QED
      BY <1>1, <3>1
  <2> QED
    BY <2>1, <2>2
<1> DEFINE m == Len(g.orders)
<1>16. /\ os \in Seq(ClosedOf(A))
       /\ DOMAIN g.orders = 1..m /\ DOMAIN os = 1..(m + 1) /\ m \in Nat
       /\ \A i \in 1..m : os[i] = g.orders[i]
       /\ os[m + 1] = Closed(g)
  <2> DEFINE ps == g.orders
  <2>1. ps \in Seq(ClosedOf(A)) /\ Closed(g) \in ClosedOf(A)
    <3> HIDE DEF g
    <3> QED
      BY <1>14 DEF LoopOf, Closed, ClosedOf, HeadOf
  <2>2. os = Append(ps, Closed(g))
    BY <1>14
  <2> HIDE DEF ps, os, g
  <2>3. /\ os \in Seq(ClosedOf(A))
        /\ DOMAIN ps = 1..Len(ps) /\ DOMAIN os = 1..(Len(ps) + 1) /\ Len(ps) \in Nat
        /\ \A i \in 1..Len(ps) : os[i] = ps[i]
        /\ os[Len(ps) + 1] = Closed(g)
    BY <2>1, <2>2
  <2> QED
    BY <2>3 DEF ps
<1>17. Closed(g).id = g.last.id
  BY DEF Closed
<1>18. \A i \in DOMAIN os : i \in 1..m \/ i = m + 1
  <2> HIDE DEF os, m
  <2> QED
    BY <1>16
<1>19. CASE n = 0
  <2>1. rows = {}
    BY <1>19, FS_EmptySet
  <2>2. g = GroupInit
    <3>1. 1..0 = {}
      OBVIOUS
    <3>2. S = {}
      <4> HIDE DEF S, n
      <4> QED
        BY <1>1, <1>19, <3>1
    <3> QED
      BY <1>9, <3>2
  <2>3. m = 0 /\ Closed(g).id = NoId
    <3> HIDE DEF g
    <3> QED
      BY <2>2 DEF GroupInit, Closed
  <2>4. DOMAIN os = {1} /\ os[1].id = NoId
    <3> HIDE DEF os, g, m
    <3> QED
      BY <1>16, <2>3
  <2> HIDE DEF os
  <2>5. AreOrdersOf(os, rows)
    BY <2>1, <2>4 DEF AreOrdersOf
  <2> QED
    BY <1>16, <2>5 DEF os
<1>20. CASE n # 0
  <2>1. Gathered(g, rows)
    <3> HIDE DEF g, n, First
    <3> QED
      BY <1>14, <1>15, <1>20
  <2>2. /\ \A i, j \in 1..m : os[i].id = os[j].id => i = j
        /\ \A i \in 1..m : Whole(os[i], rows) /\ os[i].id # g.last.id
        /\ Whole(os[m + 1], rows) /\ os[m + 1].id = g.last.id
        /\ \A x \in rows : x.id = g.last.id \/ \E i \in 1..m : os[i].id = x.id
    <3> HIDE DEF os, g, m
    <3> QED
      BY <1>16, <1>17, <2>1 DEF Gathered
  <2> HIDE DEF os, g, m
  <2>3. \A i, j \in DOMAIN os : os[i].id = os[j].id => i = j
    BY <1>18, <2>2
  <2>4. \A i \in DOMAIN os : Whole(os[i], rows)
    BY <1>18, <2>2
  <2>5. \A x \in rows : \E i \in DOMAIN os : os[i].id = x.id
    <3>1. m + 1 \in DOMAIN os /\ 1..m \subseteq DOMAIN os
      BY <1>16
    <3> QED
      BY <2>2, <3>1
  <2>6. AreOrdersOf(os, rows)
    BY <2>3, <2>4, <2>5 DEF AreOrdersOf
  <2> QED
    BY <1>16, <2>6 DEF os
<1> QED
  BY <1>19, <1>20

-----------------------------------------------------------------------------
(* The inductive invariant *)

Shape ==
  /\ key \in [Calls -> Keys \cup {NoKey}]
  /\ DOMAIN req = Calls /\ DOMAIN ledger = Keys /\ DOMAIN answer = Calls
  /\ status \in [Calls -> {"idle", "pending", "ok", "failed"}]
  /\ stage \in [Readers -> {"idle", "query", "decorate", "ok", "failed"}]
  /\ account \in [Readers -> Accounts]
  /\ DOMAIN found = Readers /\ DOMAIN reply = Readers /\ DOMAIN known = Readers

\* A call has a key, and brings a list of products.
CallsBringLists ==
  \A c \in Calls : status[c] # "idle" =>
    key[c] \in Keys /\ IsFiniteSet(DOMAIN req[c].products)

\* An order in the ledger is that of the call it is named for, with its lines.
OrdersAreOfCalls ==
  \A k \in Keys : ledger[k] # NoOrder =>
    /\ ledger[k].id \in Calls
    /\ status[ledger[k].id] # "idle"
    /\ key[ledger[k].id] = k
    /\ ledger[k] = HeaderOf(Row(ledger[k].id, k, req[ledger[k].id]))
    /\ Lines(ledger[k].id, req[ledger[k].id]) \subseteq lines

\* There are finitely many lines, each of the call whose order it is of.
LinesAreOfCalls ==
  /\ IsFiniteSet(lines)
  /\ \A l \in lines :
       l.order \in Calls /\ status[l.order] # "idle" /\ l \in Lines(l.order, req[l.order])

\* A call that succeeded was answered with an order of the ledger.
AnswersArePlaced == \A c \in Calls : status[c] = "ok" => answer[c] \in Orders

PlacedIds == {o.id : o \in Orders}

\* What is known was told of a placed order.
KnownArePlaced == \A r \in Readers : known[r] \subseteq PlacedIds

\* A reader has a reply until it reads again.
RepliesAreKept == \A r \in Readers : reply[r] # NoReply => stage[r] = "ok"

\* The orders that reader r holds.
InHand(r) ==
  CASE stage[r] = "decorate" -> {found[r]}
    [] stage[r] = "ok"       -> {reply[r]}
    [] OTHER                 -> {}

\* The values of a history.
IsHistory(os) ==
  \A i \in DOMAIN os :
    /\ os[i] = [id |-> os[i].id, account |-> os[i].account, total |-> os[i].total,
                products |-> os[i].products]
    /\ Len(os[i].products) \in Nat
    /\ DOMAIN os[i].products = 1..Len(os[i].products)

\* The orders of a history are orders of the account, each once and whole.
Exact(os, a) ==
  /\ \A i, j \in DOMAIN os : os[i].id = os[j].id /\ os[i].id # NoId => i = j
  /\ \A i \in DOMAIN os : os[i].id # NoId =>
       /\ [id |-> os[i].id, account |-> os[i].account, total |-> os[i].total] \in Orders
       /\ os[i].account = a
       /\ {Shown(os[i].products[j], os[i].id) : j \in DOMAIN os[i].products} = LinesOf(os[i].id)
       /\ Len(os[i].products) = Cardinality(LinesOf(os[i].id))

\* None of these orders of the account that has lines is missing.
Complete(os, a, ids) ==
  \A o \in Orders :
    o.id \in ids /\ o.account = a /\ LinesOf(o.id) # {} =>
      \E i \in DOMAIN os : os[i].id = o.id

\* What a reader holds is exact, and complete for what was known.
HistoriesHold ==
  \A r \in Readers : \A os \in InHand(r), a \in {account[r]}, ids \in {known[r]} :
    IsHistory(os) /\ Exact(os, a) /\ Complete(os, a, ids)

LedgerInv == CallsBringLists /\ OrdersAreOfCalls /\ LinesAreOfCalls /\ AnswersArePlaced

\* The inductive invariant.
Inv == Shape /\ LedgerInv /\ KnownArePlaced /\ RepliesAreKept /\ HistoriesHold

-----------------------------------------------------------------------------
(* What a read finds *)

\* An order is a header, and is known by its id.
LEMMA OrdersHaveIds ==
  ASSUME OrdersAreOfCalls
  PROVE  /\ \A o \in Orders : /\ o = [id |-> o.id, account |-> o.account, total |-> o.total]
                              /\ o.id \in Nat \ {0}
         /\ \A o, p \in Orders : o.id = p.id => o = p
<1>1. ASSUME NEW o \in Orders
      PROVE  \E k \in Keys : /\ o = ledger[k] /\ o.id \in Calls /\ key[o.id] = k
                             /\ o = HeaderOf(Row(o.id, k, req[o.id]))
  BY DEF Orders, OrdersAreOfCalls
<1>2. \A o \in Orders : o.id \in Nat \ {0}
  BY <1>1, OrderHistoryAssumption DEF Ids
<1>3. ASSUME NEW o \in Orders
      PROVE  o = [id |-> o.id, account |-> o.account, total |-> o.total]
  <2>1. PICK k \in Keys : o = HeaderOf(Row(o.id, k, req[o.id]))
    BY <1>1
  <2> QED
    BY <2>1 DEF HeaderOf
<1>4. \A o, p \in Orders : o.id = p.id => o = p
  BY <1>1
<1> QED
  BY <1>2, <1>3, <1>4

\* A line of the ledger is its order, its product and its quantity.
LineAt(x) == [order |-> x.id, product |-> x.product, quantity |-> x.quantity]

LEMMA LinesAreRecords ==
  ASSUME LinesAreOfCalls, NEW l \in lines
  PROVE  l = [order |-> l.order, product |-> l.product, quantity |-> l.quantity]
<1>1. l \in Lines(l.order, req[l.order])
  BY DEF LinesAreOfCalls
<1> QED
  BY <1>1 DEF Lines

\* The rows of an account are those of its orders; each is of one line.
LEMMA RowsAreLines ==
  ASSUME LedgerInv, NEW a
  PROVE  /\ \A x \in RowsFor(a) : \E o \in Orders :
              /\ o.id = x.id /\ o.account = x.account /\ o.total = x.total /\ o.account = a
         /\ \A x \in RowsFor(a) :
              x = [id |-> x.id, account |-> x.account, total |-> x.total,
                   product |-> x.product, quantity |-> x.quantity]
         /\ \A x \in RowsFor(a) : LineAt(x) \in lines
         /\ \A x, y \in RowsFor(a) : LineAt(x) = LineAt(y) => x = y
         /\ \A o \in Orders : o.account = a =>
              {LineAt(x) : x \in RowsWith(o.id, RowsFor(a))} = LinesOf(o.id)
         /\ IsFiniteSet(RowsFor(a))
<1> DEFINE rows == RowsFor(a)
           row(o, l) == [id |-> o.id, account |-> o.account, total |-> o.total,
                         product |-> l.product, quantity |-> l.quantity]
<1>1. \A x : x \in rows <=> \E o \in Orders : \E l \in lines :
                              o.account = a /\ l.order = o.id /\ x = row(o, l)
  <2>1. \A x : x \in rows <=> \E o \in Orders : o.account = a /\ x \in RowsOf(o)
    BY DEF RowsFor
  <2>2. \A x, o : x \in RowsOf(o) <=> \E l \in lines : l.order = o.id /\ x = row(o, l)
    BY DEF RowsOf
  <2> HIDE DEF rows, row
  <2> QED
    BY <2>1, <2>2
<1> HIDE DEF rows
<1>2. \A x \in rows : \E o \in Orders :
        o.id = x.id /\ o.account = x.account /\ o.total = x.total /\ o.account = a
  BY <1>1
<1>3. \A x \in rows : x = [id |-> x.id, account |-> x.account, total |-> x.total,
                           product |-> x.product, quantity |-> x.quantity]
  BY <1>1
<1>4. \A x \in rows : LineAt(x) \in lines
  <2> SUFFICES ASSUME NEW x \in rows
               PROVE  LineAt(x) \in lines
    OBVIOUS
  <2>1. PICK o \in Orders, l \in lines : l.order = o.id /\ x = row(o, l)
    BY <1>1
  <2>2. LineAt(x) = [order |-> l.order, product |-> l.product, quantity |-> l.quantity]
    BY <2>1 DEF LineAt
  <2> QED
    BY <2>2, LinesAreRecords DEF LedgerInv
<1>5. \A x, y \in rows : LineAt(x) = LineAt(y) => x = y
  <2> SUFFICES ASSUME NEW x \in rows, NEW y \in rows, LineAt(x) = LineAt(y)
               PROVE  x = y
    OBVIOUS
  <2>1. x.id = y.id /\ x.product = y.product /\ x.quantity = y.quantity
    BY DEF LineAt
  <2>2. PICK o \in Orders : o.id = x.id /\ o.account = x.account /\ o.total = x.total
    BY <1>2
  <2>3. PICK p \in Orders : p.id = y.id /\ p.account = y.account /\ p.total = y.total
    BY <1>2
  <2>4. o = p
    BY <2>1, <2>2, <2>3, OrdersHaveIds DEF LedgerInv
  <2> QED
    BY <1>3, <2>1, <2>2, <2>3, <2>4
<1>6. ASSUME NEW o \in Orders, o.account = a
      PROVE  {LineAt(x) : x \in RowsWith(o.id, rows)} = LinesOf(o.id)
  <2>1. ASSUME NEW x \in RowsWith(o.id, rows)
        PROVE  LineAt(x) \in LinesOf(o.id)
    <3>1. LineAt(x) \in lines /\ LineAt(x).order = o.id
      BY <1>4 DEF RowsWith, LineAt
    <3> QED
      BY <3>1 DEF LinesOf
  <2>2. ASSUME NEW l \in LinesOf(o.id)
        PROVE  \E x \in RowsWith(o.id, rows) : LineAt(x) = l
    <3>1. l \in lines /\ l.order = o.id
      BY DEF LinesOf
    <3>2. row(o, l) \in rows
      BY <1>1, <1>6, <3>1
    <3>3. LineAt(row(o, l)) = l
      <4>1. l = [order |-> l.order, product |-> l.product, quantity |-> l.quantity]
        BY <3>1, LinesAreRecords DEF LedgerInv
      <4> QED
        BY <3>1, <4>1 DEF LineAt
    <3> QED
      BY <3>2, <3>3 DEF RowsWith
  <2> QED
    BY <2>1, <2>2
<1>7. IsFiniteSet(rows)
  <2> DEFINE h == [x \in rows |-> LineAt(x)]
  <2>1. h \in Injection(rows, lines)
    BY <1>4, <1>5 DEF Injection, IsInjective
  <2>2. IsFiniteSet(lines)
    BY DEF LedgerInv, LinesAreOfCalls
  <2> HIDE DEF h
  <2> QED
    BY <2>1, <2>2, FS_Injection
<1> QED
  BY <1>2, <1>3, <1>4, <1>5, <1>6, <1>7 DEF rows

\* Whatever order the rows of an account come in, its orders are found, each once
\* and whole.
LEMMA QueryIsExact ==
  ASSUME LedgerInv, NEW a, NEW s \in Results(a)
  PROVE  LET os == Grouped(s)
         IN  IsHistory(os) /\ Exact(os, a) /\ \A ids : Complete(os, a, ids)
<1> DEFINE rows == RowsFor(a)
           os == Grouped(s)
           A  == {0} \cup UNION {{x.id, x.account, x.total, x.product, x.quantity} : x \in rows}
<1>1. /\ \A x \in rows : \E o \in Orders :
           /\ o.id = x.id /\ o.account = x.account /\ o.total = x.total /\ o.account = a
      /\ \A x \in rows : x = [id |-> x.id, account |-> x.account, total |-> x.total,
                              product |-> x.product, quantity |-> x.quantity]
      /\ \A x \in rows : LineAt(x) \in lines
      /\ \A x, y \in rows : LineAt(x) = LineAt(y) => x = y
      /\ \A o \in Orders : o.account = a =>
           {LineAt(x) : x \in RowsWith(o.id, rows)} = LinesOf(o.id)
      /\ IsFiniteSet(rows)
  BY RowsAreLines
<1>2. /\ \A o \in Orders : /\ o = [id |-> o.id, account |-> o.account, total |-> o.total]
                           /\ o.id \in Nat \ {0}
      /\ \A o, p \in Orders : o.id = p.id => o = p
  BY OrdersHaveIds DEF LedgerInv
<1>3. \A x \in rows : x.id \in Nat \ {0}
  <2> HIDE DEF rows
  <2> QED
    BY <1>1, <1>2
<1>4. Lists(s, rows)
  <2>1. \A x \in rows : x.id \in Nat
    BY <1>3
  <2> QED
    BY <1>1, <2>1, ResultsAreLists
<1>5. rows \subseteq RowOf(A) /\ 0 \in A
  <2> HIDE DEF rows
  <2>1. \A x \in rows : {x.id, x.account, x.total, x.product, x.quantity} \subseteq A
    OBVIOUS
  <2> HIDE DEF A
  <2>2. \A x \in rows : /\ x.id \in A /\ x.account \in A /\ x.total \in A
                        /\ x.product \in A /\ x.quantity \in A
    BY <2>1
  <2>3. rows \subseteq RowOf(A)
    BY <1>1, <2>2 DEF RowOf
  <2>4. 0 \in A
    BY DEF A
  <2> QED
    BY <2>3, <2>4
<1> HIDE DEF rows, A, os
<1>6. os \in Seq(ClosedOf(A)) /\ AreOrdersOf(os, rows)
  BY <1>1, <1>3, <1>4, <1>5, GroupedAreOrders DEF os
<1>7. \A i \in DOMAIN os : os[i] \in ClosedOf(A)
  BY <1>6
<1>8. IsHistory(os)
  BY <1>7 DEF IsHistory, ClosedOf
<1>9. ASSUME NEW i \in DOMAIN os, os[i].id # NoId
      PROVE  /\ [id |-> os[i].id, account |-> os[i].account, total |-> os[i].total] \in Orders
             /\ os[i].account = a
             /\ {Shown(os[i].products[j], os[i].id) : j \in DOMAIN os[i].products}
                  = LinesOf(os[i].id)
             /\ Len(os[i].products) = Cardinality(LinesOf(os[i].id))
  <2> DEFINE o == os[i]
             ps == o.products
             mine == RowsWith(o.id, rows)
  <2>1. Whole(o, rows)
    BY <1>6, <1>9 DEF AreOrdersOf
  <2>2. PICK p \in Orders : /\ p.id = o.id /\ p.account = o.account /\ p.total = o.total
                            /\ p.account = a
    BY <1>1, <2>1 DEF Whole
  <2>3. [id |-> o.id, account |-> o.account, total |-> o.total] = p
    BY <1>2, <2>2
  <2>4. {LineAt(x) : x \in mine} = LinesOf(o.id)
    BY <1>1, <2>2
  <2>5. {Shown(ps[j], o.id) : j \in DOMAIN ps} = {LineAt(x) : x \in mine}
    <3>1. {ps[j] : j \in DOMAIN ps} = {LineIn(x) : x \in mine}
      BY <2>1 DEF Whole
    <3>2. \A x \in mine : Shown(LineIn(x), o.id) = LineAt(x)
      BY DEF Shown, LineIn, LineAt, RowsWith
    <3> HIDE DEF ps, mine, o
    <3>3. \A j \in DOMAIN ps : \E x \in mine : ps[j] = LineIn(x)
      BY <3>1
    <3>4. \A x \in mine : \E j \in DOMAIN ps : ps[j] = LineIn(x)
      BY <3>1
    <3> QED
      BY <3>2, <3>3, <3>4
  <2>6. Cardinality(mine) = Cardinality(LinesOf(o.id))
    <3> DEFINE T == LinesOf(o.id)
               h == [x \in mine |-> LineAt(x)]
    <3>1. mine \subseteq rows
      BY DEF RowsWith
    <3>2. IsFiniteSet(mine)
      BY <1>1, <3>1, FS_Subset
    <3>3. h \in Surjection(mine, T) /\ h \in Injection(mine, T)
      <4> HIDE DEF mine, T, o
      <4>1. h \in [mine -> T] /\ \A l \in T : \E x \in mine : h[x] = l
        BY <2>4 DEF T
      <4>2. \A x, y \in mine : h[x] = h[y] => x = y
        BY <1>1, <3>1
      <4> HIDE DEF h
      <4> QED
        BY <4>1, <4>2 DEF Surjection, Injection, IsInjective
    <3> HIDE DEF h, mine, T
    <3>4. Cardinality(T) = Cardinality(mine)
      BY <3>2, <3>3, FS_Surjection
    <3> QED
      BY <3>4 DEF T
  <2>7. Len(ps) = Cardinality(mine)
    BY <2>1 DEF Whole
  <2> QED
    BY <2>2, <2>3, <2>4, <2>5, <2>6, <2>7
<1>10. Exact(os, a)
  <2>1. \A i, j \in DOMAIN os : os[i].id = os[j].id => i = j
    BY <1>6 DEF AreOrdersOf
  <2> QED
    BY <1>9, <2>1 DEF Exact
<1>11. ASSUME NEW o \in Orders, o.account = a, LinesOf(o.id) # {}
       PROVE  \E i \in DOMAIN os : os[i].id = o.id
  <2>1. PICK x \in RowsWith(o.id, rows) : TRUE
    BY <1>1, <1>11
  <2>2. x \in rows /\ x.id = o.id
    BY DEF RowsWith
  <2> QED
    BY <1>6, <2>2 DEF AreOrdersOf
<1>12. \A ids : Complete(os, a, ids)
  BY <1>11 DEF Complete
<1> QED
  BY <1>8, <1>10, <1>12 DEF os

\* The prices added to the lines leave a history exact and complete.
LEMMA DecoratedIsExact ==
  ASSUME NEW os, NEW docs, NEW a, NEW ids,
         IsHistory(os), Exact(os, a), Complete(os, a, ids)
  PROVE  LET ds == Decorated(os, docs)
         IN  IsHistory(ds) /\ Exact(ds, a) /\ Complete(ds, a, ids)
<1> DEFINE ds == Decorated(os, docs)
           priced(i) == [j \in DOMAIN os[i].products |-> Priced(os[i].products[j], docs)]
<1>1. DOMAIN ds = DOMAIN os
  BY DEF Decorated
<1>2. ASSUME NEW i \in DOMAIN os
      PROVE  ds[i] = [id |-> os[i].id, account |-> os[i].account, total |-> os[i].total,
                      products |-> priced(i)]
  <2>1. ds[i] = [os[i] EXCEPT !.products = priced(i)]
    BY <1>2 DEF Decorated
  <2>2. os[i] = [id |-> os[i].id, account |-> os[i].account, total |-> os[i].total,
                 products |-> os[i].products]
    BY <1>2 DEF IsHistory
  <2> HIDE DEF priced, ds
  <2> QED
    BY <2>1, <2>2
<1> HIDE DEF ds
<1>3. ASSUME NEW i \in DOMAIN os
      PROVE  /\ ds[i].id = os[i].id /\ ds[i].account = os[i].account
             /\ ds[i].total = os[i].total /\ ds[i].products = priced(i)
  <2> DEFINE d == ds[i]
  <2>1. d = [id |-> os[i].id, account |-> os[i].account, total |-> os[i].total,
             products |-> priced(i)]
    BY <1>2, <1>3
  <2> HIDE DEF priced, d
  <2>2. /\ d.id = os[i].id /\ d.account = os[i].account
        /\ d.total = os[i].total /\ d.products = priced(i)
    BY <2>1
  <2> QED
    BY <2>2 DEF d
<1>4. ASSUME NEW i \in DOMAIN os
      PROVE  /\ DOMAIN priced(i) = DOMAIN os[i].products
             /\ Len(priced(i)) = Len(os[i].products)
             /\ \A j \in DOMAIN os[i].products :
                  Shown(priced(i)[j], os[i].id) = Shown(os[i].products[j], os[i].id)
  <2> DEFINE ps == os[i].products
             n  == Len(ps)
  <2>1. n \in Nat /\ DOMAIN ps = 1..n
    BY DEF IsHistory
  <2>2. Len(priced(i)) = n
    <3> HIDE DEF n
    <3> QED
      BY <2>1
  <2>3. \A j \in DOMAIN ps : Shown(priced(i)[j], os[i].id) = Shown(ps[j], os[i].id)
    BY DEF Shown, Priced
  <2> QED
    BY <2>2, <2>3
<1> HIDE DEF priced
<1>5. IsHistory(ds)
  <2>1. ASSUME NEW i \in DOMAIN os
        PROVE  /\ Len(os[i].products) \in Nat
               /\ DOMAIN os[i].products = 1..Len(os[i].products)
    BY DEF IsHistory
  <2> QED
    BY <1>1, <1>2, <1>3, <1>4, <2>1 DEF IsHistory
<1>6. Exact(ds, a)
  <2>1. ASSUME NEW i \in DOMAIN os
        PROVE  /\ {Shown(ds[i].products[j], ds[i].id) : j \in DOMAIN ds[i].products}
                    = {Shown(os[i].products[j], os[i].id) : j \in DOMAIN os[i].products}
               /\ Len(ds[i].products) = Len(os[i].products)
    BY <1>3, <1>4
  <2> QED
    BY <1>1, <1>3, <2>1 DEF Exact
<1>7. Complete(ds, a, ids)
  BY <1>1, <1>3 DEF Complete
<1> QED
  BY <1>5, <1>6, <1>7 DEF ds

-----------------------------------------------------------------------------
(* The orders and their lines, step by step *)

\* A request of the order service brings finitely many products.
LEMMA AssembledIsList ==
  ASSUME NEW a, NEW basket \in Seq(OrderLine), NEW stock
  PROVE  IsFiniteSet(DOMAIN Assembled(a, basket, stock).products)
<1> DEFINE ids  == [i \in DOMAIN basket |-> basket[i].id]
           docs == MultiGet(stock, ids)
           all  == [i \in DOMAIN docs |->
                      [id |-> docs[i], quantity |-> QuantityOf(basket, docs[i])]]
           Fit  == [id : Products, quantity : Nat \ {0}]
           Rest(t, W) == {t[i] : i \in DOMAIN t} \cap W
<1>1. \A t, W : Kept(t, W) = Wanted(t, W)
  BY DEF Kept, Wanted
<1>2. \A t, X, W : t \in Seq(X) => Kept(t, W) \in Seq(Rest(t, W))
  BY <1>1, WantedMembers
<1>3. ids \in Seq({ids[i] : i \in DOMAIN ids})
  OBVIOUS
<1>4. docs \in Seq(Rest(ids, DOMAIN stock))
  <2> HIDE DEF ids, Rest
  <2> QED
    BY <1>2, <1>3 DEF MultiGet
<1>5. all \in Seq({all[i] : i \in DOMAIN all})
  <2>1. \E n \in Nat : DOMAIN docs = 1..n
    <3> HIDE DEF docs, Rest
    <3> QED
      BY <1>4
  <2>2. DOMAIN all = DOMAIN docs /\ all = [i \in DOMAIN docs |-> all[i]]
    OBVIOUS
  <2> HIDE DEF all, docs
  <2> QED
    BY <2>1, <2>2
<1>6. Kept(all, Fit) \in Seq(Rest(all, Fit))
  <2> HIDE DEF all, Fit, Rest
  <2> QED
    BY <1>2, <1>5
<1>7. Assembled(a, basket, stock).products = Kept(all, Fit)
  BY DEF Assembled, Matched
<1>8. \E n \in Nat : DOMAIN Kept(all, Fit) = 1..n
  <2> HIDE DEF all, Fit, Rest
  <2> QED
    BY <1>6
<1> QED
  <2> HIDE DEF all, Fit
  <2>1. PICK n \in Nat : DOMAIN Kept(all, Fit) = 1..n
    BY <1>8
  <2> QED
    BY <1>7, <2>1, FS_Interval

\* Orders are added to those there are, and an order that is there keeps its lines.
OrdersGrow ==
  /\ Orders \subseteq Orders'
  /\ \A o \in Orders : LinesOf(o.id)' = LinesOf(o.id)
  /\ \A o \in Orders' : o.id \in PlacedIds => o \in Orders

\* Steps that place nothing.
LEMMA NothingPlaced ==
  ASSUME UNCHANGED <<ledger, lines>>
  PROVE  OrdersGrow
BY DEF OrdersGrow, Orders, LinesOf, PlacedIds

\* A call is made.
LEMMA CallKeepsLedger ==
  ASSUME Inv, NEW c \in Calls, PostOrder(c)
  PROVE  LedgerInv' /\ OrdersGrow
<1> USE DEF Inv, LedgerInv, Shape
<1>1. PICK k \in Keys, cart \in Carts :
        Ledger!Call(c, k, Assembled(cart.account, cart.basket, catalog))
  BY DEF PostOrder
<1> DEFINE r == Assembled(cart.account, cart.basket, catalog)
<1>2. IsFiniteSet(DOMAIN r.products)
  <2>1. cart.basket \in Seq(OrderLine)
    BY OrderHistoryAssumption
  <2> QED
    BY <2>1, AssembledIsList
<1> HIDE DEF r
<1>3. /\ status[c] = "idle"
      /\ key' = [key EXCEPT ![c] = k]
      /\ req' = [req EXCEPT ![c] = r]
      /\ status' = [status EXCEPT ![c] = "pending"]
      /\ UNCHANGED <<ledger, lines, answer>>
  BY <1>1 DEF Ledger!Call, r
<1>4. \A d \in Calls : d # c => key'[d] = key[d] /\ req'[d] = req[d] /\ status'[d] = status[d]
  BY <1>3
<1>5. CallsBringLists'
  BY <1>2, <1>3, <1>4 DEF CallsBringLists
<1>6. OrdersAreOfCalls'
  <2>1. ASSUME NEW j \in Keys, ledger'[j] # NoOrder
        PROVE  LET d == ledger[j].id
               IN  /\ d \in Calls /\ status'[d] # "idle" /\ key'[d] = j
                   /\ ledger[j] = HeaderOf(Row(d, j, req'[d]))
                   /\ Lines(d, req'[d]) \subseteq lines
    BY <1>3, <1>4, <2>1 DEF OrdersAreOfCalls
  <2>2. \A d, j : HeaderOf(Row(d, j, req[d]))' = HeaderOf(Row(d, j, req'[d]))
    BY DEF HeaderOf, Row
  <2>3. \A d : Lines(d, req[d])' = Lines(d, req'[d])
    BY DEF Lines
  <2> QED
    BY <1>3, <2>1, <2>2, <2>3 DEF OrdersAreOfCalls
<1>7. LinesAreOfCalls'
  <2>1. \A l \in lines : /\ l.order \in Calls /\ status'[l.order] # "idle"
                         /\ l \in Lines(l.order, req'[l.order])
    BY <1>3, <1>4 DEF LinesAreOfCalls
  <2>2. \A d : Lines(d, req[d])' = Lines(d, req'[d])
    BY DEF Lines
  <2> QED
    BY <1>3, <2>1, <2>2 DEF LinesAreOfCalls
<1>8. AnswersArePlaced'
  BY <1>3, <1>4 DEF AnswersArePlaced, Orders
<1> QED
  BY <1>3, <1>5, <1>6, <1>7, <1>8, NothingPlaced

\* An order is placed.
LEMMA PlaceKeepsLedger ==
  ASSUME Inv, NEW c \in Calls, Ledger!Place(c)
  PROVE  LedgerInv' /\ OrdersGrow
<1> USE DEF Inv, LedgerInv, Shape
<1> DEFINE h == HeaderOf(Row(c, key[c], req[c]))
           new == Lines(c, req[c])
<1>1. /\ status[c] # "idle"
      /\ ledger[key[c]] = NoOrder
      /\ ledger' = [ledger EXCEPT ![key[c]] = h]
      /\ lines' = lines \cup new
      /\ UNCHANGED <<key, req, status, answer>>
  BY DEF Ledger!Place, Ledger!HeaderOf, Ledger!Row, Ledger!Money, Ledger!Lines,
         HeaderOf, Row, Money, Lines
<1>2. key[c] \in Keys /\ IsFiniteSet(DOMAIN req[c].products)
  BY <1>1 DEF CallsBringLists
<1>3. h.id = c
  BY DEF HeaderOf, Row
<1>4. \A l \in new : l.order = c
  BY DEF Lines
<1>5. IsFiniteSet(new)
  <2> DEFINE ps == req[c].products
             D  == DOMAIN ps
             g  == [i \in D |-> [order |-> c, product |-> ps[i].id, quantity |-> ps[i].quantity]]
  <2>1. g \in Surjection(D, new)
    BY DEF Surjection, Lines
  <2> HIDE DEF g, new
  <2> QED
    BY <1>2, <2>1, FS_Surjection
<1>6. IsFiniteSet(lines')
  <2> HIDE DEF new
  <2> QED
    BY <1>1, <1>5, FS_Union DEF LinesAreOfCalls
<1> HIDE DEF h, new
<1>7. \A k \in Keys : ledger'[k] = IF k = key[c] THEN h ELSE ledger[k]
  BY <1>1, <1>2
<1>8. CallsBringLists'
  BY <1>1 DEF CallsBringLists
<1>9. OrdersAreOfCalls'
  <2>1. ASSUME NEW k \in Keys, ledger'[k] # NoOrder
        PROVE  LET d == ledger'[k].id
               IN  /\ d \in Calls /\ status[d] # "idle" /\ key[d] = k
                   /\ ledger'[k] = HeaderOf(Row(d, k, req[d]))
                   /\ Lines(d, req[d]) \subseteq lines'
    <3>1. CASE k = key[c]
      BY <1>1, <1>3, <1>7, <3>1 DEF h, new
    <3>2. CASE k # key[c]
      BY <1>1, <1>7, <2>1, <3>2 DEF OrdersAreOfCalls
    <3> QED
      BY <3>1, <3>2
  <2>2. \A d, k : HeaderOf(Row(d, k, req[d]))' = HeaderOf(Row(d, k, req[d]))
    BY <1>1 DEF HeaderOf, Row
  <2>3. \A d : Lines(d, req[d])' = Lines(d, req[d])
    BY <1>1 DEF Lines
  <2> QED
    BY <1>1, <2>1, <2>2, <2>3 DEF OrdersAreOfCalls
<1>10. LinesAreOfCalls'
  <2>1. \A l \in lines' : /\ l.order \in Calls /\ status[l.order] # "idle"
                          /\ l \in Lines(l.order, req[l.order])
    BY <1>1, <1>4 DEF LinesAreOfCalls, new
  <2>2. \A d : Lines(d, req[d])' = Lines(d, req[d])
    BY <1>1 DEF Lines
  <2> QED
    BY <1>1, <1>6, <2>1, <2>2 DEF LinesAreOfCalls
<1>11. Orders \subseteq Orders' /\ Orders' \subseteq Orders \cup {h}
  BY <1>1, <1>2, <1>7 DEF Orders
<1>12. AnswersArePlaced'
  BY <1>1, <1>11 DEF AnswersArePlaced
<1>13. c \notin PlacedIds
  BY <1>1 DEF PlacedIds, Orders, OrdersAreOfCalls
<1>14. \A o \in Orders : LinesOf(o.id)' = LinesOf(o.id)
  <2>1. \A o \in Orders : o.id # c
    BY <1>13 DEF PlacedIds
  <2> QED
    BY <1>1, <1>4, <2>1 DEF LinesOf
<1>15. \A o \in Orders' : o.id \in PlacedIds => o \in Orders
  BY <1>3, <1>11, <1>13
<1> QED
  BY <1>8, <1>9, <1>10, <1>11, <1>12, <1>14, <1>15 DEF OrdersGrow

\* A call returns.
LEMMA ReturnKeepsLedger ==
  ASSUME Inv, NEW c \in Calls, Ledger!Answer(c) \/ Ledger!Fail(c)
  PROVE  LedgerInv' /\ OrdersGrow
<1> USE DEF Inv, LedgerInv, Shape
<1>1. status[c] = "pending" /\ UNCHANGED <<key, req, ledger, lines>>
  BY DEF Ledger!Answer, Ledger!Fail
<1>2. /\ \A d \in Calls : status'[d] # "idle" <=> status[d] # "idle"
      /\ \A d \in Calls : status'[d] = "ok" =>
           \/ status[d] = "ok" /\ answer'[d] = answer[d]
           \/ d = c /\ ledger[key[c]] # NoOrder /\ answer'[d] = ledger[key[c]]
  BY DEF Ledger!Answer, Ledger!Fail
<1>3. key[c] \in Keys
  BY <1>1 DEF CallsBringLists
<1>4. CallsBringLists' /\ OrdersAreOfCalls' /\ LinesAreOfCalls'
  BY <1>1, <1>2 DEF CallsBringLists, OrdersAreOfCalls, LinesAreOfCalls
<1>5. AnswersArePlaced'
  BY <1>1, <1>2, <1>3 DEF AnswersArePlaced, Orders
<1> QED
  BY <1>1, <1>4, <1>5, NothingPlaced

\* Every other step.
LEMMA OthersKeepLedger ==
  ASSUME Inv, UNCHANGED ledgerVars
  PROVE  LedgerInv' /\ OrdersGrow
<1> USE DEF Inv, LedgerInv, ledgerVars
<1>1. CallsBringLists' /\ OrdersAreOfCalls' /\ LinesAreOfCalls'
  BY DEF CallsBringLists, OrdersAreOfCalls, LinesAreOfCalls
<1>2. AnswersArePlaced'
  BY DEF AnswersArePlaced, Orders
<1> QED
  BY <1>1, <1>2, NothingPlaced

-----------------------------------------------------------------------------
(* The reads, step by step *)

\* What was exact and complete for what was known remains so.
LEMMA HistoryStands ==
  ASSUME OrdersGrow, NEW os, NEW a, NEW ids, ids \subseteq PlacedIds,
         Exact(os, a), Complete(os, a, ids)
  PROVE  Exact(os, a)' /\ Complete(os, a, ids)'
<1>1. /\ Orders \subseteq Orders'
      /\ \A o \in Orders : LinesOf(o.id)' = LinesOf(o.id)
      /\ \A o \in Orders' : o.id \in PlacedIds => o \in Orders
  BY DEF OrdersGrow
<1>2. Exact(os, a)'
  <2>1. ASSUME NEW i \in DOMAIN os, os[i].id # NoId
        PROVE  /\ [id |-> os[i].id, account |-> os[i].account, total |-> os[i].total] \in Orders'
               /\ os[i].account = a
               /\ {Shown(os[i].products[j], os[i].id) : j \in DOMAIN os[i].products}
                    = LinesOf(os[i].id)'
               /\ Len(os[i].products) = Cardinality(LinesOf(os[i].id)')
    <3> DEFINE o == [id |-> os[i].id, account |-> os[i].account, total |-> os[i].total]
    <3>1. /\ o \in Orders /\ os[i].account = a
          /\ {Shown(os[i].products[j], os[i].id) : j \in DOMAIN os[i].products}
               = LinesOf(os[i].id)
          /\ Len(os[i].products) = Cardinality(LinesOf(os[i].id))
      BY <2>1 DEF Exact
    <3>2. o.id = os[i].id
      OBVIOUS
    <3>3. LinesOf(os[i].id)' = LinesOf(os[i].id)
      <4> HIDE DEF o
      <4>1. LinesOf(o.id)' = LinesOf(o.id)
        BY <1>1, <3>1
      <4> QED
        BY <3>2, <4>1 DEF LinesOf
    <3> QED
      BY <1>1, <3>1, <3>3
  <2>2. \A i, j \in DOMAIN os : os[i].id = os[j].id /\ os[i].id # NoId => i = j
    BY DEF Exact
  <2>3. \A i \in DOMAIN os : LinesOf(os[i].id)' = {l \in lines' : l.order = os[i].id}
    BY DEF LinesOf
  <2> QED
    BY <2>1, <2>2, <2>3 DEF Exact
<1>3. Complete(os, a, ids)'
  <2>1. ASSUME NEW o \in Orders', o.id \in ids, o.account = a, {l \in lines' : l.order = o.id} # {}
        PROVE  \E i \in DOMAIN os : os[i].id = o.id
    <3>1. o \in Orders
      BY <1>1, <2>1
    <3>2. {l \in lines' : l.order = o.id} = {l \in lines : l.order = o.id}
      BY <1>1, <3>1 DEF LinesOf
    <3> QED
      BY <2>1, <3>1, <3>2 DEF Complete, LinesOf
  <2> QED
    BY <2>1 DEF Complete, LinesOf
<1> QED
  BY <1>2, <1>3

\* A reader that does nothing keeps what it holds.
LEMMA ReaderStands ==
  ASSUME Inv, OrdersGrow, NEW q \in Readers,
         stage'[q] = stage[q], found'[q] = found[q], reply'[q] = reply[q],
         account'[q] = account[q], known'[q] = known[q]
  PROVE  /\ \A os \in InHand(q)', a \in {account'[q]}, ids \in {known'[q]} :
              IsHistory(os) /\ Exact(os, a)' /\ Complete(os, a, ids)'
         /\ known'[q] \subseteq PlacedIds'
         /\ reply'[q] # NoReply => stage'[q] = "ok"
<1> USE DEF Inv
<1>1. InHand(q)' = InHand(q)
  BY DEF InHand
<1>2. known[q] \subseteq PlacedIds
  BY DEF KnownArePlaced
<1>3. PlacedIds \subseteq PlacedIds'
  BY DEF PlacedIds, OrdersGrow
<1>4. ASSUME NEW os \in InHand(q)', NEW a \in {account'[q]}, NEW ids \in {known'[q]}
      PROVE  IsHistory(os) /\ Exact(os, a)' /\ Complete(os, a, ids)'
  <2>1. IsHistory(os) /\ Exact(os, a) /\ Complete(os, a, ids) /\ ids \subseteq PlacedIds
    BY <1>1, <1>2, <1>4 DEF HistoriesHold
  <2> QED
    BY <2>1, HistoryStands
<1> QED
  BY <1>2, <1>3, <1>4 DEF RepliesAreKept

\* The invariant of the readers, put together reader by reader.
LEMMA ReadersTogether ==
  ASSUME \A q \in Readers :
           /\ \A os \in InHand(q)', a \in {account'[q]}, ids \in {known'[q]} :
                IsHistory(os) /\ Exact(os, a)' /\ Complete(os, a, ids)'
           /\ known'[q] \subseteq PlacedIds'
           /\ reply'[q] # NoReply => stage'[q] = "ok"
  PROVE  KnownArePlaced' /\ RepliesAreKept' /\ HistoriesHold'
<1>1. \A os : IsHistory(os)' = IsHistory(os)
  BY DEF IsHistory
<1>2. KnownArePlaced' /\ RepliesAreKept'
  BY DEF KnownArePlaced, RepliesAreKept
<1>3. HistoriesHold'
  BY <1>1 DEF HistoriesHold
<1> QED
  BY <1>2, <1>3

\* What somebody has been told of was placed.
LEMMA ToldIsPlaced ==
  ASSUME Inv
  PROVE  Told \subseteq PlacedIds
<1> USE DEF Inv, LedgerInv
<1>1. \A c \in Calls : status[c] = "ok" => answer[c].id \in PlacedIds
  BY DEF AnswersArePlaced, PlacedIds
<1>2. ASSUME NEW r \in Readers, reply[r] # NoReply, NEW n \in IdsOf(reply[r])
      PROVE  n \in PlacedIds
  <2>1. reply[r] \in InHand(r)
    BY <1>2 DEF RepliesAreKept, InHand
  <2>2. Exact(reply[r], account[r])
    BY <2>1 DEF HistoriesHold
  <2>3. PICK i \in DOMAIN reply[r] : reply[r][i].id = n /\ n # NoId
    BY <1>2 DEF IdsOf, Range
  <2>4. PICK o \in Orders : o.id = n
    BY <2>2, <2>3 DEF Exact
  <2> QED
    BY <2>4 DEF PlacedIds
<1> QED
  BY <1>1, <1>2 DEF Told

\* A read begins.
LEMMA BeginKeepsInv ==
  ASSUME Inv, NEW r \in Readers, GetOrdersForAccount(r)
  PROVE  Inv'
<1> USE DEF Inv
<1>1. UNCHANGED ledgerVars
  BY DEF GetOrdersForAccount
<1>2. LedgerInv' /\ OrdersGrow
  BY <1>1, OthersKeepLedger
<1>3. Shape'
  BY DEF Shape, GetOrdersForAccount, ledgerVars
<1>4. \A q \in Readers : q # r =>
        /\ stage'[q] = stage[q] /\ found'[q] = found[q] /\ reply'[q] = reply[q]
        /\ account'[q] = account[q] /\ known'[q] = known[q]
  BY DEF Shape, GetOrdersForAccount
<1>5. InHand(r)' = {} /\ reply'[r] = NoReply /\ known'[r] = Told
  BY DEF Shape, GetOrdersForAccount, InHand
<1>6. known'[r] \subseteq PlacedIds'
  BY <1>2, <1>5, ToldIsPlaced DEF PlacedIds, OrdersGrow
<1> QED
  BY <1>2, <1>3, <1>4, <1>5, <1>6, ReaderStands, ReadersTogether

\* The query returns the rows of a snapshot.
LEMMA QueryKeepsInv ==
  ASSUME Inv, NEW r \in Readers, Query(r)
  PROVE  Inv'
<1> USE DEF Inv
<1>1. UNCHANGED ledgerVars
  BY DEF Query
<1>2. LedgerInv' /\ OrdersGrow
  BY <1>1, OthersKeepLedger
<1>3. Shape'
  BY DEF Shape, Query, ledgerVars
<1>4. \A q \in Readers : q # r =>
        /\ stage'[q] = stage[q] /\ found'[q] = found[q] /\ reply'[q] = reply[q]
        /\ account'[q] = account[q] /\ known'[q] = known[q]
  BY DEF Shape, Query
<1>5. PICK s \in Results(account[r]) : found'[r] = Grouped(s)
  BY DEF Shape, Query
<1>6. /\ InHand(r)' = {Grouped(s)} /\ account'[r] = account[r] /\ known'[r] = known[r]
      /\ reply'[r] = NoReply
  <2>1. reply[r] = NoReply
    BY DEF Query, RepliesAreKept
  <2> QED
    BY <1>5, <2>1 DEF Shape, Query, InHand
<1>7. known'[r] \subseteq PlacedIds /\ PlacedIds' = PlacedIds
  BY <1>1, <1>6 DEF KnownArePlaced, PlacedIds, Orders, ledgerVars
<1>8. ASSUME NEW os \in InHand(r)', NEW a \in {account'[r]}, NEW ids \in {known'[r]}
      PROVE  IsHistory(os) /\ Exact(os, a)' /\ Complete(os, a, ids)'
  <2>1. os = Grouped(s) /\ a = account[r] /\ ids \subseteq PlacedIds
    BY <1>6, <1>7
  <2>2. /\ IsHistory(Grouped(s)) /\ Exact(Grouped(s), account[r])
        /\ \A ns : Complete(Grouped(s), account[r], ns)
    BY QueryIsExact
  <2>3. IsHistory(os) /\ Exact(os, a) /\ Complete(os, a, ids)
    BY <2>1, <2>2
  <2> QED
    BY <1>2, <2>1, <2>3, HistoryStands
<1> QED
  BY <1>2, <1>3, <1>4, <1>6, <1>7, <1>8, ReaderStands, ReadersTogether

\* The lines are decorated.
LEMMA DecorateKeepsInv ==
  ASSUME Inv, NEW r \in Readers, Decorate(r)
  PROVE  Inv'
<1> USE DEF Inv
<1>1. UNCHANGED ledgerVars
  BY DEF Decorate
<1>2. LedgerInv' /\ OrdersGrow
  BY <1>1, OthersKeepLedger
<1>3. Shape'
  BY DEF Shape, Decorate, ledgerVars
<1>4. \A q \in Readers : q # r =>
        /\ stage'[q] = stage[q] /\ found'[q] = found[q] /\ reply'[q] = reply[q]
        /\ account'[q] = account[q] /\ known'[q] = known[q]
  BY DEF Shape, Decorate
<1>5. PICK docs : reply'[r] = Decorated(found[r], docs)
  BY DEF Shape, Decorate
<1>6. /\ InHand(r)' = {Decorated(found[r], docs)} /\ stage'[r] = "ok"
      /\ account'[r] = account[r] /\ known'[r] = known[r]
      /\ found[r] \in InHand(r)
  BY <1>5 DEF Shape, Decorate, InHand
<1>7. known'[r] \subseteq PlacedIds /\ PlacedIds' = PlacedIds
  BY <1>1, <1>6 DEF KnownArePlaced, PlacedIds, Orders, ledgerVars
<1>8. ASSUME NEW os \in InHand(r)', NEW a \in {account'[r]}, NEW ids \in {known'[r]}
      PROVE  IsHistory(os) /\ Exact(os, a)' /\ Complete(os, a, ids)'
  <2>1. os = Decorated(found[r], docs) /\ a = account[r] /\ ids = known[r] /\ ids \subseteq PlacedIds
    BY <1>6, <1>7
  <2>2. IsHistory(found[r]) /\ Exact(found[r], a) /\ Complete(found[r], a, ids)
    BY <1>6, <2>1 DEF HistoriesHold
  <2>3. IsHistory(os) /\ Exact(os, a) /\ Complete(os, a, ids)
    BY <2>1, <2>2, DecoratedIsExact
  <2> QED
    BY <1>2, <2>1, <2>3, HistoryStands
<1> QED
  BY <1>2, <1>3, <1>4, <1>6, <1>7, <1>8, ReaderStands, ReadersTogether

\* A read fails.
LEMMA FailureKeepsInv ==
  ASSUME Inv, NEW r \in Readers, QueryBreaks(r) \/ DecorateFails(r)
  PROVE  Inv'
<1> USE DEF Inv
<1>1. UNCHANGED ledgerVars
  BY DEF QueryBreaks, DecorateFails
<1>2. LedgerInv' /\ OrdersGrow
  BY <1>1, OthersKeepLedger
<1>3. Shape'
  BY DEF Shape, QueryBreaks, DecorateFails, ledgerVars
<1>4. \A q \in Readers : q # r =>
        /\ stage'[q] = stage[q] /\ found'[q] = found[q] /\ reply'[q] = reply[q]
        /\ account'[q] = account[q] /\ known'[q] = known[q]
  BY DEF Shape, QueryBreaks, DecorateFails
<1>5. InHand(r)' = {} /\ reply'[r] = NoReply /\ known'[r] = known[r]
  BY DEF Shape, QueryBreaks, DecorateFails, InHand, RepliesAreKept
<1>6. known'[r] \subseteq PlacedIds'
  BY <1>1, <1>5 DEF KnownArePlaced, PlacedIds, Orders, ledgerVars
<1> QED
  BY <1>2, <1>3, <1>4, <1>5, <1>6, ReaderStands, ReadersTogether

\* A step of the writers, or of the catalog, or none.
LEMMA WriterKeepsInv ==
  ASSUME Inv,
         \/ \E c \in Calls : PostOrder(c) \/ PutOrder(c)
         \/ \E p \in Products : Reprice(p)
         \/ UNCHANGED vars
  PROVE  Inv'
<1> USE DEF Inv
<1>1. UNCHANGED readVars
  BY DEF PostOrder, PutOrder, Reprice, vars
<1>2. LedgerInv' /\ OrdersGrow /\ Shape'
  <2>1. ASSUME NEW c \in Calls, PostOrder(c)
        PROVE  LedgerInv' /\ OrdersGrow /\ Shape'
    <3>1. Shape'
      BY <1>1, <2>1 DEF Shape, PostOrder, Ledger!Call, readVars
    <3> QED
      BY <2>1, <3>1, CallKeepsLedger
  <2>2. ASSUME NEW c \in Calls, Ledger!Place(c)
        PROVE  LedgerInv' /\ OrdersGrow /\ Shape'
    <3>1. Shape'
      BY <1>1, <2>2 DEF Shape, Ledger!Place, readVars
    <3> QED
      BY <2>2, <3>1, PlaceKeepsLedger
  <2>3. ASSUME NEW c \in Calls, Ledger!Answer(c) \/ Ledger!Fail(c)
        PROVE  LedgerInv' /\ OrdersGrow /\ Shape'
    <3>1. Shape'
      BY <1>1, <2>3 DEF Shape, Ledger!Answer, Ledger!Fail, readVars
    <3> QED
      BY <2>3, <3>1, ReturnKeepsLedger
  <2>4. ASSUME UNCHANGED ledgerVars
        PROVE  LedgerInv' /\ OrdersGrow /\ Shape'
    <3>1. Shape'
      BY <1>1, <2>4 DEF Shape, ledgerVars, readVars
    <3> QED
      BY <2>4, <3>1, OthersKeepLedger
  <2> QED
    BY <2>1, <2>2, <2>3, <2>4 DEF PutOrder, Reprice, vars
<1>3. \A q \in Readers :
        /\ stage'[q] = stage[q] /\ found'[q] = found[q] /\ reply'[q] = reply[q]
        /\ account'[q] = account[q] /\ known'[q] = known[q]
  BY <1>1 DEF readVars
<1> QED
  BY <1>2, <1>3, ReaderStands, ReadersTogether

\* Nothing is placed and nobody reads at first.
LEMMA InvInitially == Init => Inv
<1> SUFFICES ASSUME Init
             PROVE  Inv
  OBVIOUS
<1> USE DEF Init, Ledger!LedgerInit
<1>1. Orders = {} /\ lines = {} /\ IsFiniteSet(lines)
  BY FS_EmptySet DEF Orders
<1>2. Shape
  BY DEF Shape
<1>3. LedgerInv
  BY <1>1 DEF LedgerInv, CallsBringLists, OrdersAreOfCalls, LinesAreOfCalls, AnswersArePlaced
<1>4. KnownArePlaced /\ RepliesAreKept /\ HistoriesHold
  BY DEF KnownArePlaced, RepliesAreKept, HistoriesHold, InHand
<1> QED
  BY <1>2, <1>3, <1>4 DEF Inv

\* The inductive invariant holds in every behaviour of OrderHistory.
THEOREM Invariance == Spec => []Inv
<1>1. ASSUME Inv, [Next]_vars
      PROVE  Inv'
  <2>1. CASE \/ \E c \in Calls : PostOrder(c) \/ PutOrder(c)
             \/ \E p \in Products : Reprice(p)
             \/ UNCHANGED vars
    BY <1>1, <2>1, WriterKeepsInv
  <2>2. ASSUME NEW r \in Readers,
               \/ GetOrdersForAccount(r) \/ Query(r) \/ QueryBreaks(r)
               \/ Decorate(r) \/ DecorateFails(r)
        PROVE  Inv'
    BY <1>1, <2>2, BeginKeepsInv, QueryKeepsInv, DecorateKeepsInv, FailureKeepsInv
  <2> QED
    BY <1>1, <2>1, <2>2 DEF Next
<1> QED
  BY <1>1, InvInitially, PTL DEF Spec

\* A history that Account.orders answers with shows orders that were placed for
\* the account asked for, each once, with the total it was stored with and exactly
\* its own lines, whatever was placed or repriced meanwhile and whatever order the
\* rows of an order came in.
THEOREM HistoryCorrect == Spec => []HistoryIsExact
<1>1. Inv => HistoryIsExact
  <2> SUFFICES ASSUME Inv
               PROVE  HistoryIsExact
    OBVIOUS
  <2> DEFINE shown(r) == {i \in DOMAIN reply[r] : reply[r][i].id # NoId}
             Right(o, a) == /\ [id |-> o.id, account |-> o.account, total |-> o.total] \in Orders
                            /\ o.account = a
                            /\ {Shown(l, o.id) : l \in Range(o.products)} = LinesOf(o.id)
                            /\ Len(o.products) = Cardinality(LinesOf(o.id))
  <2>1. ASSUME NEW r \in Answered
        PROVE  Exact(reply[r], account[r])
    <3>1. reply[r] \in InHand(r)
      BY DEF Answered, InHand
    <3> QED
      BY <3>1 DEF Inv, HistoriesHold, Answered
  <2>2. ASSUME NEW r \in Answered, NEW i \in shown(r)
        PROVE  Right(reply[r][i], account[r])
    <3> DEFINE o == reply[r][i]
    <3>1. /\ [id |-> o.id, account |-> o.account, total |-> o.total] \in Orders
          /\ o.account = account[r]
          /\ {Shown(o.products[j], o.id) : j \in DOMAIN o.products} = LinesOf(o.id)
          /\ Len(o.products) = Cardinality(LinesOf(o.id))
      BY <2>1, <2>2 DEF Exact
    <3> HIDE DEF o
    <3>2. {Shown(l, o.id) : l \in Range(o.products)}
            = {Shown(o.products[j], o.id) : j \in DOMAIN o.products}
      BY DEF Range
    <3>3. Right(o, account[r])
      BY <3>1, <3>2
    <3> QED
      BY <3>3 DEF o
  <2>3. ASSUME NEW r \in Answered
        PROVE  \A i, j \in shown(r) : reply[r][i].id = reply[r][j].id => i = j
    BY <2>1 DEF Exact
  <2>4. HistoryIsExact <=>
          \A r \in Answered :
            /\ \A i, j \in shown(r) : reply[r][i].id = reply[r][j].id => i = j
            /\ \A o \in {reply[r][i] : i \in shown(r)} : Right(o, account[r])
    BY DEF HistoryIsExact
  <2> HIDE DEF shown, Right
  <2> QED
    BY <2>2, <2>3, <2>4
<1> QED
  BY <1>1, Invariance, PTL

\* An order that its writer or an earlier reader had been told of before a read
\* began is in the history read, if it is of the account and has a line.
THEOREM NothingLost == Spec => []NothingForgotten
<1>1. Inv => NothingForgotten
  <2> SUFFICES ASSUME Inv, NEW r \in Answered, NEW o \in Orders,
                      o.id \in known[r], o.account = account[r], LinesOf(o.id) # {}
               PROVE  o.id \in IdsOf(reply[r])
    BY DEF NothingForgotten
  <2>1. reply[r] \in InHand(r)
    BY DEF Answered, InHand
  <2>2. Complete(reply[r], account[r], known[r])
    BY <2>1 DEF Inv, HistoriesHold, Answered
  <2>3. PICK i \in DOMAIN reply[r] : reply[r][i].id = o.id
    BY <2>2 DEF Complete
  <2>4. o.id # NoId
    BY OrdersHaveIds DEF Inv, LedgerInv, NoId
  <2> QED
    BY <2>3, <2>4 DEF IdsOf, Range
<1> QED
  BY <1>1, Invariance, PTL
=============================================================================
