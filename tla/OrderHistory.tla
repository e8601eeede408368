---------------------------- MODULE OrderHistory -----------------------------
(***************************************************************************)
(* Reading the orders of an account (Account.orders) while orders are      *)
(* being placed: GetOrdersForAccount of the order repository, which groups *)
(* the rows of one join into orders, and GetOrdersForAccount of the order  *)
(* service, which decorates their lines from the catalog.                  *)
(*                                                                         *)
(* Orders are placed as OrderLedger promises, from requests assembled as   *)
(* in OrderAssembly.  An order id is a number here, because the read sorts *)
(* by it; ids are given out in any order.                                  *)
(***************************************************************************)
EXTENDS OrderAssembly, FiniteSetsExt

CONSTANTS
  Readers,        \* concurrent runs of the resolver Account.orders
  Carts,          \* what the requests on the wire ask for: account and basket
  Stock,          \* the prices of the products that can be created
  MaxReads,       \* bound: reads of one reader
  Repriced,       \* bound: the products whose price is changed, once each
  NoReply

Ids == Nat \ {0}

\* The id "" of an order that was never read.
NoId == 0

ASSUME OrderHistoryAssumption ==
  /\ Calls \subseteq Ids
  /\ Carts \subseteq [account : Accounts, basket : Seq(OrderLine)]
  /\ IsCatalog(Stock)
  /\ MaxReads \in Nat /\ Repriced \subseteq DOMAIN Stock

VARIABLES
  key, req, ledger, lines, status, answer,   \* see OrderLedger
  catalog,   \* the prices of the products in the catalog
  reads,     \* how many reads each reader has started
  stage,     \* where the read of each reader stands
  account,   \* the account it asked for
  found,     \* the orders the repository returned to the order service
  reply,     \* the orders the reader was answered with, or NoReply
  known      \* ghost: orders somebody had been told of when the read began

ledgerVars == <<key, req, ledger, lines, status, answer>>
readVars   == <<reads, stage, account, found, reply, known>>
vars == <<ledgerVars, catalog, readVars>>

Ledger == INSTANCE OrderLedger

Init ==
  /\ Ledger!LedgerInit
  /\ catalog = Stock
  /\ reads = [r \in Readers |-> 0]
  /\ stage = [r \in Readers |-> "idle"]
  /\ account \in [Readers -> Accounts]
  /\ found = [r \in Readers |-> <<>>]
  /\ reply = [r \in Readers |-> NoReply]
  /\ known = [r \in Readers |-> {}]

-----------------------------------------------------------------------------
(* The query and the grouping of its rows *)

Orders == {ledger[k] : k \in {j \in Keys : ledger[j] # NoOrder}}

\* SELECT ... FROM orders o JOIN order_products op: one row per line of order o.
RowsOf(o) ==
  {[id |-> o.id, account |-> o.account, total |-> o.total,
    product |-> l.product, quantity |-> l.quantity] :
     l \in {m \in lines : m.order = o.id}}

\* The rows of an account.
RowsFor(a) == UNION {RowsOf(o) : o \in {p \in Orders : p.account = a}}

\* The rows of smaller orders than that of row x, and those of its own order.
Before(x, rows) == {y \in rows : y.id < x.id}
Beside(x, rows) == {y \in rows : y.id = x.id}

\* The ways to number the rows of every order from 1.
Numberings(rows) ==
  {f \in [rows -> UNION {1..Cardinality(Beside(x, rows)) : x \in rows}] :
     \A x \in rows : {f[y] : y \in Beside(x, rows)} = 1..Cardinality(Beside(x, rows))}

\* ORDER BY o.id: the rows of an order are together, in any order, after those of
\* the smaller ones.
Results(a) ==
  LET rows == RowsFor(a)
  IN  {[i \in 1..Cardinality(rows) |->
          CHOOSE x \in rows : i = Cardinality(Before(x, rows)) + f[x]] : f \in Numberings(rows)}

\* The variables lastOrder, products and orders of the loop.
GroupInit ==
  [orders |-> <<>>,
   last |-> [id |-> NoId, account |-> NoId, total |-> 0],
   products |-> <<>>]

\* lastOrder with the lines gathered for it.
Closed(g) ==
  [id |-> g.last.id, account |-> g.last.account, total |-> g.last.total,
   products |-> g.products]

\* Mutant: products is not emptied when an order is closed.
GroupRowNoReset(g, row) ==
  LET closes == g.last.id # NoId /\ g.last.id # row.id
  IN [orders |-> IF closes THEN Append(g.orders, Closed(g)) ELSE g.orders,
      last |-> [id |-> row.id, account |-> row.account, total |-> row.total],
      products |-> Append(g.products, [id |-> row.product, quantity |-> row.quantity])]

\* The body of the loop: a row of another order closes the last one.
GroupRow(g, row) ==
  LET closes == g.last.id # NoId /\ g.last.id # row.id
  IN [orders |-> IF closes THEN Append(g.orders, Closed(g)) ELSE g.orders,
      last |-> [id |-> row.id, account |-> row.account, total |-> row.total],
      products |-> Append(IF closes THEN <<>> ELSE g.products,
                          [id |-> row.product, quantity |-> row.quantity])]

\* The order that is open at the end is closed as well, even if there is none.
Grouped(rows) ==
  LET g == FoldLeft(GroupRow, GroupInit, rows)
  IN  Append(g.orders, Closed(g))

\* The ids the read asks the catalog for, a Go map ranged over in any order.
ProductIds(orders) ==
  SetToSeqs(UNION {{l.id : l \in Range(o.products)} : o \in Range(orders)})

\* A line shows the price the catalog has now, or 0 if it was not found.
Priced(line, docs) ==
  [id |-> line.id, quantity |-> line.quantity,
   price |-> IF line.id \in Range(docs) THEN catalog[line.id] ELSE 0]

Decorated(orders, docs) ==
  [i \in DOMAIN orders |->
    [orders[i] EXCEPT !.products =
       [j \in DOMAIN orders[i].products |-> Priced(orders[i].products[j], docs)]]]

IdsOf(orders) == {o.id : o \in Range(orders)} \ {NoId}

-----------------------------------------------------------------------------
(* Orders are placed *)

\* PostOrder of the order service, up to the call of PutOrder.
PostOrder(c) ==
  /\ \E k \in Keys, cart \in Carts :
       LET ids == [i \in DOMAIN cart.basket |-> cart.basket[i].id]
       IN  /\ ~GetProductsFails(catalog, ids)
           /\ Ledger!Call(c, k, Assembled(cart.account, cart.basket, catalog))
  /\ UNCHANGED <<catalog, readVars>>

\* PutOrder: see OrderLedger.
PutOrder(c) ==
  /\ Ledger!Place(c) \/ Ledger!Answer(c) \/ Ledger!Fail(c)
  /\ UNCHANGED <<catalog, readVars>>

-----------------------------------------------------------------------------
(* The catalog *)

\* A document is changed in Elasticsearch; the program itself has no operation
\* that does.
Reprice(p) ==
  /\ p \in Repriced /\ catalog[p] = Stock[p]
  /\ catalog' = [catalog EXCEPT ![p] = @ + 10]
  /\ UNCHANGED <<ledgerVars, readVars>>

-----------------------------------------------------------------------------
(* The read of reader r *)

\* What somebody has been told of: the writers, or the readers.
Told ==
  {answer[c].id : c \in {d \in Calls : status[d] = "ok"}}
    \cup UNION {IdsOf(reply[r]) : r \in {q \in Readers : reply[q] # NoReply}}

GetOrdersForAccount(r) ==
  /\ stage[r] \in {"idle", "ok", "failed"} /\ reads[r] < MaxReads
  /\ reads' = [reads EXCEPT ![r] = @ + 1]
  /\ stage' = [stage EXCEPT ![r] = "query"]
  /\ known' = [known EXCEPT ![r] = Told]
  /\ reply' = [reply EXCEPT ![r] = NoReply]
  /\ \E a \in Accounts : account' = [account EXCEPT ![r] = a]
  /\ UNCHANGED <<found, ledgerVars, catalog>>

\* The query runs on one snapshot of the committed orders.
Query(r) ==
  /\ stage[r] = "query"
  /\ \E rows \in Results(account[r]) : found' = [found EXCEPT ![r] = Grouped(rows)]
  /\ stage' = [stage EXCEPT ![r] = "decorate"]
  /\ UNCHANGED <<reads, account, reply, known, ledgerVars, catalog>>

\* Mutant: rows.Err is not asked, and the rows that did arrive are returned.
QueryBreaksUnnoticed(r) ==
  /\ stage[r] = "query"
  /\ \E rows \in Results(account[r]) : \E n \in 0..Len(rows) :
       found' = [found EXCEPT ![r] = Grouped(SubSeq(rows, 1, n))]
  /\ stage' = [stage EXCEPT ![r] = "decorate"]
  /\ UNCHANGED <<reads, account, reply, known, ledgerVars, catalog>>

\* The query fails, or breaks off between two rows.
QueryBreaks(r) ==
  /\ stage[r] = "query"
  /\ stage' = [stage EXCEPT ![r] = "failed"]
  /\ UNCHANGED <<reads, account, found, reply, known, ledgerVars, catalog>>

\* The lines are looked up and decorated, and the reader has its reply.
Decorate(r) ==
  /\ stage[r] = "decorate"
  /\ \E ids \in ProductIds(found[r]) :
       /\ ~GetProductsFails(catalog, ids)
       /\ reply' = [reply EXCEPT ![r] = Decorated(found[r], MultiGet(catalog, ids))]
  /\ stage' = [stage EXCEPT ![r] = "ok"]
  /\ found' = [found EXCEPT ![r] = <<>>]
  /\ UNCHANGED <<reads, account, known, ledgerVars, catalog>>

\* The catalog is not reached, or finds no document for the last id.
DecorateFails(r) ==
  /\ stage[r] = "decorate"
  /\ stage' = [stage EXCEPT ![r] = "failed"]
  /\ found' = [found EXCEPT ![r] = <<>>]
  /\ UNCHANGED <<reads, account, reply, known, ledgerVars, catalog>>

-----------------------------------------------------------------------------

Next ==
  \/ \E c \in Calls : PostOrder(c) \/ PutOrder(c)
  \/ \E p \in Products : Reprice(p)
  \/ \E r \in Readers :
       \/ GetOrdersForAccount(r) \/ Query(r) \/ QueryBreaks(r)
       \/ Decorate(r) \/ DecorateFails(r)

Spec == Init /\ [][Next]_vars

-----------------------------------------------------------------------------
(* Properties *)

Answered == {r \in Readers : stage[r] = "ok"}

LinesOf(id) == {l \in lines : l.order = id}

Shown(line, id) == [order |-> id, product |-> line.id, quantity |-> line.quantity]

\* Every order shown is one that was placed for the account asked for, shown
\* once, with the total it was stored with and exactly its own lines, whatever
\* order the rows came in.  (The order with no id is left to NothingInvented.)
HistoryIsExact ==
  \A r \in Answered :
    LET shown == {i \in DOMAIN reply[r] : reply[r][i].id # NoId}
    IN  /\ \A i, j \in shown : reply[r][i].id = reply[r][j].id => i = j
        /\ \A o \in {reply[r][i] : i \in shown} :
             /\ [id |-> o.id, account |-> o.account, total |-> o.total] \in Orders
             /\ o.account = account[r]
             /\ {Shown(l, o.id) : l \in Range(o.products)} = LinesOf(o.id)
             /\ Len(o.products) = Cardinality(LinesOf(o.id))

\* An order that somebody was told of before the read began, its writer or an
\* earlier reader, is in the reply if it is of the account and has a line.
NothingForgotten ==
  \A r \in Answered : \A o \in Orders :
    /\ o.id \in known[r]
    /\ o.account = account[r]
    /\ LinesOf(o.id) # {}
    => o.id \in IdsOf(reply[r])

\* Account.orders holds "All orders placed by this account"
\* (graphql/schema.graphql:12), and nothing else.
NothingInvented ==
  \A r \in Answered : \A o \in Range(reply[r]) : \E p \in Orders : p.id = o.id

\* "Prices are captured at order time, so totalPrice and the product prices
\* below do not change if the catalog is updated later"
\* (graphql/schema.graphql:27): the prices shown still add up to the total.
PricesAreCaptured ==
  \A r \in Answered : \A o \in Range(reply[r]) :
    o.total = Money(SumFunction([i \in DOMAIN o.products |->
                                   o.products[i].price * o.products[i].quantity]))
=============================================================================
