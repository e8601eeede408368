--------------------------- MODULE CheckoutProofs ----------------------------
(***************************************************************************)
(* Checkout, for any shoppers, carts, keys, retries and failures: what is  *)
(* durable is what was asked for, in the quantities and for the total the  *)
(* catalog's prices make of it; no retry places a second order; an answer  *)
(* is a durable order of the shopper that gets it; and with keys of their  *)
(* own, the shoppers see Purchases.                                        *)
(***************************************************************************)
EXTENDS Checkout, FoldLemmas

-----------------------------------------------------------------------------
(* From a cart to the lines and the total of an order *)

\* What is kept of a sequence is a sequence of those of its members that are
\* wanted: the loops of server.go and of the catalog's multi-get add nothing.
LEMMA KeptType ==
  ASSUME NEW X, NEW s \in Seq(X), NEW W
  PROVE  Kept(s, W) \in Seq({s[i] : i \in DOMAIN s} \cap W)
<1>1. Kept(s, W) = Wanted(s, W)
  BY DEF Kept, Wanted
<1> QED
  BY <1>1, WantedMembers

\* What the gateway puts on the wire are lines of known products, in uint32
\* quantities.
LEMMA BasketType ==
  ASSUME NEW asked \in Seq(Asked)
  PROVE  Basket(asked) \in Seq(OrderLine)
<1>1. \A q \in Int : q % UintLimit \in Nat
  BY OrderAssemblyAssumption
<1>2. ASSUME NEW i \in DOMAIN asked
      PROVE  [id |-> asked[i].id, quantity |-> asked[i].quantity % UintLimit] \in OrderLine
  <2>1. asked[i] \in Asked
    OBVIOUS
  <2>2. asked[i].id \in Products /\ asked[i].quantity \in Int
    BY <2>1 DEF Asked
  <2>3. asked[i].quantity % UintLimit \in Nat
    BY <1>1, <2>2
  <2> QED
    BY <2>2, <2>3 DEF OrderLine
<1> QED
  BY <1>2 DEF Basket

\* The quantity that server.go finds for a product is one it was asked for in.
LEMMA QuantityIsAsked ==
  ASSUME NEW basket \in Seq(OrderLine), NEW i \in DOMAIN basket
  PROVE  \E j \in DOMAIN basket :
           basket[j] = [id |-> basket[i].id, quantity |-> QuantityOf(basket, basket[i].id)]
<1> DEFINE p == basket[i].id
           First(j) == /\ basket[j].id = p
                       /\ \A k \in DOMAIN basket : basket[k].id = p => j <= k
           S == {j \in DOMAIN basket : basket[j].id = p}
<1>1. PICK j \in S : \A k \in S : j <= k
  <2>1. S \subseteq Nat /\ S # {}
    OBVIOUS
  <2> HIDE DEF S
  <2> QED
    BY <2>1, LeastNumber
<1>2. j \in DOMAIN basket /\ First(j)
  BY <1>1
<1> DEFINE m == CHOOSE k \in DOMAIN basket : First(k)
<1>3. m \in DOMAIN basket /\ First(m)
  <2> HIDE DEF First
  <2> QED
    BY <1>2
<1>4. QuantityOf(basket, p) = basket[m].quantity
  BY DEF QuantityOf
<1>5. basket[m] = [id |-> basket[m].id, quantity |-> basket[m].quantity]
  <2>1. basket[m] \in OrderLine
    BY <1>3
  <2> QED
    BY <2>1 DEF OrderLine
<1> HIDE DEF m
<1> QED
  BY <1>3, <1>4, <1>5

\* The lines of an order were asked for, are held by the catalog, and are not of
\* quantity zero.
LEMMA MatchedLines ==
  ASSUME NEW asked \in Seq(Asked), NEW c, DOMAIN c \subseteq Products
  PROVE  LET basket == Basket(asked)
             ids    == [i \in DOMAIN basket |-> basket[i].id]
         IN  Matched(basket, MultiGet(c, ids)) \in
               Seq({basket[i] : i \in DOMAIN basket} \cap [id : DOMAIN c, quantity : Nat \ {0}])
<1> DEFINE basket == Basket(asked)
           ids    == [i \in DOMAIN basket |-> basket[i].id]
           docs   == MultiGet(c, ids)
           line(i) == [id |-> docs[i], quantity |-> QuantityOf(basket, docs[i])]
           all    == [i \in DOMAIN docs |-> line(i)]
           asks   == {basket[i] : i \in DOMAIN basket}
           Fit    == [id : Products, quantity : Nat \ {0}]
<1> SUFFICES Matched(basket, docs) \in Seq(asks \cap [id : DOMAIN c, quantity : Nat \ {0}])
  OBVIOUS
<1>1. basket \in Seq(OrderLine)
  BY BasketType
<1>2. ids \in Seq(Products)
  <2> HIDE DEF basket
  <2>1. \A i \in DOMAIN basket : basket[i] \in OrderLine
    BY <1>1
  <2>2. \A i \in DOMAIN basket : basket[i].id \in Products
    BY <2>1 DEF OrderLine
  <2> QED
    BY <1>1, <2>2
<1>3. docs \in Seq({ids[i] : i \in DOMAIN ids} \cap DOMAIN c)
  <2> HIDE DEF ids
  <2> QED
    BY <1>2, KeptType DEF MultiGet
<1>4. \A i \in DOMAIN docs :
        /\ docs[i] \in DOMAIN c
        /\ \E j \in DOMAIN basket : docs[i] = basket[j].id
  <2>1. \A i \in DOMAIN docs : docs[i] \in {ids[j] : j \in DOMAIN ids} \cap DOMAIN c
    <3> HIDE DEF docs, ids
    <3> QED
      BY <1>3
  <2> HIDE DEF docs, basket
  <2> QED
    BY <2>1
<1>5. ASSUME NEW i \in DOMAIN docs
      PROVE  line(i) \in asks
  <2> HIDE DEF docs, basket
  <2>1. PICK j \in DOMAIN basket : docs[i] = basket[j].id
    BY <1>4
  <2>2. PICK k \in DOMAIN basket :
          basket[k] = [id |-> basket[j].id, quantity |-> QuantityOf(basket, basket[j].id)]
    BY <1>1, QuantityIsAsked
  <2> QED
    BY <2>1, <2>2
<1>6. all \in Seq(asks)
  <2>1. \E n \in Nat : DOMAIN docs = 1..n
    <3> HIDE DEF docs, ids
    <3> QED
      BY <1>3
  <2> HIDE DEF docs, line, asks
  <2> QED
    BY <1>5, <2>1
<1>7. Kept(all, Fit) \in Seq({all[i] : i \in DOMAIN all} \cap Fit)
  <2> HIDE DEF all, asks, Fit
  <2> QED
    BY <1>6, KeptType
<1>8. \A i \in DOMAIN all : all[i] \in asks /\ all[i].id \in DOMAIN c
  <2> HIDE DEF docs, basket, asks
  <2> QED
    BY <1>4, <1>5
<1>9. {all[i] : i \in DOMAIN all} \cap Fit \subseteq asks \cap [id : DOMAIN c, quantity : Nat \ {0}]
  <2> HIDE DEF all, asks
  <2> QED
    BY <1>8
<1>10. Matched(basket, docs) = Kept(all, Fit)
  BY DEF Matched
<1> QED
  <2> HIDE DEF all, asks, Fit, docs, basket
  <2>1. \A X, Y : X \subseteq Y => Seq(X) \subseteq Seq(Y)
    OBVIOUS
  <2> QED
    BY <1>7, <1>9, <1>10, <2>1

\* The sum over a set of lines can be computed line by line.
LEMMA LinesSumValue ==
  ASSUME NEW T, IsFiniteSet(T), T \subseteq LineRow, NEW w \in [T -> Int],
         \A l \in T : w[l] = Price[l.product] * l.quantity
  PROVE  \E F : IsSum(F, w, T) /\ SumOfLines(T) = F[T]
<1> DEFINE x(s) == CHOOSE l \in s : TRUE
           Sums(F) == F = [s \in SUBSET T |->
                             IF s = {} THEN 0
                             ELSE Price[x(s).product] * x(s).quantity + F[s \ {x(s)}]]
           G == CHOOSE F : Sums(F)
<1>1. \A s \in SUBSET T : s # {} => x(s) \in T
  OBVIOUS
<1>2. ASSUME NEW F
      PROVE  Sums(F) <=> IsSum(F, w, T)
  <2>1. ASSUME NEW s \in SUBSET T, s # {}
        PROVE  /\ x(s) = AnyOf(s)
               /\ w[AnyOf(s)] = Price[x(s).product] * x(s).quantity
    <3>1. x(s) = AnyOf(s)
      BY DEF AnyOf
    <3> QED
      BY <1>1, <2>1, <3>1
  <2> HIDE DEF x
  <2> QED
    BY <2>1 DEF IsSum
<1>3. SumOfLines(T) = G[T]
  BY DEF SumOfLines, MapThenSumSet, MapThenFoldSet
<1>4. Sums(G)
  <2> HIDE DEF Sums
  <2>1. \E F : Sums(F)
    BY <1>2, SumExists
  <2> QED
    BY <2>1
<1> QED
  <2> HIDE DEF Sums, G
  <2> QED
    BY <1>2, <1>3, <1>4

\* The total of lines that the catalog prices is a number.
LEMMA TotalType ==
  ASSUME NEW c, IsCatalog(c), NEW ps \in Seq([id : DOMAIN c, quantity : Nat])
  PROVE  TotalPrice(c, ps) \in Nat
<1> DEFINE w == [i \in DOMAIN ps |-> c[ps[i].id] * ps[i].quantity]
<1>1. w \in [DOMAIN ps -> Nat]
  <2>1. ASSUME NEW i \in DOMAIN ps PROVE c[ps[i].id] * ps[i].quantity \in Nat
    <3> DEFINE R == [id : DOMAIN c, quantity : Nat]
    <3>1. ps[i] \in R
      <4>1. ps \in Seq(R)
        OBVIOUS
      <4> HIDE DEF R
      <4> QED
        BY <4>1
    <3>2. c[ps[i].id] \in Nat /\ ps[i].quantity \in Nat
      BY <3>1 DEF IsCatalog
    <3> QED
      BY <3>2
  <2> QED
    BY <2>1
<1>2. IsFiniteSet(DOMAIN ps)
  BY FS_Interval
<1>3. PICK F : IsSum(F, w, DOMAIN ps) /\ TotalPrice(c, ps) = F[DOMAIN ps]
  <2>1. w \in [DOMAIN ps -> Int]
    BY <1>1
  <2>2. TotalPrice(c, ps) = SumFunction(w)
    BY DEF TotalPrice
  <2> HIDE DEF w
  <2> QED
    BY <1>2, <2>1, <2>2, SumFunctionValue
<1>4. F \in [SUBSET DOMAIN ps -> Nat]
  <2>1. Nat \in {Int, Nat}
    OBVIOUS
  <2> HIDE DEF w
  <2> QED
    BY <1>1, <1>2, <1>3, <2>1, SumType
<1> QED
  BY <1>3, <1>4

\* The total that service.go computes from the products of a request is the sum
\* over the lines that COPY writes for it: no two products are one line.
LEMMA TotalIsSumOfLines ==
  ASSUME NEW d \in Calls, NEW r, 
         r.products \in Seq([id : DOMAIN Price, quantity : Nat]), Copyable(r.products)
  PROVE  TotalPrice(Price, r.products) = SumOfLines(Lines(d, r))
<1> DEFINE ps == r.products
           S == DOMAIN ps
           line(i) == [order |-> d, product |-> ps[i].id, quantity |-> ps[i].quantity]
           T == Lines(d, r)
           w == [i \in S |-> Price[ps[i].id] * ps[i].quantity]
           v == [l \in T |-> Price[l.product] * l.quantity]
           g == [i \in S |-> line(i)]
<1> SUFFICES TotalPrice(Price, ps) = SumOfLines(T)
  OBVIOUS
<1>1. IsFiniteSet(S)
  BY FS_Interval
<1>2. ASSUME NEW i \in S
      PROVE  /\ ps[i].id \in Products /\ ps[i].quantity \in 0..PgIntMax
             /\ Price[ps[i].id] * ps[i].quantity \in Int
  <2> DEFINE R == [id : DOMAIN Price, quantity : Nat]
  <2>1. ps[i] \in R
    <3>1. ps \in Seq(R)
      OBVIOUS
    <3> HIDE DEF R
    <3> QED
      BY <3>1
  <2>2. ps[i].id \in DOMAIN Price /\ ps[i].quantity \in Nat
    BY <2>1
  <2>3. IsCatalog(Price)
    BY CheckoutAssumption
  <2>4. ps[i].id \in Products /\ Price[ps[i].id] \in Nat
    BY <2>2, <2>3 DEF IsCatalog
  <2>5. ps[i].quantity <= PgIntMax /\ PgIntMax \in Nat
    BY OrderDataAssumption DEF Copyable
  <2> QED
    BY <2>2, <2>4, <2>5
<1>3. T = {g[i] : i \in S}
  BY DEF Lines
<1>4. T \subseteq LineRow
  BY <1>2 DEF Lines, LineRow
<1>5. IsFiniteSet(T)
  <2>1. IsFiniteSet({g[i] : i \in S})
    <3>1. g \in [S -> T]
      BY <1>3
    <3> HIDE DEF g, T
    <3>2. g \in Surjection(S, T)
      BY <1>3, <3>1 DEF Surjection
    <3> QED
      BY <1>1, <1>3, <3>2, FS_Surjection
  <2> QED
    BY <1>3, <2>1
<1>6. w \in [S -> Int] /\ v \in [T -> Int] /\ g \in [S -> T]
  <2>1. \A i \in S : Price[ps[i].id] * ps[i].quantity \in Int
    BY <1>2
  <2>2. \A l \in T : Price[l.product] * l.quantity \in Int
    BY <2>1 DEF Lines
  <2> QED
    BY <2>1, <2>2, <1>3
<1>7. \A i, j \in S : g[i] = g[j] => i = j
  BY DEF Copyable
<1>8. \A i \in S : w[i] = v[g[i]]
  BY <1>3
<1>9. PICK F : IsSum(F, w, S) /\ TotalPrice(Price, ps) = F[S]
  <2>1. TotalPrice(Price, ps) = SumFunction(w)
    BY DEF TotalPrice
  <2> HIDE DEF w, S
  <2> QED
    BY <1>1, <1>6, <2>1, SumFunctionValue
<1>10. PICK G : IsSum(G, v, T) /\ SumOfLines(T) = G[T]
  <2>1. \A l \in T : v[l] = Price[l.product] * l.quantity
    OBVIOUS
  <2> HIDE DEF v, T
  <2> QED
    BY <1>4, <1>5, <1>6, <2>1, LinesSumValue
<1> QED
  <2> HIDE DEF w, v, g, S, T
  <2>1. Renames(g, w, S, v, T)
    BY <1>3, <1>6, <1>7, <1>8 DEF Renames
  <2>2. F[S] = G[T]
    BY <1>1, <1>5, <1>6, <1>9, <1>10, <2>1, SumRenamed
  <2> QED
    BY <1>9, <1>10, <2>2

-----------------------------------------------------------------------------
(* What a call of PutOrder brings *)

\* The order that the cart of a shopper comes to, whatever the catalog holds:
\* lines of the request, at prices of the catalog, and their total.
LEMMA ComesType ==
  ASSUME NEW s \in Shoppers, NEW c \in {Price, EmptyCatalog}
  PROVE  /\ Comes[s][c].account = Cart[s].account
         /\ Comes[s][c].account \in Accounts
         /\ Comes[s][c].total \in Nat
         /\ Comes[s][c].total = TotalPrice(Price, Comes[s][c].products)
         /\ Comes[s][c].products \in
              Seq(Range(Basket(Cart[s].asked)) \cap [id : DOMAIN Price, quantity : Nat \ {0}])
<1> DEFINE asked  == Cart[s].asked
           basket == Basket(asked)
           ids    == [i \in DOMAIN basket |-> basket[i].id]
           found  == Matched(basket, MultiGet(c, ids))
           Lined(k) == [id : DOMAIN k, quantity : Nat \ {0}]
           Good   == Range(basket) \cap Lined(Price)
<1>1. Cart[s].account \in Accounts /\ asked \in Seq(Asked)
  <2>1. Cart[s] \in [account : Accounts, asked : Seq(Asked)]
    BY CheckoutAssumption
  <2> QED
    BY <2>1
<1>2. IsCatalog(c) /\ IsCatalog(Price)
  BY CheckoutAssumption DEF IsCatalog, EmptyCatalog
<1>3. Comes[s][c] = [account |-> Cart[s].account, total |-> TotalPrice(c, found),
                     products |-> found]
  BY DEF Comes, Assembled
<1>4. found \in Seq(Range(basket) \cap Lined(c))
  <2>1. Range(basket) = {basket[i] : i \in DOMAIN basket}
    BY DEF Range
  <2>2. DOMAIN c \subseteq Products
    BY <1>2 DEF IsCatalog
  <2> QED
    BY <1>1, <2>1, <2>2, MatchedLines
<1>5. CASE c = Price
  <2>1. found \in Seq(Good)
    BY <1>4, <1>5
  <2>2. found \in Seq([id : DOMAIN Price, quantity : Nat])
    <3>1. Good \subseteq [id : DOMAIN Price, quantity : Nat]
      OBVIOUS
    <3>2. \A X, Y : X \subseteq Y => Seq(X) \subseteq Seq(Y)
      OBVIOUS
    <3> HIDE DEF Good, found
    <3> QED
      BY <2>1, <3>1, <3>2
  <2>3. TotalPrice(Price, found) \in Nat
    <3> HIDE DEF found
    <3> QED
      BY <1>2, <2>2, TotalType
  <2> HIDE DEF found
  <2> QED
    BY <1>1, <1>3, <1>5, <2>1, <2>3
<1>6. CASE c = EmptyCatalog
  <2>1. Lined(c) = {}
    BY <1>6 DEF EmptyCatalog
  <2>2. found \in Seq({})
    <3> HIDE DEF found, basket
    <3> QED
      BY <1>4, <2>1
  <2>3. found = << >>
    <3> HIDE DEF found
    <3> QED
      BY <2>2
  <2>4. TotalPrice(Price, << >>) \in Nat
    <3>1. << >> \in Seq([id : DOMAIN Price, quantity : Nat])
      OBVIOUS
    <3> QED
      BY <1>2, <3>1, TotalType
  <2>5. TotalPrice(c, << >>) = TotalPrice(Price, << >>)
    BY DEF TotalPrice
  <2> HIDE DEF found
  <2> QED
    BY <1>1, <1>3, <2>3, <2>4, <2>5
<1> QED
  BY <1>5, <1>6

\* A key sent to the order service is a key.
LEMMA KeyOfType == \A a \in Attempts : KeyOf(a) \in Keys
BY CheckoutAssumption DEF KeyOf, Attempts

\* The row and the lines that a call writes for the order of a cart.
LEMMA CopiedRow ==
  ASSUME NEW d \in Calls, NEW k \in Keys, NEW s \in Shoppers,
         NEW c \in {Price, EmptyCatalog}, Copyable(Comes[s][c].products)
  PROVE  /\ HeaderOf(Row(d, k, Comes[s][c])) =
              [id |-> d, account |-> Cart[s].account, total |-> Money(Comes[s][c].total)]
         /\ HeaderOf(Row(d, k, Comes[s][c])) \in Header
         /\ Lines(d, Comes[s][c]) \subseteq LineRow
         /\ \A l \in Lines(d, Comes[s][c]) : l.order = d
<1> DEFINE ps == Comes[s][c].products
           R  == Range(Basket(Cart[s].asked)) \cap [id : DOMAIN Price, quantity : Nat \ {0}]
<1>1. /\ Comes[s][c].account = Cart[s].account
      /\ Comes[s][c].account \in Accounts
      /\ Comes[s][c].total \in Nat
  BY ComesType
<1>2. Money(Comes[s][c].total) \in Nat
  BY <1>1 DEF Money
<1>3. ASSUME NEW i \in DOMAIN ps
      PROVE  ps[i].id \in Products /\ ps[i].quantity \in 0..PgIntMax
  <2>1. ps \in Seq(R)
    BY ComesType
  <2>2. ps[i] \in R
    <3> HIDE DEF ps, R
    <3> QED
      BY <2>1
  <2>3. ps[i].id \in DOMAIN Price /\ ps[i].quantity \in Nat
    <3> HIDE DEF ps
    <3> QED
      BY <2>2
  <2>4. ps[i].quantity <= PgIntMax
    BY DEF Copyable
  <2> HIDE DEF ps
  <2> QED
    BY <2>3, <2>4, CheckoutAssumption, OrderDataAssumption DEF IsCatalog
<1>4. Lines(d, Comes[s][c]) \subseteq LineRow
  BY <1>3 DEF Lines, LineRow
<1>5. HeaderOf(Row(d, k, Comes[s][c])) =
        [id |-> d, account |-> Cart[s].account, total |-> Money(Comes[s][c].total)]
  BY <1>1 DEF HeaderOf, Row
<1>6. \A l \in Lines(d, Comes[s][c]) : l.order = d
  BY DEF Lines
<1> QED
  BY <1>1, <1>2, <1>4, <1>5, <1>6 DEF Header

-----------------------------------------------------------------------------
(* The inductive invariant *)

\* A handler runs exactly for the deliveries that serve an attempt.
HandlersServe == \A d \in Calls : step[d] = "idle" <=> job[d] = None

\* A handler makes its call of PutOrder last, and waits for it.
PutOrderIsLast ==
  \A d \in Calls :
    /\ step[d] \in {"idle", "account", "products"} => status[d] = "idle"
    /\ step[d] = "put" => status[d] \in {"pending", "ok"}

\* A call brings the key of its attempt and the order its cart comes to.
CallsBringCarts ==
  /\ DOMAIN req = Calls
  /\ \A d \in Calls : status[d] # "idle" =>
       /\ job[d] \in Attempts
       /\ key[d] = KeyOf(job[d])
       /\ \E c \in {Price, EmptyCatalog} : req[d] = Comes[job[d][1]][c]

\* An order in the ledger is that of the call it is named for.
OrdersAreOfCalls ==
  \A k \in Keys : ledger[k] # NoOrder =>
    /\ ledger[k].id \in Calls
    /\ status[ledger[k].id] # "idle"
    /\ key[ledger[k].id] = k
    /\ ledger[k] = HeaderOf(Row(ledger[k].id, k, req[ledger[k].id]))
    /\ Copyable(req[ledger[k].id].products)

\* The durable lines are those of the orders placed.
LinesOfPlaced ==
  \A d \in Calls : LinesOf(d) = IF d \in Placed THEN Lines(d, req[d]) ELSE {}

\* A call that succeeded has the order under its key.
AnswersArePlaced ==
  \A d \in Calls : status[d] = "ok" =>
    ledger[key[d]] # NoOrder /\ answer[d] = ledger[key[d]]

\* The gateway waits for a delivery of its own attempt, and has an order only
\* from one that succeeded.
RepliesAreOwn ==
  \A a \in Attempts :
    /\ wire[a] # None => job[wire[a]] = a
    /\ gateway[a] = "ok" => wire[a] # None /\ status[wire[a]] = "ok"

\* A shopper that waits has sent something and was told nothing yet; a key
\* it supplied leads to the order it was told.
ShoppersKnow ==
  \A s \in Shoppers :
    /\ s \in waiting => tries[s] # 0 /\ told[s] = NoOrder
    /\ SuppliedKey[s] # NoKey /\ told[s] # NoOrder => told[s] = ledger[SuppliedKey[s]]

\* The inductive invariant.
Inv ==
  /\ TypeOK
  /\ HandlersServe
  /\ PutOrderIsLast
  /\ CallsBringCarts
  /\ OrdersAreOfCalls
  /\ LinesOfPlaced
  /\ AnswersArePlaced
  /\ RepliesAreOwn
  /\ ShoppersKnow

-----------------------------------------------------------------------------
(* Its proof *)

\* Nothing has happened at first.
LEMMA InvInitially == Init => Inv
<1> SUFFICES ASSUME Init
             PROVE  Inv
  OBVIOUS
<1> USE CheckoutAssumption DEF Init, Ledger!LedgerInit
<1>1. Placed = {}
  BY DEF Placed
<1>2. TypeOK
  <2>1. \A a \in Attempts : AskedBy(a) \in Seq(Asked)
    <3>1. \A t \in Shoppers : Cart[t].asked \in Seq(Asked)
      OBVIOUS
    <3> QED
      BY <3>1 DEF AskedBy, Attempts
  <2>2. \A a \in Attempts : next[a] \in 1..(Len(AskedBy(a)) + 1)
    BY <2>1
  <2> QED
    BY <2>2 DEF TypeOK
<1>3. HandlersServe /\ PutOrderIsLast /\ CallsBringCarts /\ OrdersAreOfCalls
  BY DEF HandlersServe, PutOrderIsLast, CallsBringCarts, OrdersAreOfCalls
<1>4. LinesOfPlaced
  BY <1>1 DEF LinesOfPlaced, LinesOf
<1>5. AnswersArePlaced /\ RepliesAreOwn /\ ShoppersKnow
  BY DEF AnswersArePlaced, RepliesAreOwn, ShoppersKnow
<1> QED
  BY <1>2, <1>3, <1>4, <1>5 DEF Inv

\* A step outside the repository leaves what is known of the ledger as it is.
LEMMA LedgerAlone ==
  ASSUME Inv, UNCHANGED <<job, ledgerVars>>
  PROVE  CallsBringCarts' /\ OrdersAreOfCalls' /\ LinesOfPlaced' /\ AnswersArePlaced'
<1> USE DEF Inv, ledgerVars
<1>1. CallsBringCarts' /\ OrdersAreOfCalls' /\ AnswersArePlaced'
  BY DEF CallsBringCarts, OrdersAreOfCalls, AnswersArePlaced
<1>2. LinesOfPlaced'
  BY DEF LinesOfPlaced, LinesOf, Placed
<1> QED
  BY <1>1, <1>2

\* The steps of a shopper: to send, to hear, to give up.
LEMMA ShopperKeepsInv ==
  ASSUME Inv, NEW s \in Shoppers, ShopperStep(s) \/ HangUp(s)
  PROVE  Inv'
<1>1. UNCHANGED <<job, step, ledgerVars, next, wire, catalog>>
  BY DEF ShopperStep, Send, ReceiveOrder, ReceiveError, HangUp, orderVars, gatewayVars
<1>2. CASE Send(s)
  <2> USE <1>2 DEF Inv, Send, GatewayGoes
  <2>1. tries[s] \in Nat /\ tries[s] + 1 \in 1..MaxTries
    BY CheckoutAssumption DEF TypeOK
  <2>2. TypeOK'
    <3>1. tries' \in [Shoppers -> 0..MaxTries]
      BY <2>1 DEF TypeOK
    <3>2. gateway' \in [Attempts -> {"idle", "fetching", "posting", "ok", "error"}]
      BY DEF TypeOK
    <3> QED
      BY <1>1, <3>1, <3>2 DEF TypeOK, ledgerVars
  <2>3. RepliesAreOwn'
    BY <1>1, <2>1 DEF RepliesAreOwn, ledgerVars, TypeOK
  <2>4. ShoppersKnow'
    BY <1>1, <2>1 DEF ShoppersKnow, ledgerVars, TypeOK
  <2>5. HandlersServe' /\ PutOrderIsLast'
    BY <1>1 DEF HandlersServe, PutOrderIsLast, ledgerVars
  <2> QED
    BY <1>1, <2>2, <2>3, <2>4, <2>5, LedgerAlone
<1>3. CASE ReceiveOrder(s)
  <2> USE <1>3 DEF Inv, ReceiveOrder
  <2> DEFINE a == Current(s)
             d == wire[a]
  <2>1. a \in Attempts /\ a[1] = s
    BY CheckoutAssumption DEF ShoppersKnow, TypeOK, Current, Attempts
  <2>2. d \in Calls /\ job[d] = a /\ status[d] = "ok"
    BY <2>1 DEF RepliesAreOwn, TypeOK
  <2>3. ledger[key[d]] # NoOrder /\ answer[d] = ledger[key[d]] /\ key[d] = KeyOf(a)
    BY <2>2 DEF AnswersArePlaced, CallsBringCarts
  <2>4. TypeOK'
    BY <1>1, <2>2 DEF TypeOK, ledgerVars, gatewayVars
  <2>5. RepliesAreOwn'
    BY <1>1 DEF RepliesAreOwn, ledgerVars, gatewayVars
  <2>6. ShoppersKnow'
    BY <1>1, <2>1, <2>2, <2>3 DEF ShoppersKnow, KeyOf, ledgerVars, TypeOK
  <2>7. HandlersServe' /\ PutOrderIsLast'
    BY <1>1 DEF HandlersServe, PutOrderIsLast, ledgerVars
  <2> QED
    BY <1>1, <2>4, <2>5, <2>6, <2>7, LedgerAlone
<1>4. CASE ReceiveError(s) \/ HangUp(s)
  <2> USE <1>4 DEF Inv, ReceiveError, HangUp, Fault
  <2>1. faults' \in 0..MaxFaults
    BY CheckoutAssumption DEF TypeOK
  <2>2. TypeOK'
    BY <1>1, <2>1 DEF TypeOK, ledgerVars, gatewayVars
  <2>3. RepliesAreOwn'
    BY <1>1 DEF RepliesAreOwn, ledgerVars, gatewayVars
  <2>4. ShoppersKnow'
    BY <1>1 DEF ShoppersKnow, ledgerVars
  <2>5. HandlersServe' /\ PutOrderIsLast'
    BY <1>1 DEF HandlersServe, PutOrderIsLast, ledgerVars
  <2> QED
    BY <1>1, <2>2, <2>3, <2>4, <2>5, LedgerAlone
<1> QED
  BY <1>2, <1>3, <1>4 DEF ShopperStep

\* The steps of the resolver of an attempt, other than to be delivered.
LEMMA GatewayKeepsInv ==
  ASSUME Inv, NEW a \in Attempts,
         \/ FetchProduct(a) \/ RejectProduct(a) \/ PostOrder(a)
         \/ StreamBreaks(a) \/ Unavailable(a) \/ GatewayFails(a)
  PROVE  Inv'
<1> USE DEF Inv
<1>1. UNCHANGED <<job, step, ledgerVars, tries, waiting, told, catalog>>
  BY DEF FetchProduct, RejectProduct, PostOrder, StreamBreaks, Unavailable, GatewayFails,
         orderVars, shopVars
<1>2. gateway' \in [Attempts -> {"idle", "fetching", "posting", "ok", "error"}]
  BY DEF FetchProduct, RejectProduct, PostOrder, StreamBreaks, Unavailable, GatewayFails,
         GatewayGoes, TypeOK
<1>3. faults' \in 0..MaxFaults
  BY CheckoutAssumption
     DEF FetchProduct, RejectProduct, PostOrder, StreamBreaks, Unavailable, GatewayFails,
         Fault, TypeOK
<1>4. \A b \in Attempts : next'[b] \in 1..(Len(AskedBy(b)) + 1)
  <2>1. CASE FetchProduct(a)
    <3>1. next[a] <= Len(AskedBy(a)) /\ next' = [next EXCEPT ![a] = @ + 1]
      BY <2>1 DEF FetchProduct
    <3>2. AskedBy(a) \in Seq(Asked)
      BY CheckoutAssumption DEF AskedBy, Attempts
    <3>3. next[a] + 1 \in 1..(Len(AskedBy(a)) + 1)
      BY <3>1, <3>2 DEF TypeOK
    <3> QED
      BY <3>1, <3>3 DEF TypeOK
  <2>2. CASE next' = next
    BY <2>2 DEF TypeOK
  <2> QED
    BY <2>1, <2>2 DEF RejectProduct, PostOrder, StreamBreaks, Unavailable, GatewayFails
<1>5. /\ wire' \in [Attempts -> Calls \cup {None}]
      /\ \A b \in Attempts : wire'[b] = wire[b] \/ (wire'[b] = None /\ gateway[b] = "posting")
      /\ \A b \in Attempts : gateway'[b] = gateway[b] \/ gateway'[b] # "ok"
      /\ wire' = wire \/ gateway' = gateway
  BY DEF FetchProduct, RejectProduct, PostOrder, StreamBreaks, Unavailable, GatewayFails,
         GatewayGoes, TypeOK
<1>6. TypeOK'
  BY <1>1, <1>2, <1>3, <1>4, <1>5 DEF TypeOK, ledgerVars
<1>7. RepliesAreOwn'
  BY <1>1, <1>5 DEF RepliesAreOwn, ledgerVars
<1>8. HandlersServe' /\ PutOrderIsLast' /\ ShoppersKnow'
  BY <1>1 DEF HandlersServe, PutOrderIsLast, ShoppersKnow, ledgerVars
<1> QED
  BY <1>1, <1>6, <1>7, <1>8, LedgerAlone

\* A request reaches the order service: a handler starts for it.
LEMMA DeliverKeepsInv ==
  ASSUME Inv, NEW a \in Attempts, Deliver(a)
  PROVE  Inv'
<1> USE DEF Inv
<1> DEFINE d == CHOOSE c \in Unused : TRUE
<1>1. d \in Calls /\ job[d] = None
  BY DEF Deliver, Unused
<1>2. /\ job' = [job EXCEPT ![d] = a]
      /\ wire' = [wire EXCEPT ![a] = d]
      /\ step' = [step EXCEPT ![d] = "account"]
      /\ gateway[a] = "posting"
      /\ UNCHANGED <<gateway, next, tries, waiting, told, catalog, faults, ledgerVars>>
  BY DEF Deliver, HandlerGoes, shopVars
<1> HIDE DEF d
<1>3. status[d] = "idle" /\ step[d] = "idle"
  BY <1>1 DEF HandlersServe, PutOrderIsLast
<1>4. TypeOK'
  BY <1>1, <1>2 DEF TypeOK, ledgerVars
<1>5. HandlersServe' /\ PutOrderIsLast'
  BY <1>1, <1>2, <1>3, CheckoutAssumption DEF HandlersServe, PutOrderIsLast, TypeOK, ledgerVars
<1>6. CallsBringCarts' /\ OrdersAreOfCalls' /\ AnswersArePlaced'
  BY <1>1, <1>2, <1>3
     DEF CallsBringCarts, OrdersAreOfCalls, AnswersArePlaced, TypeOK, ledgerVars
<1>7. LinesOfPlaced'
  BY <1>2 DEF LinesOfPlaced, LinesOf, Placed, ledgerVars
<1>8. RepliesAreOwn'
  BY <1>1, <1>2, CheckoutAssumption DEF RepliesAreOwn, TypeOK, ledgerVars
<1>9. ShoppersKnow'
  BY <1>2 DEF ShoppersKnow, ledgerVars
<1> QED
  BY <1>4, <1>5, <1>6, <1>7, <1>8, <1>9

\* The catalog loses what it holds.
LEMMA CatalogKeepsInv ==
  ASSUME Inv, CatalogVanishes
  PROVE  Inv'
<1> USE DEF Inv
<1>1. catalog' = EmptyCatalog
  BY DEF CatalogVanishes
<1>2. UNCHANGED <<job, step, ledgerVars, tries, waiting, told, gateway, next, wire, faults>>
  BY DEF CatalogVanishes, orderVars, shopVars, gatewayVars
<1>3. TypeOK'
  BY <1>1, <1>2 DEF TypeOK, ledgerVars
<1>4. HandlersServe' /\ PutOrderIsLast' /\ RepliesAreOwn' /\ ShoppersKnow'
  BY <1>2 DEF HandlersServe, PutOrderIsLast, RepliesAreOwn, ShoppersKnow, ledgerVars
<1> QED
  BY <1>2, <1>3, <1>4, LedgerAlone

\* The handler up to its call of PutOrder and after it: it moves on, and may
\* answer the gateway.
LEMMA HandlerKeepsInv ==
  ASSUME Inv, NEW d \in Calls,
         \/ GetAccount(d) \/ ProductsNotFound(d) \/ LookupFails(d)
         \/ Reply(d) \/ ReplyError(d)
  PROVE  Inv'
<1> USE DEF Inv
<1>1. UNCHANGED <<job, ledgerVars, tries, waiting, told, next, wire, catalog>>
  BY DEF GetAccount, ProductsNotFound, LookupFails, Reply, ReplyError, shopVars, gatewayVars
<1>2. step[d] # "idle" /\ job[d] \in Attempts
  BY DEF GetAccount, ProductsNotFound, LookupFails, Reply, ReplyError, HandlersServe, TypeOK
<1>3. PICK h \in {"products", "failed", "done"} :
        /\ step' = [step EXCEPT ![d] = h]
        /\ h = "products" => status[d] = "idle"
  <2>1. step[d] = "account" => status[d] = "idle"
    BY DEF PutOrderIsLast
  <2> QED
    BY <2>1 DEF GetAccount, ProductsNotFound, LookupFails, Reply, ReplyError, HandlerGoes
<1>4. faults' \in 0..MaxFaults
  BY CheckoutAssumption
     DEF GetAccount, ProductsNotFound, LookupFails, Reply, ReplyError, Fault, TypeOK
<1>5. /\ gateway' \in [Attempts -> {"idle", "fetching", "posting", "ok", "error"}]
      /\ \A b \in Attempts :
           \/ gateway'[b] = gateway[b]
           \/ gateway'[b] = "error"
           \/ wire[b] = d /\ status[d] = "ok"
  <2>1. CASE UNCHANGED gateway
    BY <2>1 DEF TypeOK
  <2>2. CASE Reply(d) /\ Listening(d)
    <3>1. gateway' = [gateway EXCEPT ![job[d]] = "ok"] /\ wire[job[d]] = d /\ status[d] = "ok"
      BY <2>2 DEF Reply, Listening, GatewayGoes
    <3> QED
      BY <1>2, <3>1 DEF TypeOK
  <2>3. CASE ReplyError(d) /\ Listening(d)
    <3>1. gateway' = [gateway EXCEPT ![job[d]] = "error"]
      BY <2>3 DEF ReplyError, GatewayGoes
    <3> QED
      BY <1>2, <3>1 DEF TypeOK
  <2> QED
    BY <2>1, <2>2, <2>3
       DEF GetAccount, ProductsNotFound, LookupFails, Reply, ReplyError, gatewayVars
<1>6. TypeOK'
  BY <1>1, <1>3, <1>4, <1>5 DEF TypeOK, ledgerVars
<1>7. HandlersServe' /\ PutOrderIsLast'
  BY <1>1, <1>2, <1>3 DEF HandlersServe, PutOrderIsLast, TypeOK, ledgerVars
<1>8. RepliesAreOwn'
  BY <1>1, <1>5, CheckoutAssumption DEF RepliesAreOwn, ledgerVars
<1>9. ShoppersKnow'
  BY <1>1 DEF ShoppersKnow, ledgerVars
<1> QED
  BY <1>1, <1>6, <1>7, <1>8, <1>9, LedgerAlone

\* The handler calls PutOrder with the order that its cart comes to.
LEMMA PutKeepsInv ==
  ASSUME Inv, NEW d \in Calls, PutAssembled(d)
  PROVE  Inv'
<1> USE DEF Inv
<1>1. step[d] = "products" /\ status[d] = "idle" /\ job[d] \in Attempts
  BY DEF PutAssembled, PutOrderIsLast, HandlersServe, TypeOK
<1>2. PICK s \in Shoppers, c \in {Price, EmptyCatalog} :
        /\ s = job[d][1]
        /\ req' = [req EXCEPT ![d] = Comes[s][c]]
        /\ DOMAIN req = Calls
  BY <1>1 DEF CallsBringCarts, PutAssembled, Ledger!Call, TypeOK, Attempts
<1>3. /\ step' = [step EXCEPT ![d] = "put"]
      /\ key' = [key EXCEPT ![d] = KeyOf(job[d])]
      /\ status' = [status EXCEPT ![d] = "pending"]
      /\ UNCHANGED <<ledger, lines, answer, job, tries, waiting, told, gateway, next, wire,
                     catalog, faults>>
  BY DEF PutAssembled, Ledger!Call, HandlerGoes, shopVars, gatewayVars
<1>4. KeyOf(job[d]) \in Keys
  BY <1>1, KeyOfType
<1>5. TypeOK'
  BY <1>3, <1>4 DEF TypeOK
<1>6. HandlersServe' /\ PutOrderIsLast'
  BY <1>1, <1>3, CheckoutAssumption DEF HandlersServe, PutOrderIsLast, TypeOK
<1>7. \A e \in Calls : e # d =>
        key'[e] = key[e] /\ req'[e] = req[e] /\ status'[e] = status[e]
  BY <1>2, <1>3 DEF TypeOK
<1>8. CallsBringCarts'
  <2>1. status'[d] # "idle" => /\ job'[d] \in Attempts
                               /\ key'[d] = KeyOf(job'[d])
                               /\ req'[d] = Comes[job'[d][1]][c]
    BY <1>1, <1>2, <1>3 DEF TypeOK
  <2> QED
    BY <1>2, <1>3, <1>7, <2>1 DEF CallsBringCarts, KeyOf
<1>9. OrdersAreOfCalls'
  BY <1>1, <1>3, <1>7 DEF OrdersAreOfCalls
<1>10. LinesOfPlaced'
  <2>1. d \notin Placed
    BY <1>1 DEF Placed, OrdersAreOfCalls
  <2>2. Placed' = Placed /\ \A e \in Calls : LinesOf(e)' = LinesOf(e)
    BY <1>3 DEF Placed, LinesOf
  <2> QED
    BY <1>7, <2>1, <2>2 DEF LinesOfPlaced, Lines
<1>11. AnswersArePlaced'
  BY <1>3, <1>7 DEF AnswersArePlaced, TypeOK
<1>12. RepliesAreOwn' /\ ShoppersKnow'
  BY <1>1, <1>3, <1>7 DEF RepliesAreOwn, ShoppersKnow, TypeOK
<1> QED
  BY <1>5, <1>6, <1>8, <1>9, <1>10, <1>11, <1>12

\* The two modules build rows and lines alike.
LEMMA SameData ==
  ASSUME NEW c, NEW k, NEW r
  PROVE  /\ Ledger!HeaderOf(Ledger!Row(c, k, r)) = HeaderOf(Row(c, k, r))
         /\ Ledger!Lines(c, r) = Lines(c, r)
         /\ Ledger!Copyable(r.products) = Copyable(r.products)
BY DEF Ledger!HeaderOf, Ledger!Row, Ledger!Money, Ledger!Lines,
       Ledger!Copyable, HeaderOf, Row, Money, Lines, Copyable

\* The order of a call becomes durable, whole: under a key that had none, with
\* a header and lines of the right types.
LEMMA PlaceStep ==
  ASSUME Inv, NEW d \in Calls, Place(d)
  PROVE  /\ status[d] # "idle" /\ job[d] \in Attempts
         /\ key[d] \in Keys /\ key[d] = KeyOf(job[d])
         /\ ledger[key[d]] = NoOrder
         /\ Copyable(req[d].products)
         /\ ledger' = [ledger EXCEPT ![key[d]] = HeaderOf(Row(d, key[d], req[d]))]
         /\ HeaderOf(Row(d, key[d], req[d])) \in Header
         /\ HeaderOf(Row(d, key[d], req[d])) # NoOrder
         /\ HeaderOf(Row(d, key[d], req[d])).id = d
         /\ lines' = lines \cup Lines(d, req[d])
         /\ Lines(d, req[d]) \subseteq LineRow
         /\ \A l \in Lines(d, req[d]) : l.order = d
         /\ d \notin Placed
         /\ UNCHANGED <<key, req, status, answer, job, step, tries, waiting, told,
                        gateway, next, wire, catalog, faults>>
<1> USE DEF Inv
<1>1. /\ status[d] \in {"pending", "failed"}
      /\ ledger[key[d]] = NoOrder
      /\ Copyable(req[d].products)
      /\ ledger' = [ledger EXCEPT ![key[d]] = HeaderOf(Row(d, key[d], req[d]))]
      /\ lines' = lines \cup Lines(d, req[d])
      /\ UNCHANGED <<key, req, status, answer>>
  BY SameData DEF Place, Ledger!Place
<1>2. PICK c \in {Price, EmptyCatalog} :
        /\ job[d] \in Attempts
        /\ key[d] = KeyOf(job[d])
        /\ req[d] = Comes[job[d][1]][c]
  BY <1>1 DEF CallsBringCarts
<1>3. job[d][1] \in Shoppers /\ key[d] \in Keys
  BY <1>2, KeyOfType DEF Attempts
<1>4. /\ HeaderOf(Row(d, key[d], req[d])) \in Header
      /\ Lines(d, req[d]) \subseteq LineRow
      /\ \A l \in Lines(d, req[d]) : l.order = d
  BY <1>1, <1>2, <1>3, CopiedRow
<1>5. HeaderOf(Row(d, key[d], req[d])) # NoOrder /\ HeaderOf(Row(d, key[d], req[d])).id = d
  BY <1>4, OrderDataAssumption DEF Header, HeaderOf, Row
<1>6. d \notin Placed
  BY <1>1 DEF Placed, OrdersAreOfCalls
<1>7. UNCHANGED <<job, step, tries, waiting, told, gateway, next, wire, catalog, faults>>
  BY DEF Place, shopVars, gatewayVars, orderVars
<1> QED
  BY <1>1, <1>2, <1>3, <1>4, <1>5, <1>6, <1>7

\* The order of a call becomes durable.
LEMMA PlaceKeepsInv ==
  ASSUME Inv, NEW d \in Calls, Place(d)
  PROVE  Inv'
<1> DEFINE h == HeaderOf(Row(d, key[d], req[d]))
<1> USE DEF Inv
<1>1. /\ status[d] # "idle" /\ job[d] \in Attempts
      /\ key[d] \in Keys /\ key[d] = KeyOf(job[d])
      /\ ledger[key[d]] = NoOrder
      /\ Copyable(req[d].products)
      /\ ledger' = [ledger EXCEPT ![key[d]] = h]
      /\ h \in Header /\ h # NoOrder /\ h.id = d
      /\ lines' = lines \cup Lines(d, req[d])
      /\ Lines(d, req[d]) \subseteq LineRow
      /\ \A l \in Lines(d, req[d]) : l.order = d
      /\ d \notin Placed
      /\ UNCHANGED <<key, req, status, answer, job, step, tries, waiting, told,
                     gateway, next, wire, catalog, faults>>
  BY PlaceStep
<1>2. TypeOK'
  <2> HIDE DEF h
  <2> QED
    BY <1>1 DEF TypeOK
<1>3. HandlersServe' /\ PutOrderIsLast' /\ CallsBringCarts' /\ RepliesAreOwn'
  BY <1>1 DEF HandlersServe, PutOrderIsLast, CallsBringCarts, RepliesAreOwn
<1>4. \A k \in Keys : ledger'[k] = IF k = key[d] THEN h ELSE ledger[k]
  BY <1>1 DEF TypeOK
<1>5. OrdersAreOfCalls'
  <2> HIDE DEF h
  <2>1. ASSUME NEW k \in Keys, k # key[d], ledger'[k] # NoOrder
        PROVE  /\ ledger'[k] = ledger[k]
               /\ ledger[k].id \in Calls
               /\ status[ledger[k].id] # "idle"
               /\ key[ledger[k].id] = k
               /\ ledger[k] = HeaderOf(Row(ledger[k].id, k, req[ledger[k].id]))
               /\ Copyable(req[ledger[k].id].products)
    BY <1>4, <2>1 DEF OrdersAreOfCalls
  <2>2. ASSUME NEW k \in Keys, ledger'[k] # NoOrder
        PROVE  LET e == ledger'[k].id
               IN  /\ e \in Calls /\ status[e] # "idle" /\ key[e] = k
                   /\ ledger'[k] = HeaderOf(Row(e, k, req[e]))
                   /\ Copyable(req[e].products)
    <3>1. CASE k = key[d]
      BY <1>1, <1>4, <3>1 DEF h
    <3>2. CASE k # key[d]
      BY <2>1, <2>2, <3>2
    <3> QED
      BY <3>1, <3>2
  <2>3. \A e, k : HeaderOf(Row(e, k, req[e]))' = HeaderOf(Row(e, k, req[e]))
    BY <1>1 DEF HeaderOf, Row
  <2>4. \A e : Copyable(req[e].products)' = Copyable(req[e].products)
    BY <1>1 DEF Copyable
  <2> QED
    BY <1>1, <2>2, <2>3, <2>4 DEF OrdersAreOfCalls
<1>6. Placed' = Placed \cup {d}
  <2> HIDE DEF h
  <2> QED
    BY <1>1, <1>4 DEF Placed
<1>7. LinesOfPlaced'
  <2>1. LinesOf(d)' = Lines(d, req[d])
    BY <1>1 DEF LinesOfPlaced, LinesOf
  <2>2. \A e \in Calls : e # d => LinesOf(e)' = LinesOf(e)
    BY <1>1 DEF LinesOf
  <2>3. \A e \in Calls : Lines(e, req[e])' = Lines(e, req[e])
    BY <1>1 DEF Lines
  <2> QED
    BY <1>6, <2>1, <2>2, <2>3 DEF LinesOfPlaced
<1>8. AnswersArePlaced'
  <2> HIDE DEF h
  <2>1. \A e \in Calls : status[e] = "ok" => key[e] \in Keys
    BY KeyOfType DEF CallsBringCarts
  <2> QED
    BY <1>1, <1>4, <2>1 DEF AnswersArePlaced
<1>9. ShoppersKnow'
  <2> HIDE DEF h
  <2>1. \A s \in Shoppers : SuppliedKey[s] # NoKey => SuppliedKey[s] \in Keys
    BY CheckoutAssumption
  <2> QED
    BY <1>1, <1>4, <2>1 DEF ShoppersKnow
<1> QED
  BY <1>2, <1>3, <1>5, <1>7, <1>8, <1>9

\* A call ends: with the order under its key, or with an error.  Its handler
\* goes on, to fail or to die, and the stream of a dead one breaks.
LEMMA EndKeepsInv ==
  ASSUME Inv, NEW d \in Calls, Answer(d) \/ PutFails(d) \/ HandlerDies(d)
  PROVE  Inv'
<1> USE DEF Inv
<1>1. UNCHANGED <<key, req, ledger, lines, job, tries, waiting, told, gateway, next, catalog>>
  BY DEF Answer, PutFails, HandlerDies, Ledger!Answer, Ledger!Fail, ledgerVars,
         shopVars, gatewayVars, orderVars
<1>2. step[d] \in {"account", "products", "put"} /\ job[d] \in Attempts
  <2>1. step[d] \in {"account", "products", "put"}
    BY DEF Answer, PutFails, HandlerDies
  <2> QED
    BY <2>1 DEF HandlersServe, TypeOK
<1>3. faults' \in 0..MaxFaults
  BY CheckoutAssumption DEF Answer, PutFails, HandlerDies, Fault, TypeOK
<1>4. PICK h \in {"put", "failed", "done"}, t \in {"idle", "ok", "failed"} :
        /\ step' = [step EXCEPT ![d] = h]
        /\ status' = [status EXCEPT ![d] = t]
        /\ t = "idle" => status[d] = "idle"
        /\ h = "put" => t = "ok"
        /\ status[d] = "ok" => t = "ok"
  <2>1. step = [step EXCEPT ![d] = step[d]]
    BY DEF TypeOK
  <2>2. status = [status EXCEPT ![d] = status[d]]
    BY DEF TypeOK
  <2>3. CASE Answer(d)
    BY <2>1, <2>3 DEF Answer, Ledger!Answer, orderVars
  <2>4. CASE PutFails(d)
    BY <2>4 DEF PutFails, Ledger!Fail, HandlerGoes
  <2>5. CASE HandlerDies(d)
    BY <2>2, <2>5 DEF HandlerDies, Ledger!Fail, HandlerGoes, ledgerVars, TypeOK
  <2> QED
    BY <2>3, <2>4, <2>5
<1>5. /\ \A e \in Calls : e # d => answer'[e] = answer[e]
      /\ answer' \in [Calls -> Header \cup {NoOrder}]
      /\ status'[d] = "ok" =>
           ledger[key[d]] # NoOrder /\ answer'[d] = ledger[key[d]]
  <2>1. CASE Answer(d)
    <3>1. ledger[key[d]] # NoOrder /\ answer' = [answer EXCEPT ![d] = ledger[key[d]]]
      BY <2>1 DEF Answer, Ledger!Answer
    <3>2. key[d] \in Keys
      BY <2>1, KeyOfType DEF Answer, Ledger!Answer, CallsBringCarts
    <3> QED
      BY <3>1, <3>2 DEF TypeOK
  <2>2. CASE PutFails(d) \/ HandlerDies(d)
    <3>1. answer' = answer /\ (status'[d] = "ok" => status[d] = "ok")
      BY <2>2 DEF PutFails, HandlerDies, Ledger!Fail, ledgerVars, TypeOK
    <3> QED
      BY <3>1 DEF AnswersArePlaced, TypeOK
  <2> QED
    BY <2>1, <2>2
<1>6. /\ wire' \in [Attempts -> Calls \cup {None}]
      /\ \A a \in Attempts :
           wire'[a] = wire[a] \/ (wire'[a] = None /\ gateway[a] # "ok")
  <2>1. CASE UNCHANGED wire
    BY <2>1 DEF TypeOK
  <2>2. CASE Listening(d) /\ wire' = [wire EXCEPT ![job[d]] = None]
    BY <1>2, <2>2 DEF TypeOK, Listening
  <2> QED
    BY <2>1, <2>2 DEF Answer, PutFails, HandlerDies, gatewayVars
<1>7. TypeOK'
  BY <1>1, <1>3, <1>4, <1>5, <1>6 DEF TypeOK
<1>8. HandlersServe' /\ PutOrderIsLast'
  BY <1>1, <1>2, <1>4 DEF HandlersServe, PutOrderIsLast, TypeOK
<1>9. \A e \in Calls :
        /\ status'[e] = "idle" <=> status[e] = "idle"
        /\ status[e] = "ok" => status'[e] = "ok"
        /\ e # d => status'[e] = status[e]
  <2>1. Answer(d) \/ PutFails(d) => status[d] # "idle"
    BY DEF Answer, PutFails, Ledger!Answer, Ledger!Fail
  <2>2. HandlerDies(d) /\ status[d] = "idle" => status' = status
    BY DEF HandlerDies, ledgerVars
  <2> QED
    BY <1>4, <2>1, <2>2 DEF TypeOK
<1>10. CallsBringCarts' /\ OrdersAreOfCalls'
  BY <1>1, <1>9 DEF CallsBringCarts, OrdersAreOfCalls
<1>11. LinesOfPlaced'
  BY <1>1 DEF LinesOfPlaced, LinesOf, Placed
<1>12. AnswersArePlaced'
  BY <1>1, <1>5, <1>9 DEF AnswersArePlaced
<1>13. RepliesAreOwn'
  BY <1>1, <1>6, <1>9, CheckoutAssumption DEF RepliesAreOwn, TypeOK
<1>14. ShoppersKnow'
  BY <1>1 DEF ShoppersKnow
<1> QED
  BY <1>7, <1>8, <1>10, <1>11, <1>12, <1>13, <1>14

\* Nothing moves, nothing changes.
LEMMA StutterKeepsInv ==
  ASSUME Inv, UNCHANGED vars
  PROVE  Inv'
<1> USE DEF Inv, vars, shopVars, gatewayVars, orderVars, ledgerVars
<1>1. TypeOK' /\ HandlersServe' /\ PutOrderIsLast' /\ RepliesAreOwn' /\ ShoppersKnow'
  BY DEF TypeOK, HandlersServe, PutOrderIsLast, RepliesAreOwn, ShoppersKnow
<1> QED
  BY <1>1, LedgerAlone

\* The invariant holds in every reachable state.
THEOREM Invariance == Spec => []Inv
<1>1. Inv /\ [Next]_vars => Inv'
  <2> SUFFICES ASSUME Inv, [Next]_vars
               PROVE  Inv'
    OBVIOUS
  <2>1. ASSUME NEW s \in Shoppers, ShopperStep(s) \/ HangUp(s)
        PROVE  Inv'
    BY <2>1, ShopperKeepsInv
  <2>2. ASSUME NEW a \in Attempts, GatewayStep(a) \/ StreamBreaks(a) \/ GatewayFails(a)
        PROVE  Inv'
    BY <2>2, GatewayKeepsInv, DeliverKeepsInv DEF GatewayStep
  <2>3. ASSUME NEW d \in Calls,
               OrderStep(d) \/ StoreStep(d) \/ LookupFails(d) \/ PutFails(d) \/ HandlerDies(d)
        PROVE  Inv'
    BY <2>3, HandlerKeepsInv, PutKeepsInv, PlaceKeepsInv, EndKeepsInv DEF OrderStep, StoreStep
  <2> QED
    BY <2>1, <2>2, <2>3, CatalogKeepsInv, StutterKeepsInv DEF Next
<1> QED
  BY InvInitially, <1>1, PTL DEF Spec

\* Every variable keeps its type.
THEOREM TypeCorrect == Spec => []TypeOK
<1>1. Inv => TypeOK
  BY DEF Inv
<1> QED
  BY Invariance, <1>1, PTL

-----------------------------------------------------------------------------
(* What is durable *)

\* A placed order is in the ledger under the key its call brought, and nowhere
\* else; it is the order its shopper's cart comes to, for the account it named.
LEMMA PlacedFacts ==
  ASSUME Inv, NEW d \in Placed
  PROVE  /\ d \in Calls /\ job[d] \in Attempts /\ job[d][1] \in Shoppers
         /\ key[d] \in Keys /\ key[d] = KeyOf(job[d])
         /\ ledger[key[d]] # NoOrder
         /\ ledger[key[d]].id = d
         /\ ledger[key[d]].account = Cart[job[d][1]].account
         /\ Copyable(req[d].products)
         /\ \E c \in {Price, EmptyCatalog} :
              /\ req[d] = Comes[job[d][1]][c]
              /\ ledger[key[d]].total = Money(Comes[job[d][1]][c].total)
<1> USE DEF Inv
<1>1. PICK k \in Keys : ledger[k] # NoOrder /\ ledger[k].id = d
  BY DEF Placed
<1>2. /\ d \in Calls /\ status[d] # "idle" /\ key[d] = k
      /\ ledger[k] = HeaderOf(Row(d, k, req[d]))
      /\ Copyable(req[d].products)
  BY <1>1 DEF OrdersAreOfCalls
<1>3. PICK c \in {Price, EmptyCatalog} :
        /\ job[d] \in Attempts /\ key[d] = KeyOf(job[d])
        /\ req[d] = Comes[job[d][1]][c]
  BY <1>2 DEF CallsBringCarts
<1>4. job[d][1] \in Shoppers
  BY <1>3 DEF Attempts
<1>5. ledger[k] = [id |-> d, account |-> Cart[job[d][1]].account,
                   total |-> Money(Comes[job[d][1]][c].total)]
  <2> DEFINE s == job[d][1]
  <2>1. /\ Copyable(Comes[s][c].products)
        /\ ledger[k] = HeaderOf(Row(d, k, Comes[s][c]))
    BY <1>2, <1>3
  <2> HIDE DEF s
  <2>2. s \in Shoppers
    BY <1>4 DEF s
  <2>3. HeaderOf(Row(d, k, Comes[s][c])) =
          [id |-> d, account |-> Cart[s].account, total |-> Money(Comes[s][c].total)]
    <3>1. Comes[s][c].account = Cart[s].account
      BY <2>2, ComesType
    <3> QED
      BY <3>1 DEF HeaderOf, Row
  <2> QED
    BY <2>1, <2>3 DEF s
<1> QED
  BY <1>1, <1>2, <1>3, <1>4, <1>5

\* No retry, of a shopper or of the transport, places a second order.
THEOREM NoSecondOrder == Spec => []PlacedOnce
<1>1. Inv => PlacedOnce
  <2> SUFFICES ASSUME Inv, NEW d \in Placed, NEW e \in Placed,
                      job[d][1] = job[e][1],
                      SuppliedKey[job[d][1]] # NoKey \/ job[d] = job[e]
               PROVE  d = e
    BY DEF PlacedOnce
  <2>1. /\ key[d] = KeyOf(job[d]) /\ ledger[key[d]].id = d
        /\ key[e] = KeyOf(job[e]) /\ ledger[key[e]].id = e
    BY PlacedFacts
  <2>2. KeyOf(job[d]) = KeyOf(job[e])
    BY DEF KeyOf
  <2> QED
    BY <2>1, <2>2
<1> QED
  BY Invariance, <1>1, PTL

\* The total of a durable order is the sum over its durable lines.
THEOREM TotalsCorrect == Spec => []TotalsAreSums
<1>1. Inv => TotalsAreSums
  <2> SUFFICES ASSUME Inv, NEW d \in Placed
               PROVE  ledger[key[d]].total = Money(SumOfLines(LinesOf(d)))
    BY DEF TotalsAreSums
  <2>1. /\ d \in Calls /\ job[d][1] \in Shoppers
        /\ Copyable(req[d].products)
    BY PlacedFacts
  <2>2. PICK c \in {Price, EmptyCatalog} :
          /\ req[d] = Comes[job[d][1]][c]
          /\ ledger[key[d]].total = Money(Comes[job[d][1]][c].total)
    BY PlacedFacts
  <2>3. /\ req[d].total = TotalPrice(Price, req[d].products)
        /\ req[d].products \in Seq([id : DOMAIN Price, quantity : Nat])
    <3> DEFINE s == job[d][1]
               R == Range(Basket(Cart[s].asked)) \cap [id : DOMAIN Price, quantity : Nat \ {0}]
               Q == [id : DOMAIN Price, quantity : Nat]
    <3>1. /\ Comes[s][c].total = TotalPrice(Price, Comes[s][c].products)
          /\ Comes[s][c].products \in Seq(R)
      BY <2>1, ComesType
    <3>2. R \subseteq Q
      OBVIOUS
    <3> SUFFICES req[d].total = TotalPrice(Price, req[d].products) /\ req[d].products \in Seq(Q)
      OBVIOUS
    <3>3. \A X, Y : X \subseteq Y => Seq(X) \subseteq Seq(Y)
      OBVIOUS
    <3> HIDE DEF R, Q
    <3> QED
      BY <2>2, <3>1, <3>2, <3>3
  <2>4. TotalPrice(Price, req[d].products) = SumOfLines(Lines(d, req[d]))
    BY <2>1, <2>3, TotalIsSumOfLines
  <2>5. LinesOf(d) = Lines(d, req[d])
    BY <2>1 DEF Inv, LinesOfPlaced
  <2> QED
    BY <2>2, <2>3, <2>4, <2>5
<1> QED
  BY Invariance, <1>1, PTL

\* A durable line is one the shopper asked for, and not of quantity zero.
THEOREM LinesCorrect == Spec => []LinesWereAsked
<1>1. Inv => LinesWereAsked
  <2> SUFFICES ASSUME Inv, NEW d \in Placed, NEW l \in LinesOf(d)
               PROVE  /\ l.quantity # 0
                      /\ [id |-> l.product, quantity |-> l.quantity] \in Range(Sent(job[d]))
    BY DEF LinesWereAsked
  <2>1. d \in Calls /\ job[d][1] \in Shoppers
    BY PlacedFacts
  <2>2. PICK c \in {Price, EmptyCatalog} : req[d] = Comes[job[d][1]][c]
    BY PlacedFacts
  <2> DEFINE s == job[d][1]
             B == Range(Basket(Cart[s].asked))
             Q == [id : DOMAIN Price, quantity : Nat \ {0}]
  <2>3. req[d].products \in Seq(B \cap Q)
    BY <2>1, <2>2, ComesType
  <2>4. PICK i \in DOMAIN req[d].products :
          l.product = req[d].products[i].id /\ l.quantity = req[d].products[i].quantity
    BY <2>1 DEF Inv, LinesOfPlaced, Lines
  <2>5. req[d].products[i] \in B \cap Q
    <3> HIDE DEF B, Q
    <3> QED
      BY <2>3, <2>4
  <2>6. l.quantity # 0 /\ [id |-> l.product, quantity |-> l.quantity] = req[d].products[i]
    BY <2>4, <2>5
  <2>7. B = Range(Sent(job[d]))
    BY DEF Sent, AskedBy
  <2> HIDE DEF B, Q
  <2> QED
    BY <2>5, <2>6, <2>7
<1> QED
  BY Invariance, <1>1, PTL

-----------------------------------------------------------------------------
(* The repository by its promise *)

\* Whatever shoppers, gateway and order service do, the repository sees calls
\* of PutOrder as OrderLedger has them: what OrderStore implements is what
\* Checkout builds on.
THEOREM LedgerAsPromised == Spec => Ledger!LedgerSpec
<1>1. Inv /\ [Next]_vars => [Ledger!LedgerNext]_(Ledger!ledgerVars)
  <2> SUFFICES ASSUME Inv, [Next]_vars
               PROVE  Ledger!LedgerNext \/ UNCHANGED ledgerVars
    BY DEF Ledger!ledgerVars, ledgerVars
  <2>1. ASSUME NEW s \in Shoppers, ShopperStep(s) \/ HangUp(s)
        PROVE  UNCHANGED ledgerVars
    BY <2>1 DEF ShopperStep, Send, ReceiveOrder, ReceiveError, HangUp
  <2>2. ASSUME NEW a \in Attempts, GatewayStep(a) \/ StreamBreaks(a) \/ GatewayFails(a)
        PROVE  UNCHANGED ledgerVars
    BY <2>2 DEF GatewayStep, FetchProduct, RejectProduct, PostOrder, Deliver, Unavailable,
                StreamBreaks, GatewayFails
  <2>3. ASSUME NEW d \in Calls, PutAssembled(d)
        PROVE  Ledger!LedgerNext
    <3>1. job[d] \in Attempts /\ job[d][1] \in Shoppers /\ catalog \in {Price, EmptyCatalog}
      BY <2>3 DEF PutAssembled, Inv, HandlersServe, TypeOK, Attempts
    <3>2. KeyOf(job[d]) \in Keys /\ Comes[job[d][1]][catalog] \in Requests
      BY <3>1, KeyOfType, RequestsAssumption
    <3> QED
      BY <2>3, <3>2 DEF PutAssembled, Ledger!LedgerNext
  <2>4. ASSUME NEW d \in Calls, StoreStep(d) \/ PutFails(d) \/ HandlerDies(d)
        PROVE  Ledger!LedgerNext \/ UNCHANGED ledgerVars
    BY <2>4 DEF StoreStep, Place, Answer, PutFails, HandlerDies, Ledger!LedgerNext
  <2>5. ASSUME NEW d \in Calls,
               \/ GetAccount(d) \/ ProductsNotFound(d) \/ Reply(d) \/ ReplyError(d)
               \/ LookupFails(d)
        PROVE  UNCHANGED ledgerVars
    BY <2>5 DEF GetAccount, ProductsNotFound, Reply, ReplyError, LookupFails
  <2>6. CASE CatalogVanishes \/ UNCHANGED vars
    BY <2>6 DEF CatalogVanishes, vars
  <2> QED
    BY <2>1, <2>2, <2>3, <2>4, <2>5, <2>6 DEF Next, OrderStep
<1>2. Init => Ledger!LedgerInit
  BY DEF Init
<1> QED
  BY Invariance, <1>1, <1>2, PTL DEF Spec, Ledger!LedgerSpec

-----------------------------------------------------------------------------
(* With keys of their own *)

\* No two shoppers supply the same key: where two do, they share the order that
\* the first of them places.
KeysOfTheirOwn ==
  \A s, t \in Shoppers : SuppliedKey[s] = SuppliedKey[t] => s = t \/ SuppliedKey[s] = NoKey

\* Two attempts under one key are of one shopper.
LEMMA OneShopperPerKey ==
  ASSUME KeysOfTheirOwn, NEW a \in Attempts, NEW b \in Attempts, KeyOf(a) = KeyOf(b)
  PROVE  a[1] = b[1]
<1>1. a[1] \in Shoppers /\ b[1] \in Shoppers
  BY DEF Attempts
<1> QED
  BY <1>1, CheckoutAssumption DEF KeysOfTheirOwn, KeyOf

\* An attempt answered with an order has a durable one, of the same shopper.
THEOREM AnswersCorrect == KeysOfTheirOwn /\ Spec => []AnsweredOrderExists
<1> SUFFICES ASSUME KeysOfTheirOwn
             PROVE  Spec => []AnsweredOrderExists
  OBVIOUS
<1>1. Inv => AnsweredOrderExists
  <2> SUFFICES ASSUME Inv, NEW a \in Attempts, gateway[a] = "ok"
               PROVE  \E d \in Placed :
                        /\ job[d][1] = a[1]
                        /\ answer[wire[a]] = ledger[key[d]]
                        /\ answer[wire[a]].id = d
                        /\ answer[wire[a]].account = Cart[a[1]].account
    BY DEF AnsweredOrderExists
  <2> DEFINE e == wire[a]
             d == ledger[key[e]].id
  <2>1. e \in Calls /\ status[e] = "ok" /\ job[e] = a
    BY DEF Inv, RepliesAreOwn, TypeOK
  <2>2. /\ ledger[key[e]] # NoOrder /\ answer[e] = ledger[key[e]]
        /\ key[e] = KeyOf(a) /\ key[e] \in Keys
    BY <2>1, KeyOfType DEF Inv, AnswersArePlaced, CallsBringCarts
  <2>3. d \in Placed /\ key[d] = key[e]
    BY <2>2 DEF Inv, OrdersAreOfCalls, Placed
  <2>4. /\ job[d] \in Attempts /\ key[d] = KeyOf(job[d])
        /\ ledger[key[d]].id = d
        /\ ledger[key[d]].account = Cart[job[d][1]].account
    BY <2>3, PlacedFacts
  <2>5. job[d][1] = a[1]
    <3>1. job[d] \in Attempts /\ KeyOf(job[d]) = KeyOf(a)
      BY <2>2, <2>3, <2>4
    <3> HIDE DEF d
    <3> QED
      BY <3>1, OneShopperPerKey
  <2> QED
    BY <2>2, <2>3, <2>4, <2>5
<1> QED
  BY Invariance, <1>1, PTL

\* The shoppers that supply keys start with nothing.
LEMMA PromiseInitially == Init => Promise!PurchasesInit
BY CheckoutAssumption
   DEF Init, Ledger!LedgerInit, Promise!PurchasesInit, KeyedShoppers

\* What no shopper sees: a step that places nothing and tells nothing.
LEMMA UnseenStep ==
  ASSUME UNCHANGED <<ledger, told>>
  PROVE  UNCHANGED Promise!purchaseVars
BY DEF Promise!purchaseVars

\* An order placed under the key of a shopper is bought by it alone.
LEMMA PlaceIsBuy ==
  ASSUME KeysOfTheirOwn, Inv, NEW d \in Calls, Place(d)
  PROVE  Promise!PurchasesNext \/ UNCHANGED Promise!purchaseVars
<1> DEFINE h == HeaderOf(Row(d, key[d], req[d]))
<1>1. /\ key[d] \in Keys /\ ledger[key[d]] = NoOrder
      /\ ledger' = [ledger EXCEPT ![key[d]] = h]
      /\ h \in Header
      /\ told' = told
  BY PlaceStep
<1>2. \A s \in KeyedShoppers : s \in Shoppers /\ SuppliedKey[s] \in Keys
  BY CheckoutAssumption DEF KeyedShoppers
<1> HIDE DEF h
<1>3. \A s \in KeyedShoppers :
        ledger'[SuppliedKey[s]] = IF SuppliedKey[s] = key[d] THEN h ELSE ledger[SuppliedKey[s]]
  BY <1>1, <1>2 DEF Inv, TypeOK
<1>4. CASE \E s \in KeyedShoppers : SuppliedKey[s] = key[d]
  <2>1. PICK s \in KeyedShoppers : SuppliedKey[s] = key[d]
    BY <1>4
  <2>2. \A t \in KeyedShoppers : SuppliedKey[t] = key[d] => t = s
    BY <1>2, <2>1 DEF KeysOfTheirOwn, KeyedShoppers
  <2>3. Promise!Buy(s)
    BY <1>1, <1>3, <2>1, <2>2 DEF Promise!Buy
  <2> QED
    BY <2>3 DEF Promise!PurchasesNext
<1>5. CASE ~ \E s \in KeyedShoppers : SuppliedKey[s] = key[d]
  <2>1. \A s \in KeyedShoppers : ledger'[SuppliedKey[s]] = ledger[SuppliedKey[s]]
    BY <1>3, <1>5
  <2> QED
    BY <1>1, <2>1 DEF Promise!purchaseVars
<1> QED
  BY <1>4, <1>5

\* A shopper with a key that receives its order hears of the one bought.
LEMMA ReceiveIsTell ==
  ASSUME Inv, NEW s \in Shoppers, ReceiveOrder(s)
  PROVE  Promise!PurchasesNext \/ UNCHANGED Promise!purchaseVars
<1> DEFINE a == Current(s)
           d == wire[a]
<1>1. a \in Attempts /\ a[1] = s /\ told[s] = NoOrder /\ gateway[a] = "ok"
  BY CheckoutAssumption DEF Inv, ShoppersKnow, TypeOK, Current, Attempts, ReceiveOrder
<1>2. d \in Calls /\ job[d] = a /\ status[d] = "ok"
  BY <1>1 DEF Inv, RepliesAreOwn, TypeOK
<1>3. ledger[key[d]] # NoOrder /\ answer[d] = ledger[key[d]] /\ key[d] = KeyOf(a)
  BY <1>2 DEF Inv, AnswersArePlaced, CallsBringCarts
<1>4. told' = [told EXCEPT ![s] = ledger[key[d]]] /\ ledger' = ledger
  BY <1>3 DEF ReceiveOrder, ledgerVars
<1> HIDE DEF a, d
<1>5. CASE s \in KeyedShoppers
  <2>1. key[d] = SuppliedKey[s]
    BY <1>1, <1>3, <1>5 DEF KeyOf, KeyedShoppers
  <2>2. Promise!Tell(s)
    BY <1>1, <1>3, <1>4, <1>5, <2>1 DEF Promise!Tell, Inv, TypeOK, KeyedShoppers
  <2> QED
    BY <1>5, <2>2 DEF Promise!PurchasesNext
<1>6. CASE s \notin KeyedShoppers
  <2>1. \A t \in KeyedShoppers : told'[t] = told[t]
    BY <1>4, <1>6 DEF Inv, TypeOK, KeyedShoppers
  <2> QED
    BY <1>4, <2>1 DEF Promise!purchaseVars
<1> QED
  BY <1>5, <1>6

\* For shoppers with keys of their own, retries, duplicates and failures
\* together look like one purchase.
THEOREM CheckoutImplementsPurchases == KeysOfTheirOwn /\ Spec => ImplementsPurchases
<1> SUFFICES ASSUME KeysOfTheirOwn
             PROVE  Spec => ImplementsPurchases
  OBVIOUS
<1>1. Inv /\ [Next]_vars =>
        [Promise!PurchasesNext]_(Promise!purchaseVars)
  <2> SUFFICES ASSUME Inv, [Next]_vars
               PROVE  Promise!PurchasesNext \/ UNCHANGED Promise!purchaseVars
    OBVIOUS
  <2>1. CASE \E s \in Shoppers : ReceiveOrder(s)
    BY <2>1, ReceiveIsTell
  <2>2. CASE \E d \in Calls : Place(d)
    BY <2>2, PlaceIsBuy
  <2>3. CASE UNCHANGED <<ledger, told>>
    BY <2>3, UnseenStep
  <2>4. ASSUME NEW s \in Shoppers, ShopperStep(s) \/ HangUp(s), ~ReceiveOrder(s)
        PROVE  UNCHANGED <<ledger, told>>
    BY <2>4 DEF ShopperStep, Send, ReceiveError, HangUp, ledgerVars
  <2>5. ASSUME NEW a \in Attempts, GatewayStep(a) \/ StreamBreaks(a) \/ GatewayFails(a)
        PROVE  UNCHANGED <<ledger, told>>
    BY <2>5 DEF GatewayStep, FetchProduct, RejectProduct, PostOrder, Deliver, Unavailable,
                StreamBreaks, GatewayFails, ledgerVars, shopVars
  <2>6. ASSUME NEW d \in Calls, OrderStep(d) \/ LookupFails(d)
        PROVE  UNCHANGED <<ledger, told>>
    BY <2>6 DEF OrderStep, GetAccount, PutAssembled, ProductsNotFound, Reply, ReplyError,
                LookupFails, Ledger!Call, ledgerVars, shopVars
  <2>7. ASSUME NEW d \in Calls, Answer(d) \/ PutFails(d) \/ HandlerDies(d)
        PROVE  UNCHANGED <<ledger, told>>
    BY <2>7 DEF Answer, PutFails, HandlerDies, Ledger!Answer, Ledger!Fail, ledgerVars, shopVars
  <2>8. CASE CatalogVanishes \/ UNCHANGED vars
    BY <2>8, UnseenStep DEF CatalogVanishes, vars, ledgerVars, shopVars
  <2> QED
    BY <2>1, <2>2, <2>3, <2>4, <2>5, <2>6, <2>7, <2>8 DEF Next, StoreStep
<1> QED
  BY Invariance, PromiseInitially, <1>1, PTL
     DEF Spec, ImplementsPurchases, Promise!PurchasesSpec
=============================================================================
