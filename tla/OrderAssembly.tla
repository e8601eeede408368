---------------------------- MODULE OrderAssembly ----------------------------
(***************************************************************************)
(* How a createOrder turns the products a shopper asks for into the lines  *)
(* and the total of an order: the checks and the conversion of the gateway *)
(* (graphql/mutation_resolver.go), the catalog's multi-get, and the        *)
(* matching and pricing of the order service (order/server.go and          *)
(* order/service.go).                                                      *)
(***************************************************************************)
EXTENDS OrderData, FiniteSets, Functions, SequencesExt

CONSTANT UintLimit   \* 2^32: the gateway converts a quantity to uint32

ASSUME OrderAssemblyAssumption == UintLimit \in Nat \ {0}

\* The catalog is a function from the products it holds to their prices, in
\* tenths of a cent.
IsCatalog(f) == DOMAIN f \subseteq Products /\ \A p \in DOMAIN f : f[p] \in Nat

EmptyCatalog == [p \in {} |-> 0]

\* What a shopper asks for: the quantity is an Int of the GraphQL input.
Asked == [id : Products, quantity : Int]

\* The quantities on the wire.
Basket(asked) ==
  [i \in DOMAIN asked |->
     [id |-> asked[i].id, quantity |-> asked[i].quantity % UintLimit]]

\* The members of a sequence that the loop over it appends to its result.
Kept(seq, wanted) ==
  FoldLeft(LAMBDA kept, x : IF x \in wanted THEN Append(kept, x) ELSE kept, <<>>, seq)

\* ListProductsWithIds: the documents found, in the order of the ids.  A
\* document that is missing is skipped, and its error forgotten as soon as a
\* later document is found: the call fails only if the last one is missing.
MultiGet(stock, ids) == Kept(ids, DOMAIN stock)

MultiGetFails(stock, ids) == ids # <<>> /\ Last(ids) \notin DOMAIN stock

\* GetProducts of the catalog: with no ids it lists what it has instead, which
\* fails while it holds nothing, since the first document creates the index.
GetProductsFails(stock, ids) ==
  IF ids = <<>> THEN stock = EmptyCatalog ELSE MultiGetFails(stock, ids)

\* The quantity of the first line of the request for product p.
QuantityOf(basket, p) ==
  basket[CHOOSE i \in DOMAIN basket :
           /\ basket[i].id = p
           /\ \A j \in DOMAIN basket : basket[j].id = p => i <= j].quantity

\* Mutant: lines of quantity 0 are kept.
MatchedWithZeros(basket, docs) ==
  [i \in DOMAIN docs |->
     [id |-> docs[i], quantity |-> QuantityOf(basket, docs[i])]]

\* One line per document, those of quantity 0 dropped.
Matched(basket, docs) ==
  Kept([i \in DOMAIN docs |->
          [id |-> docs[i], quantity |-> QuantityOf(basket, docs[i])]],
       [id : Products, quantity : Nat \ {0}])

\* Mutant: the loop over the products starts one too late.
TotalWithoutFirst(stock, products) ==
  SumFunction([i \in DOMAIN products \ {1} |->
                 stock[products[i].id] * products[i].quantity])

TotalPrice(stock, products) ==
  SumFunction([i \in DOMAIN products |->
                 stock[products[i].id] * products[i].quantity])

\* The order that PostOrder of the order service hands to PutOrder.  (What the
\* catalog lists for a request without products matches none of them.)
Assembled(account, basket, stock) ==
  LET ids   == [i \in DOMAIN basket |-> basket[i].id]
      found == Matched(basket, MultiGet(stock, ids))
  IN  [account |-> account, total |-> TotalPrice(stock, found), products |-> found]
=============================================================================
