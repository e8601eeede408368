------------------------------ MODULE Checkout -------------------------------
(***************************************************************************)
(* Placing an order end to end: shoppers that retry createOrder, the       *)
(* GraphQL gateway (graphql/mutation_resolver.go), the wire between it and *)
(* the order service, the order service (order/server.go), and the order   *)
(* repository, of which only the promise OrderLedger is used here.         *)
(*                                                                         *)
(* An attempt <<s, n>> is the n-th createOrder of shopper s.  A delivery,  *)
(* a member of Calls, is one run of the handler PostOrder of the order     *)
(* service; it makes at most one call of PutOrder, of the same name.       *)
(***************************************************************************)
EXTENDS OrderAssembly, FiniteSetsExt

CONSTANTS
  Shoppers,
  Direct,           \* shoppers that call the order service, not the gateway
  Cart,             \* what each shopper asks for
  SuppliedKey,      \* the idempotency key it supplies, or NoKey
  KnownAccounts,    \* the accounts that exist
  Price,            \* the catalog at first: a price for each product it has
  MaxTries,         \* bound: createOrder requests of one shopper
  MaxDeliveries,    \* bound: deliveries of one attempt
  MaxFaults,        \* bound: failures of all kinds
  CatalogMayVanish, \* whether the catalog may lose its products
  None

Attempts == Shoppers \X (1..MaxTries)

ASSUME CheckoutAssumption ==
  /\ Direct \subseteq Shoppers
  /\ Cart \in [Shoppers -> [account : Accounts, asked : Seq(Asked)]]
  /\ SuppliedKey \in [Shoppers -> (Keys \ Attempts) \cup {NoKey}]
  /\ Attempts \subseteq Keys
  /\ KnownAccounts \subseteq Accounts /\ IsCatalog(Price)
  /\ MaxTries \in Nat /\ MaxDeliveries \in Nat /\ MaxFaults \in Nat
  /\ CatalogMayVanish \in BOOLEAN
  /\ None \notin Calls /\ None \notin Attempts

VARIABLES
  tries,    \* how many attempts each shopper has started
  waiting,  \* the shoppers that wait for the reply to their last attempt
  told,     \* the order each shopper was told it placed, or NoOrder
  gateway,  \* where the resolver CreateOrder of each attempt stands
  next,     \* the product it looks up next
  wire,     \* the delivery whose reply it waits for, or None
  job,      \* the attempt each delivery serves, or None
  step,     \* where the handler of each delivery stands
  catalog,  \* the products and prices of the catalog
  faults,   \* how many failures have happened
  key, req, ledger, lines, status, answer   \* see OrderLedger

shopVars    == <<tries, waiting, told>>
gatewayVars == <<gateway, next, wire>>
orderVars   == <<job, step>>
ledgerVars  == <<key, req, ledger, lines, status, answer>>
vars == <<shopVars, gatewayVars, orderVars, catalog, faults, ledgerVars>>

Ledger == INSTANCE OrderLedger

Init ==
  /\ tries = [s \in Shoppers |-> 0]
  /\ waiting = {}
  /\ told = [s \in Shoppers |-> NoOrder]
  /\ gateway = [a \in Attempts |-> "idle"]
  /\ next = [a \in Attempts |-> 1]
  /\ wire = [a \in Attempts |-> None]
  /\ job = [d \in Calls |-> None]
  /\ step = [d \in Calls |-> "idle"]
  /\ catalog = Price
  /\ faults = 0
  /\ Ledger!LedgerInit

-----------------------------------------------------------------------------
(* Helpers *)

Current(s) == <<s, tries[s]>>

AskedBy(a) == Cart[a[1]].asked

\* Mutant: the supplied key does not reach the order service.
KeyPerAttempt(a) == a

\* order.Client.PostOrder: the key supplied, or one generated for this attempt,
\* which the attempt itself stands for.
KeyOf(a) == IF SuppliedKey[a[1]] = NoKey THEN a ELSE SuppliedKey[a[1]]

\* What the attempt puts on the wire: a caller of the order service has
\* uint32 quantities to begin with.
Sent(a) == Basket(AskedBy(a))

Ids(a) == [i \in DOMAIN Sent(a) |-> Sent(a)[i].id]

\* The order that the cart of a shopper comes to, by what the catalog holds
\* when the order service looks the products up.
Comes == [s \in Shoppers |-> [c \in {Price, EmptyCatalog} |->
            Assembled(Cart[s].account, Basket(Cart[s].asked), c)]]

\* The repository is made for the orders that come.
ASSUME RequestsAssumption ==
  \A s \in Shoppers, c \in {Price, EmptyCatalog} : Comes[s][c] \in Requests

Listening(d) == gateway[job[d]] = "posting" /\ wire[job[d]] = d

\* The names left for deliveries; which one comes next makes no difference.
Unused == {d \in Calls : job[d] = None}

Deliveries(a) == {d \in Calls : job[d] = a}

Fault == faults < MaxFaults /\ faults' = faults + 1

GatewayGoes(a, g) == gateway' = [gateway EXCEPT ![a] = g]
HandlerGoes(d, h) == step' = [step EXCEPT ![d] = h]

-----------------------------------------------------------------------------
(* The shopper *)

Send(s) ==
  /\ s \notin waiting /\ told[s] = NoOrder /\ tries[s] < MaxTries
  /\ tries' = [tries EXCEPT ![s] = @ + 1]
  /\ waiting' = waiting \cup {s}
  /\ GatewayGoes(<<s, tries[s] + 1>>, IF s \in Direct THEN "posting" ELSE "fetching")
  /\ UNCHANGED <<told, next, wire, orderVars, catalog, faults, ledgerVars>>

ReceiveOrder(s) ==
  /\ s \in waiting /\ gateway[Current(s)] = "ok"
  /\ told' = [told EXCEPT ![s] = answer[wire[Current(s)]]]
  /\ waiting' = waiting \ {s}
  /\ UNCHANGED <<tries, gatewayVars, orderVars, catalog, faults, ledgerVars>>

ReceiveError(s) ==
  /\ s \in waiting /\ gateway[Current(s)] = "error"
  /\ waiting' = waiting \ {s}
  /\ UNCHANGED <<tries, told, gatewayVars, orderVars, catalog, faults, ledgerVars>>

\* The reply is lost, or the shopper does not wait for it.
HangUp(s) ==
  /\ s \in waiting /\ Fault
  /\ waiting' = waiting \ {s}
  /\ UNCHANGED <<tries, told, gatewayVars, orderVars, catalog, ledgerVars>>

-----------------------------------------------------------------------------
(* The gateway: the resolver CreateOrder of attempt a *)

\* The next product is fit to be ordered, and the catalog has it.
FetchProduct(a) ==
  /\ gateway[a] = "fetching" /\ next[a] <= Len(AskedBy(a))
  /\ AskedBy(a)[next[a]].quantity > 0
  /\ AskedBy(a)[next[a]].id \in DOMAIN catalog
  /\ next' = [next EXCEPT ![a] = @ + 1]
  /\ UNCHANGED <<gateway, wire, shopVars, orderVars, catalog, faults, ledgerVars>>

RejectProduct(a) ==
  /\ gateway[a] = "fetching" /\ next[a] <= Len(AskedBy(a))
  /\ \/ AskedBy(a)[next[a]].quantity <= 0
     \/ AskedBy(a)[next[a]].id \notin DOMAIN catalog
  /\ GatewayGoes(a, "error")
  /\ UNCHANGED <<next, wire, shopVars, orderVars, catalog, faults, ledgerVars>>

PostOrder(a) ==
  /\ gateway[a] = "fetching" /\ next[a] > Len(AskedBy(a))
  /\ GatewayGoes(a, "posting")
  /\ UNCHANGED <<next, wire, shopVars, orderVars, catalog, faults, ledgerVars>>

\* The request reaches the order service, for the first time or because the
\* transport sends it again after its stream broke (order/client.go:38).
Deliver(a) ==
  /\ gateway[a] = "posting" /\ wire[a] = None
  /\ Cardinality(Deliveries(a)) < MaxDeliveries
  /\ Unused # {}
  /\ LET d == CHOOSE c \in Unused : TRUE
     IN  /\ job' = [job EXCEPT ![d] = a]
         /\ wire' = [wire EXCEPT ![a] = d]
         /\ HandlerGoes(d, "account")
  /\ UNCHANGED <<gateway, next, shopVars, catalog, faults, ledgerVars>>

StreamBreaks(a) ==
  /\ gateway[a] = "posting" /\ wire[a] # None /\ Fault
  /\ wire' = [wire EXCEPT ![a] = None]
  /\ UNCHANGED <<gateway, next, shopVars, orderVars, catalog, ledgerVars>>

\* The broken stream is reported instead of tried again.
Unavailable(a) ==
  /\ gateway[a] = "posting" /\ wire[a] = None /\ Deliveries(a) # {}
  /\ GatewayGoes(a, "error")
  /\ UNCHANGED <<next, wire, shopVars, orderVars, catalog, faults, ledgerVars>>

\* The two seconds are over, or a call to the catalog or to the order service
\* fails.
GatewayFails(a) ==
  /\ gateway[a] \in {"fetching", "posting"} /\ Fault
  /\ GatewayGoes(a, "error")
  /\ UNCHANGED <<next, wire, shopVars, orderVars, catalog, ledgerVars>>

-----------------------------------------------------------------------------
(* The order service: the handler PostOrder of delivery d *)

GetAccount(d) ==
  /\ step[d] = "account"
  /\ HandlerGoes(d, IF Cart[job[d][1]].account \in KnownAccounts
                    THEN "products" ELSE "failed")
  /\ UNCHANGED <<job, shopVars, gatewayVars, catalog, faults, ledgerVars>>

\* The products are looked up and matched, and the order goes to PutOrder.
PutAssembled(d) ==
  /\ step[d] = "products"
  /\ ~GetProductsFails(catalog, Ids(job[d]))
  /\ HandlerGoes(d, "put")
  /\ Ledger!Call(d, KeyOf(job[d]), Comes[job[d][1]][catalog])
  /\ UNCHANGED <<job, shopVars, gatewayVars, catalog, faults>>

ProductsNotFound(d) ==
  /\ step[d] = "products"
  /\ GetProductsFails(catalog, Ids(job[d]))
  /\ HandlerGoes(d, "failed")
  /\ UNCHANGED <<job, shopVars, gatewayVars, catalog, faults, ledgerVars>>

\* A call to the account or the catalog service fails; once nobody waits for
\* the reply, because the context of the handler has ended.
LookupFails(d) ==
  /\ step[d] \in {"account", "products"}
  /\ IF Listening(d) THEN Fault ELSE faults' = faults
  /\ HandlerGoes(d, "failed")
  /\ UNCHANGED <<job, shopVars, gatewayVars, catalog, ledgerVars>>

\* The repository: see OrderLedger.
Place(d) ==
  /\ Ledger!Place(d)
  /\ UNCHANGED <<shopVars, gatewayVars, orderVars, catalog, faults>>

\* Mutant: a used key is an error, unless the order under it is one's own.
AnswerOwnOnly(d) ==
  /\ step[d] = "put"
  /\ ledger[key[d]] # NoOrder => ledger[key[d]].id = d
  /\ Ledger!Answer(d)
  /\ UNCHANGED <<shopVars, gatewayVars, orderVars, catalog, faults>>

Answer(d) ==
  /\ step[d] = "put"
  /\ Ledger!Answer(d)
  /\ UNCHANGED <<shopVars, gatewayVars, orderVars, catalog, faults>>

\* PutOrder returns an error: always for lines that COPY rejects, otherwise
\* through a failure or because the context of the handler has ended.
PutFails(d) ==
  /\ step[d] = "put"
  /\ Ledger!Fail(d)
  /\ IF \/ ~Listening(d)
        \/ ledger[key[d]] = NoOrder /\ ~Copyable(req[d].products)
     THEN faults' = faults ELSE Fault
  /\ HandlerGoes(d, "failed")
  /\ UNCHANGED <<job, shopVars, gatewayVars, catalog>>

Reply(d) ==
  /\ step[d] = "put" /\ status[d] = "ok"
  /\ HandlerGoes(d, "done")
  /\ IF Listening(d) THEN GatewayGoes(job[d], "ok") ELSE UNCHANGED gateway
  /\ UNCHANGED <<job, next, wire, shopVars, catalog, faults, ledgerVars>>

\* Mutant: the error is swallowed.
ReplyErrorSwallowed(d) ==
  /\ step[d] = "failed"
  /\ HandlerGoes(d, "done")
  /\ IF Listening(d) THEN GatewayGoes(job[d], "ok") ELSE UNCHANGED gateway
  /\ UNCHANGED <<job, next, wire, shopVars, catalog, faults, ledgerVars>>

ReplyError(d) ==
  /\ step[d] = "failed"
  /\ HandlerGoes(d, "done")
  /\ IF Listening(d) THEN GatewayGoes(job[d], "error") ELSE UNCHANGED gateway
  /\ UNCHANGED <<job, next, wire, shopVars, catalog, faults, ledgerVars>>

\* The order service dies under the handler; a call of PutOrder is over, and
\* the stream breaks.
HandlerDies(d) ==
  /\ step[d] \in {"account", "products", "put"} /\ Fault
  /\ HandlerGoes(d, "done")
  /\ IF status[d] = "pending" THEN Ledger!Fail(d) ELSE UNCHANGED ledgerVars
  /\ wire' = IF Listening(d) THEN [wire EXCEPT ![job[d]] = None] ELSE wire
  /\ UNCHANGED <<job, gateway, next, shopVars, catalog>>

-----------------------------------------------------------------------------
(* The catalog *)

\* Elasticsearch is restarted on an empty disk (docker-compose.yml gives
\* catalog_db no volume).
CatalogVanishes ==
  /\ CatalogMayVanish /\ catalog # EmptyCatalog
  /\ catalog' = EmptyCatalog
  /\ UNCHANGED <<shopVars, gatewayVars, orderVars, faults, ledgerVars>>

-----------------------------------------------------------------------------

ShopperStep(s) == Send(s) \/ ReceiveOrder(s) \/ ReceiveError(s)
GatewayStep(a) ==
  FetchProduct(a) \/ RejectProduct(a) \/ PostOrder(a) \/ Deliver(a) \/ Unavailable(a)
OrderStep(d) ==
  \/ GetAccount(d) \/ PutAssembled(d) \/ ProductsNotFound(d)
  \/ Reply(d) \/ ReplyError(d)
StoreStep(d) == Place(d) \/ Answer(d)

Next ==
  \/ \E s \in Shoppers : ShopperStep(s) \/ HangUp(s)
  \/ \E a \in Attempts : GatewayStep(a) \/ StreamBreaks(a) \/ GatewayFails(a)
  \/ \E d \in Calls :
       OrderStep(d) \/ StoreStep(d) \/ LookupFails(d) \/ PutFails(d) \/ HandlerDies(d)
  \/ CatalogVanishes

Spec == Init /\ [][Next]_vars

Fairness ==
  /\ \A s \in Shoppers : WF_vars(ShopperStep(s))
  /\ \A a \in Attempts : WF_vars(GatewayStep(a))
  /\ \A d \in Calls : WF_vars(OrderStep(d)) /\ WF_vars(step[d] = "put" /\ StoreStep(d))

FairSpec == Spec /\ Fairness

-----------------------------------------------------------------------------
(* Properties *)

\* Every variable of the shoppers, the gateway and the order service holds a
\* value of its type.
TypeOK ==
  /\ tries \in [Shoppers -> 0..MaxTries]
  /\ waiting \subseteq Shoppers
  /\ told \in [Shoppers -> Header \cup {NoOrder}]
  /\ gateway \in [Attempts -> {"idle", "fetching", "posting", "ok", "error"}]
  /\ \A a \in Attempts : next[a] \in 1..(Len(AskedBy(a)) + 1)
  /\ wire \in [Attempts -> Calls \cup {None}]
  /\ job \in [Calls -> Attempts \cup {None}]
  /\ step \in [Calls -> {"idle", "account", "products", "put", "failed", "done"}]
  /\ catalog \in {Price, EmptyCatalog}
  /\ faults \in 0..MaxFaults
  /\ key \in [Calls -> Keys \cup {NoKey}]
  /\ ledger \in [Keys -> Header \cup {NoOrder}]
  /\ lines \subseteq LineRow
  /\ status \in [Calls -> {"idle", "pending", "ok", "failed"}]
  /\ answer \in [Calls -> Header \cup {NoOrder}]

\* The deliveries whose order is durable.
Placed == {d \in Calls : \E k \in Keys : ledger[k] # NoOrder /\ ledger[k].id = d}

\* No retry, of the shopper or of the transport, places a second order: with
\* a key supplied a shopper gets one order for all its attempts, without one
\* an attempt still gets one for all its deliveries (order/client.go:38).
PlacedOnce ==
  \A d, e \in Placed :
    \/ d = e
    \/ job[d][1] # job[e][1]
    \/ SuppliedKey[job[d][1]] = NoKey /\ job[d] # job[e]

\* When the gateway answers an attempt with an order, that order is durable
\* and is one of the same shopper, for the account it named.
AnsweredOrderExists ==
  \A a \in Attempts : gateway[a] = "ok" =>
    \E d \in Placed :
      /\ job[d][1] = a[1]
      /\ answer[wire[a]] = ledger[key[d]]
      /\ answer[wire[a]].id = d
      /\ answer[wire[a]].account = Cart[a[1]].account

LinesOf(d) == {l \in lines : l.order = d}

SumOfLines(ls) == MapThenSumSet(LAMBDA l : Price[l.product] * l.quantity, ls)

\* The total of a durable order is the sum over its durable lines, whichever
\* products were missing, asked twice or of quantity zero on the way.
TotalsAreSums ==
  \A d \in Placed : ledger[key[d]].total = Money(SumOfLines(LinesOf(d)))

\* A durable line is one the shopper asked for, in the quantity that went on
\* the wire, and never of quantity zero.
LinesWereAsked ==
  \A d \in Placed : \A l \in LinesOf(d) :
    /\ l.quantity # 0
    /\ [id |-> l.product, quantity |-> l.quantity] \in Range(Sent(job[d]))

\* A cart that nothing in the code rejects.
Sound(s) ==
  LET asked == Cart[s].asked
  IN  /\ Cart[s].account \in KnownAccounts
      /\ Copyable(asked)
      /\ \A i \in DOMAIN asked :
           asked[i].id \in DOMAIN catalog /\ asked[i].quantity \in 1..(UintLimit - 1)

\* A shopper with a sound cart that keeps trying is told of its order, after
\* at most MaxFaults failures of any kind: a retry finds the order that an
\* earlier attempt placed and does not trip over it.
Served ==
  \A s \in Shoppers : (Sound(s) /\ told[s] = NoOrder) ~> told[s] # NoOrder

-----------------------------------------------------------------------------
(* Checkout keeps the promise of Purchases to the shoppers that supply a key *)

KeyedShoppers == {s \in Shoppers : SuppliedKey[s] # NoKey}

Promise == INSTANCE Purchases WITH
  Buyers  <- KeyedShoppers,
  Orders  <- Header,
  Nothing <- NoOrder,
  bought  <- [s \in KeyedShoppers |-> ledger[SuppliedKey[s]]],
  heard   <- [s \in KeyedShoppers |-> told[s]]

\* For shoppers with a key of their own, retries, duplicates and failures
\* together look like one purchase.
ImplementsPurchases == Promise!PurchasesSpec
=============================================================================
