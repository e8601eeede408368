# Verification of go-microservices

TLA+ specifications, TLC configurations and TLAPS proofs for the Go services in
`src/`: an account, a catalog and an order service behind a GraphQL gateway.
Every definition is translated from the code; `PROJECT.json` maps it to the
lines it stands for.

## 1. Inventory

### Components

| component | source | state it keeps | operations |
|---|---|---|---|
| order repository | `order/repository.go`, `order/up.sql` | tables `orders` (unique idempotency key, MONEY total) and `order_products` (primary key product + order, INT quantity) | `PutOrder` (one transaction: INSERT … ON CONFLICT, SELECT or COPY, deferred COMMIT/ROLLBACK), `GetOrdersForAccount` (one join, grouped in Go) |
| order service | `order/server.go`, `order/service.go` | none between requests | `PostOrder` (account, products, matching, pricing, `PutOrder`), `GetOrdersForAccount` (read, decorate from the catalog) |
| order client | `order/client.go` | a connection | `PostOrder` (chooses the idempotency key), `GetOrdersForAccount` |
| account service | `account/*.go`, `account/up.sql` | table `accounts` | `PostAccount`, `GetAccount`, `GetAccounts` (OFFSET paging, newest first) |
| catalog service | `catalog/*.go` | Elasticsearch index `catalog` | `PostProduct`, `GetProduct`, `GetProducts` (search, multi-get by ids, or listing) |
| GraphQL gateway | `graphql/*_resolver.go`, `graph.go` | none between requests | `createAccount`, `createProduct`, `createOrder`, `accounts`, `products`, `Account.orders`; a two-second deadline each |
| GraphQL executor | `graphql/generated.go` (gqlgen) | one response | collects arguments, calls resolvers, starts a goroutine per query, per history and per list element, joins them, passes nulls on, delivers deferred parts |
| process lifecycle | `*/cmd/*/main.go`, `graphql/main.go`, `docker-compose.yml` | the process, its pools and its listener | connect (databases: for ever), listen, serve, exit, be restarted |
| mutual TLS | `tlsconfig/`, `scripts/gen-certs.sh` | certificate files | generate, load, verify |
| telemetry | `telemetry/` | a batch of spans | set up, flush |
| protocol buffers | `*/pb/` | – | generated messages, client stubs and handlers |

### Interactions

`createOrder` runs through everything: the gateway looks every product up in
the catalog and calls `PostOrder` of the order service over gRPC; that calls the
account service, calls the catalog again for all products at once, and stores
the order in PostgreSQL. `Account.orders` runs the same way back: the order
service reads the rows and asks the catalog for the names and prices. All calls
are synchronous; the deadline of the resolver travels with them as a context,
and its end makes every call below return an error while the databases may
still be at work for it. The idempotency key travels as gRPC metadata.

### Hard behaviours

- **Concurrency**: calls of `PutOrder` with one key wait for each other on a
  unique index; reads run while orders commit.
- **Failure**: connections break, contexts end, services and servers die
  between any two statements. The caller of a lost COMMIT does not know its
  outcome, and the transaction of a lost connection keeps its locks until the
  server notices.
- **Retries and duplicates**: shoppers repeat `createOrder`, the transport
  repeats `PostOrder`; both race the call they repeat.
- **Writes behind an answer**: a resolver that has given up told its client of a
  failure; the service writes all the same. `createAccount` and `createProduct`
  have no key to ask again with.
- **Late visibility**: a document is found by its id at once, by a search only
  after the index was refreshed.
- **Goroutines of one response**: they fail, panic or wait on their own, write into
  one result, and some outlive the response.
- **Files read while they change**: each client and each server of a process loads
  its identity anew, certificate first and authority later.
- **Conversions**: `int` to `uint32`, `uint32` to INT, `float64` to MONEY and back.
- **Silent losses**: products missing from a multi-get, lines of quantity zero,
  orders without lines, errors overwritten by a later success.

`PROJECT.json` lists each one under "hazards", at its line, with the properties
that would catch it going wrong.

### What makes each component correct

- order repository: one order per key; orders durable whole or not at all;
  success only with a durable order; no lock held for ever.
- order service: the stored total is the sum over the stored lines; every stored
  line was asked for; a history shows each order once, with its own lines.
- gateway and client: no retry places a second order; an answer names a durable
  order of the shopper; a shopper that keeps trying is served.
- account and catalog services: a creation makes one thing or none, and what was
  created is found by its id, in the list, and by a search in the end; a walk over
  pages misses nothing.
- executor: a null goes as far as the declared types carry it and no further; it
  comes with an error, unless it stands for a deferred part; mutations take turns; every request is answered, and
  nothing of it is then at work but what was deferred.
- lifecycle and mutual TLS: processes that loaded the same certificates trust each
  other; all of them serve once the files and the databases are there.

## 2. Modules

```
OrderData ── OrderLedger                         the promise of the repository
    │             ▲ implements                   (OrderStoreProofs: proved)
    ├──── OrderStore ── OrderStoreProofs         transactions of PutOrder
    │
    └──── OrderAssembly                          request -> lines and total
              ├── Checkout (uses OrderLedger)    createOrder end to end
              │      ├ implements ► Purchases    the promise to a shopper
              │      └── CheckoutProofs          (with FoldLemmas: sums, folds)
              └── OrderHistory (uses OrderLedger) Account.orders
                     └── OrderHistoryProofs       (with FoldLemmas)

Accounts ── AccountsProofs                       Query.accounts, page by page

Messages ── Storefront                           creating and finding accounts, products
               ├ implements ► Registry           the promise of the create mutations
               └── StorefrontProofs

GraphSchema ── Executor ── ExecutorProofs        one request, field by field

Deployment ── DeploymentProofs                   certificates, processes, restarts
```

The order path is split at `OrderLedger`. `OrderStore` shows that transactions,
locks, lost connections and late commits add up to that small promise;
`Checkout` and `OrderHistory` build on the promise alone, so their own
interleavings can be explored.

**OrderData** holds the rows of the two tables and the conversions PostgreSQL
makes. The identity of a call stands for the KSUID it generates. Totals are
counted in tenths of a cent, so that rounding to a cent (`Money`) has something
to round.

**OrderStore** has two sides. `stage` and `stored` are the goroutine of a call:
`begin, insert, select, copy, commit, committing`, then `ok`, `failed` (rolled
back) or `lost` (the connection is gone, or the process is). `tx`, `newRows` and
`newLines` are its transaction as the server sees it; `orders` and `lines` are
committed. `Insert` waits while another live transaction holds the key; that is
what PostgreSQL does for `ON CONFLICT DO NOTHING` on a unique index. Under READ
COMMITTED, the default the code leaves in place, the SELECT after a conflict
sees the committed row. COPY is one action: its rows are sent in one stream and
nothing of them is visible before the commit. `StatementFails` is an error the
goroutine rolls back, `ConnectionLost` one whose rollback never arrives,
`ServerAbort` an end the server decides.

**OrderLedger** is the promise: per key at most one order, placed whole; answers
name the order of the key; a failed call may have placed its order, or place it
later.

**OrderAssembly** is pure: the wire quantity (`Basket`), the multi-get with its
forgotten errors, the first-match quantity, the dropped zeros, the total.

**Checkout** adds shoppers, the gateway, the wire and the handlers of the order
service to the ledger. An attempt is one `createOrder`; a delivery is one run of
the handler, so that an attempt whose stream broke can have several. A
generated key is the attempt itself: `order.Client` draws it once per attempt.
`Direct` shoppers call the order service themselves, which lets quantities of
zero and unknown products reach it.

**Purchases** is the promise to a shopper that supplies a key: one purchase.

**OrderHistory** reads while orders are placed. `Query` takes one snapshot of the
join in any row order that `ORDER BY o.id` allows; `GroupRow` is the body of the
loop over the rows; `Decorate` asks the catalog for the ids in any order, as a Go
map gives them. `known` is the only ghost: the orders somebody had been told of
when the read began.

**Accounts** is a client that walks over the pages of `Query.accounts` while
accounts are created. One `NextPage` is one request: the conversion of `bounds`,
the defaults of the service and the query. The walker adds the length of a page
to its skip, asks for pages of one size, and stops at an empty one. Ids are
numbers in any order, because KSUIDs of one second are; `start` is a ghost.

**Messages** and **Storefront** follow a creation or a look-up from its resolver
through the client, the message, the handler and the service to the table or the
index. Each maker calls once, and stands for the id its service draws; a reader
calls again and again. `GiveUp` is the deadline of the resolver: the request to
create stays on its way, and whatever it does, nobody is told. `documents` is what
Elasticsearch finds by id, `searchable` what it finds by words; `Refresh` makes
them equal. `told` is a ghost: what creators and searches had told when a reader's
call began. **Registry** is the promise of the create mutations, in the words of
the client: what exists, what was asked for, and what became of each call.

**GraphSchema** is the part of the generated code that is data in the shape of
functions: for each field which marshaller it uses, for each object which nulls
invalidate it, which of its fields run concurrently and which may be deferred.
The two are written down separately in the code, and so they are here.
**Executor** runs a request over these tables. A node of the response is named by
its path, in which an element of a list is named by its position; the path in the
request (`Path`) has an asterisk instead, and by it `request` says what is selected
and what is deferred. `Lists` says what lists a field may turn out to have. gqlgen
validates a request before the code here runs (`IsValid`): every object is selected
from, and only what it has. `Ready` is the order within an object (fields in turn, then the
concurrent ones at once); `ResolverFails` covers errors, deadlines and panics, which
`Recover` turns into errors; `Marshal` makes the nodes of a list or an object;
`Join` is the end of a `Dispatch` or of a `WaitGroup`, with what is then null.
A deferred field is in two places: its object has `graphql.Null` for it, for good
(`Answer`), and the field itself is at work in a field set of its own, whose state is its
`value`, and is sent apart (`Deliver`). The null in its place is not counted as invalid and
has no error. Hence the exception in `ErrorsTellOfNulls`: a client that is sent the part later
replaces the null by it, and any other client is left with a null that the schema
rules out.
A panic in the goroutine of a list element itself, where `wg.Done` runs before the
error is recorded (`generated.go:3763`), is not modelled: the fields recover from their
own panics, and what runs outside of them panics only for fields the schema does not have.
`DeclaredNullable` is what `schema.graphql` says, for comparison.

**Deployment** has the script one file after the other (`Write`), stopped at any of
them with the file whole, half or not there (`Stop`), or finding an authority and
skipping its work (`SkipWork`). A process is started (`Start`), waits for its
database (`Connect`), then loads a pair and an authority for every client it makes
and for its server (`LoadPair`, `LoadAuthority`), in the order of the code, and exits
with 1 at the first that fails. Keys are named by the run that drew them. The
certificate and the key of a pair are read in one action: had the directory been
replaced between the two, they would not match, and the process would exit as it
does for a missing file. The removal of the directory is one action as well. One
copy of the script runs at a time.

Operators marked "Mutant:" are wrong on purpose. Nothing uses them; each stands
for a bug that the property named beside it in `PROJECT.json` must detect when
the operator takes the place of the correct one that follows it.

## 3. Runs

| run | instance | shows |
|---|---|---|
| `store_safety` | 3 calls, 2 keys, 4 kinds of order | `OneOrderPerKey`, `WholeOrders`, `AnswersAreDurable` under every failure; OrderStore implements OrderLedger |
| `store_liveness` | 2 calls, 2 keys | `CallsReturn`, `KeysReleased` |
| `checkout_retries` | 2 shoppers, 2 tries, 3 deliveries, 2 failures | `PlacedOnce`, `AnsweredOrderExists`; Checkout implements Purchases |
| `checkout_carts` | 4 shoppers with odd carts, no failures, a catalog that may vanish | `TotalsAreSums`, `LinesWereAsked` |
| `checkout_served` | 3 tries, 4 deliveries, 2 failures | `Served` |
| `history_reads` | 3 orders, 2 reads, a price change | `HistoryIsExact`, `NothingForgotten` |
| `accounts_pages` | 5 accounts, of which any may exist at the start; 6 page sizes | `NothingMissed`, `RepeatsAreBounded` |
| `responses` | 7 requests over all types, 3 of them with deferred parts; lists of up to 2 | `NullsReachWhatTheyMust`, `ErrorsTellOfNulls`, `MutationsInTurn`, `NoStragglers`, `AnswerIsFinal`, `Responds`, `DeferredArrives` |
| `storefront` | 2 creations, 1 reader without end, 2 names, 2 wares | `ToldIsFound`, `SearchesAgree`, `SearchableInTheEnd`; Storefront implements Registry |
| `deployment` | 3 services, 2 generations, 1 removal, 1 crash, databases that come and go | `PeersTrust`, `SaidMeansThere`, `ServesInTheEnd` |

Two runs are expected to end in a violation. Each is a place where the code and
what the repository says of it differ:

| run | what happens |
|---|---|
| `history_invented` | an account without orders shows one with an empty id; `schema.graphql:12` |
| `history_prices` | an order shows today's prices; `schema.graphql:27` says they are captured at order time |

The models contain further differences, which no run is spent on:

- A deferred history (`[Order!]!`, `schema.graphql:13`) of a query over POST, or of a
  mutation, is answered with null, without an error, and never delivered; its goroutine
  never ends. `ErrorsTellOfNulls` excepts the null in the place of a deferred field, and
  only that.
- A replay answers with the total rounded to a cent, the first call with the float
  (`integration_test.go:320` expects them equal, for whole cents). `AnswersAreDurable`
  compares them rounded.
- A quantity of 2^32 becomes 0 and its product is left out of a successful order;
  `schema.graphql:33` says "all ordered products". `checkout_carts` has such a cart;
  `TotalsAreSums` and `LinesWereAsked` speak of what is on the wire, and hold.
- An order without lines is stored, answered and never shown in a history;
  `schema.graphql:12` says "All orders placed by this account". `NothingForgotten`
  is about the others.
- A pagination with a skip and no take panics (`BoundsPanics`); `schema.graphql:50`
  says that take has a default.
- `gen-certs.sh:3` says "Idempotent: skips work if certs exist". It looks for the
  authority alone, so a run that was stopped behind it is never completed:
  without `~stopped`, `SaidMeansThere` does not hold, and the services whose files
  are missing restart for ever until `make certs-clean`.
- After `make certs-clean` and `make certs`, processes that are not restarted keep
  the old authority, and do not trust those that are: `PeersTrust` is about one
  directory.
- `e2e_test.go:122` says that services crash-loop until their databases are ready;
  they wait for them in place.
- `createAccount { orders { createdAt } }` creates the account and answers null: the
  phantom order of an account without orders has the zero time, which is written
  as null.

### Bounds

- *Calls and keys* (`OrderStore`): the interactions are between the holder of a
  key, a call that waits for it, and a call that comes after one of them failed;
  three calls make all of them, and the second key is there to be confused with
  the first. The proofs lift the bound.
- *Orders*: two lines with a total that rounds; no lines; a product twice; a
  quantity above `PgIntMax`. `PgIntMax = 2` and `UintLimit = 4` keep the order of
  the real limits (2^31-1 < 2^32), which is all that matters.
- *Tries, deliveries, failures* (`Checkout`): two tries with two failures let a
  retry race a lost reply and a duplicate delivery at once. `MaxFaults` bounds
  failures that the environment decides; those that follow from a cart, or from
  a context that has ended, are free.
- *Orders in a history*: three, so that one is closed by a following order, one
  follows a closed one, and one is open at the end.
- *Pages* (`Accounts`): a largest page of 2 out of 5 accounts takes three
  requests and more; the sizes are one of each kind the code treats differently
  (negative, none, 0, below, at and above the largest). One walker is enough:
  walkers share nothing but the table. The proofs lift the bounds.
- *Requests* (`Executor`): together they select from every type; lists of two let
  one element fail beside another, with the other at any stage. Lists of products
  and of the introspection have one element, as they have no resolvers in them. The proofs
  lift the bounds on lists, and take any valid requests.
- *Calls* (`Storefront`): two creations, of an account each, a product each or one
  of each, and a reader whose calls have no bound; pages that ask for nothing in
  particular, for one hit, and for none behind the first. The largest page is the
  code's, 100, which two creations do not fill: full pages are the subject of
  `accounts_pages`.
- *Deployment*: `MCDials` has a service without clients, one with a client, and a
  gateway with two; the fourth, the catalog service, is a second account service.
  Two generations and one removal let identities of two directories meet, and a
  stopped run be run again in one. Restarts after a failure of its own are free; only
  kills are bounded (`MaxCrashes`).
- Symmetry is used over calls and keys, which no definition tells apart, for
  invariants and for the refinement of the ledger, a property of single steps;
  never for liveness. The calls of `OrderHistory` are numbers, so there only the
  keys are symmetric.

Deadlock is not checked: calls, tries, reads and walks are bounded, and a system in
which all of them are done has come to rest.

### Fairness

Runs with temporal properties use a fair specification. `OrderStore`: a goroutine whose next
statement can run is scheduled (`Progress`), a COMMIT that arrived is carried
out, and the server ends a transaction whose connection is dead
(`ServerEnds`; PostgreSQL finds out by TCP keep-alive or at its next write).
Nothing forces a failure, and none is fair. `Checkout`: a shopper that has no
order tries again while it has tries left, a resolver and a handler go on, the
repository answers. `Executor`: a goroutine
that can go on does, and a resolver ends, because each has a deadline and passes it
to its calls; weak fairness of `Next` is enough, as every step finishes something.
`Storefront`: Elasticsearch refreshes an index that changed (every second by
default); nothing else is fair, so a call may wait for ever. `Deployment`: docker
restarts what exits with 1, processes are scheduled; no script has to run and no
database to start, and `ServesInTheEnd` speaks of the case that they did. Weak
fairness is enough everywhere: no step is disabled and enabled again for ever, but a
connection attempt, and `ServesInTheEnd` assumes that databases stay up.

## 4. Proofs

`OrderStoreProofs` proves, for any calls, keys and orders:

- `TypeCorrect`: the types.
- `Invariance`: the inductive invariant `IInv`.
- `KeysAreUnique`, `OrdersAreWhole`, `AnswersHold`: the three safety properties of
  `store_safety`, from `IInv`.
- `Implements`: every behaviour of the transactions is a behaviour of the ledger. Each
  step is a ledger step (`CallStep`, `FailStep`, `AnswerStep`, `PlaceStep`) or changes
  nothing the ledger sees (`HiddenStep`).

*Why an invariant beyond the properties is needed.* `OneOrderPerKey` speaks of
committed rows only, and says nothing of the rows about to be committed. `IInv`
adds, besides the types: `SidesAgree` (what the stage of a goroutine implies for
its transaction on the server, with the exceptions a lost connection makes),
`Written` (what a transaction has written is nothing, the row, or the row with
all its lines, according to the stage), `KeyOwned` (a live transaction with a row
under a key excludes another such one, and a durable order under that key),
`Placers` (a durable order stems from the call of its id). Then `ServerCommit`
can neither bring a second order for a key nor half of one.

`AccountsProofs` proves, for any ids, page sizes and walkers, `TypeCorrect`,
`NothingIsMissed` and `RepeatsBounded`. `NothingMissed` speaks of finished walks;
its invariant adds `UnseenAhead` (what was there at the start and is not yet
shown has a rank of at least the skip), which creations keep because ranks only
grow, and pages keep because no two accounts share a rank (`RankedBound`). A page
is empty only at the end (`PageLemma`), where nothing lies ahead. For the repeats,
`RowsCount` bounds what was shown by the skip, and the first `skip` places, all
filled (`PrefixIsFull`), hold only accounts that were shown or are new.

`CheckoutProofs` proves, for any shoppers, carts, catalog, tries, deliveries and
failures:

- `TypeCorrect`, `NoSecondOrder`, `TotalsCorrect`, `LinesCorrect`: the types,
  `PlacedOnce`, `TotalsAreSums` and `LinesWereAsked`.
- `LedgerAsPromised`: Checkout takes no step that `OrderLedger` does not allow. With
  `Implements`, the transactions of `PutOrder` may stand where the ledger does.
- `AnswersCorrect` and `CheckoutImplementsPurchases`, for shoppers with keys of their
  own (`KeysOfTheirOwn`). The hypothesis is needed: keys are global
  (`order/up.sql:8`), and two shoppers that choose the same one share the order of the
  first.

Its invariant says of a delivery what it has from whom: `HandlersServe` (a handler at
work has an attempt, and that attempt a place on the wire), `PutOrderIsLast` (only then
has the repository heard of it), `CallsBringCarts` (key and order of a call are those of
its attempt, priced with the catalog or without), `OrdersAreOfCalls` and
`LinesOfPlaced` (a durable order, and its lines, are what its call brought),
`AnswersArePlaced`, `RepliesAreOwn` and `ShoppersKnow` (an answer is passed on unchanged,
from ledger to handler to gateway to shopper). `PlacedOnce` needs the first four: two
orders with one key would be two durable rows of one key in the ledger, and where the key
is drawn, it names the attempt.

`FoldLemmas` says what the folds compute, for data of any size: that a loop which keeps
some members of a sequence comes to a sequence of them (`WantedMembers`), that a sum has a type,
that a member can be taken out of it (`SumRemove`), that it does not depend on names
(`SumRenamed`). The last is why the total, which the service sums over a sequence of
products (`TotalPrice`), is the sum over the set of rows. The induction is by a smallest
counterexample (`LeastNumber`, `LeastSet`), because the library's induction theorems
cannot be used by the installed provers.

`StorefrontProofs` proves, for any number of creations and readers, names and wares:

- `TypeCorrect`, and `CreateImplementsRegistry`: creations do what `Registry` promises.
- `ToldCorrect` and `SearchesCorrect`: `ToldIsFound` and `SearchesAgree`, as long as
  everything fits into one page (`AllOnOnePage`). Beyond a page a listing shows some of
  what there is, and the properties do not hold; what a walk over pages finds is the
  subject of `AccountsProofs`.

Its invariant says where a request is and what it has done. `RowsAreAsked` and
`DocumentsAreAsked`: a thing is what the call with its id asked for, so an id never
names two things, nor an account and a product. `MakersAreServed`: a request to create
that is still on its way, even behind a deadline, has written nothing, so it will not
write twice; a reply that is no error has something written behind it.
`ReadersAreServed`: the reply on the wire, and later the result, is right for what was
asked (`Right`), judged by what was known when the call began. A right reply stays right
while other calls write and the index is refreshed (`RightStays`), because ids that are
written later were not among those told of.

`DeploymentProofs` proves, for any services and any number of runs, removals and
crashes, `TypeCorrect`, `TrustCorrect` and `ReportsCorrect` (`PeersTrust`,
`SaidMeansThere`). The invariant follows the script: `RunSoFar` (what a run has passed is
there), `OneAuthority` (while the authority's certificate lasts, every certificate made
beside it is signed with its key), `FilledUnlessStopped`, and says of what a process has
read since the last removal that it is of that one authority (`PairsAreOfNow`,
`IdentitiesAreOfNow`).

`OrderHistoryProofs` proves, for any calls, accounts, carts, prices and readers,
`HistoryCorrect` and `NothingLost`: `HistoryIsExact` and `NothingForgotten`. It has three
parts.

- *The query.* Rows numbered within their orders, the orders one after the other, fill the
  numbers from 1 to the number of rows (`ResultsAreLists`): a result is any list of the
  rows, each once, in which ids do not fall.
- *The loop.* `Gathered` says what the loop over such a list has made of the rows so far:
  the orders that are closed have different ids, none of them that of the open one, and
  each has exactly its rows for lines. A row joins the open order (`RowJoins`) or closes it
  and opens the next (`RowOpens`), whose id is larger than all before; hence
  `GroupedAreOrders`, for lists of any length. It would be false without `ORDER BY o.id`.
- *The writers and the readers.* Orders only come to those there are, and one that is there
  keeps its lines (`OrdersGrow`), because an order is placed with all of them at once
  (`OrdersAreOfCalls`, `LinesAreOfCalls`). So what a reader holds stays exact, and complete
  for what was known when it began (`HistoriesHold`, `KnownArePlaced`), however many orders
  are placed between the query and the reply.

`HistoryIsExact` by itself is not inductive: it speaks of replies, and the decoration takes
what the query found a step before. The order with no id, which the loop closes over no
rows, is excepted in the proof as in the property.

`ExecutorProofs` proves, for any valid requests, whatever they nest, and lists of any
length:

- `SchemaAgrees`: the tables of `GraphSchema`, field by field, against the declarations of
  `schema.graphql`. A change of one of them that is not made in the others makes this
  proof fail.
- `TypeCorrect`, `NullsCorrect`, `ErrorsCorrect`, `TurnsCorrect`, `StragglersCorrect`: the
  types and the four safety properties of `responses`.
- `AnswersAreFinal`: the action property of that run.

The properties speak of nodes at any distance, and a step looks at a node and its
children. The invariant bridges the two with chains: `Chain(m, n, S)` says that the nodes
from below n down to m are all in S. A chain is taken up at one end and let go at the other
(`ChainDown`, `ChainJoin`, `ChainUp`), so an argument about a join is one about its
children. Of a response so far the invariant says

- `Tree`, `Selected`, `Stages`: where nodes may be, that they were selected, and that a
  node has children only once it was opened;
- `Joined`: what a finished node is connected to by nodes that are not deferred is finished.
  It is what `Join` waits for, at any depth. Without it, a null that appears later could
  reach a node that is done;
- `NullsPassedOn`, `NullsExplained`: of the fields themselves, not of the nulls in the place
  of deferred ones, a finished node is null exactly if a null reaches it by
  nodes that must be there, and then an error does, too. Both hold before the response is
  sent, of the parts that are finished, and of the deferred parts after it;
- `InTurn`: if one field of a mutation comes before another in the selection and the other
  is no longer waiting, the first is finished. With `Joined`, so is all below it;
- `Answered`: the response is sent when the root is finished.

The eight actions are four kinds of step (`NextIsStep`): a field is settled with null, a
resolver is called, a field grows its nodes, an object or a list is joined.
The lemmas about the invariant are about these.

Two parts of the model were corrected because the proofs did not go through. An
object that is no list could be given an element node; and the cases by which `Born` tells
leaves from deferred fields overlapped, so that the definition left open what TLC decided
by their order. Neither changed the outcome of a run.

Each invariant was checked by TLC on an instance of a run before it was proved.

*Assumptions.* `OrderDataAssumption`: the requests are well-formed, and the
values standing for "none" are none of the others. `AccountsAssumption`: finitely
many ids, and no take so far below zero that its conversion to `uint64` would be
a small number, which a 64-bit `int` cannot be. `OrderAssemblyAssumption` and
`CheckoutAssumption`: carts, prices and keys are what their types say, and what is
supplied as a key is not taken for one that is drawn. `RequestsAssumption`: the ledger
is made for the orders that come of the carts. `StorefrontAssumption`: finitely many
creations, wares with a name, a description and a price, pages of natural numbers (the
result of `bounds`), and values for "none" apart. `OrderHistoryAssumption`: order ids are
positive numbers, and carts are of accounts and lines. `DeploymentAssumption`: services have
names, none of them that of the authority, and dial only what serves gRPC.
`ExecutorAssumption`: requests are valid against the schema, which gqlgen sees to before
it calls the executor. TLC evaluates all of them.

*Only model-checked.* Liveness (`CallsReturn`, `KeysReleased`, `Served`, `Responds`,
`DeferredArrives`, `SearchableInTheEnd`, `ServesInTheEnd`), which the provers do not
cover; and what the fold `Types` computes for a path: the proofs use its value at the root
(`RootType`), and elsewhere that it is a type of the schema, which `IsValid` says.

## 5. Not modelled

Status and reasons are in `PROJECT.json`. In short:

- `Complexity` (`generated.go:118`): nothing in the program calls it.
- gqlgen's collection of fields (aliases, fragments, `@skip`), and the texts of errors.
- The messages and stubs of the order service as such: Checkout and OrderHistory
  have them as records. The encoding and reflection data of all messages.
- Cryptography, host names in certificates, and TLS switched off.
- Logging and tracing: no other part reads them. Spans at a kill are lost; the flush
  runs only when `run` returns.
- The pools that failed attempts to connect leave open (`order/repository.go:25`).
- Relevance of hits; timestamps beyond being zero; the SQL text beyond its effect;
  isolation levels other than the default. Schema migrations do not occur.

## 6. Plan

Done, in this order: OrderData, OrderStore and its invariants; OrderLedger and
the refinement; OrderAssembly, Checkout, Purchases; OrderHistory; the proofs of
OrderStore and of its refinement; Accounts and its proofs; GraphSchema and
Executor; Messages, Storefront and Registry; Deployment; the proofs of Checkout and of
its refinement, of Deployment, of Storefront and its refinement, of OrderHistory, and of
Executor. With these, every invariant and every refinement of the runs is proved.

What would extend the project: the messages of the order service in the form of
`Messages`; the pools that failed attempts to connect leave open.
