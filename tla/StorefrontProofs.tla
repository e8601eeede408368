--------------------------- MODULE StorefrontProofs ---------------------------
(***************************************************************************)
(* Creating and finding accounts and products (Storefront), for any number *)
(* of calls that create and of clients that look up: the types, that the   *)
(* create paths implement the registry, and what readings find.            *)
(***************************************************************************)
EXTENDS Storefront, FiniteSetTheorems, TLAPS

-----------------------------------------------------------------------------
(* The inductive invariant *)

\* Everything there is was asked for by the call whose id it has, as it is.
RowsAreAsked ==
  \A x \in accounts :
    /\ x.id \in Makers /\ phase[x.id] # "idle"
    /\ asked[x.id] \in [name : AccountNames]
    /\ x = AccountRow(x.id, asked[x.id])

DocumentsAreAsked ==
  \A x \in documents :
    /\ x.id \in Makers /\ phase[x.id] # "idle"
    /\ asked[x.id] \in Wares
    /\ x = ProductDocument(x.id, asked[x.id])

Written == Ids(accounts) \cup Ids(documents)

\* A request to create that is on its way asks for what its call asks for, and
\* has not been served.
AsksToCreate(c) ==
  \/ asked[c] \in [name : AccountNames] /\ wire[c] = PostAccountRequest(asked[c].name)
  \/ /\ asked[c] \in Wares
     /\ wire[c] = PostProductRequest(asked[c].name, asked[c].description, asked[c].price)

CreateOnWire(c) ==
  phase[c] \in {"waiting", "failed"} /\ c \notin Written /\ AsksToCreate(c)

\* Its reply is an error, or tells of what was written.
CreatedOnWire(c) ==
  /\ phase[c] = "waiting"
  /\ \/ wire[c] = Error("broken")
     \/ c \in Written /\ DOMAIN wire[c] = {"account"}
     \/ c \in Written /\ DOMAIN wire[c] = {"product"}

MakerIsServed(c) ==
  /\ phase[c] = "idle" => wire[c] = NoMessage /\ c \notin Written
  /\ phase[c] # "idle" => asked[c] \in [name : AccountNames] \cup Wares
  /\ wire[c] = NoMessage \/ CreateOnWire(c) \/ CreatedOnWire(c)
  /\ phase[c] = "ok" => c \in Written

MakersAreServed == \A c \in Makers : MakerIsServed(c)

\* What a reader asks for.
AsksAccount(c)  == asked[c] \in [accounts : Makers]
AsksAccounts(c) == asked[c] = [accounts |-> NoId]
AsksProduct(c)  == asked[c] \in [products : Makers, word : Words, page : {NoPage}]
AsksSearch(c)   == asked[c] \in [products : {NoId}, word : Words, page : Pages]
AsksOrder(c)    == asked[c] \in [ids : SetToAllKPermutations(Makers)]

LookOnWire(c) ==
  \/ AsksAccount(c) /\ wire[c] = GetAccountRequest(asked[c].accounts)
  \/ AsksAccounts(c) /\ wire[c] = GetAccountsRequest(0, 0)
  \/ AsksProduct(c) /\ wire[c] = GetProductRequest(asked[c].products)
  \/ /\ AsksSearch(c)
     /\ wire[c] = GetProductsRequest(asked[c].page.skip, asked[c].page.take, <<>>, asked[c].word)
  \/ AsksOrder(c) /\ wire[c] = GetProductsRequest(0, 0, asked[c].ids, "")

\* What somebody had been told of when the call of c began.
Known(c, things) == Ids(things) \cap told[c].made

Fits(c, p) == asked[c].word \in {"", p.name, p.description}

\* Everything there is fits into one page.
AllOnOnePage == Cardinality(Makers) <= MaxTake

RightSearch(c, found) ==
  /\ found \subseteq searchable
  /\ \A p \in found : Fits(c, p)
  /\ asked[c].page # NoPage => Cardinality(found) <= asked[c].page.take
  /\ AllOnOnePage /\ asked[c].page = NoPage =>
       \A p \in searchable : p.id \in told[c].found /\ Fits(c, p) => p \in found

\* The reply m is right for what c asked.
RightError(c, m) ==
  \/ m \in {Error("broken"), Error("noIndex")}
  \/ /\ m = Error("notFound")
     /\ \/ AsksAccount(c) /\ asked[c].accounts \notin Known(c, accounts)
        \/ AsksProduct(c) /\ asked[c].products \notin Known(c, documents)
        \/ AsksOrder(c) /\ ~(Range(asked[c].ids) \subseteq Known(c, documents))

RightAnswer(c, m) ==
  \/ AsksAccount(c) /\ DOMAIN m = {"account"} /\ m.account.id = asked[c].accounts
  \/ /\ AsksAccounts(c) /\ DOMAIN m = {"accounts"}
     /\ AllOnOnePage => Known(c, accounts) \subseteq Ids(m.accounts)
  \/ AsksProduct(c) /\ DOMAIN m = {"product"} /\ m.product.id = asked[c].products
  \/ AsksSearch(c) /\ DOMAIN m = {"products"} /\ RightSearch(c, m.products)
  \/ /\ AsksOrder(c) /\ DOMAIN m = {"products"}
     /\ asked[c].ids # <<>> =>
          Range(asked[c].ids) \cap Known(c, documents) \subseteq Ids(m.products)

Right(c, m) == RightError(c, m) \/ RightAnswer(c, m)

ReaderIsServed(c) ==
  /\ told[c].made \subseteq Written
  /\ told[c].found \subseteq Ids(searchable)
  /\ wire[c] = NoMessage \/ (phase[c] = "waiting" /\ (LookOnWire(c) \/ Right(c, wire[c])))
  /\ phase[c] = "ok" => RightAnswer(c, result[c])
  /\ phase[c] = "failed" => RightError(c, result[c])

ReadersAreServed == \A c \in Readers : ReaderIsServed(c)

CallsKept ==
  /\ DOMAIN asked = Calls /\ DOMAIN wire = Calls /\ DOMAIN result = Calls
  /\ DOMAIN told = Readers

Inv ==
  /\ TypeOK
  /\ CallsKept
  /\ RowsAreAsked
  /\ DocumentsAreAsked
  /\ MakersAreServed
  /\ ReadersAreServed

-----------------------------------------------------------------------------
(* Lemmas about things and pages *)

\* An id belongs to one thing.
LEMMA OneThingPerId ==
  ASSUME RowsAreAsked, DocumentsAreAsked
  PROVE  /\ \A x, y \in accounts : x.id = y.id => x = y
         /\ \A x, y \in documents : x.id = y.id => x = y
         /\ Ids(accounts) \cap Ids(documents) = {}
<1>1. /\ \A x, y \in accounts : x.id = y.id => x = y
      /\ \A x, y \in documents : x.id = y.id => x = y
  BY DEF RowsAreAsked, DocumentsAreAsked
<1>2. ASSUME NEW x \in accounts, NEW y \in documents, x.id = y.id
      PROVE  FALSE
  <2>1. asked[x.id] \in [name : AccountNames] /\ asked[x.id] \in Wares
    BY <1>2 DEF RowsAreAsked, DocumentsAreAsked
  <2>2. DOMAIN asked[x.id] = {"name"}
    BY <2>1
  <2>3. DOMAIN asked[x.id] = {"name", "description", "price"}
    BY <2>1, StorefrontAssumption
  <2> QED
    BY <2>2, <2>3
<1> QED
  BY <1>1, <1>2 DEF Ids

\* There are no more things than calls that create.
LEMMA NoMoreThanMakers ==
  ASSUME NEW things, \A x \in things : x.id \in Makers,
         \A x, y \in things : x.id = y.id => x = y
  PROVE  /\ IsFiniteSet(things) /\ Cardinality(things) \in Nat
         /\ Cardinality(things) <= Cardinality(Makers)
<1> DEFINE f == [x \in things |-> x.id]
<1>1. f \in Injection(things, Makers)
  BY DEF Injection, IsInjective
<1>2. IsFiniteSet(things) /\ Cardinality(things) <= Cardinality(Makers)
  <2> HIDE DEF f
  <2> QED
    BY <1>1, StorefrontAssumption, FS_Injection
<1> QED
  BY <1>2, FS_CardinalityType

\* A page holds no more than was asked for, and all there is if no page was
\* asked for (account/repository.go:57, catalog/repository.go:78).
LEMMA PageLemma ==
  ASSUME NEW things, IsFiniteSet(things), NEW skip \in Nat, NEW take \in Nat,
         NEW p \in Page(things, skip, take)
  PROVE  /\ p \subseteq things
         /\ ~(skip = 0 /\ take = 0) => Cardinality(p) <= take
         /\ skip = 0 /\ take = 0 /\ Cardinality(things) <= MaxTake => p = things
<1> DEFINE n == Cardinality(things)
           t == Take(skip, take)
           k == IF n > skip THEN Min({t, n - skip}) ELSE 0
<1>1. n \in Nat
  BY FS_CardinalityType
<1>2. t \in Nat /\ (~(skip = 0 /\ take = 0) => t <= take) /\ (skip = 0 /\ take = 0 => t = MaxTake)
  BY StorefrontAssumption DEF Take
<1>3. p \subseteq things /\ Cardinality(p) = k
  BY DEF Page, kSubset
<1> HIDE DEF n, t
<1>4. ASSUME NEW a \in Int, NEW b \in Int
      PROVE  Min({a, b}) = IF a <= b THEN a ELSE b
  <2> DEFINE m == IF a <= b THEN a ELSE b
  <2>1. m \in {a, b} /\ \A y \in {a, b} : m <= y
    OBVIOUS
  <2>2. \A x \in {a, b} : (\A y \in {a, b} : x <= y) => x = m
    OBVIOUS
  <2> QED
    BY <2>1, <2>2 DEF Min
<1>5. n > skip => k = IF t <= n - skip THEN t ELSE n - skip
  BY <1>1, <1>2, <1>4
<1>6. ~(skip = 0 /\ take = 0) => k <= take
  BY <1>1, <1>2, <1>5
<1>7. ASSUME skip = 0, take = 0, n <= MaxTake
      PROVE  p = things
  <2>1. k = n
    BY <1>1, <1>2, <1>5, <1>7, StorefrontAssumption
  <2> QED
    BY <1>3, <2>1, FS_Subset DEF n
<1> QED
  BY <1>3, <1>6, <1>7 DEF n

\* The last of some ids is one of them.
LEMMA LastIsMember ==
  ASSUME NEW ids \in SetToAllKPermutations(Makers), ids # <<>>
  PROVE  Last(ids) \in Range(ids)
<1>1. PICK s \in SUBSET Makers : ids \in SetToSeqs(s)
  BY DEF SetToAllKPermutations
<1>2. ids \in [1..Cardinality(s) -> s]
  BY <1>1 DEF SetToSeqs
<1>3. Cardinality(s) \in Nat
  BY StorefrontAssumption, FS_Subset, FS_CardinalityType
<1>4. ids \in Seq(s) /\ Len(ids) = Cardinality(s) /\ DOMAIN ids = 1..Len(ids)
  BY <1>2, <1>3
<1>5. Len(ids) # 0
  BY <1>4
<1> QED
  BY <1>3, <1>4, <1>5 DEF Last, Range

-----------------------------------------------------------------------------
(* Lemmas about calls *)

\* A request to create that is on its way is a request, and no reply.
LEMMA CreateIsRequest ==
  ASSUME NEW c, CreateOnWire(c)
  PROVE  /\ "method" \in DOMAIN wire[c]
         /\ wire[c].method = IF asked[c] \in Wares THEN "PostProduct" ELSE "PostAccount"
         /\ asked[c] \in [name : AccountNames] <=> asked[c] \notin Wares
         /\ asked[c] \notin Wares => wire[c] = PostAccountRequest(asked[c].name)
         /\ asked[c] \in Wares =>
              wire[c] = PostProductRequest(asked[c].name, asked[c].description, asked[c].price)
<1>1. asked[c] \in [name : AccountNames] => asked[c] \notin Wares
  <2>1. asked[c] \in [name : AccountNames] => DOMAIN asked[c] = {"name"}
    OBVIOUS
  <2>2. asked[c] \in Wares => DOMAIN asked[c] = {"name", "description", "price"}
    BY StorefrontAssumption
  <2> QED
    BY <2>1, <2>2
<1> QED
  BY <1>1 DEF CreateOnWire, AsksToCreate, PostAccountRequest, PostProductRequest

\* What tells a caller what was made is no request.
LEMMA CreatedIsReply ==
  ASSUME NEW c, CreatedOnWire(c)
  PROVE  "method" \notin DOMAIN wire[c]
BY DEF CreatedOnWire, Error

\* So it is with what is looked up.
LEMMA LookIsRequest ==
  ASSUME NEW c, LookOnWire(c)
  PROVE  /\ "method" \in DOMAIN wire[c]
         /\ wire[c].method \in {"GetAccount", "GetAccounts", "GetProduct", "GetProducts"}
<1>1. CASE wire[c] = GetAccountRequest(asked[c].accounts)
  BY <1>1 DEF GetAccountRequest
<1>2. CASE wire[c] = GetAccountsRequest(0, 0)
  BY <1>2 DEF GetAccountsRequest
<1>3. CASE wire[c] = GetProductRequest(asked[c].products)
  BY <1>3 DEF GetProductRequest
<1>4. ASSUME NEW skip, NEW take, NEW ids, NEW query,
             wire[c] = GetProductsRequest(skip, take, ids, query)
      PROVE  "method" \in DOMAIN wire[c] /\ wire[c].method = "GetProducts"
  BY <1>4 DEF GetProductsRequest
<1> QED
  BY <1>1, <1>2, <1>3, <1>4 DEF LookOnWire

LEMMA RightIsReply ==
  ASSUME NEW c, NEW m
  PROVE  /\ Right(c, m) => "method" \notin DOMAIN m
         /\ RightError(c, m) => IsError(m)
         /\ RightAnswer(c, m) => ~IsError(m)
BY DEF Right, RightError, RightAnswer, Error, IsError

\* Things are only added, each under an id that nothing had.
Grows ==
  /\ accounts \subseteq accounts' /\ documents \subseteq documents'
  /\ searchable \subseteq searchable' /\ searchable' \subseteq documents'
  /\ \A x \in accounts' \ accounts : x.id \notin Written
  /\ \A x \in documents' \ documents : x.id \notin Written
  /\ \A x, y \in documents' : x.id = y.id => x = y

LEMMA GrowsWritten ==
  ASSUME Grows
  PROVE  Written \subseteq Written' /\ Ids(searchable) \subseteq Ids(searchable)'
BY DEF Grows, Written, Ids

\* What somebody had been told of stays what it was.
LEMMA KnownStays ==
  ASSUME Grows, NEW c, told'[c] = told[c], told[c].made \subseteq Written,
         RowsAreAsked, DocumentsAreAsked
  PROVE  Known(c, accounts)' = Known(c, accounts) /\ Known(c, documents)' = Known(c, documents)
<1>1. Ids(accounts) \subseteq Ids(accounts') /\ Ids(documents) \subseteq Ids(documents')
  BY DEF Grows, Ids
<1>2. \A i \in Written : i \in Ids(accounts') => i \in Ids(accounts)
  BY DEF Grows, Ids, Written
<1>3. \A i \in Written : i \in Ids(documents') => i \in Ids(documents)
  BY DEF Grows, Ids, Written
<1> QED
  BY <1>1, <1>2, <1>3 DEF Known

\* So a reply that was right stays right.
LEMMA RightStays ==
  ASSUME Grows, NEW c, NEW m, told'[c] = told[c], asked'[c] = asked[c],
         told[c].made \subseteq Written, told[c].found \subseteq Ids(searchable),
         RowsAreAsked, DocumentsAreAsked
  PROVE  /\ RightError(c, m) => RightError(c, m)'
         /\ RightAnswer(c, m) => RightAnswer(c, m)'
<1>1. Known(c, accounts)' = Known(c, accounts) /\ Known(c, documents)' = Known(c, documents)
  BY KnownStays
<1>2. /\ AsksAccount(c)' = AsksAccount(c) /\ AsksAccounts(c)' = AsksAccounts(c)
      /\ AsksProduct(c)' = AsksProduct(c) /\ AsksSearch(c)' = AsksSearch(c)
      /\ AsksOrder(c)' = AsksOrder(c)
  BY DEF AsksAccount, AsksAccounts, AsksProduct, AsksSearch, AsksOrder
<1>3. \A p : Fits(c, p)' = Fits(c, p)
  BY DEF Fits
<1>4. ASSUME NEW found, RightSearch(c, found)
      PROVE  RightSearch(c, found)'
  <2>1. \A p \in searchable' : p.id \in told[c].found => p \in searchable
    BY DEF Grows, Ids
  <2> QED
    BY <1>3, <1>4, <2>1 DEF RightSearch, Grows
<1>5. RightError(c, m) => RightError(c, m)'
  BY <1>1, <1>2 DEF RightError
<1>6. RightAnswer(c, m) => RightAnswer(c, m)'
  BY <1>1, <1>2, <1>4 DEF RightAnswer
<1> QED
  BY <1>5, <1>6

\* It is the reply that is right, wherever it is.
LEMMA RightElsewhere ==
  ASSUME NEW c, NEW m
  PROVE  /\ m = wire'[c] /\ Right(c, m)' => Right(c, wire[c])'
         /\ m = result'[c] /\ RightError(c, m)' => RightError(c, result[c])'
         /\ m = result'[c] /\ RightAnswer(c, m)' => RightAnswer(c, result[c])'
BY DEF Right, RightError, RightAnswer, RightSearch

\* A call that does not move is served as before.
SameCall(c) ==
  /\ phase'[c] = phase[c] /\ asked'[c] = asked[c]
  /\ wire'[c] = wire[c] /\ result'[c] = result[c]

LEMMA MakerStays ==
  ASSUME Grows, NEW c, SameCall(c), MakerIsServed(c), c \in Written' => c \in Written
  PROVE  MakerIsServed(c)'
BY GrowsWritten DEF MakerIsServed, CreateOnWire, AsksToCreate, CreatedOnWire, SameCall

LEMMA ReaderStays ==
  ASSUME Grows, NEW c, SameCall(c), told'[c] = told[c], ReaderIsServed(c),
         RowsAreAsked, DocumentsAreAsked
  PROVE  ReaderIsServed(c)'
<1>1. told'[c].made \subseteq Written' /\ told'[c].found \subseteq Ids(searchable)'
  BY GrowsWritten DEF ReaderIsServed
<1>2. LookOnWire(c) => LookOnWire(c)'
  BY DEF LookOnWire, SameCall, AsksAccount, AsksAccounts, AsksProduct, AsksSearch, AsksOrder
<1>3. \A m : RightError(c, m) => RightError(c, m)'
  BY RightStays DEF SameCall, ReaderIsServed
<1>4. \A m : RightAnswer(c, m) => RightAnswer(c, m)'
  BY RightStays DEF SameCall, ReaderIsServed
<1>5. phase'[c] = phase[c] /\ wire'[c] = wire[c] /\ result'[c] = result[c]
  BY DEF SameCall
<1>6. Right(c, wire[c]) => Right(c, wire[c])'
  <2>1. \A m : Right(c, m) => Right(c, m)'
    BY <1>3, <1>4 DEF Right
  <2> QED
    BY <1>5, <2>1, RightElsewhere
<1>7. wire'[c] = NoMessage \/ (phase'[c] = "waiting" /\ (LookOnWire(c)' \/ Right(c, wire[c])'))
  BY <1>2, <1>5, <1>6 DEF ReaderIsServed
<1>8. /\ phase'[c] = "ok" => RightAnswer(c, result[c])'
      /\ phase'[c] = "failed" => RightError(c, result[c])'
  BY <1>3, <1>4, <1>5, RightElsewhere DEF ReaderIsServed
<1> QED
  BY <1>1, <1>5, <1>7, <1>8 DEF ReaderIsServed

-----------------------------------------------------------------------------
(* Each step keeps the invariant *)

\* What the types say follows from the rest of the invariant, and these.
PhasesAndResults ==
  /\ searchable \subseteq documents
  /\ phase \in [Calls -> {"idle", "waiting", "ok", "failed"}]
  /\ \A c \in Calls : result[c] = NoMessage <=> phase[c] \in {"idle", "waiting"}

LEMMA TypesFollow ==
  /\ RowsAreAsked /\ DocumentsAreAsked /\ MakersAreServed /\ ReadersAreServed
  /\ PhasesAndResults
  => TypeOK
<1> SUFFICES ASSUME RowsAreAsked, DocumentsAreAsked, MakersAreServed, ReadersAreServed
             PROVE  /\ Ids(accounts) \subseteq Makers /\ Ids(documents) \subseteq Makers
                    /\ Ids(accounts) \cap Ids(documents) = {}
                    /\ \A c \in Calls : wire[c] # NoMessage =>
                         \/ phase[c] = "waiting"
                         \/ c \in Makers /\ phase[c] = "failed" /\ IsRequest(wire[c])
  BY DEF TypeOK, PhasesAndResults
<1>1. Ids(accounts) \subseteq Makers /\ Ids(documents) \subseteq Makers
  BY DEF Ids, RowsAreAsked, DocumentsAreAsked
<1>2. Ids(accounts) \cap Ids(documents) = {}
  BY OneThingPerId
<1>3. ASSUME NEW c \in Makers, wire[c] # NoMessage
      PROVE  phase[c] = "waiting" \/ (phase[c] = "failed" /\ IsRequest(wire[c]))
  <2>1. CreateOnWire(c) \/ CreatedOnWire(c)
    BY <1>3 DEF MakersAreServed, MakerIsServed
  <2>2. CASE CreateOnWire(c)
    BY <1>3, <2>2, CreateIsRequest DEF IsRequest, CreateOnWire
  <2>3. CASE CreatedOnWire(c)
    BY <2>3 DEF CreatedOnWire
  <2> QED
    BY <2>1, <2>2, <2>3
<1>4. ASSUME NEW c \in Readers, wire[c] # NoMessage
      PROVE  phase[c] = "waiting"
  BY <1>4 DEF ReadersAreServed, ReaderIsServed
<1> QED
  BY <1>1, <1>2, <1>3, <1>4 DEF Calls

LEMMA OneThing ==
  RowsAreAsked /\ DocumentsAreAsked => \A x, y \in documents : x.id = y.id => x = y
BY OneThingPerId

\* What is to be shown of a step: things are added as they were asked for, and
\* the one call that moves, if any, is served.
LEMMA InvFollows ==
  ASSUME Inv, Grows, NEW c \in Calls,
         \A d \in Calls \ {c} : SameCall(d),
         \A d \in Readers \ {c} : told'[d] = told[d],
         \A i \in Written' : i \in Written \/ i = c,
         RowsAreAsked', DocumentsAreAsked', CallsKept',
         c \in Makers => MakerIsServed(c)',
         c \in Readers => ReaderIsServed(c)',
         phase' \in [Calls -> {"idle", "waiting", "ok", "failed"}],
         result'[c] = NoMessage <=> phase'[c] \in {"idle", "waiting"}
  PROVE  Inv'
<1>1. MakersAreServed'
  <2> SUFFICES ASSUME NEW d \in Makers, d # c
               PROVE  MakerIsServed(d)'
    BY DEF MakersAreServed
  <2> QED
    BY MakerStays DEF Inv, MakersAreServed, Calls
<1>2. ReadersAreServed'
  <2> SUFFICES ASSUME NEW d \in Readers, d # c
               PROVE  ReaderIsServed(d)'
    BY DEF ReadersAreServed
  <2> QED
    BY ReaderStays DEF Inv, ReadersAreServed, Calls
<1>3. \A d \in Calls : result'[d] = NoMessage <=> phase'[d] \in {"idle", "waiting"}
  BY DEF Inv, TypeOK, SameCall
<1>4. PhasesAndResults'
  BY <1>3 DEF PhasesAndResults, Grows
<1>5. TypeOK'
  BY <1>1, <1>2, <1>4, TypesFollow, PTL
<1> QED
  BY <1>1, <1>2, <1>5 DEF Inv

\* Nothing grows where nothing is written.
LEMMA NothingGrows ==
  ASSUME Inv, UNCHANGED <<accounts, documents, searchable>>
  PROVE  Grows /\ Written' = Written
BY OneThingPerId DEF Inv, TypeOK, Grows, Written, Ids

\* Things stay as they were asked for while the calls that made them do.
LEMMA ThingsStay ==
  ASSUME Inv, UNCHANGED <<accounts, documents>>,
         \A x \in accounts \cup documents :
           asked'[x.id] = asked[x.id] /\ (phase'[x.id] # "idle" \/ phase'[x.id] = phase[x.id])
  PROVE  RowsAreAsked' /\ DocumentsAreAsked'
BY DEF Inv, RowsAreAsked, DocumentsAreAsked, AccountRow, ProductDocument

LEMMA InvInit == Init => Inv
<1> SUFFICES ASSUME Init PROVE Inv
  OBVIOUS
<1>1. RowsAreAsked /\ DocumentsAreAsked /\ CallsKept
  BY DEF Init, RowsAreAsked, DocumentsAreAsked, CallsKept
<1>2. MakersAreServed
  BY DEF Init, MakersAreServed, MakerIsServed, Written, Ids, Calls
<1>3. ReadersAreServed
  BY DEF Init, ReadersAreServed, ReaderIsServed, Written, Ids, Calls
<1>4. TypeOK
  BY <1>1, <1>2, <1>3, TypesFollow DEF Init, PhasesAndResults
<1> QED
  BY <1>1, <1>2, <1>3, <1>4 DEF Inv

\* A call that asks, once it has: its request is on the wire.
LEMMA InvokeHolds ==
  ASSUME Inv, NEW c \in Calls, NEW wish, NEW request, MayCall(c), Invoke(c, wish, request),
         c \in Makers => AsksToCreate(c)',
         c \in Readers => LookOnWire(c)'
  PROVE  Inv'
<1>1. Grows /\ Written' = Written
  BY NothingGrows DEF Invoke
<1>2. /\ phase'[c] = "waiting" /\ asked'[c] = wish /\ wire'[c] = request
      /\ result'[c] = NoMessage
  BY DEF Inv, TypeOK, CallsKept, Invoke
<1>3. /\ \A d \in Calls \ {c} : SameCall(d)
      /\ \A d \in Readers \ {c} : told'[d] = told[d]
      /\ CallsKept'
      /\ phase' \in [Calls -> {"idle", "waiting", "ok", "failed"}]
  BY DEF Inv, TypeOK, CallsKept, Invoke, SameCall
<1>4. ASSUME c \in Makers
      PROVE  c \notin Written /\ MakerIsServed(c)'
  <2>1. phase[c] = "idle"
    BY <1>4, StorefrontAssumption DEF MayCall
  <2>2. c \notin Written
    BY <1>4, <2>1 DEF Inv, MakersAreServed, MakerIsServed
  <2>3. CreateOnWire(c)'
    BY <1>1, <1>2, <1>4, <2>2 DEF CreateOnWire
  <2>4. asked'[c] \in [name : AccountNames] \cup Wares
    BY <1>4 DEF AsksToCreate
  <2> QED
    BY <1>2, <2>2, <2>3, <2>4 DEF MakerIsServed
<1>5. RowsAreAsked' /\ DocumentsAreAsked'
  <2>1. \A x \in accounts \cup documents : x.id \in Calls /\ x.id # c
    BY <1>4, StorefrontAssumption
       DEF Inv, RowsAreAsked, DocumentsAreAsked, Calls, Written, Ids
  <2>2. UNCHANGED <<accounts, documents>>
    BY DEF Invoke
  <2> QED
    BY <1>3, <2>1, <2>2, ThingsStay DEF SameCall
<1>6. ASSUME c \in Readers
      PROVE  ReaderIsServed(c)'
  <2>1. told'[c] = [made |-> Made, found |-> told[c].found \cup ShownTo(c)]
    BY <1>6 DEF Inv, CallsKept, Invoke
  <2>2. Made \subseteq Written
    BY DEF Made, Inv, MakersAreServed, MakerIsServed
  <2>3. ShownTo(c) \subseteq Ids(searchable)
    <3> SUFFICES ASSUME Answered(c, "products"), asked[c].products = NoId
                 PROVE  Ids(result[c].products) \subseteq Ids(searchable)
      BY DEF ShownTo
    <3>1. RightAnswer(c, result[c])
      BY <1>6 DEF Answered, Inv, ReadersAreServed, ReaderIsServed
    <3>2. "products" \in DOMAIN asked[c]
      BY DEF Answered
    <3>3. ~AsksAccount(c) /\ ~AsksAccounts(c) /\ ~AsksOrder(c)
      BY <3>2 DEF AsksAccount, AsksAccounts, AsksOrder
    <3>4. ~AsksProduct(c)
      BY StorefrontAssumption DEF AsksProduct
    <3>5. result[c].products \subseteq searchable
      BY <3>1, <3>3, <3>4 DEF RightAnswer, RightSearch
    <3> QED
      BY <3>5 DEF Ids
  <2>4. told'[c].made \subseteq Written' /\ told'[c].found \subseteq Ids(searchable)'
    <3>1. told[c].found \subseteq Ids(searchable)
      BY <1>6 DEF Inv, ReadersAreServed, ReaderIsServed
    <3>2. Ids(searchable)' = Ids(searchable)
      BY DEF Ids, Invoke
    <3> QED
      BY <1>1, <2>1, <2>2, <2>3, <3>1, <3>2
  <2> QED
    BY <1>2, <1>6, <2>4 DEF ReaderIsServed
<1> QED
  BY <1>1, <1>2, <1>3, <1>4, <1>5, <1>6, InvFollows

\* Those who create (graphql/mutation_resolver.go:18, :34).
LEMMA CreateHolds ==
  ASSUME Inv, NEW c \in Makers,
         \/ \E name \in AccountNames : CreateAccount(c, name)
         \/ \E ware \in Wares : CreateProduct(c, ware)
  PROVE  Inv'
<1>1. c \in Calls /\ c \notin Readers
  BY StorefrontAssumption DEF Calls
<1>2. ASSUME NEW name \in AccountNames, CreateAccount(c, name)
      PROVE  Inv'
  <2> DEFINE wish == [name |-> name]
  <2>1. MayCall(c) /\ Invoke(c, wish, PostAccountRequest(name))
    BY <1>2 DEF CreateAccount
  <2>2. asked'[c] = wish /\ wire'[c] = PostAccountRequest(name)
    BY <1>1, <2>1 DEF Inv, CallsKept, Invoke
  <2>3. AsksToCreate(c)'
    BY <2>2 DEF AsksToCreate
  <2> QED
    BY <1>1, <2>1, <2>3, InvokeHolds
<1>3. ASSUME NEW ware \in Wares, CreateProduct(c, ware)
      PROVE  Inv'
  <2> DEFINE request == PostProductRequest(ware.name, ware.description, ware.price)
  <2>1. MayCall(c) /\ Invoke(c, ware, request)
    BY <1>3 DEF CreateProduct
  <2>2. asked'[c] = ware /\ wire'[c] = request
    BY <1>1, <2>1 DEF Inv, CallsKept, Invoke
  <2>3. AsksToCreate(c)'
    BY <2>2 DEF AsksToCreate
  <2> QED
    BY <1>1, <2>1, <2>3, InvokeHolds
<1> QED
  BY <1>2, <1>3

\* A reader asks with this wish, for that.
LEMMA ReaderAsks ==
  ASSUME Inv, NEW c \in Readers, NEW wish, NEW request, MayCall(c), Invoke(c, wish, request),
         \/ wish \in [accounts : Makers] /\ request = GetAccountRequest(wish.accounts)
         \/ wish = [accounts |-> NoId] /\ request = GetAccountsRequest(0, 0)
         \/ /\ wish \in [products : Makers, word : Words, page : {NoPage}]
            /\ request = GetProductRequest(wish.products)
         \/ /\ wish \in [products : {NoId}, word : Words, page : Pages]
            /\ request = GetProductsRequest(wish.page.skip, wish.page.take, <<>>, wish.word)
         \/ /\ wish \in [ids : SetToAllKPermutations(Makers)]
            /\ request = GetProductsRequest(0, 0, wish.ids, "")
  PROVE  Inv'
<1>1. c \in Calls /\ c \notin Makers
  BY StorefrontAssumption DEF Calls
<1>2. asked'[c] = wish /\ wire'[c] = request
  BY <1>1 DEF Inv, CallsKept, Invoke
<1>3. LookOnWire(c)'
  BY <1>2 DEF LookOnWire, AsksAccount, AsksAccounts, AsksProduct, AsksSearch, AsksOrder
<1> QED
  BY <1>1, <1>3, InvokeHolds

\* Those who look up (graphql/query_resolver.go:13, :48; order/server.go:79).
LEMMA LookUpHolds ==
  ASSUME Inv, NEW c \in Readers,
         \/ \E id \in Makers : AccountsById(c, id)
         \/ AccountsAll(c)
         \/ \E word \in Words :
               \/ \E page \in Pages : Products(c, page, word, NoId)
               \/ \E id \in Makers : Products(c, NoPage, word, id)
         \/ \E ids \in SetToAllKPermutations(Makers) : ProductsOfOrder(c, ids)
  PROVE  Inv'
<1>1. ASSUME NEW id \in Makers, AccountsById(c, id)
      PROVE  Inv'
  <2> DEFINE wish == [accounts |-> id]
  <2>1. MayCall(c) /\ Invoke(c, wish, GetAccountRequest(wish.accounts)) /\ wish \in [accounts : Makers]
    BY <1>1 DEF AccountsById
  <2> HIDE DEF wish
  <2> QED
    BY <2>1, ReaderAsks
<1>2. ASSUME AccountsAll(c)
      PROVE  Inv'
  BY <1>2, ReaderAsks DEF AccountsAll
<1>3. ASSUME NEW word \in Words, NEW page \in Pages, Products(c, page, word, NoId)
      PROVE  Inv'
  <2> DEFINE wish == [products |-> NoId, word |-> word, page |-> page]
  <2>1. wish.page = page /\ wish.word = word
    OBVIOUS
  <2>2. MayCall(c) /\ Invoke(c, wish, GetProductsRequest(page.skip, page.take, <<>>, word))
    BY <1>3 DEF Products
  <2>3. wish \in [products : {NoId}, word : Words, page : Pages]
    OBVIOUS
  <2> HIDE DEF wish
  <2>4. MayCall(c) /\ Invoke(c, wish, GetProductsRequest(wish.page.skip, wish.page.take, <<>>, wish.word))
    BY <2>1, <2>2
  <2> QED
    BY <2>3, <2>4, ReaderAsks
<1>4. ASSUME NEW word \in Words, NEW id \in Makers, Products(c, NoPage, word, id)
      PROVE  Inv'
  <2> DEFINE wish == [products |-> id, word |-> word, page |-> NoPage]
  <2>1. MayCall(c) /\ Invoke(c, wish, GetProductRequest(wish.products))
    BY <1>4, StorefrontAssumption DEF Products
  <2>2. wish \in [products : Makers, word : Words, page : {NoPage}]
    OBVIOUS
  <2> HIDE DEF wish
  <2> QED
    BY <2>1, <2>2, ReaderAsks
<1>5. ASSUME NEW ids \in SetToAllKPermutations(Makers), ProductsOfOrder(c, ids)
      PROVE  Inv'
  <2> DEFINE wish == [ids |-> ids]
  <2>1. MayCall(c) /\ Invoke(c, wish, GetProductsRequest(0, 0, wish.ids, ""))
    BY <1>5 DEF ProductsOfOrder
  <2>2. wish \in [ids : SetToAllKPermutations(Makers)]
    OBVIOUS
  <2> HIDE DEF wish
  <2> QED
    BY <2>1, <2>2, ReaderAsks
<1> QED
  BY <1>1, <1>2, <1>3, <1>4, <1>5

\* A request that has arrived is that of its call.
LEMMA PostArrived ==
  ASSUME Inv, NEW c \in Makers, Arrived(c, "PostAccount") \/ Arrived(c, "PostProduct")
  PROVE  /\ CreateOnWire(c)
         /\ Arrived(c, "PostAccount") <=> asked[c] \notin Wares
<1>1. "method" \in DOMAIN wire[c] /\ wire[c] # NoMessage
  BY DEF Arrived, IsRequest
<1>2. CreateOnWire(c)
  BY <1>1, CreatedIsReply DEF Inv, MakersAreServed, MakerIsServed
<1> QED
  BY <1>1, <1>2, CreateIsRequest DEF Arrived, IsRequest

\* The reply to a maker, when what it tells of is written (or it is an error).
LEMMA ReplyToMaker ==
  ASSUME Inv, NEW c \in Makers, NEW m, CreateOnWire(c), Reply(c, m),
         UNCHANGED <<phase, asked, result, told>>,
         \/ m = Error("broken")
         \/ c \in Written' /\ DOMAIN m \in {{"account"}, {"product"}}
  PROVE  /\ \A d \in Calls \ {c} : SameCall(d)
         /\ CallsKept'
         /\ MakerIsServed(c)'
<1>1. c \in Calls
  BY DEF Calls
<1>2. wire'[c] = IF phase[c] = "waiting" THEN m ELSE NoMessage
  BY <1>1 DEF Inv, CallsKept, Reply
<1>3. phase[c] \in {"waiting", "failed"} /\ asked[c] \in [name : AccountNames] \cup Wares
  BY DEF CreateOnWire, AsksToCreate
<1>4. wire'[c] = NoMessage \/ CreatedOnWire(c)'
  BY <1>2, <1>3 DEF CreatedOnWire, Error
<1>5. MakerIsServed(c)'
  BY <1>3, <1>4 DEF MakerIsServed
<1>6. (\A d \in Calls \ {c} : SameCall(d)) /\ CallsKept'
  BY DEF Inv, CallsKept, Reply, SameCall
<1> QED
  BY <1>5, <1>6

\* The account is stored under the id of its call (account/server.go:38,
\* account/repository.go:43).
LEMMA PostAccountHolds ==
  ASSUME Inv, NEW c \in Makers, PostAccount(c)
  PROVE  Inv'
<1> DEFINE row == AccountRow(c, wire[c])
<1>1. CreateOnWire(c) /\ asked[c] \notin Wares
  BY PostArrived DEF PostAccount
<1>2. /\ c \in Calls /\ c \notin Readers
      /\ asked[c] \in [name : AccountNames] /\ wire[c] = PostAccountRequest(asked[c].name)
      /\ c \notin Written /\ phase[c] # "idle"
  BY <1>1, CreateIsRequest, StorefrontAssumption DEF CreateOnWire, Calls
<1>3. row = AccountRow(c, asked[c]) /\ row.id = c
  BY <1>2 DEF AccountRow, PostAccountRequest
<1>4. /\ accounts' = accounts \cup {row}
      /\ UNCHANGED <<documents, searchable, phase, asked, result, told>>
  BY DEF PostAccount
<1> HIDE DEF row
<1>5. Grows /\ Written' = Written \cup {c}
  <2>1. \A x, y \in documents : x.id = y.id => x = y
    BY OneThing DEF Inv
  <2>2. searchable \subseteq documents
    BY DEF Inv, TypeOK
  <2>3. Ids(accounts') = Ids(accounts) \cup {c}
    BY <1>3, <1>4 DEF Ids
  <2> QED
    BY <1>2, <1>3, <1>4, <2>1, <2>2, <2>3 DEF Grows, Written
<1>6. RowsAreAsked' /\ DocumentsAreAsked'
  <2>1. RowsAreAsked'
    BY <1>2, <1>3, <1>4 DEF Inv, RowsAreAsked, AccountRow
  <2>2. DocumentsAreAsked'
    BY <1>4 DEF Inv, DocumentsAreAsked, ProductDocument
  <2> QED
    BY <2>1, <2>2
<1>7. PICK m : /\ Reply(c, m)
               /\ m = Error("broken") \/ DOMAIN m = {"account"}
  BY DEF PostAccount, PostAccountResponse
<1>8. /\ \A d \in Calls \ {c} : SameCall(d)
      /\ CallsKept'
      /\ MakerIsServed(c)'
  BY <1>1, <1>4, <1>5, <1>7, ReplyToMaker
<1> QED
  BY <1>2, <1>4, <1>5, <1>6, <1>8, InvFollows DEF Inv, TypeOK

\* So is the product (catalog/server.go:39, catalog/repository.go:49).
LEMMA PostProductHolds ==
  ASSUME Inv, NEW c \in Makers, PostProduct(c)
  PROVE  Inv'
<1> DEFINE doc == ProductDocument(c, wire[c])
<1>1. CreateOnWire(c)
  BY PostArrived DEF PostProduct
<1>2. asked[c] \in Wares
  BY PostArrived, CreateIsRequest, <1>1 DEF PostProduct, Arrived
<1>3. /\ c \in Calls /\ c \notin Readers
      /\ wire[c] = PostProductRequest(asked[c].name, asked[c].description, asked[c].price)
      /\ c \notin Written /\ phase[c] # "idle"
  BY <1>1, <1>2, CreateIsRequest, StorefrontAssumption DEF CreateOnWire, Calls
<1>4. doc = ProductDocument(c, asked[c]) /\ doc.id = c
  BY <1>3 DEF ProductDocument, PostProductRequest
<1>5. /\ documents' = documents \cup {doc}
      /\ UNCHANGED <<accounts, searchable, phase, asked, result, told>>
  BY DEF PostProduct
<1> HIDE DEF doc
<1>6. Grows /\ Written' = Written \cup {c}
  <2>1. \A x, y \in documents : x.id = y.id => x = y
    BY OneThing DEF Inv
  <2>2. searchable \subseteq documents
    BY DEF Inv, TypeOK
  <2>3. Ids(documents') = Ids(documents) \cup {c}
    BY <1>4, <1>5 DEF Ids
  <2>4. \A x \in documents : x.id # c
    BY <1>3 DEF Ids, Written
  <2> QED
    BY <1>3, <1>4, <1>5, <2>1, <2>2, <2>3, <2>4 DEF Grows, Written
<1>7. RowsAreAsked' /\ DocumentsAreAsked'
  <2>1. RowsAreAsked'
    BY <1>5 DEF Inv, RowsAreAsked, AccountRow
  <2>2. DocumentsAreAsked'
    BY <1>2, <1>3, <1>4, <1>5 DEF Inv, DocumentsAreAsked, ProductDocument
  <2> QED
    BY <2>1, <2>2
<1>8. PICK m : /\ Reply(c, m)
               /\ m = Error("broken") \/ DOMAIN m = {"product"}
  BY DEF PostProduct, PostProductResponse
<1>9. /\ \A d \in Calls \ {c} : SameCall(d)
      /\ CallsKept'
      /\ MakerIsServed(c)'
  BY <1>1, <1>5, <1>6, <1>8, ReplyToMaker
<1> QED
  BY <1>3, <1>5, <1>6, <1>7, <1>9, InvFollows DEF Inv, TypeOK

\* A write that fails leaves all as it is.
LEMMA PostFailsHolds ==
  ASSUME Inv, NEW c \in Makers, PostFails(c)
  PROVE  Inv'
<1>1. CreateOnWire(c)
  BY PostArrived DEF PostFails
<1>2. /\ Reply(c, Error("broken"))
      /\ UNCHANGED <<accounts, documents, searchable, phase, asked, result, told>>
  BY DEF PostFails
<1>3. c \in Calls /\ c \notin Readers
  BY StorefrontAssumption DEF Calls
<1>4. /\ \A d \in Calls \ {c} : SameCall(d)
      /\ CallsKept'
      /\ MakerIsServed(c)'
  BY <1>1, <1>2, ReplyToMaker
<1>5. Grows /\ Written' = Written /\ RowsAreAsked' /\ DocumentsAreAsked'
  BY <1>2, NothingGrows, ThingsStay
<1> QED
  BY <1>2, <1>3, <1>4, <1>5, InvFollows DEF Inv, TypeOK

\* The index is refreshed.
LEMMA RefreshHolds ==
  ASSUME Inv, Refresh
  PROVE  Inv'
<1>1. /\ searchable' = documents
      /\ UNCHANGED <<accounts, documents, phase, asked, wire, result, told>>
  BY DEF Refresh
<1>2. Grows /\ Written' = Written
  BY <1>1, OneThing DEF Inv, TypeOK, Grows, Written, Ids
<1>3. RowsAreAsked' /\ DocumentsAreAsked' /\ CallsKept' /\ PhasesAndResults'
  BY <1>1, ThingsStay DEF Inv, TypeOK, CallsKept, PhasesAndResults
<1>4. MakersAreServed'
  BY <1>1, <1>2, MakerStays DEF Inv, MakersAreServed, SameCall
<1>5. ReadersAreServed'
  BY <1>1, <1>2, ReaderStays DEF Inv, ReadersAreServed, SameCall
<1>6. TypeOK'
  BY <1>3, <1>4, <1>5, TypesFollow, PTL
<1> QED
  BY <1>3, <1>4, <1>5, <1>6 DEF Inv

-----------------------------------------------------------------------------
(* What the services answer a reader is right *)

\* By id (account/repository.go:48, catalog/repository.go:58).
LEMMA AccountIsRight ==
  ASSUME Inv, NEW c \in Readers, AsksAccount(c), NEW m \in GetAccount(GetAccountRequest(asked[c].accounts))
  PROVE  Right(c, m)
<1> DEFINE id == asked[c].accounts
           rows == ById(accounts, id)
<1>1. GetAccountRequest(id).id = id
  BY DEF GetAccountRequest
<1>2. CASE rows = {}
  <2>1. m = Error("notFound")
    BY <1>1, <1>2 DEF GetAccount
  <2>2. id \notin Ids(accounts)
    BY <1>2 DEF ById, Ids
  <2> QED
    BY <2>1, <2>2 DEF Right, RightError, Known
<1>3. CASE rows # {}
  <2>1. PICK a \in rows : m = GetAccountResponse(a)
    BY <1>1, <1>3 DEF GetAccount
  <2>2. a.id = id
    BY <2>1 DEF ById
  <2>3. DOMAIN m = {"account"} /\ m.account.id = id
    BY <2>1, <2>2 DEF GetAccountResponse, Account
  <2> QED
    BY <2>3 DEF Right, RightAnswer
<1> QED
  BY <1>2, <1>3

LEMMA ProductIsRight ==
  ASSUME Inv, NEW c \in Readers, AsksProduct(c), NEW m \in GetProduct(GetProductRequest(asked[c].products))
  PROVE  Right(c, m)
<1> DEFINE id == asked[c].products
           docs == ById(documents, id)
<1>1. GetProductRequest(id).id = id
  BY DEF GetProductRequest
<1>2. CASE docs = {}
  <2>1. m = Error("notFound")
    BY <1>1, <1>2 DEF GetProduct
  <2>2. id \notin Ids(documents)
    BY <1>2 DEF ById, Ids
  <2> QED
    BY <2>1, <2>2 DEF Right, RightError, Known
<1>3. CASE docs # {}
  <2>1. PICK p \in docs : m = GetProductResponse(p)
    BY <1>1, <1>3 DEF GetProduct
  <2>2. p.id = id
    BY <2>1 DEF ById
  <2>3. DOMAIN m = {"product"} /\ m.product.id = id
    BY <2>1, <2>2 DEF GetProductResponse, Product
  <2> QED
    BY <2>3 DEF Right, RightAnswer
<1> QED
  BY <1>2, <1>3

\* The list of all accounts (account/repository.go:57).
LEMMA AccountsAreRight ==
  ASSUME Inv, NEW c \in Readers, AsksAccounts(c), NEW m \in GetAccounts(GetAccountsRequest(0, 0))
  PROVE  Right(c, m)
<1>1. /\ IsFiniteSet(accounts) /\ Cardinality(accounts) \in Nat /\ Cardinality(Makers) \in Nat
      /\ Cardinality(accounts) <= Cardinality(Makers)
  BY OneThingPerId, NoMoreThanMakers, StorefrontAssumption, FS_CardinalityType DEF Inv, RowsAreAsked
<1>2. PICK p \in Page(accounts, 0, 0) : m = GetAccountsResponse(p)
  BY DEF GetAccounts, GetAccountsRequest
<1>3. AllOnOnePage => p = accounts
  BY <1>1, PageLemma, StorefrontAssumption DEF AllOnOnePage
<1>4. DOMAIN m = {"accounts"} /\ m.accounts = { Account(a) : a \in p }
  BY <1>2 DEF GetAccountsResponse
<1>5. \A a \in p : Account(a).id = a.id
  BY DEF Account
<1>6. AllOnOnePage => Known(c, accounts) \subseteq Ids(m.accounts)
  BY <1>3, <1>4, <1>5 DEF Known, Ids
<1> QED
  BY <1>4, <1>6 DEF Right, RightAnswer

\* Products are shown as they are stored.
LEMMA ProductsAsStored ==
  ASSUME Inv, NEW p, p \subseteq documents
  PROVE  /\ DOMAIN GetProductsResponse(p) = {"products"}
         /\ GetProductsResponse(p).products = p
<1>1. \A x \in documents : Product(x) = x
  BY DEF Inv, DocumentsAreAsked, Product, ProductDocument
<1>2. { Product(x) : x \in p } = p
  BY <1>1
<1> QED
  BY <1>2 DEF GetProductsResponse

\* Searches and listings (catalog/repository.go:78, :131).
LEMMA SearchIsRight ==
  ASSUME Inv, NEW c \in Readers, AsksSearch(c),
         NEW m \in GetProducts(GetProductsRequest(asked[c].page.skip, asked[c].page.take,
                                                  <<>>, asked[c].word))
  PROVE  Right(c, m)
<1> DEFINE word == asked[c].word
           page == asked[c].page
           r == GetProductsRequest(page.skip, page.take, <<>>, word)
           found == IF word = "" THEN searchable
                    ELSE { d \in searchable : word \in {d.name, d.description} }
<1>1. /\ r.query = word /\ r.ids = <<>> /\ r.skip = page.skip /\ r.take = page.take
  BY DEF GetProductsRequest
<1>2. /\ page \in Pages /\ page.skip \in Nat /\ page.take \in Nat
      /\ page = [skip |-> page.skip, take |-> page.take]
  BY StorefrontAssumption DEF AsksSearch
<1>3. m \in Search(found, r)
  <2> HIDE DEF r
  <2>1. m \in GetProducts(r)
    BY DEF r
  <2> QED
    BY <1>1, <2>1 DEF GetProducts, SearchProducts, ListProducts
<1>4. found \subseteq searchable /\ searchable \subseteq documents
  BY DEF Inv, TypeOK
<1>5. \A d \in searchable : d \in found <=> Fits(c, d)
  BY DEF Fits
<1> HIDE DEF found, r
<1>6. /\ IsFiniteSet(found) /\ Cardinality(found) \in Nat /\ Cardinality(Makers) \in Nat
      /\ Cardinality(found) <= Cardinality(Makers)
  <2>1. /\ \A x \in found : x.id \in Makers
        /\ \A x, y \in found : x.id = y.id => x = y
    BY <1>4, OneThing DEF Inv, DocumentsAreAsked
  <2> QED
    BY <2>1, NoMoreThanMakers, StorefrontAssumption, FS_CardinalityType
<1>7. CASE documents = {}
  BY <1>3, <1>7 DEF Search, Right, RightError
<1>8. CASE documents # {}
  <2>1. PICK p \in Page(found, page.skip, page.take) : m = GetProductsResponse(p)
    BY <1>1, <1>3, <1>8 DEF Search
  <2>2. /\ p \subseteq found
        /\ ~(page.skip = 0 /\ page.take = 0) => Cardinality(p) <= page.take
        /\ page.skip = 0 /\ page.take = 0 /\ Cardinality(found) <= MaxTake => p = found
    BY <1>2, <1>6, PageLemma
  <2>3. DOMAIN m = {"products"} /\ m.products = p
    BY <1>4, <2>1, <2>2, ProductsAsStored
  <2>4. page # NoPage => ~(page.skip = 0 /\ page.take = 0)
    BY <1>2 DEF NoPage
  <2>5. page = NoPage => page.skip = 0 /\ page.take = 0
    BY DEF NoPage
  <2>6. AllOnOnePage /\ page = NoPage => p = found
    BY <1>6, <2>2, <2>5, StorefrontAssumption DEF AllOnOnePage
  <2>7. RightSearch(c, p)
    BY <1>4, <1>5, <2>2, <2>4, <2>6 DEF RightSearch
  <2> QED
    BY <2>3, <2>7 DEF Right, RightAnswer
<1> QED
  BY <1>7, <1>8

\* The products of an order (catalog/repository.go:100).
LEMMA OrderIsRight ==
  ASSUME Inv, NEW c \in Readers, AsksOrder(c),
         NEW m \in GetProducts(GetProductsRequest(0, 0, asked[c].ids, ""))
  PROVE  Right(c, m)
<1> DEFINE ids == asked[c].ids
           r == GetProductsRequest(0, 0, ids, "")
<1>1. r.query = "" /\ r.ids = ids
  BY DEF GetProductsRequest
<1>2. ids \in SetToAllKPermutations(Makers)
  BY DEF AsksOrder
<1>3. m \in GetProducts(r)
  OBVIOUS
<1> HIDE DEF r
<1>4. CASE ids = <<>>
  <2>1. m \in Search(searchable, r)
    BY <1>1, <1>3, <1>4 DEF GetProducts, ListProducts
  <2>2. m = Error("noIndex") \/ \E p : m = GetProductsResponse(p)
    BY <2>1 DEF Search
  <2>3. m = Error("noIndex") \/ DOMAIN m = {"products"}
    BY <2>2 DEF GetProductsResponse
  <2> QED
    BY <1>4, <2>3 DEF Right, RightError, RightAnswer
<1>5. CASE ids # <<>>
  <2>1. m \in ListProductsWithIds(r)
    BY <1>1, <1>3, <1>5 DEF GetProducts
  <2>2. CASE Last(ids) \notin Ids(documents)
    <3>1. m = Error("notFound")
      BY <1>1, <2>1, <2>2 DEF ListProductsWithIds
    <3>2. ~(Range(ids) \subseteq Known(c, documents))
      BY <1>2, <1>5, <2>2, LastIsMember DEF Known
    <3> QED
      BY <3>1, <3>2 DEF Right, RightError
  <2>3. CASE Last(ids) \in Ids(documents)
    <3> DEFINE p == { d \in documents : d.id \in Range(ids) }
    <3>1. m = GetProductsResponse(p)
      BY <1>1, <2>1, <2>3 DEF ListProductsWithIds
    <3>2. DOMAIN m = {"products"} /\ m.products = p
      <4>1. p \subseteq documents
        OBVIOUS
      <4> HIDE DEF p
      <4> QED
        BY <3>1, <4>1, ProductsAsStored
    <3>3. Range(ids) \cap Known(c, documents) \subseteq Ids(m.products)
      BY <3>2 DEF Known, Ids
    <3> QED
      BY <3>2, <3>3 DEF Right, RightAnswer
  <2> QED
    BY <2>2, <2>3
<1> QED
  BY <1>4, <1>5

LEMMA AnswerIsRight ==
  ASSUME Inv, NEW c \in Readers, LookOnWire(c), NEW m \in Answers(wire[c])
  PROVE  Right(c, m)
<1>1. CASE AsksAccount(c) /\ wire[c] = GetAccountRequest(asked[c].accounts)
  <2>1. wire[c].method = "GetAccount"
    BY <1>1 DEF GetAccountRequest
  <2>2. m \in GetAccount(wire[c])
    BY <2>1 DEF Answers
  <2> QED
    BY <1>1, <2>2, AccountIsRight
<1>2. CASE AsksAccounts(c) /\ wire[c] = GetAccountsRequest(0, 0)
  <2>1. wire[c].method = "GetAccounts"
    BY <1>2 DEF GetAccountsRequest
  <2>2. m \in GetAccounts(wire[c])
    BY <2>1 DEF Answers
  <2> QED
    BY <1>2, <2>2, AccountsAreRight
<1>3. CASE AsksProduct(c) /\ wire[c] = GetProductRequest(asked[c].products)
  <2>1. wire[c].method = "GetProduct"
    BY <1>3 DEF GetProductRequest
  <2>2. m \in GetProduct(wire[c])
    BY <2>1 DEF Answers
  <2> QED
    BY <1>3, <2>2, ProductIsRight
<1>4. ASSUME NEW skip, NEW take, NEW ids, NEW query,
             wire[c] = GetProductsRequest(skip, take, ids, query)
      PROVE  m \in GetProducts(wire[c])
  <2>1. wire[c].method = "GetProducts"
    BY <1>4 DEF GetProductsRequest
  <2> QED
    BY <2>1 DEF Answers
<1>5. CASE /\ AsksSearch(c)
           /\ wire[c] = GetProductsRequest(asked[c].page.skip, asked[c].page.take, <<>>, asked[c].word)
  BY <1>4, <1>5, SearchIsRight
<1>6. CASE AsksOrder(c) /\ wire[c] = GetProductsRequest(0, 0, asked[c].ids, "")
  BY <1>4, <1>6, OrderIsRight
<1> QED
  BY <1>1, <1>2, <1>3, <1>5, <1>6 DEF LookOnWire

\* A handler answers a reader.
LEMMA LookHolds ==
  ASSUME Inv, NEW c \in Readers, Look(c)
  PROVE  Inv'
<1>1. c \in Calls /\ c \notin Makers
  BY StorefrontAssumption DEF Calls
<1>2. UNCHANGED <<accounts, documents, searchable, phase, asked, result, told>>
  BY DEF Look
<1>3. PICK m \in Answers(wire[c]) \cup {Error("broken")} : Reply(c, m)
  BY DEF Look
<1>4. "method" \in DOMAIN wire[c] /\ wire[c] # NoMessage
  BY DEF Look, Arrived, IsRequest
<1>5. ReaderIsServed(c)
  BY DEF Inv, ReadersAreServed
<1>6. phase[c] = "waiting" /\ LookOnWire(c)
  BY <1>4, <1>5, RightIsReply DEF ReaderIsServed
<1>7. Right(c, m)
  BY <1>3, <1>6, AnswerIsRight DEF Right, RightError
<1>8. Grows /\ Written' = Written /\ RowsAreAsked' /\ DocumentsAreAsked'
  BY <1>2, NothingGrows, ThingsStay
<1>9. /\ \A d \in Calls \ {c} : SameCall(d)
      /\ CallsKept' /\ wire'[c] = m
  BY <1>1, <1>2, <1>3, <1>6 DEF Inv, CallsKept, Reply, SameCall
<1>10. /\ \A n : RightError(c, n) => RightError(c, n)'
       /\ \A n : RightAnswer(c, n) => RightAnswer(c, n)'
  BY <1>2, <1>5, <1>8, RightStays DEF Inv, ReaderIsServed
<1>11. Right(c, wire[c])'
  <2>1. Right(c, m)'
    BY <1>7, <1>10 DEF Right
  <2> QED
    BY <1>9, <2>1, RightElsewhere
<1>12. told'[c].made \subseteq Written' /\ told'[c].found \subseteq Ids(searchable)'
  BY <1>2, <1>5, <1>8, GrowsWritten DEF ReaderIsServed
<1>13. ReaderIsServed(c)'
  BY <1>2, <1>6, <1>11, <1>12 DEF ReaderIsServed
<1> QED
  BY <1>1, <1>2, <1>8, <1>9, <1>13, InvFollows DEF Inv, TypeOK

\* A call ends, with the reply or at the deadline.
Ends(c, how, answer) ==
  /\ phase[c] = "waiting"
  /\ how \in {"ok", "failed"} /\ answer # NoMessage
  /\ phase' = [phase EXCEPT ![c] = how]
  /\ result' = [result EXCEPT ![c] = answer]
  /\ \A d \in Calls \ {c} : wire'[d] = wire[d]
  /\ DOMAIN wire' = Calls
  /\ UNCHANGED <<accounts, documents, searchable, asked, told>>

LEMMA EndHolds ==
  ASSUME Inv, NEW c \in Calls, NEW how, NEW answer, Ends(c, how, answer),
         c \in Makers => /\ wire'[c] = NoMessage \/ (how = "failed" /\ CreateOnWire(c)')
                         /\ how = "ok" => c \in Written,
         c \in Readers => /\ wire'[c] = NoMessage
                          /\ how = "ok" => RightAnswer(c, answer)
                          /\ how = "failed" => RightError(c, answer)
  PROVE  Inv'
<1>1. UNCHANGED <<accounts, documents, searchable, asked, told>>
  BY DEF Ends
<1>2. /\ phase'[c] = how /\ result'[c] = answer /\ how \in {"ok", "failed"}
      /\ answer # NoMessage
      /\ \A d \in Calls \ {c} : SameCall(d)
      /\ CallsKept'
      /\ phase' \in [Calls -> {"idle", "waiting", "ok", "failed"}]
  BY DEF Inv, TypeOK, CallsKept, Ends, SameCall
<1>3. Grows /\ Written' = Written
  BY <1>1, NothingGrows
<1>4. RowsAreAsked' /\ DocumentsAreAsked'
  <2>1. \A x \in accounts \cup documents : x.id \in Calls
    BY DEF Inv, RowsAreAsked, DocumentsAreAsked, Calls
  <2>2. \A x \in accounts \cup documents : phase'[x.id] # "idle" \/ phase'[x.id] = phase[x.id]
    BY <1>2, <2>1 DEF SameCall
  <2> QED
    BY <1>1, <2>2, ThingsStay
<1>5. ASSUME c \in Makers PROVE MakerIsServed(c)'
  <2>1. phase[c] = "waiting" /\ asked'[c] = asked[c]
    BY DEF Ends
  <2>2. asked'[c] \in [name : AccountNames] \cup Wares
    BY <1>5, <2>1 DEF Inv, MakersAreServed, MakerIsServed
  <2> QED
    BY <1>2, <1>3, <1>5, <2>2 DEF MakerIsServed
<1>6. ASSUME c \in Readers PROVE ReaderIsServed(c)'
  <2>1. ReaderIsServed(c)
    BY <1>6 DEF Inv, ReadersAreServed
  <2>2. told'[c].made \subseteq Written' /\ told'[c].found \subseteq Ids(searchable)'
    BY <1>1, <1>3, <2>1, GrowsWritten DEF ReaderIsServed
  <2>3. /\ how = "ok" => RightAnswer(c, answer)'
        /\ how = "failed" => RightError(c, answer)'
    BY <1>1, <1>3, <1>6, <2>1, RightStays DEF Inv, ReaderIsServed
  <2>4. /\ how = "ok" => RightAnswer(c, result[c])'
        /\ how = "failed" => RightError(c, result[c])'
    BY <1>2, <2>3, RightElsewhere
  <2> QED
    BY <1>2, <1>6, <2>2, <2>4 DEF ReaderIsServed
<1>7. result'[c] = NoMessage <=> phase'[c] \in {"idle", "waiting"}
  BY <1>2
<1>8. \A d \in Readers \ {c} : told'[d] = told[d]
  BY <1>1
<1>9. \A i \in Written' : i \in Written \/ i = c
  BY <1>3
<1> QED
  BY <1>2, <1>3, <1>4, <1>5, <1>6, <1>7, <1>8, <1>9, InvFollows

\* The resolver returns the reply.
LEMMA ReceiveHolds ==
  ASSUME Inv, NEW c \in Calls, Receive(c)
  PROVE  Inv'
<1> DEFINE how == IF IsError(wire[c]) THEN "failed" ELSE "ok"
<1>1. "method" \notin DOMAIN wire[c] /\ wire[c] # NoMessage
  BY DEF Receive, IsReply
<1>2. Ends(c, how, wire[c]) /\ wire'[c] = NoMessage
  BY <1>1 DEF Receive, Ends, Inv, CallsKept
<1>3. ASSUME c \in Makers, how = "ok"
      PROVE  c \in Written
  <2>1. CreatedOnWire(c)
    BY <1>1, <1>3, CreateIsRequest DEF Inv, MakersAreServed, MakerIsServed
  <2>2. wire[c] # Error("broken")
    BY <1>3 DEF IsError, Error
  <2> QED
    BY <2>1, <2>2 DEF CreatedOnWire
<1>4. ASSUME c \in Readers
      PROVE  /\ how = "ok" => RightAnswer(c, wire[c])
             /\ how = "failed" => RightError(c, wire[c])
  <2>1. Right(c, wire[c])
    BY <1>1, <1>4, LookIsRequest DEF Inv, ReadersAreServed, ReaderIsServed
  <2> QED
    BY <2>1, RightIsReply DEF Right
<1> HIDE DEF how
<1> QED
  BY <1>2, <1>3, <1>4, EndHolds

\* The resolver stops waiting.
LEMMA GiveUpHolds ==
  ASSUME Inv, NEW c \in Calls, GiveUp(c)
  PROVE  Inv'
<1>1. /\ phase[c] = "waiting" /\ phase'[c] = "failed"
      /\ wire'[c] = IF c \in Makers /\ IsRequest(wire[c]) THEN wire[c] ELSE NoMessage
      /\ UNCHANGED <<accounts, documents, searchable, asked, told>>
  BY DEF GiveUp, Inv, CallsKept, TypeOK
<1>2. Error("broken") # NoMessage
  BY StorefrontAssumption DEF Error
<1>3. Ends(c, "failed", Error("broken"))
  BY <1>2 DEF GiveUp, Ends, Inv, CallsKept
<1>4. Written' = Written
  BY <1>1, NothingGrows
<1>5. ASSUME c \in Makers
      PROVE  wire'[c] = NoMessage \/ CreateOnWire(c)'
  <2> SUFFICES ASSUME IsRequest(wire[c]) PROVE CreateOnWire(c)'
    BY <1>1
  <2>1. CreateOnWire(c)
    BY <1>5, CreatedIsReply DEF IsRequest, Inv, MakersAreServed, MakerIsServed
  <2> QED
    BY <1>1, <1>4, <1>5, <2>1 DEF CreateOnWire, AsksToCreate
<1>6. c \in Readers => wire'[c] = NoMessage
  BY <1>1, StorefrontAssumption
<1>7. RightError(c, Error("broken"))
  BY DEF RightError
<1> QED
  BY <1>3, <1>5, <1>6, <1>7, EndHolds

LEMMA InvStep == Inv /\ [Next]_vars => Inv'
<1> SUFFICES ASSUME Inv, [Next]_vars
             PROVE  Inv'
  OBVIOUS
<1>1. ASSUME NEW c \in Makers,
             \/ \E name \in AccountNames : CreateAccount(c, name)
             \/ \E ware \in Wares : CreateProduct(c, ware)
      PROVE  Inv'
  BY <1>1, CreateHolds
<1>2. ASSUME NEW c \in Makers, PostAccount(c) \/ PostProduct(c) \/ PostFails(c)
      PROVE  Inv'
  BY <1>2, PostAccountHolds, PostProductHolds, PostFailsHolds
<1>3. ASSUME NEW c \in Readers,
             \/ \E id \in Makers : AccountsById(c, id)
             \/ AccountsAll(c)
             \/ \E word \in Words :
                   \/ \E page \in Pages : Products(c, page, word, NoId)
                   \/ \E id \in Makers : Products(c, NoPage, word, id)
             \/ \E ids \in SetToAllKPermutations(Makers) : ProductsOfOrder(c, ids)
      PROVE  Inv'
  BY <1>3, LookUpHolds
<1>4. ASSUME NEW c \in Readers, Look(c)
      PROVE  Inv'
  BY <1>4, LookHolds
<1>5. ASSUME NEW c \in Calls, Receive(c) \/ GiveUp(c)
      PROVE  Inv'
  BY <1>5, ReceiveHolds, GiveUpHolds
<1>6. CASE Refresh
  BY <1>6, RefreshHolds
<1>7. CASE UNCHANGED vars
  <2>1. /\ UNCHANGED <<accounts, documents, searchable, phase, asked, wire, result, told>>
        /\ Grows
    BY <1>7, NothingGrows DEF vars
  <2>2. RowsAreAsked' /\ DocumentsAreAsked' /\ CallsKept' /\ TypeOK'
    BY <2>1, ThingsStay DEF Inv, CallsKept, TypeOK, IsRequest
  <2>3. MakersAreServed' /\ ReadersAreServed'
    BY <2>1, NothingGrows, MakerStays, ReaderStays
       DEF Inv, MakersAreServed, ReadersAreServed, SameCall
  <2> QED
    BY <2>2, <2>3 DEF Inv
<1> QED
  BY <1>1, <1>2, <1>3, <1>4, <1>5, <1>6, <1>7 DEF Next

-----------------------------------------------------------------------------
(* The theorems *)

\* The invariant holds in every reachable state.
THEOREM Invariance == Spec => []Inv
BY InvInit, InvStep, PTL DEF Spec

\* Types; a call that is not over has no result yet.
THEOREM TypeCorrect == Spec => []TypeOK
<1>1. Inv => TypeOK
  BY DEF Inv
<1> QED
  BY Invariance, <1>1, PTL

\* What a reader asks for can be told by the fields of it.
LEMMA WhatIsAsked ==
  ASSUME NEW c
  PROVE  /\ AsksAccount(c) =>
              /\ "accounts" \in DOMAIN asked[c]
              /\ "products" \notin DOMAIN asked[c] /\ "ids" \notin DOMAIN asked[c]
              /\ asked[c].accounts \in Makers /\ asked[c].accounts # NoId
         /\ AsksAccounts(c) =>
              /\ "accounts" \in DOMAIN asked[c]
              /\ "products" \notin DOMAIN asked[c] /\ "ids" \notin DOMAIN asked[c]
              /\ asked[c].accounts = NoId
         /\ AsksProduct(c) \/ AsksSearch(c) =>
              /\ "products" \in DOMAIN asked[c]
              /\ "accounts" \notin DOMAIN asked[c] /\ "ids" \notin DOMAIN asked[c]
              /\ asked[c].products = NoId <=> AsksSearch(c)
         /\ AsksOrder(c) =>
              /\ "ids" \in DOMAIN asked[c]
              /\ "accounts" \notin DOMAIN asked[c] /\ "products" \notin DOMAIN asked[c]
BY StorefrontAssumption DEF AsksAccount, AsksAccounts, AsksProduct, AsksSearch, AsksOrder

\* As long as everything fits into one page, a call finds what somebody had been
\* told was made before it began.
THEOREM ToldCorrect == AllOnOnePage /\ Spec => []ToldIsFound
<1> SUFFICES ASSUME AllOnOnePage
             PROVE  Spec => []ToldIsFound
  OBVIOUS
<1>1. Inv => ToldIsFound
  <2> SUFFICES ASSUME Inv, NEW c \in Readers
               PROVE  ToldIsFound!(c)
    BY DEF ToldIsFound
  <2> DEFINE a == asked[c]
  <2>1. ReaderIsServed(c)
    BY DEF Inv, ReadersAreServed
  <2>2. ASSUME phase[c] = "failed", result[c] = Error("notFound")
        PROVE  \/ "accounts" \in DOMAIN a /\ a.accounts \notin Known(c, accounts)
               \/ /\ "accounts" \notin DOMAIN a /\ "products" \in DOMAIN a
                  /\ a.products \notin Known(c, documents)
               \/ /\ "accounts" \notin DOMAIN a /\ "products" \notin DOMAIN a
                  /\ ~(Range(a.ids) \subseteq Known(c, documents))
    <3>1. RightError(c, Error("notFound"))
      BY <2>1, <2>2 DEF ReaderIsServed
    <3>2. Error("notFound") \notin {Error("broken"), Error("noIndex")}
      BY DEF Error
    <3> QED
      BY <3>1, <3>2, WhatIsAsked DEF RightError
  <2>3. phase[c] = "ok" => RightAnswer(c, result[c])
    BY <2>1 DEF ReaderIsServed
  <2>4. ASSUME Answered(c, "accounts")
        PROVE  IF a.accounts = NoId
               THEN Known(c, accounts) \subseteq Ids(result[c].accounts)
               ELSE result[c].account.id = a.accounts
    BY <2>3, <2>4, WhatIsAsked DEF Answered, RightAnswer
  <2>5. ASSUME Answered(c, "products"), a.products # NoId
        PROVE  "product" \in DOMAIN result[c] /\ result[c].product.id = a.products
    BY <2>3, <2>5, WhatIsAsked DEF Answered, RightAnswer
  <2>6. ASSUME Answered(c, "ids"), a.ids # <<>>
        PROVE  Range(a.ids) \cap Known(c, documents) \subseteq Ids(Shown(c))
    BY <2>3, <2>6, WhatIsAsked DEF Answered, RightAnswer, Shown
  <2>7. ASSUME phase[c] = "failed", result[c] = Error("notFound")
        PROVE  CASE "accounts" \in DOMAIN a -> a.accounts \notin Known(c, accounts)
                 [] "products" \in DOMAIN a -> a.products \notin Known(c, documents)
                 [] OTHER -> ~(Range(a.ids) \subseteq Known(c, documents))
    <3> DEFINE byId == "accounts" \in DOMAIN a
               byProduct == "products" \in DOMAIN a
    <3>1. ~(byId /\ byProduct)
      <4>1. RightError(c, Error("notFound"))
        BY <2>1, <2>7 DEF ReaderIsServed
      <4>2. Error("notFound") \notin {Error("broken"), Error("noIndex")}
        BY DEF Error
      <4> QED
        BY <4>1, <4>2, WhatIsAsked DEF RightError
    <3>2. CASE byId
      BY <2>2, <2>7, <3>1, <3>2
    <3>3. CASE ~byId /\ byProduct
      BY <2>2, <2>7, <3>3
    <3>4. CASE ~byId /\ ~byProduct
      BY <2>2, <2>7, <3>4
    <3> QED
      BY <3>2, <3>3, <3>4
  <2> QED
    BY <2>4, <2>5, <2>6, <2>7 DEF Known
<1> QED
  BY Invariance, <1>1, PTL

\* On the same condition results of searches do not come and go.
THEOREM SearchesCorrect == AllOnOnePage /\ Spec => []SearchesAgree
<1> SUFFICES ASSUME AllOnOnePage
             PROVE  Spec => []SearchesAgree
  OBVIOUS
<1>1. Inv => SearchesAgree
  <2> SUFFICES ASSUME Inv, NEW c \in Readers,
                      Answered(c, "products"), asked[c].products = NoId
               PROVE  /\ \A p \in Shown(c) : p \in documents /\ Fits(c, p)
                      /\ asked[c].page # NoPage => Cardinality(Shown(c)) <= asked[c].page.take
                      /\ asked[c].page = NoPage =>
                           \A p \in documents :
                              p.id \in told[c].found /\ Fits(c, p) => p \in Shown(c)
    BY DEF SearchesAgree, Fits
  <2>1. RightAnswer(c, result[c]) /\ told[c].found \subseteq Ids(searchable)
    BY DEF Inv, ReadersAreServed, ReaderIsServed, Answered
  <2>2. RightSearch(c, Shown(c))
    <3>1. ~AsksAccount(c) /\ ~AsksAccounts(c) /\ ~AsksOrder(c) /\ ~AsksProduct(c)
      BY StorefrontAssumption
         DEF Answered, AsksAccount, AsksAccounts, AsksOrder, AsksProduct
    <3> QED
      BY <2>1, <3>1 DEF RightAnswer, Shown
  <2>3. searchable \subseteq documents
    BY DEF Inv, TypeOK
  <2>4. \A p \in documents : p.id \in Ids(searchable) => p \in searchable
    BY <2>3, OneThing DEF Inv, Ids
  <2> QED
    BY <2>1, <2>2, <2>3, <2>4 DEF RightSearch
<1> QED
  BY Invariance, <1>1, PTL

-----------------------------------------------------------------------------
(* The registry *)

\* What the registry sees of a thing.
EntryOf(x) == [id |-> x.id, what |-> WhatOf(x)]

Registered == { EntryOf(x) : x \in accounts \cup documents }

\* It is what the call with its id asks for.
LEMMA EntriesAreAsked ==
  /\ \A c : asked[c] \in [name : AccountNames] => WhatOf(AccountRow(c, asked[c])) = asked[c]
  /\ \A c : asked[c] \in Wares => WhatOf(ProductDocument(c, asked[c])) = asked[c]
<1>1. ASSUME NEW c, asked[c] \in [name : AccountNames]
      PROVE  WhatOf(AccountRow(c, asked[c])) = asked[c]
  <2> DEFINE x == AccountRow(c, asked[c])
  <2>1. DOMAIN x \ {"id"} = {"name"} /\ x["name"] = asked[c]["name"]
    BY DEF AccountRow
  <2>2. asked[c] = [f \in {"name"} |-> asked[c][f]]
    BY <1>1
  <2> HIDE DEF x
  <2>3. WhatOf(x) = asked[c]
    BY <2>1, <2>2 DEF WhatOf
  <2> QED
    BY <2>3 DEF x
<1>2. ASSUME NEW c, asked[c] \in Wares
      PROVE  WhatOf(ProductDocument(c, asked[c])) = asked[c]
  <2> DEFINE x == ProductDocument(c, asked[c])
             fields == {"name", "description", "price"}
  <2>1. DOMAIN x \ {"id"} = fields /\ \A f \in fields : x[f] = asked[c][f]
    BY DEF ProductDocument
  <2>2. asked[c] = [f \in fields |-> asked[c][f]]
    BY <1>2, StorefrontAssumption
  <2> HIDE DEF x, fields
  <2>3. WhatOf(x) = asked[c]
    BY <2>1, <2>2 DEF WhatOf
  <2> QED
    BY <2>3 DEF x
<1> QED
  BY <1>1, <1>2

LEMMA RegisteredFacts ==
  ASSUME Inv
  PROVE  /\ \A x \in accounts \cup documents : EntryOf(x) = [id |-> x.id, what |-> asked[x.id]]
         /\ \A c \in Written : [id |-> c, what |-> asked[c]] \in Registered
         /\ \A e \in Registered : e.id \in Written
<1>1. \A x \in accounts : WhatOf(x) = asked[x.id]
  BY EntriesAreAsked DEF Inv, RowsAreAsked
<1>2. \A x \in documents : WhatOf(x) = asked[x.id]
  BY EntriesAreAsked DEF Inv, DocumentsAreAsked
<1>3. \A x \in accounts \cup documents : EntryOf(x) = [id |-> x.id, what |-> asked[x.id]]
  BY <1>1, <1>2 DEF EntryOf
<1> QED
  BY <1>3 DEF Registered, Written, Ids

\* What the registry sees of the state.
Statuses == [c \in Makers |-> phase[c]]
Asked    == [c \in Makers |-> asked[c]]

\* A call that asks.
LEMMA AskStep ==
  ASSUME Inv, NEW c \in Makers, NEW wish \in [name : AccountNames] \cup Wares, NEW request,
         MayCall(c), Invoke(c, wish, request)
  PROVE  Registry!Ask(c, wish)
<1>1. c \in Calls /\ phase[c] = "idle"
  BY StorefrontAssumption DEF Calls, MayCall
<1>2. /\ phase' = [phase EXCEPT ![c] = "waiting"] /\ asked' = [asked EXCEPT ![c] = wish]
      /\ UNCHANGED <<accounts, documents>>
  BY DEF Invoke
<1>3. Statuses' = [Statuses EXCEPT ![c] = "waiting"] /\ Asked' = [Asked EXCEPT ![c] = wish]
  BY <1>1, <1>2 DEF Inv, TypeOK, CallsKept, Statuses, Asked, Calls
<1>4. Registered' = Registered
  BY <1>2 DEF Registered, EntryOf, WhatOf
<1> QED
  BY <1>1, <1>3, <1>4 DEF Registry!Ask, Registered, EntryOf, Statuses, Asked

\* A thing that is stored is registered under the id of its call.
LEMMA RegisterStep ==
  ASSUME Inv, NEW c \in Makers, PostAccount(c) \/ PostProduct(c)
  PROVE  Registry!Register(c)
<1>1. CreateOnWire(c)
  BY PostArrived DEF PostAccount, PostProduct
<1>2. phase[c] \in {"waiting", "failed"} /\ c \notin Written
  BY <1>1 DEF CreateOnWire
<1>3. UNCHANGED <<phase, asked>>
  BY DEF PostAccount, PostProduct
<1>4. PICK x : /\ x.id = c /\ WhatOf(x) = asked[c]
               /\ accounts' \cup documents' = accounts \cup documents \cup {x}
  <2>1. CASE PostAccount(c)
    <3>1. asked[c] \in [name : AccountNames] /\ wire[c] = PostAccountRequest(asked[c].name)
      BY <1>1, <2>1, PostArrived, CreateIsRequest DEF PostAccount
    <3>2. AccountRow(c, wire[c]) = AccountRow(c, asked[c]) /\ AccountRow(c, asked[c]).id = c
      BY <3>1 DEF AccountRow, PostAccountRequest
    <3>3. accounts' \cup documents' = accounts \cup documents \cup {AccountRow(c, asked[c])}
      BY <2>1, <3>2 DEF PostAccount
    <3> QED
      BY <3>1, <3>2, <3>3, EntriesAreAsked
  <2>2. CASE PostProduct(c)
    <3>1. asked[c] \in Wares
      BY <1>1, <2>2, PostArrived, CreateIsRequest DEF PostProduct, Arrived
    <3>2. wire[c] = PostProductRequest(asked[c].name, asked[c].description, asked[c].price)
      BY <1>1, <3>1, CreateIsRequest
    <3>3. /\ ProductDocument(c, wire[c]) = ProductDocument(c, asked[c])
          /\ ProductDocument(c, asked[c]).id = c
      BY <3>2 DEF ProductDocument, PostProductRequest
    <3>4. accounts' \cup documents' = accounts \cup documents \cup {ProductDocument(c, asked[c])}
      BY <2>2, <3>3 DEF PostProduct
    <3> QED
      BY <3>1, <3>3, <3>4, EntriesAreAsked
  <2> QED
    BY <2>1, <2>2
<1>5. Registered' = Registered \cup {[id |-> c, what |-> asked[c]]}
  <2>1. EntryOf(x) = [id |-> c, what |-> asked[c]]
    BY <1>4 DEF EntryOf
  <2>2. Registered' = { EntryOf(y) : y \in accounts' \cup documents' }
    BY DEF Registered, EntryOf, WhatOf
  <2> QED
    BY <1>4, <2>1, <2>2 DEF Registered
<1>6. Statuses' = Statuses /\ Asked' = Asked
  BY <1>3 DEF Statuses, Asked
<1>7. \A e \in Registered : e.id # c
  BY <1>2, RegisteredFacts
<1> QED
  BY <1>2, <1>5, <1>6, <1>7
     DEF Registry!Register, Registry!Entity, Registered, EntryOf, Statuses, Asked

\* A call that ends has succeeded, and names what is registered, or has failed.
LEMMA EndStep ==
  ASSUME Inv, NEW c \in Makers, Receive(c) \/ GiveUp(c)
  PROVE  Registry!Succeed(c) \/ Registry!Fail(c)
<1>1. c \in Calls /\ phase[c] = "waiting"
  BY DEF Calls, Receive, GiveUp
<1>2. PICK how \in {"ok", "failed"} : phase' = [phase EXCEPT ![c] = how]
  BY DEF Receive, GiveUp
<1>3. UNCHANGED <<accounts, documents, asked>>
  BY DEF Receive, GiveUp
<1>4. Statuses' = [Statuses EXCEPT ![c] = how] /\ Asked' = Asked /\ Registered' = Registered
  BY <1>1, <1>2, <1>3 DEF Inv, TypeOK, Statuses, Asked, Registered, EntryOf, WhatOf, Calls
<1>5. CASE how = "failed"
  BY <1>1, <1>4, <1>5 DEF Registry!Fail, Registered, EntryOf, Statuses, Asked
<1>6. CASE how = "ok"
  <2>1. Inv'
    BY <1>1, ReceiveHolds, GiveUpHolds
  <2>2. phase'[c] = "ok"
    BY <1>1, <1>2, <1>6 DEF Inv, TypeOK
  <2>3. c \in Written'
    BY <2>1, <2>2 DEF Inv, MakersAreServed, MakerIsServed
  <2>4. [id |-> c, what |-> asked[c]] \in Registered
    BY <1>1, <1>3, <2>3, NothingGrows, RegisteredFacts DEF Written, Ids
  <2> QED
    BY <1>1, <1>4, <1>6, <2>4
       DEF Registry!Succeed, Registry!Entity, Registered, EntryOf, Statuses, Asked
<1> QED
  BY <1>5, <1>6

\* What readers and failing writes do is not seen in the registry.
LEMMA UnseenStep ==
  ASSUME UNCHANGED <<accounts, documents>>,
         \A c \in Makers : phase'[c] = phase[c] /\ asked'[c] = asked[c]
  PROVE  UNCHANGED Registry!registryVars
<1>1. Registered' = Registered
  BY DEF Registered, EntryOf, WhatOf
<1>2. Statuses' = Statuses /\ Asked' = Asked
  BY DEF Statuses, Asked
<1> QED
  BY <1>1, <1>2 DEF Registry!registryVars, Registered, EntryOf, Statuses, Asked

LEMMA UnseenAsk ==
  ASSUME Inv, NEW c \in Readers, NEW wish, NEW request, Invoke(c, wish, request)
  PROVE  UNCHANGED Registry!registryVars
<1>1. UNCHANGED <<accounts, documents>>
  BY DEF Invoke
<1>2. \A d \in Makers : phase'[d] = phase[d] /\ asked'[d] = asked[d]
  BY StorefrontAssumption DEF Inv, TypeOK, CallsKept, Calls, Invoke
<1> QED
  BY <1>1, <1>2, UnseenStep

\* Every behaviour of the create paths is one of the registry.
THEOREM CreateImplementsRegistry == Spec => ImplementsRegistry
<1>1. Init => Registry!RegistryInit
  BY DEF Init, Registry!RegistryInit, Calls
<1>2. Inv /\ [Next]_vars => [Registry!RegistryNext]_(Registry!registryVars)
  <2> SUFFICES ASSUME Inv, [Next]_vars
               PROVE  Registry!RegistryNext \/ UNCHANGED Registry!registryVars
    OBVIOUS
  <2>1. ASSUME NEW c \in Makers, NEW name \in AccountNames, CreateAccount(c, name)
        PROVE  Registry!RegistryNext
    <3> DEFINE wish == [name |-> name]
    <3>1. /\ wish \in [name : AccountNames] \cup Wares
          /\ MayCall(c) /\ Invoke(c, wish, PostAccountRequest(name))
      BY <2>1 DEF CreateAccount
    <3> HIDE DEF wish
    <3>2. Registry!Ask(c, wish)
      BY <3>1, AskStep
    <3> QED
      BY <3>1, <3>2 DEF Registry!RegistryNext
  <2>2. ASSUME NEW c \in Makers, NEW ware \in Wares, CreateProduct(c, ware)
        PROVE  Registry!RegistryNext
    <3>1. Registry!Ask(c, ware)
      BY <2>2, AskStep DEF CreateProduct
    <3> QED
      BY <3>1 DEF Registry!RegistryNext
  <2>3. ASSUME NEW c \in Makers, PostAccount(c) \/ PostProduct(c)
        PROVE  Registry!RegistryNext
    BY <2>3, RegisterStep DEF Registry!RegistryNext
  <2>4. ASSUME NEW c \in Makers, PostFails(c)
        PROVE  UNCHANGED Registry!registryVars
    BY <2>4, UnseenStep DEF PostFails
  <2>5. ASSUME NEW c \in Readers,
               \/ \E id \in Makers : AccountsById(c, id)
               \/ AccountsAll(c)
               \/ \E word \in Words :
                     \/ \E page \in Pages : Products(c, page, word, NoId)
                     \/ \E id \in Makers : Products(c, NoPage, word, id)
               \/ \E ids \in SetToAllKPermutations(Makers) : ProductsOfOrder(c, ids)
        PROVE  UNCHANGED Registry!registryVars
    BY <2>5, UnseenAsk DEF AccountsById, AccountsAll, Products, ProductsOfOrder
  <2>6. ASSUME NEW c \in Readers, Look(c)
        PROVE  UNCHANGED Registry!registryVars
    BY <2>6, UnseenStep DEF Look
  <2>7. ASSUME NEW c \in Makers, Receive(c) \/ GiveUp(c)
        PROVE  Registry!RegistryNext
    BY <2>7, EndStep DEF Registry!RegistryNext
  <2>8. ASSUME NEW c \in Readers, Receive(c) \/ GiveUp(c)
        PROVE  UNCHANGED Registry!registryVars
    <3>1. \A d \in Makers : phase'[d] = phase[d] /\ asked'[d] = asked[d]
      BY <2>8, StorefrontAssumption DEF Inv, TypeOK, CallsKept, Calls, Receive, GiveUp
    <3> QED
      BY <2>8, <3>1, UnseenStep DEF Receive, GiveUp
  <2>9. CASE Refresh \/ UNCHANGED vars
    BY <2>9, UnseenStep DEF Refresh, vars
  <2> QED
    BY <2>1, <2>2, <2>3, <2>4, <2>5, <2>6, <2>7, <2>8, <2>9 DEF Next, Calls
<1> QED
  BY Invariance, <1>1, <1>2, PTL DEF Spec, ImplementsRegistry, Registry!RegistrySpec
=============================================================================
