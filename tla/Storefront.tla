------------------------------ MODULE Storefront ------------------------------
(***************************************************************************)
(* Creating and finding accounts and products through the gateway:          *)
(* resolver (graphql/mutation_resolver.go, graphql/query_resolver.go),      *)
(* client, message, handler, service and repository of the account and the  *)
(* catalog service, and what PostgreSQL and Elasticsearch do for them.       *)
(*                                                                          *)
(* Each call is made once.  Its resolver has a deadline and may stop        *)
(* waiting before the handler has even begun; what the handler then writes   *)
(* is written all the same.  A product is stored at once under its id, and   *)
(* found by a search only after the index was refreshed.                     *)
(***************************************************************************)
EXTENDS Messages, Naturals, FiniteSets, FiniteSetsExt, SequencesExt

CONSTANTS
    Makers,         \* calls that create; each stands for the id its handler draws
    Readers,        \* clients that look up, one call after the other
    AccountNames,   \* names that accounts are created with
    LongNames,      \* those of them that do not fit VARCHAR(24)
    Wares,          \* names, descriptions and prices that products are created with
    Words,          \* what is searched for; the empty string asks for a listing
    Pages,          \* the paginations asked for, with skip and take
    MaxTake,        \* the largest page
    NoId,
    NoWish,
    NoMessage

(* Ids are drawn by those who create, and no id is taken for "none".  What a *)
(* product is created with is a name, a description and a price.             *)
ASSUME StorefrontAssumption ==
    /\ IsFiniteSet(Makers) /\ Makers \cap Readers = {}
    /\ NoId \notin Makers
    /\ \A w \in Wares :
          w = [name |-> w.name, description |-> w.description, price |-> w.price]
    /\ Pages \subseteq [skip : Nat, take : Nat]
    /\ MaxTake \in Nat \ {0}
    /\ NoMessage # [error |-> "broken"]

VARIABLES
    accounts,       \* the rows of the table accounts
    documents,      \* the documents of the index catalog, by id
    searchable,     \* those of them that a search can find
    phase,          \* of each call: idle, waiting, ok or failed
    asked,          \* what each call asks for
    wire,           \* the request or the reply of each call that is on its way
    result,         \* what each call was answered
    told            \* history: what answers had told when the call began

vars == <<accounts, documents, searchable, phase, asked, wire, result, told>>

Calls == Makers \cup Readers

Error(cause)  == [error |-> cause]
IsError(m)    == "error" \in DOMAIN m
IsRequest(m)  == m # NoMessage /\ "method" \in DOMAIN m
IsReply(m)    == m # NoMessage /\ "method" \notin DOMAIN m

NoPage == [skip |-> 0, take |-> 0]

Ids(things) == { x.id : x \in things }

-----------------------------------------------------------------------------
Init ==
    /\ accounts = {}
    /\ documents = {}
    /\ searchable = {}
    /\ phase = [c \in Calls |-> "idle"]
    /\ asked = [c \in Calls |-> NoWish]
    /\ wire = [c \in Calls |-> NoMessage]
    /\ result = [c \in Calls |-> NoMessage]
    /\ told = [c \in Readers |-> [made |-> {}, found |-> {}]]

(* What creators were told of, and what a reader was shown by a search.      *)
Made == { c \in Makers : phase[c] = "ok" }

Answered(c, kind) == phase[c] = "ok" /\ kind \in DOMAIN asked[c]

ShownTo(c) ==
    IF Answered(c, "products") /\ asked[c].products = NoId THEN Ids(result[c].products) ELSE {}

(* A creator calls once, a reader again and again.                           *)
MayCall(c) == phase[c] = "idle" \/ (c \in Readers /\ phase[c] # "waiting")

(* The client of a service sends a request.                                  *)
Invoke(c, wish, request) ==
    /\ phase' = [phase EXCEPT ![c] = "waiting"]
    /\ asked' = [asked EXCEPT ![c] = wish]
    /\ wire' = [wire EXCEPT ![c] = request]
    /\ result' = [result EXCEPT ![c] = NoMessage]
    /\ told' = IF c \in Readers
               THEN [told EXCEPT ![c] = [made |-> Made, found |-> @.found \cup ShownTo(c)]]
               ELSE told
    /\ UNCHANGED <<accounts, documents, searchable>>

CreateAccount(c, name) ==
    /\ MayCall(c)
    /\ Invoke(c, [name |-> name], PostAccountRequest(name))

CreateProduct(c, ware) ==
    /\ MayCall(c)
    /\ Invoke(c, ware, PostProductRequest(ware.name, ware.description, ware.price))

(* Query.accounts: by id, or all.                                            *)
AccountsById(c, id) ==
    /\ MayCall(c)
    /\ Invoke(c, [accounts |-> id], GetAccountRequest(id))

AccountsAll(c) ==
    /\ MayCall(c)
    /\ Invoke(c, [accounts |-> NoId], GetAccountsRequest(0, 0))

(* Query.products: an id goes before a word, and both before a page.         *)
Products(c, page, word, id) ==
    /\ MayCall(c)
    /\ Invoke(c, [products |-> id, word |-> word, page |-> page],
              IF id # NoId THEN GetProductRequest(id)
                           ELSE GetProductsRequest(page.skip, page.take, <<>>, word))

(* The order service asks for the products of an order.                      *)
ProductsOfOrder(c, ids) ==
    /\ MayCall(c)
    /\ Invoke(c, [ids |-> ids], GetProductsRequest(0, 0, ids, ""))
-----------------------------------------------------------------------------
(* The services                                                              *)

(* Mutant: a reply is kept for a caller that has gone.                       *)
ReplyAnyway(c, m) == wire' = [wire EXCEPT ![c] = m]

Reply(c, m) == wire' = [wire EXCEPT ![c] = IF phase[c] = "waiting" THEN m ELSE NoMessage]

Arrived(c, method) == IsRequest(wire[c]) /\ wire[c].method = method

AccountRow(c, m)      == [id |-> c, name |-> m.name]
ProductDocument(c, m) == [id |-> c, name |-> m.name,
                          description |-> m.description, price |-> m.price]

(* What was written stays written if the answer is an error: the deadline    *)
(* may pass, or the connection break, behind the write.                      *)
PostAccount(c) ==
    /\ Arrived(c, "PostAccount")
    /\ wire[c].name \notin LongNames
    /\ accounts' = accounts \cup {AccountRow(c, wire[c])}
    /\ \E m \in {PostAccountResponse(AccountRow(c, wire[c])), Error("broken")} : Reply(c, m)
    /\ UNCHANGED <<documents, searchable, phase, asked, result, told>>

PostProduct(c) ==
    /\ Arrived(c, "PostProduct")
    /\ documents' = documents \cup {ProductDocument(c, wire[c])}
    /\ \E m \in {PostProductResponse(ProductDocument(c, wire[c])), Error("broken")} : Reply(c, m)
    /\ UNCHANGED <<accounts, searchable, phase, asked, result, told>>

(* Mutant: the error of the write is dropped.                                *)
PostFailsUnnoticed(c) ==
    /\ Arrived(c, "PostAccount")
    /\ Reply(c, PostAccountResponse(AccountRow(c, wire[c])))
    /\ UNCHANGED <<accounts, documents, searchable, phase, asked, result, told>>

(* Nothing is written.                                                       *)
PostFails(c) ==
    /\ Arrived(c, "PostAccount") \/ Arrived(c, "PostProduct")
    /\ Reply(c, Error("broken"))
    /\ UNCHANGED <<accounts, documents, searchable, phase, asked, result, told>>

ById(things, id) == { x \in things : x.id = id }

GetAccount(m) ==
    LET rows == ById(accounts, m.id)
    IN  IF rows = {} THEN {Error("notFound")} ELSE { GetAccountResponse(a) : a \in rows }

(* Mutant: the size asked for is ignored.                                    *)
TakeAll(skip, take) == MaxTake

(* The page of a request that names none is the largest one; this also       *)
(* happens to a page of nothing at the start.                                *)
Take(skip, take) == IF take > MaxTake \/ (skip = 0 /\ take = 0) THEN MaxTake ELSE take

(* The pages that a query without an order can be answered with.             *)
Page(things, skip, take) ==
    LET n == Cardinality(things)
    IN  kSubset(IF n > skip THEN Min({Take(skip, take), n - skip}) ELSE 0, things)

GetAccounts(m) == { GetAccountsResponse(p) : p \in Page(accounts, m.skip, m.take) }

GetProduct(m) ==
    LET docs == ById(documents, m.id)
    IN  IF docs = {} THEN {Error("notFound")} ELSE { GetProductResponse(p) : p \in docs }

(* The index is made by the first document; a search before fails.           *)
Search(found, m) ==
    IF documents = {} THEN {Error("noIndex")}
    ELSE { GetProductsResponse(p) : p \in Page(found, m.skip, m.take) }

SearchProducts(m) ==
    Search({ d \in searchable : m.query \in {d.name, d.description} }, m)

ListProducts(m) == Search(searchable, m)

(* A document that is missing is left out, and is an error only as the last. *)
ListProductsWithIds(m) ==
    IF Last(m.ids) \notin Ids(documents) THEN {Error("notFound")}
    ELSE { GetProductsResponse({ d \in documents : d.id \in Range(m.ids) }) }

(* Mutant: without a word, products are listed even if ids are given.        *)
GetProductsNoIds(m) ==
    IF m.query # "" THEN SearchProducts(m) ELSE ListProducts(m)

GetProducts(m) ==
    IF m.query # "" THEN SearchProducts(m)
    ELSE IF m.ids # <<>> THEN ListProductsWithIds(m)
    ELSE ListProducts(m)

Answers(m) ==
    CASE m.method = "GetAccount"  -> GetAccount(m)
      [] m.method = "GetAccounts" -> GetAccounts(m)
      [] m.method = "GetProduct"  -> GetProduct(m)
      [] m.method = "GetProducts" -> GetProducts(m)

Look(c) ==
    /\ \E method \in (AccountService \cup CatalogService) \ {"PostAccount", "PostProduct"} :
          Arrived(c, method)
    /\ \E m \in Answers(wire[c]) \cup {Error("broken")} : Reply(c, m)
    /\ UNCHANGED <<accounts, documents, searchable, phase, asked, result, told>>

(* Mutant: the index is refreshed once.                                      *)
RefreshOnce ==
    /\ searchable = {} /\ searchable # documents
    /\ searchable' = documents
    /\ UNCHANGED <<accounts, documents, phase, asked, wire, result, told>>

(* The index is refreshed from time to time.                                 *)
Refresh ==
    /\ searchable # documents
    /\ searchable' = documents
    /\ UNCHANGED <<accounts, documents, phase, asked, wire, result, told>>

-----------------------------------------------------------------------------
(* The client has the reply, and the resolver returns it.                    *)
Receive(c) ==
    /\ phase[c] = "waiting"
    /\ IsReply(wire[c])
    /\ phase' = [phase EXCEPT ![c] = IF IsError(wire[c]) THEN "failed" ELSE "ok"]
    /\ result' = [result EXCEPT ![c] = wire[c]]
    /\ wire' = [wire EXCEPT ![c] = NoMessage]
    /\ UNCHANGED <<accounts, documents, searchable, asked, told>>

(* The deadline of the resolver passes.  A request to create stays on its    *)
(* way; others, and replies, are dropped.                                    *)
GiveUp(c) ==
    /\ phase[c] = "waiting"
    /\ phase' = [phase EXCEPT ![c] = "failed"]
    /\ result' = [result EXCEPT ![c] = Error("broken")]
    /\ wire' = [wire EXCEPT ![c] = IF c \in Makers /\ IsRequest(@) THEN @ ELSE NoMessage]
    /\ UNCHANGED <<accounts, documents, searchable, asked, told>>

Next ==
    \/ \E c \in Makers :
          \/ \E name \in AccountNames : CreateAccount(c, name)
          \/ \E ware \in Wares : CreateProduct(c, ware)
          \/ PostAccount(c) \/ PostProduct(c) \/ PostFails(c)
    \/ \E c \in Readers :
          \/ \E id \in Makers : AccountsById(c, id)
          \/ AccountsAll(c)
          \/ \E word \in Words :
                \/ \E page \in Pages : Products(c, page, word, NoId)
                \/ \E id \in Makers : Products(c, NoPage, word, id)
          \/ \E ids \in SetToAllKPermutations(Makers) : ProductsOfOrder(c, ids)
          \/ Look(c)
    \/ \E c \in Calls : Receive(c) \/ GiveUp(c)
    \/ Refresh

Spec == Init /\ [][Next]_vars

(* Elasticsearch refreshes an index that changed.                            *)
FairSpec == Spec /\ WF_vars(Refresh)
-----------------------------------------------------------------------------
(* Types; what can be searched is there, and a call that is not over has no  *)
(* result yet.                                                                *)
TypeOK ==
    /\ Ids(accounts) \subseteq Makers /\ Ids(documents) \subseteq Makers
    /\ Ids(accounts) \cap Ids(documents) = {}
    /\ searchable \subseteq documents
    /\ phase \in [Calls -> {"idle", "waiting", "ok", "failed"}]
    /\ \A c \in Calls :
          /\ wire[c] # NoMessage => phase[c] = "waiting" \/ (c \in Makers /\ phase[c] = "failed" /\ IsRequest(wire[c]))
          /\ result[c] = NoMessage <=> phase[c] \in {"idle", "waiting"}

(* The promise of the two create mutations.                                  *)
WhatOf(x) == [f \in DOMAIN x \ {"id"} |-> x[f]]

Registry == INSTANCE Registry WITH
    Wishes     <- [name : AccountNames] \cup Wares,
    registered <- { [id |-> x.id, what |-> WhatOf(x)] : x \in accounts \cup documents },
    status     <- [c \in Makers |-> phase[c]],
    wish       <- [c \in Makers |-> asked[c]]

(* Every behaviour of the two create paths is one of the registry: a call    *)
(* makes one thing or none, as it was asked, whatever its caller has learnt; *)
(* nothing changes or vanishes; an answer names what is there.  (PostAccount *)
(* and PostProduct from the resolvers to the repositories)                    *)
ImplementsRegistry == Registry!RegistrySpec

(* A product that call c showed.                                             *)
Shown(c) == result[c].products

(* What somebody had been told was made, before a call began, that call      *)
(* finds: an account by its id and in the list of all, a product by its id   *)
(* and among the products of an order.  No refresh is needed for it.         *)
(* (GetAccountByID, ListAccounts, GetProductById, ListProductsWithIds)        *)
ToldIsFound == \A c \in Readers :
    LET of(things) == Ids(things) \cap told[c].made
    IN  /\ phase[c] = "failed" /\ result[c] = Error("notFound") =>
              CASE "accounts" \in DOMAIN asked[c] -> asked[c].accounts \notin of(accounts)
                [] "products" \in DOMAIN asked[c] -> asked[c].products \notin of(documents)
                [] OTHER -> ~(Range(asked[c].ids) \subseteq of(documents))
        /\ Answered(c, "accounts") =>
              IF asked[c].accounts = NoId
              THEN of(accounts) \subseteq Ids(result[c].accounts)
              ELSE result[c].account.id = asked[c].accounts
        /\ Answered(c, "products") /\ asked[c].products # NoId =>
              "product" \in DOMAIN result[c] /\ result[c].product.id = asked[c].products
        /\ Answered(c, "ids") /\ asked[c].ids # <<>> =>
              Range(asked[c].ids) \cap of(documents) \subseteq Ids(Shown(c))

(* A search shows products as they were created, only such as match, no more *)
(* than asked for, and, if it asks for no page, every matching product that  *)
(* a search before it has shown: however writes and refreshes fall between   *)
(* them, results do not come and go, as long as all there is fits into one   *)
(* page.  (SearchProducts, ListProducts)                                      *)
SearchesAgree == \A c \in Readers :
    Answered(c, "products") /\ asked[c].products = NoId =>
        LET fits(p)  == asked[c].word \in {"", p.name, p.description}
            whole    == asked[c].page = NoPage
        IN  /\ \A p \in Shown(c) : p \in documents /\ fits(p)
            /\ ~whole => Cardinality(Shown(c)) <= asked[c].page.take
            /\ whole => \A p \in documents :
                           p.id \in told[c].found /\ fits(p) => p \in Shown(c)

(* A product whose creator was told of it can be searched for in the end,    *)
(* and from then on.  (PutProduct, and the refresh of the index)              *)
SearchableInTheEnd == \A c \in Makers :
    (phase[c] = "ok" /\ "price" \in DOMAIN asked[c]) ~> [](c \in Ids(searchable))
=============================================================================
