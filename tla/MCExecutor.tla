------------------------------ MODULE MCExecutor ------------------------------
(* Instances of Executor for TLC: requests that together select from every   *)
(* type of the schema.                                                       *)
EXTENDS Executor, TLC

(* Accounts with their histories, beside products.                           *)
Browse ==
    [operation |-> "Query", transport |-> "post", deferred |-> {},
     selection |-> (<<>> :> <<"accounts", "products">>)
                @@ (<<"accounts", "*">> :> <<"id", "orders", "name">>)
                @@ (<<"accounts", "*", "orders", "*">> :> <<"createdAt">>)
                @@ (<<"products", "*">> :> <<"name", "price">>)]

(* An account, a product and an order of them, in this order.                *)
Buy ==
    [operation |-> "Mutation", transport |-> "post", deferred |-> {},
     selection |-> (<<>> :> <<"createAccount", "createProduct", "createOrder">>)
                @@ (<<"createAccount">> :> <<"id", "orders">>)
                @@ (<<"createAccount", "orders", "*">> :> <<"createdAt", "products">>)
                @@ (<<"createAccount", "orders", "*", "products", "*">> :> <<"quantity">>)
                @@ (<<"createProduct">> :> <<"id">>)
                @@ (<<"createOrder">> :> <<"id", "products">>)
                @@ (<<"createOrder", "products", "*">> :> <<"id">>)]

(* Histories that may come later.                                            *)
Later(transport) ==
    [operation |-> "Query", transport |-> transport, deferred |-> {<<"accounts", "*", "orders">>},
     selection |-> (<<>> :> <<"accounts">>)
                @@ (<<"accounts", "*">> :> <<"orders", "id">>)
                @@ (<<"accounts", "*", "orders", "*">> :> <<"createdAt">>)]

(* An account whose history comes later, then a product.                     *)
BuyLater ==
    [operation |-> "Mutation", transport |-> "websocket",
     deferred |-> {<<"createAccount", "orders">>},
     selection |-> (<<>> :> <<"createAccount", "createProduct">>)
                @@ (<<"createAccount">> :> <<"orders", "id">>)
                @@ (<<"createAccount", "orders", "*">> :> <<"createdAt">>)
                @@ (<<"createProduct">> :> <<"id">>)]

(* What a type looks like, beside accounts.                                  *)
Describe ==
    [operation |-> "Query", transport |-> "post", deferred |-> {},
     selection |-> (<<>> :> <<"accounts", "__type">>)
                @@ (<<"accounts", "*">> :> <<"name">>)
                @@ (<<"__type">> :> <<"name", "fields", "ofType", "enumValues">>)
                @@ (<<"__type", "fields", "*">> :> <<"description", "args">>)
                @@ (<<"__type", "fields", "*", "args", "*">> :> <<"name", "defaultValue">>)
                @@ (<<"__type", "ofType">> :> <<"kind">>)
                @@ (<<"__type", "enumValues", "*">> :> <<"deprecationReason">>)]

(* The schema, as tools ask for it.                                          *)
Introspect ==
    [operation |-> "Query", transport |-> "post", deferred |-> {},
     selection |-> (<<>> :> <<"__schema">>)
                @@ (<<"__schema">> :> <<"queryType", "subscriptionType", "directives">>)
                @@ (<<"__schema", "queryType">> :> <<"kind">>)
                @@ (<<"__schema", "subscriptionType">> :> <<"kind">>)
                @@ (<<"__schema", "directives", "*">> :> <<"description", "args">>)
                @@ (<<"__schema", "directives", "*", "args", "*">> :> <<"type">>)
                @@ (<<"__schema", "directives", "*", "args", "*", "type">> :> <<"kind">>)]

(* Two accounts, so that one history can fail; short lists elsewhere.        *)
UpToOne == {{}, {"1"}}
UpToTwo == UpToOne \cup {{"1", "2"}}

MCLists == [accounts |-> UpToTwo, orders |-> UpToTwo, products |-> UpToOne, fields |-> UpToOne,
            args |-> UpToOne, enumValues |-> UpToOne, directives |-> UpToOne]

MCRequests == {Browse, Buy, BuyLater, Later("post"), Later("websocket"), Describe, Introspect}
=============================================================================
