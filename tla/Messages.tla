------------------------------- MODULE Messages -------------------------------
(***************************************************************************)
(* The messages of the account and catalog services (account/pb,            *)
(* catalog/pb).  A message is the record it carries; a request also names   *)
(* the method it is for, as the path of a gRPC call does.                   *)
(***************************************************************************)

(* account.proto *)
Account(a)                   == [id |-> a.id, name |-> a.name]
PostAccountRequest(name)     == [method |-> "PostAccount", name |-> name]
PostAccountResponse(a)       == [account |-> Account(a)]
GetAccountRequest(id)        == [method |-> "GetAccount", id |-> id]
GetAccountResponse(a)        == [account |-> Account(a)]
GetAccountsRequest(skip, take) ==
    [method |-> "GetAccounts", skip |-> skip, take |-> take]
GetAccountsResponse(list)    == [accounts |-> { Account(a) : a \in list }]

(* catalog.proto *)
Product(p) ==
    [id |-> p.id, name |-> p.name, description |-> p.description, price |-> p.price]
PostProductRequest(name, description, price) ==
    [method |-> "PostProduct", name |-> name, description |-> description, price |-> price]
PostProductResponse(p)       == [product |-> Product(p)]
GetProductRequest(id)        == [method |-> "GetProduct", id |-> id]
GetProductResponse(p)        == [product |-> Product(p)]
GetProductsRequest(skip, take, ids, query) ==
    [method |-> "GetProducts", skip |-> skip, take |-> take, ids |-> ids, query |-> query]
GetProductsResponse(list)    == [products |-> { Product(p) : p \in list }]

(* The methods that each service registers a handler for.                    *)
AccountService == {"PostAccount", "GetAccount", "GetAccounts"}
CatalogService == {"PostProduct", "GetProduct", "GetProducts"}
=============================================================================
