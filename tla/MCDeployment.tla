---------------------------- MODULE MCDeployment ----------------------------
(* An instance of Deployment: a service with a database, one that also makes  *)
(* a client of it, and a gateway in front of both.                           *)
EXTENDS Deployment

MCServices == <<"account", "order", "graphql">>
MCDials    == [account |-> << >>, order |-> <<"account">>, graphql |-> <<"account", "order">>]
=============================================================================
