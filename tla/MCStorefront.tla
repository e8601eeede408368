----------------------------- MODULE MCStorefront -----------------------------
(* An instance of Storefront for TLC: two creations, of whatever kind, and a *)
(* client that looks up, again and again, what either left.                   *)
EXTENDS Storefront

MCWares == { [name |-> "tea", description |-> "green", price |-> 1],
             [name |-> "cup", description |-> "tea", price |-> 2] }

MCPages == { [skip |-> 0, take |-> 0], [skip |-> 0, take |-> 1], [skip |-> 1, take |-> 0] }

MCWords == {"", "tea"}
=============================================================================
