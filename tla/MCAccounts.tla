------------------------------ MODULE MCAccounts ------------------------------
(* Small instances of Accounts for TLC. *)
EXTENDS Accounts

\* A negative size, none, zero, one, the largest page, and more than that.
MCTakes == {-1, NoValue, 0, 1, 2, 3}
=============================================================================
