--------------------------- MODULE MCOrderHistory ----------------------------
(* Small instances of OrderHistory for TLC. *)
EXTENDS OrderHistory, TLC

CONSTANTS a1, a2, p1, p2

MCAccounts == {a1, a2}
MCProducts == {p1, p2}

\* Prices of a whole number of cents: rounding is not what is at stake here.
MCStock == p1 :> 20 @@ p2 :> 30

Wants(p, q) == [id |-> p, quantity |-> q]

\* Two lines, and one line of another account.
MCCarts ==
  {[account |-> a1, basket |-> <<Wants(p1, 1), Wants(p2, 2)>>],
   [account |-> a2, basket |-> <<Wants(p2, 1)>>]}

MCRequests == {Assembled(c.account, c.basket, MCStock) : c \in MCCarts}

\* Calls are numbers, and not symmetric.
Symmetry == Permutations(Readers) \cup Permutations(Keys)
=============================================================================
