---------------------------- MODULE MCOrderStore -----------------------------
(* Small instances of OrderStore for TLC. *)
EXTENDS OrderStore, TLC

CONSTANTS a1, a2, p1, p2

MCAccounts == {a1, a2}
MCProducts == {p1, p2}

Ordered(p, q) == [id |-> p, quantity |-> q]

\* An order of two lines whose total, 2.5 cents, is not a whole number of cents.
TwoLines ==
  [account |-> a1, total |-> 25, products |-> <<Ordered(p1, 1), Ordered(p2, 2)>>]

\* An order that lost all its lines before it reached the repository.
NoLines == [account |-> a2, total |-> 0, products |-> <<>>]

\* Orders COPY rejects: a product listed twice, a quantity that INT cannot hold.
Doubled ==
  [account |-> a1, total |-> 40, products |-> <<Ordered(p1, 1), Ordered(p1, 1)>>]
TooMany == [account |-> a2, total |-> 60, products |-> <<Ordered(p2, 3)>>]

MCRequests == {TwoLines, NoLines, Doubled, TooMany}

\* One order that can be stored and one that cannot.
MCFewRequests == {TwoLines, Doubled}

CallSymmetry == Permutations(Calls) \cup Permutations(Keys)
=============================================================================
