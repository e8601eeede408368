----------------------------- MODULE MCCheckout ------------------------------
(* Small instances of Checkout for TLC. *)
EXTENDS Checkout, TLC

CONSTANTS a1, a2, p1, p2, p3, k1, k2,
          keyed, other, keyless, direct, huge, stranger

MCAccounts == {a1, a2}
MCProducts == {p1, p2, p3}
MCKnownAccounts == {a1}
MCKeys == {k1, k2} \cup Attempts
MCUintLimit == 4
MCPgIntMax == 2

\* In tenths of a cent; the first is not a whole number of cents.  The catalog
\* does not know p3.
MCPrice == p1 :> 25 @@ p2 :> 40

Wants(p, q) == [id |-> p, quantity |-> q]

MCCart == [s \in Shoppers |->
  CASE s = direct ->      \* a product unknown, and one twice, first zero times
         [account |-> a1,
          asked |-> <<Wants(p3, 1), Wants(p2, 0), Wants(p2, 1), Wants(p1, 2)>>]
    [] s = huge ->        \* a quantity that wraps around to zero
         [account |-> a1, asked |-> <<Wants(p1, MCUintLimit), Wants(p2, 1)>>]
    [] s = other ->       \* a quantity that INT cannot hold
         [account |-> a1, asked |-> <<Wants(p2, 3)>>]
    [] s = stranger ->    \* an account that does not exist
         [account |-> a2, asked |-> <<Wants(p2, 1)>>]
    [] OTHER ->           \* nothing wrong
         [account |-> a1, asked |-> <<Wants(p1, 1), Wants(p2, 2)>>]]

MCSuppliedKey == [s \in Shoppers |->
  CASE s = keyed -> k1 [] s = other -> k2 [] s = huge -> k2 [] OTHER -> NoKey]

MCRequests ==
  {Assembled(Cart[s].account, Basket(Cart[s].asked), c) :
     s \in Shoppers, c \in {EmptyCatalog, MCPrice}}
=============================================================================
