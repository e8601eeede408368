------------------------------ MODULE Purchases ------------------------------
(***************************************************************************)
(* What a shopper that retries createOrder under one idempotency key is    *)
(* promised, whatever fails on the way: at most one order is ever placed   *)
(* for it, the order stays, and it is the one the shopper is told.         *)
(***************************************************************************)
CONSTANTS
  Buyers,
  Orders,
  Nothing   \* not an order

VARIABLES
  bought,   \* the order placed for each buyer, or Nothing
  heard     \* the order each buyer has been told of, or Nothing

purchaseVars == <<bought, heard>>

PurchasesInit ==
  /\ bought = [b \in Buyers |-> Nothing]
  /\ heard = [b \in Buyers |-> Nothing]

Buy(b) ==
  /\ bought[b] = Nothing
  /\ bought'[b] \in Orders
  /\ bought' = [bought EXCEPT ![b] = bought'[b]]
  /\ UNCHANGED heard

Tell(b) ==
  /\ bought[b] # Nothing /\ heard[b] = Nothing
  /\ heard' = [heard EXCEPT ![b] = bought[b]]
  /\ UNCHANGED bought

PurchasesNext == \E b \in Buyers : Buy(b) \/ Tell(b)

PurchasesSpec == PurchasesInit /\ [][PurchasesNext]_purchaseVars
=============================================================================
