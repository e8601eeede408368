----------------------------- MODULE OrderLedger -----------------------------
(***************************************************************************)
(* What the order repository promises the callers of PutOrder, without     *)
(* transactions, locks or connections:                                     *)
(*                                                                         *)
(*   - under one idempotency key at most one order is ever placed, whole   *)
(*     (header and lines at once), and it never changes or disappears;     *)
(*   - a call that succeeds answers with the order placed under its key,   *)
(*     whichever call placed it;                                           *)
(*   - a call that fails has placed nothing, or has placed its order, or   *)
(*     places it later: the caller cannot tell, and finds out by calling   *)
(*     again with the same key.                                            *)
(***************************************************************************)
EXTENDS OrderData

VARIABLES
  key,      \* the idempotency key of each call
  req,      \* the order each call brings
  ledger,   \* the order placed under each key, or NoOrder
  lines,    \* the lines of the placed orders
  status,   \* what has become of each call
  answer    \* the order each successful call answered with

ledgerVars == <<key, req, ledger, lines, status, answer>>

LedgerInit ==
  /\ key = [c \in Calls |-> NoKey]
  /\ req = [c \in Calls |-> NoRequest]
  /\ ledger = [k \in Keys |-> NoOrder]
  /\ lines = {}
  /\ status = [c \in Calls |-> "idle"]
  /\ answer = [c \in Calls |-> NoOrder]

Call(c, k, r) ==
  /\ status[c] = "idle"
  /\ key' = [key EXCEPT ![c] = k]
  /\ req' = [req EXCEPT ![c] = r]
  /\ status' = [status EXCEPT ![c] = "pending"]
  /\ UNCHANGED <<ledger, lines, answer>>

\* A failed call may still take effect: its commit can be on its way.
Place(c) ==
  /\ status[c] \in {"pending", "failed"}
  /\ ledger[key[c]] = NoOrder
  /\ Copyable(req[c].products)
  /\ ledger' = [ledger EXCEPT ![key[c]] = HeaderOf(Row(c, key[c], req[c]))]
  /\ lines' = lines \cup Lines(c, req[c])
  /\ UNCHANGED <<key, req, status, answer>>

Answer(c) ==
  /\ status[c] = "pending"
  /\ ledger[key[c]] # NoOrder
  /\ status' = [status EXCEPT ![c] = "ok"]
  /\ answer' = [answer EXCEPT ![c] = ledger[key[c]]]
  /\ UNCHANGED <<key, req, ledger, lines>>

Fail(c) ==
  /\ status[c] = "pending"
  /\ status' = [status EXCEPT ![c] = "failed"]
  /\ UNCHANGED <<key, req, ledger, lines, answer>>

LedgerNext ==
  \E c \in Calls :
    \/ \E k \in Keys, r \in Requests : Call(c, k, r)
    \/ Place(c) \/ Answer(c) \/ Fail(c)

LedgerSpec == LedgerInit /\ [][LedgerNext]_ledgerVars
=============================================================================
