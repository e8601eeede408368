----------------------------- MODULE OrderStore ------------------------------
(***************************************************************************)
(* The order repository (order/repository.go) on PostgreSQL: concurrent    *)
(* calls of PutOrder, each a goroutine of the order service running one    *)
(* transaction, and the server side of those transactions.                 *)
(*                                                                         *)
(* The two sides are kept apart because they may disagree.  The goroutine  *)
(* gives up when its context ends or its connection breaks; the server     *)
(* learns of it later, keeps the transaction and its locks meanwhile, and  *)
(* may still carry out a COMMIT that was already on the wire.              *)
(***************************************************************************)
EXTENDS OrderData

VARIABLES
  key,       \* argument idempotencyKey of each call
  req,       \* argument o of each call
  stage,     \* where the goroutine of each call stands in PutOrder
  stored,    \* its result variable `stored`
  tx,        \* the transaction of each call, as the server sees it
  newRows,   \* uncommitted rows of orders written by each transaction
  newLines,  \* uncommitted rows of order_products
  orders,    \* committed rows of orders
  lines      \* committed rows of order_products

clientVars == <<key, req, stage, stored>>
serverVars == <<tx, newRows, newLines, orders, lines>>
vars == <<key, req, stage, stored, tx, newRows, newLines, orders, lines>>

\* The stages of a call whose transaction is not yet handed to COMMIT, and of
\* any call that has not returned.
Working == {"insert", "select", "copy", "commit"}
InTx    == Working \cup {"committing"}
Running == InTx \cup {"begin"}

\* How a call ends without an answer: its transaction rolled back, or its
\* connection gone and the transaction left to the server.
Failed == {"failed", "lost"}

Init ==
  /\ key = [c \in Calls |-> NoKey]
  /\ req = [c \in Calls |-> NoRequest]
  /\ stage = [c \in Calls |-> "idle"]
  /\ stored = [c \in Calls |-> NoOrder]
  /\ tx = [c \in Calls |-> "none"]
  /\ newRows = [c \in Calls |-> {}]
  /\ newLines = [c \in Calls |-> {}]
  /\ orders = {}
  /\ lines = {}

-----------------------------------------------------------------------------
(* Helpers *)

\* The server still works for the transaction of c, so its locks are held.
Live(c) == tx[c] \in {"open", "committing"}

\* Call d has inserted a row under key k and its fate is undecided: a second
\* INSERT of the key waits (UNIQUE idempotency_key in order/up.sql).
Holds(d, k) == Live(d) /\ \E row \in newRows[d] : row.key = k

Committed(k) == \E row \in orders : row.key = k

GoTo(c, s) == stage' = [stage EXCEPT ![c] = s]

\* The deferred tx.Rollback, or an end of the transaction the server decided.
Discard(c) ==
  /\ tx' = [tx EXCEPT ![c] = "aborted"]
  /\ newRows' = [newRows EXCEPT ![c] = {}]
  /\ newLines' = [newLines EXCEPT ![c] = {}]
  /\ UNCHANGED <<orders, lines>>

-----------------------------------------------------------------------------
(* The goroutine of call c *)

\* PutOrder(ctx, r, k) is called.
PutOrder(c, k, r) ==
  /\ stage[c] = "idle"
  /\ key' = [key EXCEPT ![c] = k]
  /\ req' = [req EXCEPT ![c] = r]
  /\ GoTo(c, "begin")
  /\ UNCHANGED <<stored, serverVars>>

BeginTx(c) ==
  /\ stage[c] = "begin"
  /\ GoTo(c, "insert")
  /\ tx' = [tx EXCEPT ![c] = "open"]
  /\ UNCHANGED <<key, req, stored, newRows, newLines, orders, lines>>

BeginTxFails(c) ==
  /\ stage[c] = "begin"
  /\ GoTo(c, "failed")
  /\ UNCHANGED <<key, req, stored, serverVars>>

\* Mutant: a second INSERT of a key does not wait for the first one's fate.
InsertUnlocked(c) ==
  /\ stage[c] = "insert" /\ tx[c] = "open"
  /\ ~Committed(key[c])
  /\ newRows' = [newRows EXCEPT ![c] = {Row(c, key[c], req[c])}]
  /\ GoTo(c, "copy")
  /\ UNCHANGED <<key, req, stored, tx, newLines, orders, lines>>

\* Mutant: the INSERT is run on the pool, not in the transaction.
InsertOutsideTx(c) ==
  /\ stage[c] = "insert" /\ tx[c] = "open"
  /\ ~Committed(key[c])
  /\ \A d \in Calls \ {c} : ~Holds(d, key[c])
  /\ orders' = orders \cup {Row(c, key[c], req[c])}
  /\ GoTo(c, "copy")
  /\ UNCHANGED <<key, req, stored, tx, newRows, newLines, lines>>

\* INSERT ... ON CONFLICT DO NOTHING writes the row.
Insert(c) ==
  /\ stage[c] = "insert" /\ tx[c] = "open"
  /\ ~Committed(key[c])
  /\ \A d \in Calls \ {c} : ~Holds(d, key[c])
  /\ newRows' = [newRows EXCEPT ![c] = {Row(c, key[c], req[c])}]
  /\ GoTo(c, "copy")
  /\ UNCHANGED <<key, req, stored, tx, newLines, orders, lines>>

\* RowsAffected is 0: the key is taken by a committed order.
InsertConflict(c) ==
  /\ stage[c] = "insert" /\ tx[c] = "open"
  /\ Committed(key[c])
  /\ GoTo(c, "select")
  /\ UNCHANGED <<key, req, stored, serverVars>>

\* Mutant: the conflict is ignored and the call answers with its own order.
SelectIgnored(c) ==
  /\ stage[c] = "select" /\ tx[c] = "open"
  /\ stored' = [stored EXCEPT ![c] = Fresh(c, req[c])]
  /\ GoTo(c, "commit")
  /\ UNCHANGED <<key, req, serverVars>>

\* getOrderByIdempotencyKey, in the same transaction.
SelectExisting(c) ==
  /\ stage[c] = "select" /\ tx[c] = "open"
  /\ \E row \in orders :
       /\ row.key = key[c]
       /\ stored' = [stored EXCEPT ![c] = HeaderOf(row)]
  /\ GoTo(c, "commit")
  /\ UNCHANGED <<key, req, serverVars>>

\* The COPY of all lines, up to stmt.Close.
CopyIn(c) ==
  /\ stage[c] = "copy" /\ tx[c] = "open"
  /\ Copyable(req[c].products)
  /\ newLines' = [newLines EXCEPT ![c] = Lines(c, req[c])]
  /\ stored' = [stored EXCEPT ![c] = Fresh(c, req[c])]
  /\ GoTo(c, "commit")
  /\ UNCHANGED <<key, req, tx, newRows, orders, lines>>

\* Mutant: the error return forgets the rollback, and the connection stays
\* open inside its transaction.
CopyRejectedNoRollback(c) ==
  /\ stage[c] = "copy" /\ tx[c] = "open"
  /\ ~Copyable(req[c].products)
  /\ GoTo(c, "failed")
  /\ UNCHANGED <<key, req, stored, serverVars>>

\* COPY fails on a duplicate product or on a quantity INT cannot hold.
CopyRejected(c) ==
  /\ stage[c] = "copy" /\ tx[c] = "open"
  /\ ~Copyable(req[c].products)
  /\ GoTo(c, "failed")
  /\ Discard(c)
  /\ UNCHANGED <<key, req, stored>>

\* Mutant: as above, for any statement that fails.
StatementFailsNoRollback(c) ==
  /\ stage[c] \in Working /\ tx[c] = "open"
  /\ GoTo(c, "failed")
  /\ UNCHANGED <<key, req, stored, serverVars>>

\* A statement fails and the rollback reaches the server.
StatementFails(c) ==
  /\ stage[c] \in Working /\ tx[c] = "open"
  /\ GoTo(c, "failed")
  /\ Discard(c)
  /\ UNCHANGED <<key, req, stored>>

SendCommit(c) ==
  /\ stage[c] = "commit" /\ tx[c] = "open"
  /\ GoTo(c, "committing")
  /\ tx' = [tx EXCEPT ![c] = "committing"]
  /\ UNCHANGED <<key, req, stored, newRows, newLines, orders, lines>>

CommitReturns(c) ==
  /\ stage[c] = "committing" /\ tx[c] = "committed"
  /\ GoTo(c, "ok")
  /\ UNCHANGED <<key, req, stored, serverVars>>

\* Mutant: the error of the deferred tx.Commit is dropped.
NoticeAbortDropped(c) ==
  /\ stage[c] \in InTx /\ tx[c] = "aborted"
  /\ GoTo(c, IF stage[c] = "committing" THEN "ok" ELSE "failed")
  /\ UNCHANGED <<key, req, stored, serverVars>>

\* The next statement, or COMMIT itself, reports that the server ended the
\* transaction.
NoticeAbort(c) ==
  /\ stage[c] \in InTx /\ tx[c] = "aborted"
  /\ GoTo(c, "failed")
  /\ UNCHANGED <<key, req, stored, serverVars>>

\* The connection breaks, the context ends and the driver drops the connection,
\* or the order service itself dies.  The call is over, with an error if it
\* still has a caller, and no rollback reaches the server.
ConnectionLost(c) ==
  /\ stage[c] \in InTx
  /\ GoTo(c, "lost")
  /\ UNCHANGED <<key, req, stored, serverVars>>

-----------------------------------------------------------------------------
(* The server *)

ServerCommit(c) ==
  /\ tx[c] = "committing"
  /\ tx' = [tx EXCEPT ![c] = "committed"]
  /\ orders' = orders \cup newRows[c]
  /\ lines' = lines \cup newLines[c]
  /\ newRows' = [newRows EXCEPT ![c] = {}]
  /\ newLines' = [newLines EXCEPT ![c] = {}]
  /\ UNCHANGED clientVars

\* A crash of the server, or a connection it found dead.
ServerAbort(c) ==
  /\ Live(c)
  /\ Discard(c)
  /\ UNCHANGED clientVars

-----------------------------------------------------------------------------

\* What call c and the server do for it when nothing goes wrong, or what has
\* gone wrong is noticed.
Progress(c) ==
  \/ BeginTx(c)
  \/ Insert(c) \/ InsertConflict(c) \/ SelectExisting(c)
  \/ CopyIn(c) \/ CopyRejected(c)
  \/ SendCommit(c) \/ CommitReturns(c) \/ NoticeAbort(c)

\* COMMIT is carried out; a transaction whose connection was lost ends when
\* the server finds it dead.
ServerEnds(c) ==
  \/ ServerCommit(c)
  \/ stage[c] = "lost" /\ ServerAbort(c)

Fault(c) ==
  \/ BeginTxFails(c) \/ StatementFails(c) \/ ConnectionLost(c)
  \/ ServerAbort(c)

Next ==
  \E c \in Calls :
    \/ \E k \in Keys, r \in Requests : PutOrder(c, k, r)
    \/ Progress(c) \/ ServerCommit(c) \/ Fault(c)

Spec == Init /\ [][Next]_vars

Fairness ==
  \A c \in Calls : WF_vars(Progress(c)) /\ WF_vars(ServerEnds(c))

FairSpec == Spec /\ Fairness

-----------------------------------------------------------------------------
(* Properties *)

\* Every variable of the repository and of the server holds a value of its
\* type.
TypeOK ==
  /\ key \in [Calls -> Keys \cup {NoKey}]
  /\ req \in [Calls -> Requests \cup {NoRequest}]
  /\ \A c \in Calls : stage[c] # "idle" => key[c] \in Keys /\ req[c] \in Requests
  /\ stage \in [Calls -> {"idle", "ok"} \cup Failed \cup Running]
  /\ stored \in [Calls -> Header \cup {NoOrder}]
  /\ tx \in [Calls -> {"none", "open", "committing", "committed", "aborted"}]
  /\ newRows \in [Calls -> SUBSET OrderRow]
  /\ newLines \in [Calls -> SUBSET LineRow]
  /\ orders \subseteq OrderRow
  /\ lines \subseteq LineRow

\* However the calls, their lost connections and the late commits interleave,
\* no two orders are durable under one idempotency key
\* (order/repository.go:64, "a retry never creates a second order").
OneOrderPerKey == \A r, s \in orders : r.key = s.key => r = s

\* A durable order is the whole of what one call brought: its header, with
\* every line of the request, each once; and every durable line belongs to a
\* durable order.  No crash between INSERT, COPY and COMMIT leaves a part.
WholeOrders ==
  /\ \A r \in orders :
       /\ r = Row(r.id, key[r.id], req[r.id])
       /\ Copyable(req[r.id].products)
       /\ Lines(r.id, req[r.id]) \subseteq lines
  /\ \A l \in lines : \E r \in orders :
       r.id = l.order /\ l \in Lines(r.id, req[r.id])

\* The order a successful call answers with is the one durable under its key,
\* also when another call placed it; only its total may still be unrounded, so
\* that a replay may answer with another total than the first call did.
AnswersAreDurable ==
  \A c \in Calls : stage[c] = "ok" =>
    \E r \in orders :
      /\ r.key = key[c]
      /\ r.id = stored[c].id
      /\ r.account = stored[c].account
      /\ r.total = Money(stored[c].total)

\* Every call returns: the one that waits for a key held by another
\* transaction too, even when that transaction's goroutine is gone.
CallsReturn ==
  \A c \in Calls : stage[c] \in Running ~> stage[c] \in {"ok"} \cup Failed

\* A key is never locked for good: every transaction is ended by the server,
\* although its goroutine may have given up without telling it.
KeysReleased == \A c \in Calls : Live(c) ~> ~Live(c)

-----------------------------------------------------------------------------
(* The repository implements the ledger *)

PlacedUnder(k) ==
  IF Committed(k) THEN HeaderOf(CHOOSE r \in orders : r.key = k) ELSE NoOrder

StatusOf(s) ==
  CASE s \in Running -> "pending"
    [] s \in Failed  -> "failed"
    [] OTHER         -> s

Rounded(o) == [o EXCEPT !.total = Money(o.total)]

Ledger == INSTANCE OrderLedger WITH
  ledger <- [k \in Keys |-> PlacedUnder(k)],
  status <- [c \in Calls |-> StatusOf(stage[c])],
  answer <- [c \in Calls |->
               IF stage[c] = "ok" THEN Rounded(stored[c]) ELSE NoOrder]

\* Transactions, locks, lost connections and late commits together behave as
\* the ledger: one order per key, placed whole, answered to every success.
ImplementsLedger == Ledger!LedgerSpec
=============================================================================
