--------------------------- MODULE OrderStoreProofs ---------------------------
(***************************************************************************)
(* Proofs about the order repository (OrderStore), for any calls, keys and *)
(* orders: the types, the safety properties, and that it implements the    *)
(* ledger (OrderLedger).                                                   *)
(***************************************************************************)
EXTENDS OrderStore, TLAPS

-----------------------------------------------------------------------------
(* Lemmas about the data *)

\* The MONEY column (order/up.sql:5) holds a natural number for a natural
\* total, and rounding what it holds changes nothing.
LEMMA MoneyLemma ==
  ASSUME NEW t \in Nat
  PROVE  /\ Money(t) \in Nat
         /\ Money(Money(t)) = Money(t)
BY DEF Money

\* The row that PutOrder inserts (order/repository.go:49-59) is a row of the
\* table orders.
LEMMA RowType ==
  ASSUME NEW c \in Calls, NEW k \in Keys, NEW r \in Requests
  PROVE  Row(c, k, r) \in OrderRow
<1>1. r \in RequestShape
  BY OrderDataAssumption
<1>2. r.account \in Accounts /\ r.total \in Nat
  BY <1>1 DEF RequestShape
<1>3. Money(r.total) \in Nat
  BY <1>2, MoneyLemma
<1> QED
  BY <1>2, <1>3 DEF Row, OrderRow

\* What a caller holds of its own order, and what getOrderByIdempotencyKey
\* reads (order/repository.go:90 and :100), are order headers.
LEMMA HeaderTypes ==
  /\ \A c \in Calls, r \in Requests : Fresh(c, r) \in Header
  /\ \A row \in OrderRow : HeaderOf(row) \in Header
<1>1. \A r \in Requests : r.account \in Accounts /\ r.total \in Nat
  BY OrderDataAssumption DEF RequestShape
<1> QED
  BY <1>1 DEF Fresh, HeaderOf, Header, OrderRow

\* The lines COPY accepts (order/repository.go:75-88) are rows of the table
\* order_products.
LEMMA LinesType ==
  ASSUME NEW c \in Calls, NEW r \in Requests, Copyable(r.products)
  PROVE  Lines(c, r) \subseteq LineRow
<1>1. r.products \in Seq(OrderLine)
  BY OrderDataAssumption DEF RequestShape
<1>2. \A i \in DOMAIN r.products :
        /\ r.products[i].id \in Products
        /\ r.products[i].quantity \in Nat
  <2>1. \A ps \in Seq(OrderLine) : \A i \in DOMAIN ps : ps[i] \in OrderLine
    OBVIOUS
  <2>2. \A i \in DOMAIN r.products : r.products[i] \in OrderLine
    BY <1>1, <2>1
  <2> QED
    BY <2>2 DEF OrderLine
<1>3. \A i \in DOMAIN r.products : r.products[i].quantity \in 0..PgIntMax
  BY <1>2, OrderDataAssumption DEF Copyable
<1> QED
  BY <1>2, <1>3 DEF Lines, LineRow

-----------------------------------------------------------------------------
(* Types *)

\* Every step of a goroutine or of the server keeps the types.
LEMMA TypeStep == TypeOK /\ [Next]_vars => TypeOK'
<1> SUFFICES ASSUME TypeOK, [Next]_vars
             PROVE  TypeOK'
  OBVIOUS
<1> USE DEF TypeOK, GoTo, Working, InTx, Running, Failed
<1>0. ASSUME NEW c \in Calls, NEW k \in Keys, NEW r \in Requests,
             PutOrder(c, k, r)
      PROVE  TypeOK'
  BY <1>0 DEF PutOrder, serverVars
<1>1. ASSUME NEW c \in Calls, BeginTx(c)
      PROVE  TypeOK'
  BY <1>1 DEF BeginTx
<1>2. ASSUME NEW c \in Calls, Insert(c)
      PROVE  TypeOK'
  <2>1. Row(c, key[c], req[c]) \in OrderRow
    BY <1>2, RowType DEF Insert
  <2> QED
    BY <1>2, <2>1 DEF Insert
<1>3. ASSUME NEW c \in Calls, InsertConflict(c)
      PROVE  TypeOK'
  BY <1>3 DEF InsertConflict, serverVars
<1>4. ASSUME NEW c \in Calls, SelectExisting(c)
      PROVE  TypeOK'
  BY <1>4, HeaderTypes DEF SelectExisting, serverVars
<1>5. ASSUME NEW c \in Calls, CopyIn(c)
      PROVE  TypeOK'
  <2>1. Lines(c, req[c]) \subseteq LineRow
    BY <1>5, LinesType DEF CopyIn
  <2>2. Fresh(c, req[c]) \in Header
    BY <1>5, HeaderTypes DEF CopyIn
  <2> QED
    BY <1>5, <2>1, <2>2 DEF CopyIn
<1>6. ASSUME NEW c \in Calls, CopyRejected(c) \/ StatementFails(c)
      PROVE  TypeOK'
  BY <1>6 DEF CopyRejected, StatementFails, Discard
<1>7. ASSUME NEW c \in Calls, SendCommit(c)
      PROVE  TypeOK'
  BY <1>7 DEF SendCommit
<1>8. ASSUME NEW c \in Calls,
             \/ CommitReturns(c) \/ NoticeAbort(c)
             \/ ConnectionLost(c) \/ BeginTxFails(c)
      PROVE  TypeOK'
  BY <1>8
  DEF CommitReturns, NoticeAbort, ConnectionLost, BeginTxFails, serverVars
<1>9. ASSUME NEW c \in Calls, ServerCommit(c)
      PROVE  TypeOK'
  BY <1>9 DEF ServerCommit, clientVars
<1>10. ASSUME NEW c \in Calls, ServerAbort(c)
       PROVE  TypeOK'
  BY <1>10 DEF ServerAbort, Discard, clientVars
<1>11. CASE UNCHANGED vars
  BY <1>11 DEF vars
<1> QED
  BY <1>0, <1>1, <1>2, <1>3, <1>4, <1>5, <1>6, <1>7, <1>8, <1>9, <1>10, <1>11
  DEF Next, Progress, Fault

\* In every state of the repository and of the server each variable holds a
\* value of its type; a durable quantity fits the INT column.
THEOREM TypeCorrect == Spec => []TypeOK
<1>1. Init => TypeOK
  BY DEF Init, TypeOK, Header
<1> QED
  BY <1>1, TypeStep, PTL DEF Spec

-----------------------------------------------------------------------------
(* The inductive invariant *)

\* The transaction of c has written nothing.
Empty(c) == newRows[c] = {} /\ newLines[c] = {}

\* It holds the whole order of c, and c will answer with that order.
HoldsWhole(c) ==
  /\ Copyable(req[c].products)
  /\ newRows[c] = {Row(c, key[c], req[c])}
  /\ newLines[c] = Lines(c, req[c])
  /\ stored[c] = Fresh(c, req[c])

\* It holds nothing, and c will answer with an order durable under its key.
Replays(c) ==
  /\ Empty(c)
  /\ \E r \in orders : r.key = key[c] /\ stored[c] = HeaderOf(r)

\* The order c answers with is durable.
Durable(c) ==
  /\ stored[c] \in Header
  /\ \E r \in orders :
       /\ r.key = key[c]
       /\ r.id = stored[c].id
       /\ r.account = stored[c].account
       /\ r.total = Money(stored[c].total)

\* The two sides of a call: what the goroutine has done tells which states
\* the transaction can be in.
SidesAgree ==
  \A c \in Calls :
    /\ stage[c] \in {"idle", "begin"} => tx[c] = "none"
    /\ stage[c] \in Working => tx[c] \in {"open", "aborted"}
    /\ stage[c] = "committing" => tx[c] \in {"committing", "committed", "aborted"}
    /\ stage[c] = "ok" => tx[c] = "committed"
    /\ tx[c] = "committing" => stage[c] \in {"committing", "lost"}

\* What each transaction has written, by the stage of its call.
Written ==
  \A c \in Calls :
    /\ newRows[c] \in {{}, {Row(c, key[c], req[c])}}
    /\ ~Live(c) => Empty(c)
    /\ stage[c] \in {"insert", "select"} => Empty(c)
    /\ stage[c] = "select" => Committed(key[c])
    /\ stage[c] = "copy" /\ tx[c] = "open" =>
         newRows[c] = {Row(c, key[c], req[c])} /\ newLines[c] = {}
    /\ stage[c] = "commit" /\ tx[c] = "open" => HoldsWhole(c) \/ Replays(c)
    /\ tx[c] = "committing" => HoldsWhole(c) \/ Replays(c)
    /\ tx[c] = "committed" => Durable(c)

\* The unique index: a key has one owner, a durable order or one undecided
\* transaction.
KeyOwned ==
  /\ \A c \in Calls : newRows[c] # {} => ~Committed(key[c])
  /\ \A c, d \in Calls :
       newRows[c] # {} /\ newRows[d] # {} /\ key[c] = key[d] => c = d

\* A durable order was brought by the call its id names.
Placers == \A r \in orders : tx[r.id] = "committed"

IInv ==
  /\ TypeOK
  /\ SidesAgree
  /\ Written
  /\ KeyOwned
  /\ Placers
  /\ OneOrderPerKey
  /\ WholeOrders

LEMMA InvInit == Init => IInv
<1> SUFFICES ASSUME Init
             PROVE  IInv
  OBVIOUS
<1>1. TypeOK
  BY DEF Init, TypeOK
<1>2. SidesAgree /\ Written
  BY DEF Init, SidesAgree, Written, Working, Live, Empty
<1>3. KeyOwned /\ Placers /\ OneOrderPerKey /\ WholeOrders
  BY DEF Init, KeyOwned, Placers, OneOrderPerKey, WholeOrders
<1> QED
  BY <1>1, <1>2, <1>3 DEF IInv

\* A call arrives: no transaction and no durable order is its own yet.
LEMMA InvArrivalStep ==
  ASSUME IInv, TypeOK', NEW c \in Calls, NEW k \in Keys, NEW r \in Requests,
         PutOrder(c, k, r)
  PROVE  IInv'
<1> USE DEF IInv, Working, InTx, Running, Failed
<1>1. /\ UNCHANGED <<stored, tx, newRows, newLines, orders, lines>>
      /\ stage[c] = "idle" /\ stage'[c] = "begin"
      /\ \A d \in Calls \ {c} :
           stage'[d] = stage[d] /\ key'[d] = key[d] /\ req'[d] = req[d]
  BY DEF TypeOK, PutOrder, GoTo, serverVars
<1>2. tx[c] = "none" /\ ~Live(c) /\ Empty(c)
  BY <1>1 DEF SidesAgree, Written, Live
<1>3. \A s \in orders : s.id # c /\ s.id \in Calls
  BY <1>2 DEF Placers, TypeOK, OrderRow
<1>4. SidesAgree' /\ Placers' /\ OneOrderPerKey'
  BY <1>1, <1>2 DEF SidesAgree, Placers, OneOrderPerKey
<1>5. KeyOwned'
  BY <1>1, <1>2 DEF KeyOwned, Committed, Empty
<1>6. WholeOrders'
  BY <1>1, <1>3 DEF WholeOrders
<1>7. Written'
  BY <1>1, <1>2
  DEF Written, Live, Empty, Committed, HoldsWhole, Replays, Durable
<1> QED
  BY <1>4, <1>5, <1>6, <1>7

\* Steps of the goroutine that write nothing in the database.
LEMMA InvClientStep ==
  ASSUME IInv, TypeOK', NEW c \in Calls,
         \/ BeginTxFails(c) \/ InsertConflict(c) \/ SelectExisting(c)
         \/ CommitReturns(c) \/ NoticeAbort(c) \/ ConnectionLost(c)
  PROVE  IInv'
<1> USE DEF IInv, Working, InTx, Running, Failed
<1>1. /\ UNCHANGED <<key, req, tx, newRows, newLines, orders, lines>>
      /\ \A d \in Calls \ {c} : stage'[d] = stage[d] /\ stored'[d] = stored[d]
  BY DEF TypeOK, BeginTxFails, InsertConflict, SelectExisting, CommitReturns,
         NoticeAbort, ConnectionLost, GoTo, serverVars
<1>2. KeyOwned' /\ Placers' /\ OneOrderPerKey' /\ WholeOrders'
  BY <1>1 DEF KeyOwned, Placers, OneOrderPerKey, WholeOrders, Committed
<1>3. SidesAgree'
  BY <1>1 DEF SidesAgree, TypeOK, BeginTxFails, InsertConflict, SelectExisting,
              CommitReturns, NoticeAbort, ConnectionLost, GoTo
<1>4. Written'
  <2> USE DEF Written, Live, Empty, Committed, HoldsWhole, Replays, Durable
  <2>1. CASE SelectExisting(c)
    BY <1>1, <2>1 DEF SelectExisting, GoTo, TypeOK
  <2>2. CASE InsertConflict(c)
    BY <1>1, <2>2 DEF InsertConflict, GoTo, TypeOK
  <2>3. CASE BeginTxFails(c) \/ CommitReturns(c) \/ NoticeAbort(c) \/ ConnectionLost(c)
    BY <1>1, <2>3
    DEF BeginTxFails, CommitReturns, NoticeAbort, ConnectionLost, GoTo, TypeOK
  <2> QED
    BY <2>1, <2>2, <2>3
<1> QED
  BY <1>2, <1>3, <1>4

\* Steps that write in the transaction of c, or hand it to COMMIT.
LEMMA InvWriteStep ==
  ASSUME IInv, TypeOK', NEW c \in Calls,
         BeginTx(c) \/ Insert(c) \/ CopyIn(c) \/ SendCommit(c)
  PROVE  IInv'
<1> USE DEF IInv, Working, InTx, Running, Failed
<1>1. /\ UNCHANGED <<key, req, orders, lines>>
      /\ \A d \in Calls \ {c} :
           /\ stage'[d] = stage[d] /\ stored'[d] = stored[d] /\ tx'[d] = tx[d]
           /\ newRows'[d] = newRows[d] /\ newLines'[d] = newLines[d]
  BY DEF TypeOK, BeginTx, Insert, CopyIn, SendCommit, GoTo
<1>2. OneOrderPerKey' /\ WholeOrders' /\ Placers'
  <2>1. \A r \in orders : r.id \in Calls
    BY DEF TypeOK, OrderRow
  <2>2. tx[c] # "committed"
    BY DEF BeginTx, Insert, CopyIn, SendCommit, SidesAgree
  <2> QED
    BY <1>1, <2>1, <2>2 DEF OneOrderPerKey, WholeOrders, Placers
<1>3. SidesAgree'
  BY <1>1 DEF SidesAgree, TypeOK, BeginTx, Insert, CopyIn, SendCommit, GoTo
<1>4. Written'
  <2> USE DEF Written, Live, Empty, Committed, HoldsWhole, Replays, Durable, GoTo
  <2>1. CASE BeginTx(c)
    BY <1>1, <2>1 DEF BeginTx, TypeOK, SidesAgree
  <2>2. CASE Insert(c)
    BY <1>1, <2>2 DEF Insert, TypeOK
  <2>3. CASE CopyIn(c)
    BY <1>1, <2>3 DEF CopyIn, TypeOK
  <2>4. CASE SendCommit(c)
    BY <1>1, <2>4 DEF SendCommit, TypeOK
  <2> QED
    BY <2>1, <2>2, <2>3, <2>4
<1>5. KeyOwned'
  <2>1. CASE Insert(c)
    <3>1. \A d \in Calls \ {c} : newRows[d] # {} => key[d] # key[c]
      BY <2>1 DEF Insert, Holds, Written, Empty, Row
    <3>2. /\ ~Committed(key[c])
          /\ newRows' = [newRows EXCEPT ![c] = {Row(c, key[c], req[c])}]
      BY <2>1 DEF Insert
    <3> QED
      BY <1>1, <3>1, <3>2 DEF KeyOwned, Committed, TypeOK
  <2>2. CASE BeginTx(c) \/ CopyIn(c) \/ SendCommit(c)
    BY <1>1, <2>2 DEF KeyOwned, Committed, BeginTx, CopyIn, SendCommit
  <2> QED
    BY <2>1, <2>2
<1> QED
  BY <1>2, <1>3, <1>4, <1>5

\* Steps that give up the transaction of c.
LEMMA InvDiscardStep ==
  ASSUME IInv, TypeOK', NEW c \in Calls,
         CopyRejected(c) \/ StatementFails(c) \/ ServerAbort(c)
  PROVE  IInv'
<1> USE DEF IInv, Working, InTx, Running, Failed
<1>1. /\ UNCHANGED <<key, req, stored, orders, lines>>
      /\ Live(c) /\ tx'[c] = "aborted" /\ newRows'[c] = {} /\ newLines'[c] = {}
      /\ stage'[c] = stage[c] \/ stage'[c] = "failed"
      /\ \A d \in Calls \ {c} :
           /\ stage'[d] = stage[d] /\ tx'[d] = tx[d]
           /\ newRows'[d] = newRows[d] /\ newLines'[d] = newLines[d]
  BY DEF TypeOK, CopyRejected, StatementFails, ServerAbort, Discard, GoTo,
         clientVars, Live
<1>2. KeyOwned' /\ Placers' /\ OneOrderPerKey' /\ WholeOrders'
  <2>1. \A r \in orders : r.id \in Calls
    BY DEF TypeOK, OrderRow
  <2> QED
    BY <1>1, <2>1
    DEF KeyOwned, Placers, OneOrderPerKey, WholeOrders, Committed, Live
<1>3. SidesAgree'
  BY <1>1 DEF SidesAgree, Live
<1>4. Written'
  BY <1>1 DEF Written, Live, Empty, Committed, HoldsWhole, Replays, Durable
<1> QED
  BY <1>2, <1>3, <1>4

\* The COMMIT of c is carried out: what its transaction holds becomes durable.
LEMMA InvCommitStep ==
  ASSUME IInv, TypeOK', NEW c \in Calls, ServerCommit(c)
  PROVE  IInv'
<1> USE DEF IInv, Working, InTx, Running, Failed
<1>1. /\ UNCHANGED <<key, req, stage, stored>>
      /\ tx[c] = "committing" /\ tx'[c] = "committed"
      /\ newRows'[c] = {} /\ newLines'[c] = {}
      /\ \A d \in Calls \ {c} :
           /\ tx'[d] = tx[d]
           /\ newRows'[d] = newRows[d] /\ newLines'[d] = newLines[d]
      /\ orders' = orders \cup newRows[c]
      /\ lines' = lines \cup newLines[c]
  BY DEF TypeOK, ServerCommit, clientVars
<1>2. HoldsWhole(c) \/ Replays(c)
  BY <1>1 DEF Written
<1>3. SidesAgree'
  BY <1>1 DEF SidesAgree
<1>4. newRows[c] = {} \/ newRows[c] = {Row(c, key[c], req[c])}
  BY DEF Written
<1>5. OneOrderPerKey'
  BY <1>1, <1>4 DEF OneOrderPerKey, KeyOwned, Committed, Row
<1>6. KeyOwned' /\ Placers'
  <2>1. \A r \in orders : r.id \in Calls
    BY DEF TypeOK, OrderRow
  <2> QED
    BY <1>1, <1>4, <2>1 DEF KeyOwned, Placers, Committed, Row
<1>7. WholeOrders'
  <2>1. CASE Replays(c)
    BY <1>1, <2>1 DEF Replays, Empty, WholeOrders
  <2>2. CASE HoldsWhole(c)
    <3>1. Row(c, key[c], req[c]).id = c
      BY DEF Row
    <3>2. \A l \in Lines(c, req[c]) : l.order = c
      BY DEF Lines
    <3> QED
      BY <1>1, <2>2, <3>1, <3>2 DEF HoldsWhole, WholeOrders
  <2> QED
    BY <1>2, <2>1, <2>2
<1>8. Durable(c)'
  <2> SUFFICES \E r \in orders' :
                 /\ r.key = key[c]
                 /\ r.id = stored[c].id
                 /\ r.account = stored[c].account
                 /\ r.total = Money(stored[c].total)
    <3>1. stored[c] \in Header
      <4>1. req[c] \in Requests
        BY <1>1 DEF SidesAgree, TypeOK
      <4> QED
        BY <1>2, <4>1, HeaderTypes DEF HoldsWhole, Replays, TypeOK
    <3> QED
      BY <1>1, <3>1 DEF Durable, Money, Header
  <2>1. CASE Replays(c)
    <3>1. PICK r \in orders : r.key = key[c] /\ stored[c] = HeaderOf(r)
      BY <2>1 DEF Replays
    <3>2. r.total = Money(stored[c].total)
      <4>1. r = Row(r.id, key[r.id], req[r.id]) /\ r.id \in Calls
        BY DEF WholeOrders, TypeOK, OrderRow
      <4>2. req[r.id] \in Requests
        BY <4>1 DEF Placers, SidesAgree, TypeOK
      <4>3. r.total = Money(req[r.id].total) /\ req[r.id].total \in Nat
        BY <4>1, <4>2, OrderDataAssumption DEF Row, RequestShape
      <4> QED
        BY <3>1, <4>3, MoneyLemma DEF HeaderOf
    <3>3. r \in orders' /\ r.id = stored[c].id /\ r.account = stored[c].account
      BY <1>1, <3>1 DEF HeaderOf
    <3> QED
      BY <3>1, <3>2, <3>3
  <2>2. CASE HoldsWhole(c)
    <3> DEFINE row == Row(c, key[c], req[c])
    <3>1. row \in orders'
      BY <1>1, <2>2 DEF HoldsWhole
    <3>2. row.key = key[c] /\ row.id = stored[c].id /\ row.account = stored[c].account
      BY <2>2 DEF HoldsWhole, Fresh, Row
    <3>3. row.total = Money(stored[c].total)
      BY <2>2 DEF HoldsWhole, Fresh, Row
    <3> HIDE DEF row
    <3> QED
      BY <3>1, <3>2, <3>3
  <2> QED
    BY <1>2, <2>1, <2>2
<1>9. Written'
  <2>1. \A d \in Calls \ {c} : Live(d)' = Live(d) /\ Empty(d)' = Empty(d)
    BY <1>1 DEF Live, Empty
  <2>2. \A d \in Calls \ {c} : /\ Committed(key[d]) => Committed(key[d])'
                               /\ HoldsWhole(d) => HoldsWhole(d)'
                               /\ Replays(d) => Replays(d)'
                               /\ Durable(d) => Durable(d)'
    BY <1>1, <2>1 DEF Committed, HoldsWhole, Replays, Durable
  <2> QED
    BY <1>1, <1>8, <2>1, <2>2 DEF Written, SidesAgree, Live, Empty
<1> QED
  BY <1>3, <1>5, <1>6, <1>7, <1>9

LEMMA InvStep == IInv /\ [Next]_vars => IInv'
<1> SUFFICES ASSUME IInv, [Next]_vars
             PROVE  IInv'
  OBVIOUS
<1>1. TypeOK'
  BY TypeStep DEF IInv
<1>0. ASSUME NEW c \in Calls, NEW k \in Keys, NEW r \in Requests,
             PutOrder(c, k, r)
      PROVE  IInv'
  BY <1>0, <1>1, InvArrivalStep
<1>2. ASSUME NEW c \in Calls,
             \/ BeginTxFails(c) \/ InsertConflict(c) \/ SelectExisting(c)
             \/ CommitReturns(c) \/ NoticeAbort(c) \/ ConnectionLost(c)
      PROVE  IInv'
  BY <1>1, <1>2, InvClientStep
<1>3. ASSUME NEW c \in Calls, BeginTx(c) \/ Insert(c) \/ CopyIn(c) \/ SendCommit(c)
      PROVE  IInv'
  BY <1>1, <1>3, InvWriteStep
<1>4. ASSUME NEW c \in Calls, CopyRejected(c) \/ StatementFails(c) \/ ServerAbort(c)
      PROVE  IInv'
  BY <1>1, <1>4, InvDiscardStep
<1>5. ASSUME NEW c \in Calls, ServerCommit(c)
      PROVE  IInv'
  BY <1>1, <1>5, InvCommitStep
<1>6. CASE UNCHANGED vars
  BY <1>6
  DEF vars, IInv, TypeOK, SidesAgree, Written, KeyOwned, Placers, OneOrderPerKey,
      WholeOrders, Live, Empty, Committed, HoldsWhole, Replays, Durable, Money
<1> QED
  BY <1>0, <1>2, <1>3, <1>4, <1>5, <1>6 DEF Next, Progress, Fault

\* The inductive invariant holds in every reachable state.
THEOREM Invariance == Spec => []IInv
BY InvInit, InvStep, PTL DEF Spec

-----------------------------------------------------------------------------
(* Safety *)

\* No interleaving of calls, lost connections and late commits makes two
\* orders durable under one idempotency key (order/repository.go:64).
THEOREM KeysAreUnique == Spec => []OneOrderPerKey
<1>1. IInv => OneOrderPerKey
  BY DEF IInv
<1> QED
  BY <1>1, Invariance, PTL

\* A durable order is the whole of what one call of PutOrder brought, and no
\* line is durable without its order (order/repository.go:41-89).
THEOREM OrdersAreWhole == Spec => []WholeOrders
<1>1. IInv => WholeOrders
  BY DEF IInv
<1> QED
  BY <1>1, Invariance, PTL

\* The order a successful PutOrder answers with is the one durable under its
\* key, whether it placed it or replayed it (order/repository.go:46,72,90).
THEOREM AnswersHold == Spec => []AnswersAreDurable
<1>1. IInv => AnswersAreDurable
  BY DEF IInv, SidesAgree, Written, Durable, AnswersAreDurable
<1> QED
  BY <1>1, Invariance, PTL

-----------------------------------------------------------------------------
(* The ledger.  That the repository implements it rests on the inductive   *)
(* invariant above: a key has one owner, and a transaction handed to       *)
(* COMMIT holds a whole order or replays a durable one.                    *)

\* The refinement mapping, named for the proofs below.
Placed   == [k \in Keys |-> PlacedUnder(k)]
Statuses == [c \in Calls |-> StatusOf(stage[c])]
Answers  == [c \in Calls |->
               IF stage[c] = "ok" THEN Rounded(stored[c]) ELSE NoOrder]

-----------------------------------------------------------------------------
(* Lemmas about the mapping *)

\* A durable order is the one the ledger shows under its key.
LEMMA PlacedIsDurable ==
  ASSUME OneOrderPerKey, NEW r \in orders
  PROVE  PlacedUnder(r.key) = HeaderOf(r)
<1>1. Committed(r.key)
  BY DEF Committed
<1>2. \A s \in orders : s.key = r.key => s = r
  BY DEF OneOrderPerKey
<1>3. (CHOOSE s \in orders : s.key = r.key) = r
  BY <1>2
<1> QED
  BY <1>1, <1>3 DEF PlacedUnder

\* The ledger shows NoOrder exactly under the keys no durable order has.
LEMMA PlacedOrNot ==
  ASSUME TypeOK, NEW k \in Keys
  PROVE  Committed(k) <=> PlacedUnder(k) # NoOrder
<1>1. CASE Committed(k)
  <2>1. (CHOOSE r \in orders : r.key = k) \in orders
    BY <1>1 DEF Committed
  <2>2. HeaderOf(CHOOSE r \in orders : r.key = k) \in Header
    BY <2>1, HeaderTypes DEF TypeOK
  <2> QED
    BY <1>1, <2>2, OrderDataAssumption DEF PlacedUnder, Header
<1>2. CASE ~Committed(k)
  BY <1>2 DEF PlacedUnder
<1> QED
  BY <1>1, <1>2

\* The two specifications build rows and lines alike.
LEMMA SameData ==
  ASSUME NEW c \in Calls, NEW k \in Keys, NEW r \in Requests
  PROVE  /\ Ledger!HeaderOf(Ledger!Row(c, k, r)) = HeaderOf(Row(c, k, r))
         /\ Ledger!Lines(c, r) = Lines(c, r)
         /\ Ledger!Copyable(r.products) = Copyable(r.products)
BY DEF Ledger!HeaderOf, Ledger!Row, Ledger!Money, Ledger!Lines,
       Ledger!Copyable, HeaderOf, Row, Money, Lines, Copyable

\* A step that leaves the durable orders alone leaves the ledger alone.
LEMMA SamePlaced == orders' = orders => Placed' = Placed
BY DEF Placed, PlacedUnder, Committed

-----------------------------------------------------------------------------
(* Steps *)

\* The repository starts as the ledger does.
LEMMA LedgerInitially == Init => Ledger!LedgerInit
<1> SUFFICES ASSUME Init
             PROVE  Ledger!LedgerInit
  OBVIOUS
<1>1. \A k \in Keys : PlacedUnder(k) = NoOrder
  BY DEF Init, PlacedUnder, Committed
<1> QED
  BY <1>1 DEF Init, Ledger!LedgerInit, StatusOf, Running, InTx, Working, Failed

\* What no caller can see: the work inside a transaction, and its end without
\* effect.
LEMMA HiddenStep ==
  ASSUME TypeOK, NEW c \in Calls,
         \/ BeginTx(c) \/ Insert(c) \/ InsertConflict(c) \/ SelectExisting(c)
         \/ CopyIn(c) \/ SendCommit(c) \/ ServerAbort(c)
  PROVE  UNCHANGED Ledger!ledgerVars
<1> USE DEF Running, InTx, Working, Failed
<1>1. UNCHANGED <<key, req, orders, lines>>
  BY DEF BeginTx, Insert, InsertConflict, SelectExisting, CopyIn, SendCommit,
         ServerAbort, Discard, serverVars, clientVars
<1>2. Statuses' = Statuses
  BY DEF TypeOK, Statuses, StatusOf, GoTo, BeginTx, Insert, InsertConflict,
         SelectExisting, CopyIn, SendCommit, ServerAbort, clientVars
<1>3. Answers' = Answers
  BY DEF TypeOK, Answers, Rounded, Money, GoTo, BeginTx, Insert, InsertConflict,
         SelectExisting, CopyIn, SendCommit, ServerAbort, clientVars
<1> QED
  BY <1>1, <1>2, <1>3, SamePlaced
  DEF Ledger!ledgerVars, Placed, Statuses, Answers

\* A call of PutOrder makes its order pending.
LEMMA CallStep ==
  ASSUME TypeOK, NEW c \in Calls, NEW k \in Keys, NEW r \in Requests,
         PutOrder(c, k, r)
  PROVE  Ledger!Call(c, k, r)
<1> USE DEF Running, InTx, Working, Failed
<1>1. /\ UNCHANGED <<orders, lines>>
      /\ key' = [key EXCEPT ![c] = k] /\ req' = [req EXCEPT ![c] = r]
  BY DEF PutOrder, serverVars
<1>2. Statuses[c] = "idle" /\ Statuses' = [Statuses EXCEPT ![c] = "pending"]
  BY DEF TypeOK, Statuses, StatusOf, GoTo, PutOrder
<1>3. Answers' = Answers
  BY DEF TypeOK, Answers, Rounded, Money, GoTo, PutOrder
<1> QED
  BY <1>1, <1>2, <1>3, SamePlaced
  DEF Ledger!Call, Placed, Statuses, Answers

\* Every way a call of PutOrder returns an error.
LEMMA FailStep ==
  ASSUME TypeOK, NEW c \in Calls,
         \/ BeginTxFails(c) \/ CopyRejected(c) \/ StatementFails(c)
         \/ NoticeAbort(c) \/ ConnectionLost(c)
  PROVE  Ledger!Fail(c)
<1> USE DEF Running, InTx, Working, Failed
<1>1. UNCHANGED <<key, req, stored, orders, lines>>
  BY DEF BeginTxFails, CopyRejected, StatementFails, NoticeAbort,
         ConnectionLost, Discard, serverVars
<1>2. /\ stage[c] \in Running
      /\ stage' = [stage EXCEPT ![c] = "failed"] \/ stage' = [stage EXCEPT ![c] = "lost"]
  BY DEF BeginTxFails, CopyRejected, StatementFails, NoticeAbort,
         ConnectionLost, GoTo
<1>3. /\ Statuses[c] = "pending"
      /\ Statuses' = [Statuses EXCEPT ![c] = "failed"]
  BY <1>2 DEF TypeOK, Statuses, StatusOf
<1>4. Answers' = Answers
  BY <1>1, <1>2 DEF TypeOK, Answers, Rounded, Money
<1> QED
  BY <1>1, <1>3, <1>4, SamePlaced
  DEF Ledger!Fail, Placed, Statuses, Answers

\* COMMIT returns: the call answers with the order the ledger shows.
LEMMA AnswerStep ==
  ASSUME IInv, NEW c \in Calls, CommitReturns(c)
  PROVE  Ledger!Answer(c)
<1> USE DEF IInv, Running, InTx, Working, Failed
<1>1. UNCHANGED <<key, req, stored, orders, lines>>
  BY DEF CommitReturns, serverVars
<1>2. Statuses[c] = "pending" /\ Statuses' = [Statuses EXCEPT ![c] = "ok"]
  BY DEF TypeOK, Statuses, StatusOf, GoTo, CommitReturns
<1>3. Durable(c)
  BY DEF CommitReturns, Written
<1>4. PICK r \in orders :
        /\ r.key = key[c]
        /\ r.id = stored[c].id
        /\ r.account = stored[c].account
        /\ r.total = Money(stored[c].total)
  BY <1>3 DEF Durable
<1> key[c] \in Keys
  BY DEF CommitReturns, TypeOK
<1>5. Placed[key[c]] = HeaderOf(r)
  BY <1>4, PlacedIsDurable DEF Placed, TypeOK
<1>6. Placed[key[c]] # NoOrder
  <2>1. Committed(key[c])
    BY <1>4 DEF Committed
  <2> QED
    BY <2>1, PlacedOrNot DEF Placed, TypeOK
<1>7. HeaderOf(r) = Rounded(stored[c])
  <2>1. stored[c] \in Header
    BY <1>3 DEF Durable
  <2> QED
    BY <1>4, <2>1 DEF HeaderOf, Rounded, Header
<1>8. Answers' = [Answers EXCEPT ![c] = Placed[key[c]]]
  <2>1. stage' = [stage EXCEPT ![c] = "ok"]
    BY DEF CommitReturns, GoTo
  <2>2. \A d \in Calls : Rounded(stored[d])' = Rounded(stored[d])
    BY <1>1 DEF Rounded, Money
  <2> QED
    BY <1>5, <1>7, <2>1, <2>2 DEF TypeOK, Answers
<1> QED
  BY <1>1, <1>2, <1>6, <1>8, SamePlaced
  DEF Ledger!Answer, Placed, Statuses, Answers

\* COMMIT is carried out: the order of the call is placed, if its transaction
\* holds one; for a replay nothing happens that a caller can see.
LEMMA PlaceStep ==
  ASSUME IInv, IInv', NEW c \in Calls, ServerCommit(c)
  PROVE  Ledger!Place(c) \/ UNCHANGED Ledger!ledgerVars
<1> USE DEF IInv, Running, InTx, Working, Failed
<1>1. /\ UNCHANGED <<key, req, stage, stored>>
      /\ orders' = orders \cup newRows[c]
      /\ lines' = lines \cup newLines[c]
      /\ tx[c] = "committing"
  BY DEF ServerCommit, clientVars
<1>2. Statuses' = Statuses /\ Answers' = Answers
  BY <1>1 DEF Statuses, StatusOf, Answers, Rounded, Money
<1>3. HoldsWhole(c) \/ Replays(c)
  BY <1>1 DEF Written
<1>4. CASE Replays(c)
  <2>1. orders' = orders /\ lines' = lines
    BY <1>1, <1>4 DEF Replays, Empty
  <2> QED
    BY <1>1, <1>2, <2>1, SamePlaced
    DEF Ledger!ledgerVars, Placed, Statuses, Answers
<1>5. CASE HoldsWhole(c)
  <2> DEFINE row == Row(c, key[c], req[c])
  <2>1. Statuses[c] \in {"pending", "failed"}
    BY <1>1 DEF SidesAgree, Statuses, StatusOf
  <2> key[c] \in Keys
    BY <1>1 DEF SidesAgree, TypeOK
  <2>2. Placed[key[c]] = NoOrder
    <3>1. ~Committed(key[c])
      BY <1>5 DEF KeyOwned, HoldsWhole
    <3> QED
      BY <3>1, PlacedOrNot DEF Placed, TypeOK
  <2>3. lines' = lines \cup Lines(c, req[c])
    BY <1>1, <1>5 DEF HoldsWhole
  <2>4. orders' = orders \cup {row} /\ row.key = key[c]
    BY <1>1, <1>5 DEF HoldsWhole, Row
  <2>5. \A k \in Keys : k = key[c] => PlacedUnder(k)' = HeaderOf(row)
    <3>1. \A r \in orders' : r.key = key[c] => r = row
      BY <2>4 DEF OneOrderPerKey
    <3>2. \A k \in Keys : k = key[c] => (CHOOSE r \in orders' : r.key = k) = row
      BY <2>4, <3>1
    <3> HIDE DEF row
    <3> QED
      BY <2>4, <3>2 DEF PlacedUnder, Committed, HeaderOf
  <2>6. \A k \in Keys \ {key[c]} : PlacedUnder(k)' = PlacedUnder(k)
    <3> SUFFICES ASSUME NEW k \in Keys \ {key[c]}
                 PROVE  PlacedUnder(k)' = PlacedUnder(k)
      OBVIOUS
    <3>1. \A r : (r \in orders' /\ r.key = k) <=> (r \in orders /\ r.key = k)
      BY <2>4
    <3>2. (CHOOSE r \in orders' : r.key = k) = (CHOOSE r \in orders : r.key = k)
      BY <3>1
    <3> QED
      BY <3>1, <3>2 DEF PlacedUnder, Committed
  <2>7. Placed' = [Placed EXCEPT ![key[c]] = HeaderOf(row)]
    <3> HIDE DEF row
    <3>1. Placed' = [k \in Keys |-> PlacedUnder(k)']
      BY DEF Placed
    <3>2. Placed' = [k \in Keys |->
                       IF k = key[c] THEN HeaderOf(row) ELSE PlacedUnder(k)]
      BY <2>5, <2>6, <3>1
    <3> QED
      BY <3>2 DEF Placed
  <2>8. Copyable(req[c].products)
    BY <1>5 DEF HoldsWhole
  <2>9. /\ Ledger!HeaderOf(Ledger!Row(c, key[c], req[c])) = HeaderOf(row)
        /\ Ledger!Lines(c, req[c]) = Lines(c, req[c])
        /\ Ledger!Copyable(req[c].products) = Copyable(req[c].products)
    BY <1>1, SameData DEF SidesAgree, TypeOK
  <2> QED
    BY <1>1, <1>2, <2>1, <2>2, <2>3, <2>7, <2>8, <2>9
    DEF Ledger!Place, Placed, Statuses, Answers
<1> QED
  BY <1>3, <1>4, <1>5

\* The transactions of PutOrder, with every failure of theirs, implement the
\* ledger: one order per key, placed whole, answered to every success.
THEOREM Implements == Spec => ImplementsLedger
<1>1. ASSUME IInv, IInv', [Next]_vars
      PROVE  [Ledger!LedgerNext]_Ledger!ledgerVars
  <2>1. ASSUME NEW c \in Calls, NEW k \in Keys, NEW r \in Requests,
               PutOrder(c, k, r)
        PROVE  Ledger!LedgerNext
    BY <1>1, <2>1, CallStep DEF IInv, Ledger!LedgerNext
  <2>2. ASSUME NEW c \in Calls,
               \/ BeginTxFails(c) \/ CopyRejected(c) \/ StatementFails(c)
               \/ NoticeAbort(c) \/ ConnectionLost(c)
        PROVE  Ledger!LedgerNext
    BY <1>1, <2>2, FailStep DEF IInv, Ledger!LedgerNext
  <2>3. ASSUME NEW c \in Calls, CommitReturns(c)
        PROVE  Ledger!LedgerNext
    BY <1>1, <2>3, AnswerStep DEF Ledger!LedgerNext
  <2>4. ASSUME NEW c \in Calls, ServerCommit(c)
        PROVE  Ledger!LedgerNext \/ UNCHANGED Ledger!ledgerVars
    BY <1>1, <2>4, PlaceStep DEF Ledger!LedgerNext
  <2>5. ASSUME NEW c \in Calls,
               \/ BeginTx(c) \/ Insert(c) \/ InsertConflict(c)
               \/ SelectExisting(c) \/ CopyIn(c) \/ SendCommit(c) \/ ServerAbort(c)
        PROVE  UNCHANGED Ledger!ledgerVars
    BY <1>1, <2>5, HiddenStep DEF IInv
  <2>6. CASE UNCHANGED vars
    <3>1. Statuses' = Statuses /\ Answers' = Answers
      BY <2>6 DEF vars, Statuses, StatusOf, Answers, Rounded, Money
    <3> QED
      BY <2>6, <3>1, SamePlaced
      DEF vars, Ledger!ledgerVars, Placed, Statuses, Answers
  <2> QED
    BY <1>1, <2>1, <2>2, <2>3, <2>4, <2>5, <2>6 DEF Next, Progress, Fault
<1> QED
  BY <1>1, LedgerInitially, Invariance, PTL
  DEF Spec, ImplementsLedger, Ledger!LedgerSpec
=============================================================================
