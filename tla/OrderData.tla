------------------------------ MODULE OrderData ------------------------------
(***************************************************************************)
(* The data the order service stores, shared by the specifications of the  *)
(* order repository: the rows of the tables orders and order_products      *)
(* (order/up.sql) and the conversions PostgreSQL makes when they are       *)
(* written.                                                                *)
(*                                                                         *)
(* A call of PutOrder carries a freshly generated KSUID as the id of the   *)
(* order it would place, so the identity of the call stands for that id.   *)
(***************************************************************************)
EXTENDS Integers, Sequences

CONSTANTS
  Calls,      \* the calls of PutOrder, and the ids of the orders they bring
  Keys,       \* idempotency keys
  Accounts,   \* account ids
  Products,   \* product ids
  Requests,   \* the orders that calls may bring, see RequestShape
  PgIntMax,   \* the largest value of the INT column order_products.quantity
  NoOrder,    \* the zero value of the result variable of PutOrder
  NoKey,      \* the key of a call that has not been made
  NoRequest   \* the order of a call that has not been made

OrderLine == [id : Products, quantity : Nat]

RequestShape == [account : Accounts, total : Nat, products : Seq(OrderLine)]

ASSUME OrderDataAssumption ==
  /\ Requests \subseteq RequestShape
  /\ PgIntMax \in Nat
  /\ NoOrder \notin [id : Calls, account : Accounts, total : Nat]
  /\ NoKey \notin Keys
  /\ NoRequest \notin Requests

\* What a caller is told of an order, the products aside: PostOrder replaces
\* those by the products of the request (order/service.go:58).
Header == [id : Calls, account : Accounts, total : Nat]

OrderRow == [id : Calls, key : Keys, account : Accounts, total : Nat]
LineRow  == [order : Calls, product : Products, quantity : 0..PgIntMax]

\* Totals are counted in tenths of a cent.  The column total_price is of type
\* MONEY: a float8 written to it is rounded to a whole cent, and what is read
\* back is the rounded value.
Money(t) == 10 * ((t + 5) \div 10)

\* The row that the INSERT of call c writes for request r under key k.
Row(c, k, r) ==
  [id |-> c, key |-> k, account |-> r.account, total |-> Money(r.total)]

\* The rows that COPY writes to order_products for the same call.
Lines(c, r) ==
  {[order    |-> c,
    product  |-> r.products[i].id,
    quantity |-> r.products[i].quantity] : i \in DOMAIN r.products}

\* Mutant: the range of the INT column is forgotten.
DistinctOnly(ps) == \A i, j \in DOMAIN ps : ps[i].id = ps[j].id => i = j

\* COPY takes the lines only if PRIMARY KEY (product_id, order_id) holds
\* between them and every quantity, a uint32 in the program, fits INT.
Copyable(ps) ==
  /\ \A i, j \in DOMAIN ps : ps[i].id = ps[j].id => i = j
  /\ \A i \in DOMAIN ps : ps[i].quantity <= PgIntMax

\* The order as the caller holds it when its own INSERT took effect: the
\* value it sent, not the value the column rounded it to.
Fresh(c, r) == [id |-> c, account |-> r.account, total |-> r.total]

\* The order as getOrderByIdempotencyKey reads it back.
HeaderOf(row) == [id |-> row.id, account |-> row.account, total |-> row.total]
=============================================================================
