\* Two reads, concurrent with up to three orders being placed and with a change
\* of the catalog.  Idempotency keys are symmetric; calls are not, being numbers.
CONSTANTS
  Calls = {1, 2, 3}
  Keys = {k1, k2, k3}
  Readers = {r1}
  MaxReads = 2
  Repriced = {p1}
  a1 = a1
  a2 = a2
  p1 = p1
  p2 = p2
  Accounts <- MCAccounts
  Products <- MCProducts
  Requests <- MCRequests
  Carts <- MCCarts
  Stock <- MCStock
  UintLimit = 4
  PgIntMax = 2
  NoOrder = NoOrder
  NoKey = NoKey
  NoRequest = NoRequest
  NoReply = NoReply
SPECIFICATION Spec
SYMMETRY Symmetry
INVARIANTS
  HistoryIsExact
  NothingForgotten
\* Every reader may have used up its reads: the system has come to rest.
CHECK_DEADLOCK FALSE
