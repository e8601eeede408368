\* The history of an account without orders holds one.
CONSTANTS
  Calls = {1}
  Keys = {k1}
  Readers = {r1}
  MaxReads = 1
  Repriced = {}
  a1 = a1
  a2 = a2
  p1 = p1
  p2 = p2
  Accounts <- MCAccounts
  Products <- MCProducts
  Requests <- MCRequests
  Carts <- MCCarts
  Stock <- MCStock
  UintLimit = 4
  PgIntMax = 2
  NoOrder = NoOrder
  NoKey = NoKey
  NoRequest = NoRequest
  NoReply = NoReply
SPECIFICATION Spec
INVARIANT NothingInvented
\* Every reader may have used up its reads: the system has come to rest.
CHECK_DEADLOCK FALSE
