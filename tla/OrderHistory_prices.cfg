\* The catalog changes between an order and a read of it.
CONSTANTS
  Calls = {1}
  Keys = {k1}
  Readers = {r1}
  MaxReads = 1
  Repriced = {p1}
  a1 = a1
  a2 = a2
  p1 = p1
  p2 = p2
  Accounts <- MCAccounts
  Products <- MCProducts
  Requests <- MCRequests
  Carts <- MCCarts
  Stock <- MCStock
  UintLimit = 4
  PgIntMax = 2
  NoOrder = NoOrder
  NoKey = NoKey
  NoRequest = NoRequest
  NoReply = NoReply
SPECIFICATION Spec
INVARIANT PricesAreCaptured
\* Every reader may have used up its reads: the system has come to rest.
CHECK_DEADLOCK FALSE
