\* Every call returns and every lock is released, under the fairness of the
\* goroutines and of the server.  No symmetry: the properties are temporal.
CONSTANTS
  Calls = {c1, c2}
  Keys = {k1, k2}
  a1 = a1
  a2 = a2
  p1 = p1
  p2 = p2
  Accounts <- MCAccounts
  Products <- MCProducts
  Requests <- MCFewRequests
  PgIntMax = 2
  NoOrder = NoOrder
  NoKey = NoKey
  NoRequest = NoRequest
SPECIFICATION FairSpec
PROPERTIES
  CallsReturn
  KeysReleased
\* Every call may have returned: the system has come to rest.
CHECK_DEADLOCK FALSE
