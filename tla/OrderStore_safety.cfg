\* Safety of concurrent PutOrder calls: three calls, two keys, every kind of
\* order, and every failure.  Calls and keys are symmetric; the refinement is a
\* property of single steps, for which that is sound.
CONSTANTS
  Calls = {c1, c2, c3}
  Keys = {k1, k2}
  a1 = a1
  a2 = a2
  p1 = p1
  p2 = p2
  Accounts <- MCAccounts
  Products <- MCProducts
  Requests <- MCRequests
  PgIntMax = 2
  NoOrder = NoOrder
  NoKey = NoKey
  NoRequest = NoRequest
SPECIFICATION Spec
SYMMETRY CallSymmetry
INVARIANTS
  TypeOK
  OneOrderPerKey
  WholeOrders
  AnswersAreDurable
PROPERTY ImplementsLedger
\* Every call may have returned: the system has come to rest.
CHECK_DEADLOCK FALSE
