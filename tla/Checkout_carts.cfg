\* Carts of every kind, from the gateway and from a direct caller.
CONSTANTS
  a1 = a1
  a2 = a2
  p1 = p1
  p2 = p2
  p3 = p3
  k1 = k1
  k2 = k2
  keyed = keyed
  other = other
  keyless = keyless
  direct = direct
  huge = huge
  stranger = stranger
  Shoppers = {direct, huge, other, stranger}
  Direct = {direct}
  Calls = {d1, d2, d3, d4}
  MaxTries = 1
  MaxDeliveries = 1
  MaxFaults = 0
  CatalogMayVanish = TRUE
  Accounts <- MCAccounts
  Products <- MCProducts
  KnownAccounts <- MCKnownAccounts
  Keys <- MCKeys
  Cart <- MCCart
  SuppliedKey <- MCSuppliedKey
  Requests <- MCRequests
  Price <- MCPrice
  UintLimit <- MCUintLimit
  PgIntMax <- MCPgIntMax
  NoOrder = NoOrder
  NoKey = NoKey
  NoRequest = NoRequest
  None = None
SPECIFICATION Spec
INVARIANTS
  TypeOK
  TotalsAreSums
  LinesWereAsked
\* Every shopper may be served or out of tries: the system has come to rest.
CHECK_DEADLOCK FALSE
