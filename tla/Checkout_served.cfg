\* A shopper with a sound cart is served after finitely many failures.
CONSTANTS
  a1 = a1
  a2 = a2
  p1 = p1
  p2 = p2
  p3 = p3
  k1 = k1
  k2 = k2
  keyed = keyed
  other = other
  keyless = keyless
  direct = direct
  huge = huge
  stranger = stranger
  Shoppers = {keyed}
  Direct = {}
  Calls = {d1, d2, d3, d4}
  MaxTries = 3
  MaxDeliveries = 2
  MaxFaults = 2
  CatalogMayVanish = FALSE
  Accounts <- MCAccounts
  Products <- MCProducts
  KnownAccounts <- MCKnownAccounts
  Keys <- MCKeys
  Cart <- MCCart
  SuppliedKey <- MCSuppliedKey
  Requests <- MCRequests
  Price <- MCPrice
  UintLimit <- MCUintLimit
  PgIntMax <- MCPgIntMax
  NoOrder = NoOrder
  NoKey = NoKey
  NoRequest = NoRequest
  None = None
SPECIFICATION FairSpec
PROPERTY Served
\* Every shopper may be served or out of tries: the system has come to rest.
CHECK_DEADLOCK FALSE
