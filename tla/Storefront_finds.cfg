\* Two creations, and a client that looks up again and again.
CONSTANTS
    m1 = m1
    m2 = m2
    r1 = r1
    Makers = {m1, m2}
    Readers = {r1}
    AccountNames = {"ann", "long"}
    LongNames = {"long"}
    Wares <- MCWares
    Words <- MCWords
    Pages <- MCPages
    MaxTake = 100
    NoId = NoId
    NoWish = NoWish
    NoMessage = NoMessage
SPECIFICATION FairSpec
CHECK_DEADLOCK FALSE
INVARIANTS
    TypeOK
    ToldIsFound
    SearchesAgree
PROPERTIES
    ImplementsRegistry
    SearchableInTheEnd
