\* One request of each kind, with lists of up to two accounts and orders.
CONSTANTS
    Requests <- MCRequests
    Lists    <- MCLists
SPECIFICATION Spec
CHECK_DEADLOCK FALSE
INVARIANTS
    TypeOK
    NullsReachWhatTheyMust
    ErrorsTellOfNulls
    MutationsInTurn
    NoStragglers
PROPERTIES
    AnswerIsFinal
    Responds
    DeferredArrives
