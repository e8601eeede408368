\* Three services; certificates made twice, with one removal and one crash.
SPECIFICATION FairSpec
CONSTANTS
    Services <- MCServices
    Dials <- MCDials
    Stateful = {"account", "order"}
    Edge = {"graphql"}
    None = None
    MaxRuns = 2
    MaxCleans = 1
    MaxCrashes = 1
INVARIANTS
    TypeOK
    PeersTrust
    SaidMeansThere
PROPERTIES
    ServesInTheEnd
CHECK_DEADLOCK FALSE
