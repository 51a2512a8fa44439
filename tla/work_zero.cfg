SPECIFICATION SeededSpec
CONSTANTS
    Identity <- MCIdentity
    Namespace <- MCNamespace
    Everyone = "*"
    MaxTime = 1
    Operator = "op"
    GenesisPolicies <- MCGenesis
    Drafts <- MCDrafts
    Setup <- MCSetup
    Visits <- MCHiddenVisits
    OfftopicHorizon = 30
    MaxLog = 21
    SecondTicks = 1
    Project <- P
INVARIANTS
    ZeroMeansComplete
CHECK_DEADLOCK FALSE
