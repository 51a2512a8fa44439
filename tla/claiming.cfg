SPECIFICATION Spec
CONSTANTS
    Identity <- MCIdentity
    Namespace <- MCNamespace
    Everyone = "*"
    MaxTime = 4
    Operator = "op"
    GenesisPolicies <- MCGenesis
    Drafts <- MCDrafts
    MaxLog = 6
    SecondTicks = 2
INVARIANTS
    OneHold
PROPERTIES
    HoldIsKept
    FreeWorkIsWon
CHECK_DEADLOCK FALSE
