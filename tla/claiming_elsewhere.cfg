SPECIFICATION Spec
CONSTANTS
    Identity <- MCIdentity
    Namespace <- MCNamespace
    Everyone = "*"
    MaxTime = 3
    Operator = "op"
    GenesisPolicies <- MCGenesis
    Drafts <- MCElsewhere
    MaxLog = 4
    SecondTicks = 1
INVARIANTS
    SupersedesAreAuthorized
CHECK_DEADLOCK FALSE
