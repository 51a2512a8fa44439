SPECIFICATION SeededSpec
CONSTANTS
    Identity <- MCIdentity
    Namespace <- MCNamespace
    Everyone = "*"
    MaxTime = 0
    Operator = "op"
    GenesisPolicies <- MCGenesis
    Drafts <- MCDrafts
    Setup <- MCSetup
    Visits <- MCVisits
    NestOrder <- MCOrder
    OfftopicHorizon = 30
    MaxLog = 28
    SecondTicks = 1
INVARIANTS
    SeedIsAccepted
    PinBudgetHolds
    ClaimantsHaveReadCanon
    RequiredIsTheClaimList
    OnboardHidesNothing
PROPERTIES
    CanonMovesByRule
CHECK_DEADLOCK FALSE
