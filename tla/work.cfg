SPECIFICATION SeededSpec
CONSTANTS
    Identity <- MCIdentity
    Namespace <- MCNamespace
    Everyone = "*"
    MaxTime = 1
    Operator = "op"
    GenesisPolicies <- MCGenesis
    Drafts <- MCDrafts
    Setup <- MCSetup
    Visits <- MCVisits
    OfftopicHorizon = 30
    MaxLog = 21
    SecondTicks = 1
    Project <- P
INVARIANTS
    JobsAgreesWithTheGate
    StateAndJobsAgree
    WithdrawnCloseIsInert
    WhyAgreesWithTheDocket
CHECK_DEADLOCK FALSE
