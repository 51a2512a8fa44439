SPECIFICATION BoardSpec
CONSTANTS
    r1 = r1
    r2 = r2
    Identity <- MCIdentity
    Namespace <- MCNamespace
    Everyone = "*"
    MaxTime = 1
    Operator = "op"
    GenesisPolicies <- MCGenesis
    Drafts <- MCDrafts
    MaxLog = 3
    SecondTicks = 2
    Reader <- MCReader
    Requester <- MCRequester
INVARIANTS
    BoardTypeOK
    AnsweredIsRead
    ServedWithinTwoLaws
PROPERTIES
    BoardSequences
CHECK_DEADLOCK FALSE
SYMMETRY Threads
