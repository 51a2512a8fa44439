SPECIFICATION Spec
CONSTANTS
    Identity <- MCIdentity
    Namespace <- MCNamespace
    Everyone = "*"
    MaxTime = 0
    Operator = "op"
    GenesisPolicies <- MCGenesis
    Drafts <- MCDrafts
    MaxLog = 6
    SecondTicks = 1
INVARIANTS
    TypeOK
    EntriesMatchLog
    BandsRecomputable
    LooksAreOnRecord
    BlindVotesAreIndependent
    MentionsArrive
PROPERTIES
    NoSelfElevation
    LawIsKept
    OnlyAStampMakesARefereePlay
    NothingIsTakenBack
CHECK_DEADLOCK FALSE
