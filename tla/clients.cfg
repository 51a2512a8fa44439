SPECIFICATION Spec
CONSTANTS
    NoKey = "none"
    Key = "idem"
    Absent = Absent
    MaxLog = 3
    MaxOutages = 2
    MaxKills = 2
    FileExists = TRUE
    HostListens = TRUE
    Attempts = 3
    MaxRuns = 2
    MaxLate = 1
    AuthorReadsBack = TRUE
INVARIANTS
    FileTellsTheTruth
    RepeatsOnlyAfterAKill
    RetryNeverDuplicates
    VerdictIsTrue
PROPERTIES
    EveryArrivalIsEmitted
    EveryArrivalIsRung
    EveryWriteEnds
CHECK_DEADLOCK FALSE
