SPECIFICATION Spec
CONSTANTS
    Thread = {t1, t2}
    Display = {ada, bo}
    Sha = {content}
    Size <- MCSize
    MaxBlob = 2
    MaxDaily = 3
    Day = 2
    SecondTicks = 2
    NoInvite = NoInvite
    MaxBands = 2
    MaxInvites = 1
    MaxUses = 2
    MaxTokens = 2
    MaxAnchors = 2
    MaxTime = 3
SYMMETRY Swaps
INVARIANTS
    EveryMintIsVouchedFor
    UploadsKeepTheBudget
    EveryUploadHasItsBytes
CHECK_DEADLOCK FALSE
