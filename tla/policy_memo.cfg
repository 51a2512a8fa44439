SPECIFICATION Spec
CONSTANTS
    Thread = {t1, t2}
    MaxHead = 2
INVARIANTS
    MemoisedAnswersEqualTheRule
CHECK_DEADLOCK FALSE
