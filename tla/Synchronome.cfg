CONSTANTS
    FramePeriod = 1
    ProcPeriod = 1
    Wrap = 1
    SemMax = 1
    ProfileIters = 1
    Mishaps = 1
    Patient = FALSE
    Fifo = TRUE
    MayHappen = {"stop", "init", "camera"}
SPECIFICATION Spec
INVARIANTS TypeOK TeardownOnlyWhenStopped NoTickBeforeInit BadAccessNeedsTimeout DoubleFreeNeedsFailedInit
