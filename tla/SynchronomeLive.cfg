CONSTANTS
    FramePeriod = 1
    ProcPeriod = 1
    Wrap = 1
    SemMax = 1
    ProfileIters = 1
    Mishaps = 0
    Patient = FALSE
    Fifo = TRUE
    MayHappen = {}
SPECIFICATION FairSpec
PROPERTIES StopsUnlessDeserted RefinesSequencer
