CONSTANTS
    Hosts = {h1, h2}
    FramePeriod = 4
    ProcPeriod = 10
    Wrap = 20
    SemMax = 1
SPECIFICATION Spec
INVARIANTS TypeOK ReleaseOnSchedule
