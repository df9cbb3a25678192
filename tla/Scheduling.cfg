SPECIFICATION SchedulingSpec
CHECK_DEADLOCK FALSE
CONSTANTS
    CSLength = 3
    Interference = 3
    TICKS = 20
    MaxServices = 3
    MaxPeriod = 5
INVARIANTS
    HAfterL
    AllOrNothing
    TestsAgree
    RmMissesAsTested
    FirstRunEndsAsTested
    DynamicNeverMisses
PROPERTY
    EndsUnlessSpinning
