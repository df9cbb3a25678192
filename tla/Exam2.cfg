SPECIFICATION Spec
CONSTANTS
    N = 4
    QueueSize = 4
    Wrap = 2
    EveryS1 = 1
    EveryW1 = 2
    EveryW2 = 2
CHECK_DEADLOCK FALSE
INVARIANTS
    OnlyOverlapSpoilsSum
    NeverRefused
    UnjoinedLogIsComplete
PROPERTY
    EndsByItself
