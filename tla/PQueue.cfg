CONSTANTS
    Capacity = 2
    Sends = 4
SPECIFICATION FairSpec
INVARIANTS TypeOK InOrder
PROPERTIES ImplementsFifo Delivered
CHECK_DEADLOCK FALSE
