CONSTANTS
    RingSize = 30
    StartGood = 8
    GoodThreshold = 4
SPECIFICATION Spec
INVARIANTS TypeOK MotionTypeOK TickNeedsMotion
PROPERTIES StartsStill
