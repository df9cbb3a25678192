SPECIFICATION Spec
CONSTANT NumBuf = 3
INVARIANTS
    EveryBufferOnce
    NoTornFrame
    StolenNeedsMapFailure
