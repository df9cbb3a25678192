SPECIFICATION Spec
CONSTANT NumBuf = 3
INVARIANTS TeardownFreesFrames
