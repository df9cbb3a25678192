SPECIFICATION EccSpec
CONSTANTS
    \* 0xFF, 0x5A, 0xCC and 0xAB of ecctest.c, 0, and 0x01, whose word is of odd parity
    Bytes = {{3, 5, 6, 7, 9, 10, 11, 12}, {5, 7, 9, 11}, {6, 7, 11, 12}, {3, 5, 7, 10, 12}, {}, {3}}
    Fresh = {{}, {0}, {15}}
    MaxFlips = 3
INVARIANTS PwRestored
