CONSTANTS
    W <- MC_W
    BufSize = 8
    Resps <- MC_Plain
    NResps = 2
    Modes <- MC_BothModes
    Faults <- MC_None
    MaxFaults = 0
SPECIFICATION Spec
INVARIANTS FramingKept
PROPERTIES StreamRefines
CHECK_DEADLOCK FALSE
