CONSTANTS
    W <- MC_W
    BufSize = 8
    Resps <- MC_Mixed
    NResps = 2
    Modes <- MC_IgnoreMode
    Faults <- MC_Timeouts
    MaxFaults = 1
SPECIFICATION Spec
PROPERTIES StreamRefines
CHECK_DEADLOCK FALSE
