CONSTANTS
    W <- MC_W
    BufSize = 6
    Resps <- MC_Partial
    NResps = 1
    Modes <- MC_CopyMode
    Faults <- MC_AllFaults
    MaxFaults = 1
SPECIFICATION Spec
PROPERTIES StreamRefines
CHECK_DEADLOCK FALSE
