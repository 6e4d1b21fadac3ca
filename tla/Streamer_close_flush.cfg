CONSTANTS
    W <- MC_W
    BufSize = 8
    Resps <- MC_Multi
    NResps = 2
    Modes <- MC_BothModes
    Faults <- MC_CloseFlush
    MaxFaults = 2
SPECIFICATION Spec
 
PROPERTIES StreamRefines
CHECK_DEADLOCK FALSE
