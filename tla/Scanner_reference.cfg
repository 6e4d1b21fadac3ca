CONSTANTS
    W <- MC_W
    Payloads <- MC_Payloads
    Inputs <- MC_PassInputs
SPECIFICATION Spec
INVARIANTS
    ParseIntAgrees
    ScansElements
    TruncatedRejected
