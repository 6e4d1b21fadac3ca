CONSTANTS
    W <- MC_W
    Payloads <- MC_Payloads
    Inputs <- MC_Untrusted
SPECIFICATION Spec
INVARIANTS
    NoPanic
