CONSTANTS
    W <- MC_W
    Payloads <- MC_SpecPayloads
    Inputs <- MC_Requests
SPECIFICATION Spec
INVARIANTS
    ScansRequests
