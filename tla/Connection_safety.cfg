CONSTANTS
    Dbs <- MC_Dbs
    ValidDbs <- MC_ValidDbs
    HasPassword = TRUE
    MaxFaults = 2
SPECIFICATION LiveSpec
INVARIANTS TypeOK DbConsistent NoLateReply Lockstep
PROPERTIES Recovery DbTracked SuccessOnlyAuthorized
