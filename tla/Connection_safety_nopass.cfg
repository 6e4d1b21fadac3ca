CONSTANTS
    Dbs <- MC_Dbs
    ValidDbs <- MC_ValidDbs
    HasPassword = FALSE
    MaxFaults = 2
SPECIFICATION Spec
INVARIANTS DbConsistent NoLateReply Lockstep
