CONSTANTS
    Dbs <- MC_Dbs
    ValidDbs <- MC_ValidDbs
    HasPassword = TRUE
    MaxFaults = 2
SPECIFICATION Spec
INVARIANTS AuthenticatedWhenIdle
