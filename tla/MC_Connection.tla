--------------------------- MODULE MC_Connection ---------------------------
(* Model-checking instance of Connection: three selectable ids of which  *)
(* the server accepts two, a password configured, two injected faults.   *)
EXTENDS Connection

MC_Dbs == 0..2
MC_ValidDbs == 0..1
=============================================================================
