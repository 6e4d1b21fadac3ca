------------------------- MODULE ConnectionAbstract -------------------------
(***************************************************************************)
(* What the backend connection promises the pool about the database it    *)
(* talks to (spec sections 3 and 4.4).  The pool reads DatabaseId to       *)
(* decide whether a client's command must be preceded by a select, so the *)
(* recorded id must name the session's database.  Here every operation is *)
(* atomic.                                                                 *)
(*                                                                         *)
(*  - Connect: a fresh session is on database 0, and so is the record.     *)
(*  - Drop: the session is gone and the record is reset to 0.              *)
(*  - Select: the session switches to an id the server accepts, and the    *)
(*    record follows in the same step.                                     *)
(***************************************************************************)
CONSTANT ValidDbs   \* the database ids the server accepts

VARIABLES
    connected,   \* the connection holds a session
    recordedDb,  \* the database id the connection records
    sessionDb    \* the database the session has selected (0 without one)

avars == <<connected, recordedDb, sessionDb>>

Init ==
    /\ connected = FALSE
    /\ recordedDb = 0
    /\ sessionDb = 0

Connect ==
    /\ connected' = TRUE
    /\ recordedDb' = 0
    /\ sessionDb' = 0

Drop ==
    /\ connected
    /\ connected' = FALSE
    /\ recordedDb' = 0
    /\ sessionDb' = 0

Select(id) ==
    /\ connected
    /\ recordedDb' = id
    /\ sessionDb' = id
    /\ UNCHANGED connected

Next == Connect \/ Drop \/ \E id \in ValidDbs : Select(id)

Spec == Init /\ [][Next]_avars

=============================================================================
