------------------------ MODULE ConnectionRefinement ------------------------
(***************************************************************************)
(* Proof that Connection implements ConnectionAbstract under the mapping  *)
(* DbView of module Connection: conn is `connected`, DatabaseId is        *)
(* `recordedDb`, and SessionView (the session's database, except while a  *)
(* select is in flight) is `sessionDb`.  The proof rests on the inductive *)
(* invariant IInv of ConnectionProofs and on one more invariant: a        *)
(* connection without a socket records database 0.                         *)
(***************************************************************************)
EXTENDS ConnectionProofs

\* Every way of losing the socket resets DatabaseId (Disconnect, lines
\* 76-86), and DatabaseId is set only while a select is pending, which
\* needs a socket.
NoDbWithoutConn == ~conn => DatabaseId = 0

LEMMA InitNoDb == Init => NoDbWithoutConn
  BY DEF Init, NoDbWithoutConn

\* NoDbWithoutConn is kept by every step, given IInv.
LEMMA NoDbStep ==
    IInv /\ NoDbWithoutConn /\ [Next]_vars => NoDbWithoutConn'
<1> SUFFICES ASSUME TypeOK, IRest, NoDbWithoutConn, [Next]_vars
             PROVE  NoDbWithoutConn'
  BY DEF IInv
<1> USE DEF NoDbWithoutConn
<1>1. CASE Disconnect \/ DialFails \/ PingWriteFailed
  BY <1>1 DEF Disconnect, DialFails, PingWriteFailed, DisconnectVars
<1>2. CASE ProbeConsumes \/ SelectWriteFailed \/ PingSent
  BY <1>2 DEF ProbeConsumes, SelectWriteFailed, PingSent
<1>3. ASSUME NEW r \in BOOLEAN, Dialled(r) PROVE NoDbWithoutConn'
  BY <1>3 DEF Dialled
<1>4. ASSUME NEW id \in Dbs, SelectSent(id) PROVE NoDbWithoutConn'
  BY <1>4 DEF SelectSent
<1>5. CASE AuthReply \/ SelectReply \/ PingReply
  <2>1. conn
    BY <1>5 DEF AuthReply, SelectReply, PingReply, IRest, BlockedHasConn
  <2>2. conn' \/ DatabaseId' = 0
    BY <1>5, <2>1, Zenon
       DEF AuthReply, SelectReply, PingReply, ReplyRejected, DisconnectVars
  <2>3. QED
    BY <2>2
<1>6. CASE ServerAnswers \/ ServerRefuses \/ ServerCloses
  BY <1>6 DEF ServerAnswers, ServerRefuses, ServerCloses
<1>7. CASE UNCHANGED vars
  BY <1>7 DEF vars
<1>8. QED
  BY <1>1, <1>2, <1>3, <1>4, <1>5, <1>6, <1>7, NextCases

\* The invariant the refinement proof uses.
RInv == IInv /\ NoDbWithoutConn

LEMMA RInvHolds == Spec => []RInv
<1>1. Init => RInv
  BY InitIInv, InitNoDb DEF RInv
<1>2. RInv /\ [Next]_vars => RInv'
  BY IInvStep, NoDbStep DEF RInv
<1>3. QED
  BY <1>1, <1>2, PTL DEF Spec

\* The abstract state.
absvars == <<conn, DatabaseId, SessionView>>

\* A step that disconnects is an abstract Drop.
LEMMA DropStep ==
    ASSUME conn, DisconnectVars
    PROVE  DbView!Drop
  BY DEF DisconnectVars, DbView!Drop, SessionView

\* A step that keeps the socket, the record, the caller's position and the
\* session's database changes nothing the pool sees.
LEMMA QuietAbsStep ==
    ASSUME UNCHANGED <<conn, DatabaseId, pc, srvDb>>
    PROVE  UNCHANGED absvars
  BY DEF absvars, SessionView

\* The step cases: each step of Connection is an abstract step or leaves
\* the abstract state unchanged.
LEMMA RefineStep ==
    RInv /\ [Next]_vars => [DbView!Next]_absvars
<1> SUFFICES ASSUME TypeOK, IRest, NoDbWithoutConn, [Next]_vars
             PROVE  [DbView!Next]_absvars
  BY DEF RInv, IInv
<1>1. CASE Disconnect
  BY <1>1, DropStep DEF Disconnect, DbView!Next
<1>2. CASE DialFails \/ PingWriteFailed
  <2>1. CASE conn
    BY <1>2, <2>1, DropStep DEF DialFails, PingWriteFailed, DbView!Next
  <2>2. CASE ~conn
    <3>1. conn = FALSE /\ DatabaseId = 0 /\ SessionView = 0
      BY <2>2 DEF NoDbWithoutConn, SessionView, TypeOK, TypeFlags
    <3>2. conn' = FALSE /\ DatabaseId' = 0 /\ SessionView' = 0
      BY <1>2 DEF DialFails, PingWriteFailed, DisconnectVars, SessionView
    <3>3. UNCHANGED absvars
      BY <3>1, <3>2 DEF absvars
    <3>4. QED
      BY <3>3
  <2>3. QED
    BY <2>1, <2>2
<1>3. ASSUME NEW r \in BOOLEAN, Dialled(r) PROVE [DbView!Next]_absvars
  <2>1. pc' \in {"idle", "auth"}
    BY <1>3, Zenon DEF Dialled, Authenticate, AuthNotNeeded, AuthSent,
                       AuthWriteFailed
  <2>2. conn' /\ DatabaseId' = 0 /\ srvDb' = 0
    BY <1>3 DEF Dialled
  <2>3. DbView!Connect
    BY <2>1, <2>2 DEF DbView!Connect, SessionView
  <2>4. QED
    BY <2>3 DEF DbView!Next
<1>4. CASE ProbeConsumes \/ SelectWriteFailed \/ ServerRefuses \/ ServerCloses
  BY <1>4, QuietAbsStep
     DEF ProbeConsumes, SelectWriteFailed, ServerRefuses, ServerCloses
<1>5. ASSUME NEW id \in Dbs, SelectSent(id) PROVE [DbView!Next]_absvars
  \* The view switches from srvDb to DatabaseId, which are equal when idle.
  <2>1. conn /\ pc = "idle" /\ pc' = "select"
        /\ UNCHANGED <<conn, DatabaseId>>
    BY <1>5 DEF SelectSent
  <2>2. DatabaseId = srvDb
    BY <2>1 DEF IRest, DbConsistent
  <2>3. SessionView = srvDb /\ SessionView' = DatabaseId
    BY <2>1 DEF SessionView
  <2>4. QED
    BY <2>1, <2>2, <2>3 DEF absvars
<1>6. CASE PingSent
  <2>1. UNCHANGED <<conn, DatabaseId, srvDb>> /\ pc = "idle" /\ pc' = "ping"
    BY <1>6 DEF PingSent
  <2>2. QED
    BY <2>1 DEF absvars, SessionView
<1>7. CASE AuthReply \/ PingReply
  <2>1. conn /\ pc \in {"auth", "ping"} /\ pc' = "idle"
    BY <1>7 DEF AuthReply, PingReply, IRest, BlockedHasConn
  <2>2. CASE DisconnectVars
    BY <2>1, <2>2, DropStep DEF DbView!Next
  <2>3. CASE UNCHANGED <<conn, DatabaseId, srvDb>>
    BY <2>1, <2>3 DEF absvars, SessionView
  <2>4. QED
    BY <1>7, <2>2, <2>3, Zenon DEF AuthReply, PingReply, ReplyRejected
<1>8. CASE SelectReply
  <2>1. conn /\ pc = "select" /\ pc' = "idle"
    BY <1>8 DEF SelectReply, IRest, BlockedHasConn
  <2>2. CASE ReplyRejected("OK")
    BY <2>1, <2>2, DropStep DEF ReplyRejected, DbView!Next
  <2>3. CASE /\ ReplyAccepted("OK") /\ DatabaseId' = selecting
             /\ UNCHANGED <<conn, srvOpen, srvAuth, srvDb, srvPartial, toSrv,
                            faults>>
    \* The +OK read was sent after the server switched to `selecting`.
    <3>1. Len(toCli) = 1 /\ Head(toCli) = toCli[1]
      BY <2>3, AcceptedFacts DEF ReplyAccepted, ReadMatches, IRest
    <3>2. srvDb = selecting
      BY <2>1, <2>3, <3>1 DEF ReplyAccepted, ReadMatches, IRest,
                              OkAfterSwitch
    <3>3. selecting \in ValidDbs
      BY <3>2 DEF TypeOK, TypeData
    <3>4. SessionView' = selecting
      BY <2>1, <2>3, <3>2 DEF SessionView
    <3>5. DbView!Select(selecting)
      BY <2>1, <2>3, <3>4 DEF DbView!Select
    <3>6. QED
      BY <3>3, <3>5 DEF DbView!Next
  <2>4. QED
    BY <1>8, <2>2, <2>3, Zenon DEF SelectReply
<1>9. CASE ServerAnswers
  \* Only a select changes the session's database, and a select is in
  \* flight only while the caller waits for it: the view is DatabaseId.
  <2>1. /\ pc # "idle" /\ conn /\ Head(toSrv) = toSrv[1]
        /\ pc = "select" => toSrv[1] = SelectReq(selecting)
        /\ pc # "select" => toSrv[1].op # "select"
    BY <1>9, ServerFacts DEF ServerAnswers
  <2>2. UNCHANGED <<conn, DatabaseId, pc>>
    BY <1>9 DEF ServerAnswers
  <2>3. CASE pc = "select"
    BY <2>2, <2>3 DEF absvars, SessionView
  <2>4. CASE pc # "select"
    <3>1. srvDb' = srvDb
      BY <1>9, <2>1, <2>4 DEF ServerAnswers
    <3>2. QED
      BY <2>2, <3>1, QuietAbsStep
  <2>5. QED
    BY <2>3, <2>4
<1>10. CASE UNCHANGED vars
  BY <1>10 DEF vars, absvars, SessionView
<1>11. QED
  BY <1>1, <1>2, <1>3, <1>4, <1>5, <1>6, <1>7, <1>8, <1>9, <1>10, NextCases

\* The connection implements ConnectionAbstract for every set of ids and
\* every fault bound (DbTracked, checked by conn_safety): the pool sees
\* DatabaseId change only with the session's database, to an id the
\* server accepts, or reset to 0 with the session; the select in flight,
\* a switch whose +OK is never read, and every failure in between are
\* invisible to it.
THEOREM Refinement == Spec => DbTracked
<1>1. Init => DbView!Init
  BY DEF Init, DbView!Init, SessionView
<1>2. QED
  BY <1>1, RInvHolds, RefineStep, PTL
     DEF Spec, DbTracked, DbView!Spec, absvars, DbView!avars

=============================================================================
