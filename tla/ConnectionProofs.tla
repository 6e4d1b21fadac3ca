-------------------------- MODULE ConnectionProofs --------------------------
(***************************************************************************)
(* Proofs about Connection for every value of the constants: the type     *)
(* invariant, that the recorded DatabaseId is the one the server session  *)
(* has selected (DbConsistent), the absence of late replies (NoLateReply) *)
(* and the lockstep of requests and replies (Lockstep), from an inductive *)
(* strengthening IInv; and that only an authorised session yields a       *)
(* successful select or PING (SuccessOnlyAuthorized).                     *)
(***************************************************************************)
EXTENDS Connection, SequenceTheorems, TLAPS

\* A blocked caller holds a socket.
BlockedHasConn == pc # "idle" => conn

\* A disconnected object has no session and nothing in flight.
NoSessionWithoutConn == ~conn => ~srvOpen /\ toSrv = <<>> /\ toCli = <<>>

\* Unsolicited bytes exist only once the server has closed.
UnsolOnlyClosed == srvOpen => \A i \in 1..Len(toCli) : toCli[i] # "UNSOL"

\* A +OK waiting to be read by SelectReply was sent after the server
\* switched to `selecting`.
OkAfterSwitch ==
    pc = "select" => \A i \in 1..Len(toCli) :
                         toCli[i] = "OK" => srvDb = selecting

\* The inductive invariant: the type, the two properties it records, and
\* the facts above they rest on.
IRest ==
    /\ BlockedHasConn
    /\ NoSessionWithoutConn
    /\ UnsolOnlyClosed
    /\ OneInFlight
    /\ RequestsMatchPc
    /\ OkAfterSwitch
    /\ DbConsistent
    /\ NoLateReply
IInv == TypeOK /\ IRest

\* The assumptions on the constants that the arithmetic steps use (the
\* solver is given HasPassword \in BOOLEAN only where a step needs it).
LEMMA ConstantFacts ==
    /\ Dbs \subseteq Nat
    /\ ValidDbs \subseteq Dbs
    /\ 0 \in ValidDbs
    /\ MaxFaults \in Nat
  BY ConstantsAssumption

USE ConstantFacts

\* The step cases: every step of Next is one outcome of one method or one
\* server step, or leaves every variable unchanged.
LEMMA NextCases ==
    ASSUME [Next]_vars
    PROVE  \/ Disconnect \/ ProbeConsumes \/ DialFails
           \/ \E r \in BOOLEAN : Dialled(r)
           \/ AuthReply
           \/ \E id \in Dbs : SelectSent(id)
           \/ SelectWriteFailed \/ SelectReply
           \/ PingSent \/ PingWriteFailed \/ PingReply
           \/ ServerAnswers \/ ServerRefuses \/ ServerCloses
           \/ UNCHANGED vars
  BY Zenon DEF Next, Client, Server, ReconnectIfNecessary, SelectDatabase,
               CheckConnection

\* A reply step leaves toCli a sequence of replies: it consumes the
\* first line, or Disconnect empties it.
LEMMA CliStep ==
    ASSUME toCli \in Seq(Replies),
           (toCli # <<>> /\ toCli' = Tail(toCli)) \/ toCli' = <<>>
    PROVE  toCli' \in Seq(Replies)
<1>1. CASE toCli # <<>> /\ toCli' = Tail(toCli)
  BY <1>1, HeadTailProperties, Zenon
<1>2. CASE toCli' = <<>>
  BY <1>2, EmptySeq, Zenon
<1>3. QED
  BY <1>1, <1>2

\* The type invariant holds in every state of Spec: every step keeps each
\* variable in its domain (DatabaseId only takes ids passed to
\* SelectDatabase or 0, the server only switches to ids it accepts, and
\* faults never passes MaxFaults).
LEMMA TypeStep == TypeOK /\ [Next]_vars => TypeOK'
<1> SUFFICES ASSUME TypeOK, [Next]_vars PROVE TypeOK'
  OBVIOUS
<1>1. TypeFlags'
  BY NextCases, Zenon
     DEF TypeOK, TypeFlags, vars, Disconnect, ProbeConsumes, DialFails,
         Dialled, Authenticate, AuthNotNeeded, AuthSent, AuthWriteFailed,
         AuthReply, ReplyRejected, SelectSent, SelectWriteFailed,
         FailedWriteEffect, SelectReply, PingSent, PingWriteFailed,
         PingReply, ServerAnswers, ServerRefuses, ServerCloses,
         DisconnectVars
<1>2. TypeData'
  <2>. USE DEF TypeOK, TypeData, Requests, Replies, PCs, DisconnectVars,
               ReplyAccepted, ReplyRejected, ReadMatches, ReadFails
  <2>1. CASE Disconnect
    BY <2>1 DEF Disconnect
  <2>2. CASE ProbeConsumes
    <3>1. toCli' \in Seq(Replies)
      <4>1. CASE toCli' = toCli
        BY <4>1
      <4>2. CASE toCli' = Tail(toCli)
        BY <2>2, <4>2, CliStep DEF ProbeConsumes
      <4>3. QED
        BY <2>2, <4>1, <4>2, Zenon DEF ProbeConsumes
    <3>2. QED
      BY <2>2, <3>1 DEF ProbeConsumes
  <2>3. CASE DialFails
    BY <2>3 DEF DialFails
  <2>4. ASSUME NEW r \in BOOLEAN, Dialled(r) PROVE TypeData'
    <3>1. CASE r
      <4>1. CASE AuthNotNeeded(faults + 1)
        BY <2>4, <3>1, <4>1 DEF Dialled, AuthNotNeeded
      <4>2. CASE AuthSent(FALSE, faults + 1)
        BY <2>4, <3>1, <4>2 DEF Dialled, AuthSent
      <4>3. CASE AuthWriteFailed(FALSE, faults + 1)
        BY <2>4, <3>1, <4>3 DEF Dialled, AuthWriteFailed
      <4>4. QED
        BY <2>4, <3>1, <4>1, <4>2, <4>3 DEF Dialled, Authenticate
    <3>2. CASE ~r
      <4>1. CASE AuthNotNeeded(faults)
        BY <2>4, <3>2, <4>1 DEF Dialled, AuthNotNeeded
      <4>2. CASE AuthSent(TRUE, faults)
        BY <2>4, <3>2, <4>2 DEF Dialled, AuthSent, AuthReq
      <4>3. CASE AuthWriteFailed(TRUE, faults)
        BY <2>4, <3>2, <4>3 DEF Dialled, AuthWriteFailed
      <4>4. QED
        BY <2>4, <3>2, <4>1, <4>2, <4>3 DEF Dialled, Authenticate
    <3>3. QED
      BY <3>1, <3>2
  <2>5. CASE AuthReply
    <3>1. toCli' \in Seq(Replies)
      <4>1. (toCli # <<>> /\ toCli' = Tail(toCli)) \/ toCli' = <<>>
        BY <2>5, Zenon DEF AuthReply
      <4>2. QED
        BY <4>1, CliStep
    <3>2. QED
      BY <2>5, <3>1 DEF AuthReply
  <2>6. ASSUME NEW id \in Dbs, SelectSent(id) PROVE TypeData'
    BY <2>6 DEF SelectSent, Send, SelectReq
  <2>7. CASE SelectWriteFailed
    BY <2>7 DEF SelectWriteFailed, FailedWriteEffect, FailedWriteFaults,
                CanFailWrite
  <2>8. CASE SelectReply
    <3>1. toCli' \in Seq(Replies)
      <4>1. (toCli # <<>> /\ toCli' = Tail(toCli)) \/ toCli' = <<>>
        BY <2>8, Zenon DEF SelectReply
      <4>2. QED
        BY <4>1, CliStep
    <3>2. QED
      BY <2>8, <3>1 DEF SelectReply
  <2>9. CASE PingSent
    BY <2>9 DEF PingSent, Send, PingReq
  <2>10. CASE PingWriteFailed
    BY <2>10 DEF PingWriteFailed, FailedWriteFaults, CanFailWrite
  <2>11. CASE PingReply
    <3>1. toCli' \in Seq(Replies)
      <4>1. (toCli # <<>> /\ toCli' = Tail(toCli)) \/ toCli' = <<>>
        BY <2>11, Zenon DEF PingReply
      <4>2. QED
        BY <4>1, CliStep
    <3>2. QED
      BY <2>11, <3>1 DEF PingReply
  <2>12. CASE ServerAnswers
    BY <2>12 DEF ServerAnswers
  <2>13. CASE ServerRefuses
    BY <2>13 DEF ServerRefuses
  <2>14. CASE ServerCloses
    BY <2>14 DEF ServerCloses
  <2>15. CASE UNCHANGED vars
    BY <2>15 DEF vars
  <2>16. QED
    BY <2>1, <2>2, <2>3, <2>4, <2>5, <2>6, <2>7, <2>8, <2>9, <2>10, <2>11,
       <2>12, <2>13, <2>14, <2>15, NextCases
<1>3. QED
  BY <1>1, <1>2 DEF TypeOK

LEMMA InitType == Init => TypeOK
<1>1. Init => TypeFlags
  BY Zenon DEF Init, TypeFlags
<1>2. Init => TypeData
  BY DEF Init, TypeData, PCs
<1>3. QED
  BY <1>1, <1>2 DEF TypeOK

\* Type correctness of Connection: in every reachable state each variable
\* holds a value of its type (TypeOK, checked by the run conn_safety).
THEOREM TypeCorrect == Spec => []TypeOK
  BY InitType, TypeStep, PTL DEF Spec


\* The strengthening holds initially.
LEMMA InitIInv == Init => IInv
  BY InitType DEF Init, IInv, IRest, BlockedHasConn, NoSessionWithoutConn,
     UnsolOnlyClosed, OneInFlight, RequestsMatchPc, OkAfterSwitch,
     DbConsistent, NoLateReply

\* Two counts that add up to at most one: a non-zero one is the one.
LEMMA OneOfTwo ==
    ASSUME NEW x \in Nat, NEW y \in Nat, x + y <= 1
    PROVE  /\ y # 0 => y = 1 /\ x = 0
           /\ x # 0 => x = 1 /\ y = 0
  OBVIOUS

\* A reply step that disconnects re-establishes the strengthening
\* whatever the state before: no socket, no session, nothing in flight.
LEMMA RejectedStep ==
    ASSUME DisconnectVars, pc' = "idle"
    PROVE  IRest'
  BY DEF IRest, BlockedHasConn, NoSessionWithoutConn, UnsolOnlyClosed,
     OneInFlight, RequestsMatchPc, OkAfterSwitch, DbConsistent, NoLateReply,
     DisconnectVars

\* The line a blocked caller reads is the only one in flight: once it is
\* consumed nothing is left either way.
LEMMA AcceptedFacts ==
    ASSUME TypeOK, OneInFlight, toCli # <<>>, toCli' = Tail(toCli)
    PROVE  /\ toSrv = <<>>
           /\ toCli' = <<>>
           /\ Len(toCli) = 1
           /\ Head(toCli) = toCli[1]
<1>a. toCli \in Seq(Replies) /\ toSrv \in Seq(Requests)
  BY DEF TypeOK, TypeData
<1>b. Len(toCli) \in Nat /\ Len(toSrv) \in Nat /\ Len(toCli) # 0
  BY <1>a, EmptySeq, LenProperties
<1>1. Len(toCli) = 1 /\ Len(toSrv) = 0
  BY <1>b, OneOfTwo, Zenon DEF OneInFlight
<1>2. toSrv = <<>>
  BY <1>1, EmptySeq DEF TypeOK, TypeData
<1>3. Len(toCli') = 0 /\ toCli' \in Seq(Replies)
  BY <1>1, HeadTailProperties DEF TypeOK, TypeData
<1>4. toCli' = <<>>
  BY <1>3, EmptySeq
<1>5. QED
  BY <1>1, <1>2, <1>4

\* A sequence of at most one element, none of which is u, while every
\* element is u, is empty.
LEMMA NoneAndAll ==
    ASSUME NEW S, NEW q \in Seq(S), NEW u,
           \A i \in 1..Len(q) : q[i] = u,
           \A i \in 1..Len(q) : q[i] # u
    PROVE  q = <<>>
<1>1. Len(q) = 0
  <2>1. SUFFICES ASSUME Len(q) # 0 PROVE FALSE
    BY EmptySeq, LenProperties
  <2>2. 1 \in 1..Len(q)
    BY <2>1, LenProperties
  <2>3. QED
    BY <2>2, Zenon
<1>2. QED
  BY <1>1, EmptySeq, LenProperties

\* What an idle caller's state says: nothing is pending at the server,
\* and an open session has nothing pending for the client.
LEMMA IdleFacts ==
    ASSUME TypeOK, IRest, pc = "idle"
    PROVE  /\ toSrv = <<>>
           /\ \A i \in 1..Len(toCli) : toCli[i] = "UNSOL"
           /\ srvOpen => toCli = <<>>
           /\ conn \/ toCli = <<>>
<1>1. toSrv = <<>> /\ \A i \in 1..Len(toCli) : toCli[i] = "UNSOL"
  BY DEF IRest, NoLateReply
<1>2. srvOpen => toCli = <<>>
  <2>1. toCli \in Seq(Replies)
    BY DEF TypeOK, TypeData
  <2>2. srvOpen => \A i \in 1..Len(toCli) : toCli[i] # "UNSOL"
    BY DEF IRest, UnsolOnlyClosed
  <2>3. QED
    BY <1>1, <2>1, <2>2, NoneAndAll
<1>3. conn \/ toCli = <<>>
  BY DEF IRest, NoSessionWithoutConn
<1>4. QED
  BY <1>1, <1>2, <1>3

\* What a request pending at the server says: a caller is blocked on
\* it, it is the only message in flight, and it is the one that caller
\* sent.
LEMMA ServerFacts ==
    ASSUME TypeOK, IRest, toSrv # <<>>
    PROVE  /\ pc # "idle"
           /\ conn
           /\ toCli = <<>>
           /\ Len(toSrv) = 1
           /\ Head(toSrv) = toSrv[1]
           /\ toSrv[1] \in Requests
           /\ pc = "select" => toSrv[1] = SelectReq(selecting)
           /\ pc # "select" => toSrv[1].op # "select"
<1>1. pc # "idle" /\ conn
  BY DEF IRest, NoLateReply, BlockedHasConn
<1>2. toSrv \in Seq(Requests) /\ toCli \in Seq(Replies)
  BY DEF TypeOK, TypeData
<1>3. Len(toSrv) \in Nat /\ Len(toCli) \in Nat /\ Len(toSrv) # 0
  BY <1>2, EmptySeq, LenProperties
<1>4. Len(toSrv) = 1 /\ Len(toCli) = 0
  BY <1>3, OneOfTwo, Zenon DEF IRest, OneInFlight
<1>5. toCli = <<>>
  BY <1>2, <1>4, EmptySeq, LenProperties
<1>6. 1 \in 1..Len(toSrv)
  BY <1>4
<1>7. toSrv[1] \in Requests
  BY <1>2, <1>6
<1>8. /\ pc = "select" => toSrv[1] = SelectReq(selecting)
      /\ pc # "select" => toSrv[1].op # "select"
  BY <1>6, Zenon DEF IRest, RequestsMatchPc
<1>9. QED
  BY <1>1, <1>4, <1>5, <1>7, <1>8, <1>2

\* A step after which nothing is in flight keeps every conjunct about
\* what is in flight.
LEMMA QuietStep ==
    ASSUME toSrv' = <<>>, toCli' = <<>>
    PROVE  /\ UnsolOnlyClosed' /\ OneInFlight' /\ RequestsMatchPc'
           /\ OkAfterSwitch' /\ NoLateReply'
  BY DEF UnsolOnlyClosed, OneInFlight, RequestsMatchPc, OkAfterSwitch,
         NoLateReply

\* Every step keeps the strengthening: one step per action; the steps
\* that disconnect, and the reply that is read, leave nothing in flight.
LEMMA IInvStep == IInv /\ [Next]_vars => IInv'
<1> SUFFICES ASSUME TypeOK, IRest, [Next]_vars PROVE IInv'
  BY DEF IInv
<1>1. TypeOK'
  BY TypeStep
<1> SUFFICES IRest'
  BY <1>1 DEF IInv
<1>2. CASE Disconnect
  BY <1>2, RejectedStep DEF Disconnect
<1>3. CASE DialFails
  BY <1>3, RejectedStep DEF DialFails
<1>4. CASE PingWriteFailed
  BY <1>4, RejectedStep DEF PingWriteFailed
<1>5. CASE ProbeConsumes
  <2>1. CASE toCli' = toCli
    BY <1>5, <2>1, Zenon
       DEF ProbeConsumes, IRest, BlockedHasConn, NoSessionWithoutConn,
           UnsolOnlyClosed, OneInFlight, RequestsMatchPc, OkAfterSwitch,
           DbConsistent, NoLateReply
  <2>2. CASE toCli' = Tail(toCli)
    <3>1. toSrv' = <<>> /\ toCli' = <<>>
      BY <1>5, <2>2, AcceptedFacts DEF ProbeConsumes, IRest
    <3>2. BlockedHasConn' /\ NoSessionWithoutConn' /\ DbConsistent'
      BY <1>5 DEF ProbeConsumes, IRest, BlockedHasConn, NoSessionWithoutConn,
                  DbConsistent
    <3>3. QED
      BY <3>1, <3>2, QuietStep DEF IRest
  <2>3. QED
    BY <1>5, <2>1, <2>2 DEF ProbeConsumes
<1>6. ASSUME NEW r \in BOOLEAN, Dialled(r) PROVE IRest'
  <2>1. /\ pc' \in {"idle", "auth"}
        /\ pc' = "idle" => toSrv' = <<>>
        /\ conn' /\ DatabaseId' = 0 /\ srvDb' = 0
    BY <1>6, Zenon DEF Dialled, Authenticate, AuthNotNeeded, AuthSent,
                       AuthWriteFailed
  <2>2. BlockedHasConn' /\ NoSessionWithoutConn' /\ OkAfterSwitch'
        /\ DbConsistent'
    BY <2>1 DEF BlockedHasConn, NoSessionWithoutConn, OkAfterSwitch,
                DbConsistent
  <2>3. CASE r
    <3>1. toSrv' = <<>> /\ toCli' = <<"UNSOL">> /\ ~srvOpen'
      BY <1>6, <2>3, Zenon DEF Dialled, Authenticate, AuthNotNeeded,
                               AuthSent, AuthWriteFailed
    <3>2. QED
      BY <2>2, <3>1 DEF IRest, UnsolOnlyClosed, OneInFlight, RequestsMatchPc,
                        NoLateReply
  <2>4. CASE ~r
    <3>1. toCli' = <<>>
      BY <1>6, <2>4 DEF Dialled
    <3>2. CASE AuthSent(TRUE, faults)
      <4>1. toSrv' = <<AuthReq>> /\ pc' = "auth"
        BY <3>2 DEF AuthSent
      <4>2. QED
        BY <2>2, <3>1, <4>1 DEF IRest, UnsolOnlyClosed, OneInFlight,
                                RequestsMatchPc, NoLateReply, AuthReq
    <3>3. CASE ~AuthSent(TRUE, faults)
      <4>1. toSrv' = <<>>
        BY <1>6, <2>4, <3>3, Zenon DEF Dialled, Authenticate, AuthNotNeeded,
                                       AuthWriteFailed
      <4>2. QED
        BY <2>2, <3>1, <4>1, QuietStep DEF IRest
    <3>4. QED
      BY <3>2, <3>3, Zenon
  <2>5. QED
    BY <2>3, <2>4
<1>7. CASE AuthReply
  <2>1. CASE /\ ReplyAccepted("OK")
             /\ UNCHANGED <<conn, DatabaseId, srvOpen, srvAuth, srvDb,
                            srvPartial, toSrv, faults>>
    <3>1. toSrv = <<>> /\ toCli' = <<>> /\ Len(toCli) = 1
          /\ Head(toCli) = toCli[1]
      BY <2>1, AcceptedFacts DEF ReplyAccepted, ReadMatches, IRest
    <3>3. toSrv' = <<>> /\ UNCHANGED <<conn, srvDb>> /\ pc' = "idle"
      BY <1>7, <2>1, <3>1 DEF AuthReply
    <3>4. conn
      BY <1>7 DEF AuthReply, IRest, BlockedHasConn
    <3>5. DatabaseId' = srvDb'
      BY <1>7, <2>1, <3>3, <3>4 DEF AuthReply, IRest, DbConsistent
    <3>6. BlockedHasConn' /\ NoSessionWithoutConn' /\ DbConsistent'
      BY <3>3, <3>4, <3>5, Zenon DEF BlockedHasConn, NoSessionWithoutConn,
                                    DbConsistent
    <3>7. QED
      BY <3>1, <3>3, <3>6, QuietStep DEF IRest
  <2>2. CASE ReplyRejected("OK")
    BY <1>7, <2>2, RejectedStep DEF ReplyRejected, AuthReply
  <2>3. QED
    BY <1>7, <2>1, <2>2, Zenon DEF AuthReply
<1>8. CASE SelectReply
  <2>1. CASE /\ ReplyAccepted("OK") /\ DatabaseId' = selecting
             /\ UNCHANGED <<conn, srvOpen, srvAuth, srvDb, srvPartial, toSrv,
                            faults>>
    <3>1. toSrv = <<>> /\ toCli' = <<>> /\ Len(toCli) = 1
          /\ Head(toCli) = toCli[1]
      BY <2>1, AcceptedFacts DEF ReplyAccepted, ReadMatches, IRest
    <3>2. srvDb = selecting
      BY <1>8, <2>1, <3>1 DEF SelectReply, ReplyAccepted, ReadMatches, IRest,
                          OkAfterSwitch
    <3>3. toSrv' = <<>> /\ UNCHANGED <<conn, srvDb>> /\ pc' = "idle"
      BY <1>8, <2>1, <3>1 DEF SelectReply
    <3>4. conn
      BY <1>8 DEF SelectReply, IRest, BlockedHasConn
    <3>5. DatabaseId' = srvDb'
      BY <1>8, <2>1, <3>3, <3>2 DEF SelectReply, IRest, DbConsistent
    <3>6. BlockedHasConn' /\ NoSessionWithoutConn' /\ DbConsistent'
      BY <3>3, <3>4, <3>5, Zenon DEF BlockedHasConn, NoSessionWithoutConn,
                                    DbConsistent
    <3>7. QED
      BY <3>1, <3>3, <3>6, QuietStep DEF IRest
  <2>2. CASE ReplyRejected("OK")
    BY <1>8, <2>2, RejectedStep DEF ReplyRejected, SelectReply
  <2>3. QED
    BY <1>8, <2>1, <2>2, Zenon DEF SelectReply
<1>9. CASE PingReply
  <2>1. CASE /\ ReplyAccepted("PONG")
             /\ UNCHANGED <<conn, DatabaseId, srvOpen, srvAuth, srvDb,
                            srvPartial, toSrv, faults>>
    <3>1. toSrv = <<>> /\ toCli' = <<>> /\ Len(toCli) = 1
          /\ Head(toCli) = toCli[1]
      BY <2>1, AcceptedFacts DEF ReplyAccepted, ReadMatches, IRest
    <3>3. toSrv' = <<>> /\ UNCHANGED <<conn, srvDb>> /\ pc' = "idle"
      BY <1>9, <2>1, <3>1 DEF PingReply
    <3>4. conn
      BY <1>9 DEF PingReply, IRest, BlockedHasConn
    <3>5. DatabaseId' = srvDb'
      BY <1>9, <2>1, <3>3, <3>4 DEF PingReply, IRest, DbConsistent
    <3>6. BlockedHasConn' /\ NoSessionWithoutConn' /\ DbConsistent'
      BY <3>3, <3>4, <3>5, Zenon DEF BlockedHasConn, NoSessionWithoutConn,
                                    DbConsistent
    <3>7. QED
      BY <3>1, <3>3, <3>6, QuietStep DEF IRest
  <2>2. CASE ReplyRejected("PONG")
    BY <1>9, <2>2, RejectedStep DEF ReplyRejected, PingReply
  <2>3. QED
    BY <1>9, <2>1, <2>2, Zenon DEF PingReply
<1>10. ASSUME NEW id \in Dbs, SelectSent(id) PROVE IRest'
  <2>1. /\ toSrv = <<>>
        /\ \A i \in 1..Len(toCli) : toCli[i] = "UNSOL"
        /\ srvOpen => toCli = <<>>
    BY <1>10, IdleFacts DEF SelectSent
  <2>2. /\ conn' /\ pc' = "select" /\ UNCHANGED <<srvOpen, toCli>>
        /\ toSrv' = IF srvOpen THEN <<SelectReq(id)>> ELSE <<>>
    BY <1>10, <2>1 DEF SelectSent, Send
  <2>7. selecting' = id
    BY <1>10 DEF SelectSent
  <2>3. BlockedHasConn' /\ NoSessionWithoutConn' /\ UnsolOnlyClosed'
        /\ DbConsistent' /\ NoLateReply'
    BY <1>10, <2>2, Zenon
       DEF IRest, BlockedHasConn, NoSessionWithoutConn, UnsolOnlyClosed,
           DbConsistent, NoLateReply
  <2>4. CASE srvOpen
    <3>1. toSrv' = <<SelectReq(id)>> /\ toCli' = <<>>
      BY <2>1, <2>2, <2>4
    <3>2. QED
      BY <1>10, <2>2, <2>3, <2>7, <3>1
         DEF SelectSent, IRest, OneInFlight, RequestsMatchPc, OkAfterSwitch,
             SelectReq
  <2>5. CASE ~srvOpen
    <3>1. toSrv' = <<>> /\ toCli' = toCli
      BY <2>2, <2>5
    <3>2. Len(toCli) <= 1
      BY <2>1 DEF IRest, OneInFlight
    <3>3. QED
      BY <1>10, <2>1, <2>2, <2>3, <3>1, <3>2
         DEF SelectSent, IRest, OneInFlight, RequestsMatchPc, OkAfterSwitch
  <2>6. QED
    BY <2>4, <2>5
<1>11. CASE PingSent
  <2>1. /\ toSrv = <<>>
        /\ \A i \in 1..Len(toCli) : toCli[i] = "UNSOL"
        /\ srvOpen => toCli = <<>>
    BY <1>11, IdleFacts DEF PingSent
  <2>2. /\ conn' /\ pc' = "ping" /\ UNCHANGED <<srvOpen, toCli>>
        /\ toSrv' = IF srvOpen THEN <<PingReq>> ELSE <<>>
    BY <1>11, <2>1 DEF PingSent, Send
  <2>3. BlockedHasConn' /\ NoSessionWithoutConn' /\ UnsolOnlyClosed'
        /\ DbConsistent' /\ NoLateReply'
    BY <1>11, <2>2
       DEF PingSent, IRest, BlockedHasConn, NoSessionWithoutConn, UnsolOnlyClosed,
           DbConsistent, NoLateReply
  <2>4. CASE srvOpen
    <3>1. toSrv' = <<PingReq>> /\ toCli' = <<>>
      BY <2>1, <2>2, <2>4
    <3>2. QED
      BY <1>11, <2>2, <2>3, <3>1
         DEF PingSent, IRest, OneInFlight, RequestsMatchPc, OkAfterSwitch,
             PingReq
  <2>5. CASE ~srvOpen
    <3>1. toSrv' = <<>> /\ toCli' = toCli
      BY <2>2, <2>5
    <3>2. Len(toCli) <= 1
      BY <2>1 DEF IRest, OneInFlight
    <3>3. QED
      BY <1>11, <2>1, <2>2, <2>3, <3>1, <3>2
         DEF PingSent, IRest, OneInFlight, RequestsMatchPc, OkAfterSwitch
  <2>6. QED
    BY <2>4, <2>5
<1>12. CASE SelectWriteFailed
  BY <1>12, Zenon
     DEF SelectWriteFailed, FailedWriteEffect, FailedWriteFaults, IRest, BlockedHasConn, NoSessionWithoutConn,
           UnsolOnlyClosed, OneInFlight, RequestsMatchPc, OkAfterSwitch,
           DbConsistent, NoLateReply
<1>13. CASE ServerAnswers
  <2>1. /\ pc # "idle" /\ conn /\ toCli = <<>> /\ Len(toSrv) = 1
        /\ Head(toSrv) = toSrv[1] /\ toSrv[1] \in Requests
        /\ pc = "select" => toSrv[1] = SelectReq(selecting)
        /\ pc # "select" => toSrv[1].op # "select"
    BY <1>13, ServerFacts DEF ServerAnswers
  <2> DEFINE req == toSrv[1]
             ok == /\ ~srvPartial /\ (req.op = "auth" \/ Authorized)
                   /\ (req.op = "select" => req.db \in ValidDbs)
             rep == IF ~ok THEN "ERR" ELSE IF req.op = "ping" THEN "PONG"
                                           ELSE "OK"
  <2>2. toSrv' = <<>>
    <3>1. toSrv \in Seq(Requests) /\ toSrv # <<>>
      BY <1>13 DEF ServerAnswers, TypeOK, TypeData
    <3>2. Tail(toSrv) \in Seq(Requests) /\ Len(Tail(toSrv)) = 0
      BY <2>1, <3>1, HeadTailProperties
    <3>3. QED
      BY <1>13, <3>2, EmptySeq DEF ServerAnswers
  <2>3. /\ toCli' = <<rep>>
        /\ srvDb' = IF ok /\ req.op = "select" THEN req.db ELSE srvDb
        /\ UNCHANGED <<conn, DatabaseId, pc, selecting>>
    BY <1>13, <2>1 DEF ServerAnswers
  <2>4. pc = "select" /\ rep = "OK" => srvDb' = selecting
    BY <2>1, <2>3 DEF SelectReq
  <2>5. pc # "select" => srvDb' = srvDb
    BY <2>1, <2>3
  <2>6. rep # "UNSOL"
    OBVIOUS
  <2>7. QED
    BY <2>1, <2>2, <2>3, <2>4, <2>5, <2>6
       DEF IRest, BlockedHasConn, NoSessionWithoutConn, UnsolOnlyClosed,
           OneInFlight, RequestsMatchPc, OkAfterSwitch, DbConsistent,
           NoLateReply
<1>14. CASE ServerRefuses
  <2>1. /\ pc # "idle" /\ conn /\ toCli = <<>> /\ Len(toSrv) = 1
    BY <1>14, ServerFacts DEF ServerRefuses
  <2>2. toSrv' = <<>>
    <3>1. toSrv \in Seq(Requests) /\ toSrv # <<>>
      BY <1>14 DEF ServerRefuses, TypeOK, TypeData
    <3>2. Tail(toSrv) \in Seq(Requests) /\ Len(Tail(toSrv)) = 0
      BY <2>1, <3>1, HeadTailProperties
    <3>3. QED
      BY <1>14, <3>2, EmptySeq DEF ServerRefuses
  <2>3. toCli' = <<"ERR">>
        /\ UNCHANGED <<conn, DatabaseId, pc, selecting, srvDb>>
    BY <1>14, <2>1 DEF ServerRefuses
  <2>4. QED
    BY <2>1, <2>2, <2>3
       DEF IRest, BlockedHasConn, NoSessionWithoutConn, UnsolOnlyClosed,
           OneInFlight, RequestsMatchPc, OkAfterSwitch, DbConsistent,
           NoLateReply
<1>15. CASE ServerCloses
  <2>1. toSrv' = <<>> /\ ~srvOpen'
        /\ UNCHANGED <<conn, DatabaseId, pc, selecting, srvDb, toCli>>
    BY <1>15 DEF ServerCloses
  <2>2. Len(toCli) <= 1
    <3>1. Len(toSrv) \in Nat /\ Len(toCli) \in Nat
      BY LenProperties DEF TypeOK, TypeData
    <3>2. QED
      BY <3>1 DEF IRest, OneInFlight
  <2>3. QED
    BY <2>1, <2>2
       DEF IRest, BlockedHasConn, NoSessionWithoutConn, UnsolOnlyClosed,
           OneInFlight, RequestsMatchPc, OkAfterSwitch, DbConsistent,
           NoLateReply
<1>16. CASE UNCHANGED vars
  BY <1>16, Zenon
     DEF vars, IRest, BlockedHasConn, NoSessionWithoutConn, UnsolOnlyClosed,
         OneInFlight, RequestsMatchPc, OkAfterSwitch, DbConsistent,
         NoLateReply
<1>17. QED
  BY <1>2, <1>3, <1>4, <1>5, <1>6, <1>7, <1>8, <1>9, <1>10, <1>11, <1>12,
     <1>13, <1>14, <1>15, <1>16, NextCases

\* IInv holds in every state of Spec.
LEMMA IInvHolds == Spec => []IInv
  BY InitIInv, IInvStep, PTL DEF Spec

\* The DatabaseId the connection records is the database its server
\* session has selected whenever no select is in flight, for every set of
\* ids and every fault bound (DbConsistent, checked by conn_safety):
\* SelectDatabase records only an id whose +OK it read, and every failed
\* read disconnects before a later reply could be taken for it.
THEOREM DbConsistentHolds == Spec => []DbConsistent
<1>1. IInv => DbConsistent
  BY DEF IInv, IRest
<1>2. QED
  BY <1>1, IInvHolds, PTL

\* When no method is running nothing is pending at the server and no
\* reply to an earlier request waits to be read (NoLateReply, checked by
\* conn_safety), for every value of the constants.
THEOREM NoLateReplyHolds == Spec => []NoLateReply
<1>1. IInv => NoLateReply
  BY DEF IInv, IRest
<1>2. QED
  BY <1>1, IInvHolds, PTL

\* The exchange with the server stays in lockstep (Lockstep, checked by
\* conn_safety and conn_safety_nopass) for every value of the constants:
\* at most one line is in flight, and a select in flight is the one
\* SelectDatabase waits for.  Every failure path of the methods that
\* would otherwise leave a request or a late reply behind disconnects.
THEOREM LockstepHolds == Spec => []Lockstep
<1>1. IInv => Lockstep
  BY DEF IInv, IRest, Lockstep
<1>2. QED
  BY <1>1, IInvHolds, PTL

-----------------------------------------------------------------------------
(* Success only on an authorised session.                                  *)

\* While a select or PING is pending, a +OK or +PONG waiting to be read was
\* sent by a session that had accepted AUTH (or needs none).
SuccessRepliesAuthorized ==
    pc \in {"select", "ping"} =>
        \A i \in 1..Len(toCli) : toCli[i] \in {"OK", "PONG"} => Authorized

LEMMA InitSuccessReplies == Init => SuccessRepliesAuthorized
  BY DEF Init, SuccessRepliesAuthorized

\* A step that empties toCli, or moves the caller out of select and ping,
\* trivially keeps SuccessRepliesAuthorized.
LEMMA VacuousSuccess ==
    ASSUME toCli' = <<>> \/ pc' \notin {"select", "ping"}
    PROVE  SuccessRepliesAuthorized'
  BY DEF SuccessRepliesAuthorized

\* SuccessRepliesAuthorized is kept by every step, given IInv: the server
\* answers +OK or +PONG to a select or PING only on an authorised session
\* (and an accepted AUTH authorises it), srvAuth is cleared only with the
\* session, and a method starts with no such reply pending (NoLateReply).
LEMMA SuccessRepliesStep ==
    IInv /\ SuccessRepliesAuthorized /\ [Next]_vars
        => SuccessRepliesAuthorized'
<1> SUFFICES ASSUME TypeOK, IRest, SuccessRepliesAuthorized, [Next]_vars
             PROVE  SuccessRepliesAuthorized'
  BY DEF IInv
<1>1. CASE Disconnect \/ DialFails \/ PingWriteFailed
  BY <1>1, VacuousSuccess DEF Disconnect, DialFails, PingWriteFailed,
                              DisconnectVars
<1>2. CASE ProbeConsumes \/ SelectWriteFailed \/ AuthReply \/ SelectReply
           \/ PingReply
  BY <1>2, VacuousSuccess
     DEF ProbeConsumes, SelectWriteFailed, AuthReply, SelectReply, PingReply
<1>3. ASSUME NEW r \in BOOLEAN, Dialled(r) PROVE SuccessRepliesAuthorized'
  <2>1. pc' \in {"idle", "auth"}
    BY <1>3, Zenon DEF Dialled, Authenticate, AuthNotNeeded, AuthSent,
                       AuthWriteFailed
  <2>2. QED
    BY <2>1, VacuousSuccess
<1>4. CASE (\E id \in Dbs : SelectSent(id)) \/ PingSent
  \* An idle caller has only unsolicited bytes pending, and they stay.
  <2>1. pc = "idle" /\ UNCHANGED toCli
    BY <1>4 DEF SelectSent, PingSent
  <2>2. \A i \in 1..Len(toCli) : toCli[i] = "UNSOL"
    BY <2>1 DEF IRest, NoLateReply
  <2>3. QED
    BY <2>1, <2>2 DEF SuccessRepliesAuthorized
<1>5. CASE ServerAnswers
  <2>1. toCli = <<>>
    BY <1>5, ServerFacts DEF ServerAnswers
  <2> DEFINE req == Head(toSrv)
             ok == /\ ~srvPartial /\ (req.op = "auth" \/ Authorized)
                   /\ (req.op = "select" => req.db \in ValidDbs)
             rep == IF ~ok THEN "ERR" ELSE IF req.op = "ping" THEN "PONG"
                                           ELSE "OK"
  <2>2. /\ toCli' = <<rep>>
        /\ srvAuth' = (srvAuth \/ (ok /\ req.op = "auth"))
        /\ UNCHANGED pc
    BY <1>5, <2>1 DEF ServerAnswers
  \* The reply is a success only if the request was accepted, and then
  \* the session is authorised after the step.
  <2>3. rep \in {"OK", "PONG"} => Authorized'
    BY <2>2 DEF Authorized
  <2>4. QED
    BY <2>2, <2>3 DEF SuccessRepliesAuthorized
<1>6. CASE ServerRefuses
  <2>1. toCli = <<>>
    BY <1>6, ServerFacts DEF ServerRefuses
  <2>2. toCli' = <<"ERR">>
    BY <1>6, <2>1 DEF ServerRefuses
  <2>3. QED
    BY <2>2 DEF SuccessRepliesAuthorized
<1>7. CASE ServerCloses
  BY <1>7 DEF ServerCloses, SuccessRepliesAuthorized, Authorized
<1>8. CASE UNCHANGED vars
  BY <1>8 DEF vars, SuccessRepliesAuthorized, Authorized
<1>9. QED
  BY <1>1, <1>2, <1>3, <1>4, <1>5, <1>6, <1>7, <1>8, NextCases

\* The invariant behind SuccessOnlyAuthorized.
AInv == IInv /\ SuccessRepliesAuthorized

LEMMA AInvHolds == Spec => []AInv
<1>1. Init => AInv
  BY InitIInv, InitSuccessReplies DEF AInv
<1>2. AInv /\ [Next]_vars => AInv'
  BY IInvStep, SuccessRepliesStep DEF AInv
<1>3. QED
  BY <1>1, <1>2, PTL DEF Spec

\* The step form of SuccessOnlyAuthorized: a select or PING returns to
\* idle with the socket kept only by reading +OK or +PONG, which came from
\* an authorised session.
LEMMA SuccessStep ==
    AInv /\ [Next]_vars
        => ((pc \in {"select", "ping"} /\ pc' = "idle" /\ conn') => Authorized)
<1> SUFFICES ASSUME TypeOK, IRest, SuccessRepliesAuthorized, [Next]_vars,
                    pc \in {"select", "ping"}, pc' = "idle", conn'
             PROVE  Authorized
  BY DEF AInv, IInv
<1>1. CASE SelectReply \/ PingReply
  <2>1. ~DisconnectVars
    BY DEF DisconnectVars
  <2>2. ReplyAccepted("OK") \/ ReplyAccepted("PONG")
    BY <1>1, <2>1, Zenon DEF SelectReply, PingReply, ReplyRejected
  <2>3. toCli # <<>> /\ toCli[1] \in {"OK", "PONG"}
    <3>1. toCli # <<>> /\ Head(toCli) \in {"OK", "PONG"}
      BY <2>2 DEF ReplyAccepted, ReadMatches
    <3>2. Head(toCli) = toCli[1]
      BY <2>2, AcceptedFacts DEF ReplyAccepted, IRest
    <3>3. QED
      BY <3>1, <3>2
  <2>4. 1 \in 1..Len(toCli)
    <3>1. toCli \in Seq(Replies)
      BY DEF TypeOK, TypeData
    <3>2. QED
      BY <2>3, <3>1, EmptySeq, LenProperties
  <2>5. QED
    BY <2>3, <2>4 DEF SuccessRepliesAuthorized
\* No other step takes a caller blocked on select or PING back to idle.
<1>2. CASE ~(SelectReply \/ PingReply)
  <2>1. FALSE
    BY <1>2, NextCases, Zenon
       DEF Disconnect, ProbeConsumes, DialFails, Dialled, AuthReply,
           SelectSent, SelectWriteFailed, PingSent, PingWriteFailed,
           ServerAnswers, ServerRefuses, ServerCloses, vars
  <2>2. QED
    BY <2>1
<1>3. QED
  BY <1>1, <1>2

\* Every SelectDatabase that records its id and every CheckConnection
\* that returns true ran on a session that accepted AUTH, or needs none,
\* for every value of the constants (SuccessOnlyAuthorized, checked by
\* conn_safety): the half-open session that a failed AUTH flush leaves
\* (line 165) answers with an error, and the method then disconnects.
THEOREM SuccessOnlyAuthorizedHolds == Spec => SuccessOnlyAuthorized
  BY AInvHolds, SuccessStep, PTL DEF Spec, SuccessOnlyAuthorized

=============================================================================
