----------------------------- MODULE Connection -----------------------------
(***************************************************************************)
(* The outbound connection of src/connection/connection.go (type          *)
(* Connection, lines 41-246) together with the one Redis server session   *)
(* it talks to.                                                            *)
(*                                                                         *)
(* The client side is the Go object: whether it holds a socket (`conn`,   *)
(* i.e. c.connection != nil, which is also when Reader and Writer are     *)
(* set), the DatabaseId it records, and where its single caller stands:   *)
(* idle, or blocked in Reader.ReadLine waiting for the reply to the AUTH, *)
(* select or PING it has just flushed.  Each public method is one action  *)
(* up to its flush, and the rest of the method (the ReadLine and what it  *)
(* does with the line) is a second action, because the server and the    *)
(* network act while the caller is blocked in the read.                   *)
(*                                                                         *)
(* The server side is the session the socket is connected to: whether it  *)
(* is open, authenticated, which database it has selected, whether a      *)
(* partial write has left an unterminated fragment in its input buffer,  *)
(* and the bytes in flight each way.  Replies are abstracted to the lines *)
(* the code compares against: +OK, +PONG, an error line answering a       *)
(* request ("ERR"), and unsolicited bytes the server wrote before closing *)
(* (e.g. "-ERR max number of clients reached", "UNSOL").                  *)
(*                                                                         *)
(* Failures (dial errors, write and read deadlines, the server closing    *)
(* the session or refusing a request) are counted in `faults` and bounded *)
(* by MaxFaults, so that liveness can be stated for the runs in which the *)
(* failures stop.                                                          *)
(***************************************************************************)
EXTENDS Naturals, Sequences

CONSTANTS
    Dbs,          \* database ids a caller may pass to SelectDatabase
    ValidDbs,     \* the ids the server accepts (its "databases" setting)
    HasPassword,  \* authPassword != "" (the server then requires AUTH)
    MaxFaults     \* bound on injected failures

ASSUME ConstantsAssumption ==
    /\ Dbs \subseteq Nat
    /\ ValidDbs \subseteq Dbs
    /\ 0 \in ValidDbs
    /\ HasPassword \in BOOLEAN
    /\ MaxFaults \in Nat

VARIABLES
    conn,        \* c.connection != nil (Reader and Writer are set with it)
    DatabaseId,  \* c.DatabaseId
    pc,          \* "idle", or the reply the caller is blocked on
    selecting,   \* the DatabaseId argument of the SelectDatabase in flight
    srvOpen,     \* the server end of the socket is open
    srvAuth,     \* the session has accepted AUTH
    srvDb,       \* the database the session has selected
    srvPartial,  \* an unterminated fragment of a failed write is buffered
    toSrv,       \* requests flushed to the server, not yet processed
    toCli,       \* reply lines sent by the server, not yet read
    faults       \* failures injected so far

vars == <<conn, DatabaseId, pc, selecting, srvOpen, srvAuth, srvDb,
          srvPartial, toSrv, toCli, faults>>

\* The lines the client compares replies against (protocol.OK_RESPONSE,
\* protocol.PONG_RESPONSE), an error reply, and unsolicited bytes.
Replies == {"OK", "PONG", "ERR", "UNSOL"}

\* The requests the client writes: "AUTH ...", "select <id>", "PING".
Requests == [op : {"auth", "ping"}, db : {0}] \cup [op : {"select"}, db : Dbs]
AuthReq == [op |-> "auth", db |-> 0]
PingReq == [op |-> "ping", db |-> 0]
SelectReq(id) == [op |-> "select", db |-> id]

PCs == {"idle", "auth", "select", "ping"}

-----------------------------------------------------------------------------
(* Helpers for the effects the methods share.                              *)

\* Disconnect (lines 76-86): close the socket if there is one, then clear
\* connection, Reader, Writer and reset DatabaseId to 0.  Closing the
\* socket ends the server session and drops what was in flight.
DisconnectVars ==
    /\ conn' = FALSE
    /\ DatabaseId' = 0
    /\ srvOpen' = FALSE
    /\ srvAuth' = FALSE
    /\ srvDb' = 0
    /\ srvPartial' = FALSE
    /\ toSrv' = <<>>
    /\ toCli' = <<>>

\* A flush the kernel accepts: the request reaches the server if its end
\* is still open, and is lost otherwise.
Send(req) == toSrv' = IF srvOpen THEN Append(toSrv, req) ELSE toSrv

\* A flush may fail: for free once the peer has closed (EPIPE, reset),
\* and as an injected fault (write deadline) while it is open.
CanFailWrite == ~srvOpen \/ faults < MaxFaults
FailedWriteFaults == faults' = IF srvOpen THEN faults + 1 ELSE faults

\* A failed flush either sent nothing or sent a prefix of the line: the
\* server then holds an unterminated fragment that garbles the next line.
FailedWriteEffect ==
    /\ srvPartial' \in IF srvOpen THEN {srvPartial, TRUE} ELSE {srvPartial}
    /\ UNCHANGED toSrv

\* The outcomes of Reader.ReadLine while waiting for `expected`: the
\* next line equals it (success), a different line, EOF after the peer
\* closed, or a read deadline while the server has not answered.
ReadMatches(expected) == toCli # <<>> /\ Head(toCli) = expected
ReadFails(expected) ==
    \/ toCli # <<>> /\ Head(toCli) # expected /\ UNCHANGED faults
    \/ toCli = <<>> /\ ~srvOpen /\ UNCHANGED faults
    \/ toCli = <<>> /\ srvOpen /\ faults < MaxFaults /\ faults' = faults + 1

\* Any outcome of ReadLine but `expected`: the method disconnects.
ReplyRejected(expected) == ReadFails(expected) /\ DisconnectVars

Authorized == ~HasPassword \/ srvAuth

-----------------------------------------------------------------------------
(* The client: one action per method, split at its blocking ReadLine.      *)
(* A method whose outcomes differ in what they change is the disjunction  *)
(* of one named operator per outcome.                                      *)

\* NewConnection (lines 63-74) stores only configuration: no socket, and
\* DatabaseId is Go's zero value.
Init ==
    /\ conn = FALSE
    /\ DatabaseId = 0
    /\ pc = "idle"
    /\ selecting = 0
    /\ srvOpen = FALSE
    /\ srvAuth = FALSE
    /\ srvDb = 0
    /\ srvPartial = FALSE
    /\ toSrv = <<>>
    /\ toCli = <<>>
    /\ faults = 0

\* Disconnect called by the owner.  On a disconnected connection it
\* changes nothing, so it is only taken when there is a socket.
Disconnect ==
    /\ pc = "idle"
    /\ conn
    /\ DisconnectVars
    /\ UNCHANGED <<pc, selecting, faults>>

\* IsConnected (lines 220-246) reads bytes that are already there: the
\* 4-byte raw read consumes part or all of the first pending line and
\* reports "connected" whatever it read, so ReconnectIfNecessary returns
\* nil (lines 89-91).  With nothing pending and the peer open the read
\* times out, it also reports "connected", and nothing changes (a stutter).
ProbeConsumes ==
    /\ pc = "idle"
    /\ conn
    /\ toCli # <<>>
    /\ toCli' \in {toCli, Tail(toCli)}
    /\ UNCHANGED <<conn, DatabaseId, pc, selecting, srvOpen, srvAuth, srvDb,
                   srvPartial, toSrv, faults>>

\* IsConnected reports false: no socket, or EOF from a closed peer.
ProbeFails == ~conn \/ (toCli = <<>> /\ ~srvOpen)

\* ReconnectIfNecessary (lines 93-101): Disconnect, then the dial fails
\* and the connection stays nil.
DialFails ==
    /\ pc = "idle"
    /\ ProbeFails
    /\ faults < MaxFaults
    /\ DisconnectVars
    /\ faults' = faults + 1
    /\ UNCHANGED <<pc, selecting>>

\* authenticate (lines 146-166) up to its flush, on the socket just
\* dialled: `open` says whether the server kept the session, `f` counts
\* the faults so far.  With no password it returns nil (lines 152-154).
AuthNotNeeded(f) ==
    /\ ~HasPassword
    /\ pc' = "idle" /\ toSrv' = <<>> /\ srvPartial' = FALSE /\ faults' = f

\* The AUTH line is flushed (lines 156-162).
AuthSent(open, f) ==
    /\ HasPassword
    /\ pc' = "auth"
    /\ toSrv' = IF open THEN <<AuthReq>> ELSE <<>>
    /\ srvPartial' = FALSE /\ faults' = f

\* The flush fails and authenticate returns the error WITHOUT Disconnect
\* (lines 162-166): the socket stays, possibly with a fragment at the server.
AuthWriteFailed(open, f) ==
    /\ HasPassword
    /\ ~open \/ f < MaxFaults
    /\ pc' = "idle" /\ toSrv' = <<>>
    /\ srvPartial' \in IF open THEN BOOLEAN ELSE {FALSE}
    /\ faults' = IF open THEN f + 1 ELSE f

Authenticate(open, f) ==
    AuthNotNeeded(f) \/ AuthSent(open, f) \/ AuthWriteFailed(open, f)

\* ReconnectIfNecessary (lines 93-112): Disconnect, dial, reset
\* DatabaseId, wrap the socket and authenticate.  The server keeps the
\* fresh session (unauthenticated, database 0), or has `rejected` it:
\* written an error line and closed (a fault).
Dialled(rejected) ==
    /\ pc = "idle"
    /\ ProbeFails
    /\ rejected => faults < MaxFaults
    /\ conn' = TRUE
    /\ DatabaseId' = 0
    /\ srvOpen' = ~rejected
    /\ srvAuth' = FALSE
    /\ srvDb' = 0
    /\ toCli' = IF rejected THEN <<"UNSOL">> ELSE <<>>
    /\ Authenticate(~rejected, IF rejected THEN faults + 1 ELSE faults)
    /\ UNCHANGED selecting

ReconnectIfNecessary ==
    ProbeConsumes \/ DialFails \/ \E rejected \in BOOLEAN : Dialled(rejected)

\* A reply action whose line is the `expected` one: it is consumed.
ReplyAccepted(expected) == ReadMatches(expected) /\ toCli' = Tail(toCli)

\* The rest of authenticate (lines 168-180): the reply must be +OK, else
\* Disconnect and return an error.
AuthReply ==
    /\ pc = "auth"
    /\ pc' = "idle"
    /\ \/ /\ ReplyAccepted("OK")
          /\ UNCHANGED <<conn, DatabaseId, srvOpen, srvAuth, srvDb,
                         srvPartial, toSrv, faults>>
       \/ ReplyRejected("OK")
    /\ UNCHANGED selecting

\* A mutant of SelectSent (a plausible bug in line 140): the id kept for
\* the acknowledgement is one past the id sent.
SelectSentOffByOne(id) ==
    /\ pc = "idle"
    /\ conn
    /\ Send(SelectReq(id))
    /\ pc' = "select"
    /\ selecting' = id + 1
    /\ UNCHANGED <<conn, DatabaseId, srvOpen, srvAuth, srvDb, srvPartial,
                   toCli, faults>>

\* SelectDatabase (lines 118-124): flush "select <id>" and wait.
\* Without a socket it returns an error and changes nothing (119-122).
SelectSent(id) ==
    /\ pc = "idle"
    /\ conn
    /\ Send(SelectReq(id))
    /\ pc' = "select"
    /\ selecting' = id
    /\ UNCHANGED <<conn, DatabaseId, srvOpen, srvAuth, srvDb, srvPartial,
                   toCli, faults>>

\* The flush fails: SelectDatabase returns the error without Disconnect
\* (lines 124-128).
SelectWriteFailed ==
    /\ pc = "idle"
    /\ conn
    /\ CanFailWrite
    /\ FailedWriteEffect
    /\ FailedWriteFaults
    /\ UNCHANGED <<conn, DatabaseId, pc, selecting, srvOpen, srvAuth, srvDb,
                   toCli>>

SelectDatabase(id) == SelectSent(id) \/ SelectWriteFailed

\* Mutants of SelectReply (plausible bugs in lines 130-142).
\* The reply's content not compared with +OK: any line counts as success.
SelectReplyAnyLine ==
    /\ pc = "select"
    /\ pc' = "idle"
    /\ \/ /\ toCli # <<>>
          /\ toCli' = Tail(toCli)
          /\ DatabaseId' = selecting
          /\ UNCHANGED <<conn, srvOpen, srvAuth, srvDb, srvPartial, toSrv,
                         faults>>
       \/ toCli = <<>> /\ ReplyRejected("OK")
    /\ UNCHANGED selecting

\* A read deadline returned as an error without Disconnect.
SelectReplyTimeoutKeeps ==
    /\ pc = "select"
    /\ pc' = "idle"
    /\ \/ /\ ReplyAccepted("OK")
          /\ DatabaseId' = selecting
          /\ UNCHANGED <<conn, srvOpen, srvAuth, srvDb, srvPartial, toSrv,
                         faults>>
       \/ /\ toCli = <<>> /\ srvOpen /\ faults < MaxFaults
          /\ faults' = faults + 1
          /\ UNCHANGED <<conn, DatabaseId, srvOpen, srvAuth, srvDb,
                         srvPartial, toSrv, toCli>>
       \/ ReplyRejected("OK")
    /\ UNCHANGED selecting

\* The rest of SelectDatabase (lines 130-142): on +OK record the id;
\* otherwise Disconnect (which resets DatabaseId) and return an error.
SelectReply ==
    /\ pc = "select"
    /\ pc' = "idle"
    /\ \/ /\ ReplyAccepted("OK")
          /\ DatabaseId' = selecting
          /\ UNCHANGED <<conn, srvOpen, srvAuth, srvDb, srvPartial, toSrv,
                         faults>>
       \/ ReplyRejected("OK")
    /\ UNCHANGED selecting

\* CheckConnection (lines 184-195): flush "PING" and wait.  Without a
\* socket it returns false and changes nothing (185-187).
PingSent ==
    /\ pc = "idle"
    /\ conn
    /\ Send(PingReq)
    /\ pc' = "ping"
    /\ UNCHANGED <<conn, DatabaseId, selecting, srvOpen, srvAuth, srvDb,
                   srvPartial, toCli, faults>>

\* The flush fails: Disconnect and return false (lines 195-200).
PingWriteFailed ==
    /\ pc = "idle"
    /\ conn
    /\ CanFailWrite
    /\ DisconnectVars
    /\ FailedWriteFaults
    /\ UNCHANGED <<pc, selecting>>

CheckConnection == PingSent \/ PingWriteFailed

\* A mutant of PingReply (a plausible bug in lines 202-218): a failed
\* check returns false without Disconnect.
PingReplyNoDisconnect ==
    /\ pc = "ping"
    /\ pc' = "idle"
    /\ \/ ReplyAccepted("PONG")
       \/ toCli # <<>> /\ Head(toCli) # "PONG" /\ toCli' = Tail(toCli)
       \/ toCli = <<>> /\ (~srvOpen \/ faults < MaxFaults) /\ UNCHANGED toCli
    /\ UNCHANGED <<conn, DatabaseId, srvOpen, srvAuth, srvDb, srvPartial,
                   toSrv, faults, selecting>>

\* The rest of CheckConnection (lines 202-218): true on +PONG, else
\* Disconnect and false.
PingReply ==
    /\ pc = "ping"
    /\ pc' = "idle"
    /\ \/ /\ ReplyAccepted("PONG")
          /\ UNCHANGED <<conn, DatabaseId, srvOpen, srvAuth, srvDb,
                         srvPartial, toSrv, faults>>
       \/ ReplyRejected("PONG")
    /\ UNCHANGED selecting

-----------------------------------------------------------------------------
(* The Redis server session (the environment, not code of this file).      *)

\* Answer the oldest request: an error if a fragment garbled it, AUTH is
\* accepted, select needs authorisation and a valid id, PING needs
\* authorisation.
ServerAnswers ==
    /\ srvOpen
    /\ toSrv # <<>>
    /\ toSrv' = Tail(toSrv)
    /\ srvPartial' = FALSE
    /\ LET r == Head(toSrv)
           ok == ~srvPartial /\ (r.op = "auth" \/ Authorized)
                 /\ (r.op = "select" => r.db \in ValidDbs)
       IN /\ toCli' = Append(toCli, IF ~ok THEN "ERR"
                                    ELSE IF r.op = "ping" THEN "PONG"
                                    ELSE "OK")
          /\ srvAuth' = (srvAuth \/ (ok /\ r.op = "auth"))
          /\ srvDb' = IF ok /\ r.op = "select" THEN r.db ELSE srvDb
    /\ UNCHANGED <<conn, DatabaseId, pc, selecting, srvOpen, faults>>

\* The server refuses the oldest request without executing it (LOADING,
\* BUSY, OOM ...).
ServerRefuses ==
    /\ srvOpen
    /\ toSrv # <<>>
    /\ faults < MaxFaults
    /\ faults' = faults + 1
    /\ toSrv' = Tail(toSrv)
    /\ srvPartial' = FALSE
    /\ toCli' = Append(toCli, "ERR")
    /\ UNCHANGED <<conn, DatabaseId, pc, selecting, srvOpen, srvAuth, srvDb>>

\* The server closes the session (idle timeout, restart, CLIENT KILL):
\* unprocessed requests are lost, replies already sent stay readable.
ServerCloses ==
    /\ srvOpen
    /\ faults < MaxFaults
    /\ faults' = faults + 1
    /\ srvOpen' = FALSE
    /\ toSrv' = <<>>
    /\ UNCHANGED <<conn, DatabaseId, pc, selecting, srvAuth, srvDb,
                   srvPartial, toCli>>

-----------------------------------------------------------------------------
Client ==
    \/ Disconnect
    \/ ReconnectIfNecessary
    \/ AuthReply
    \/ \E id \in Dbs : SelectDatabase(id)
    \/ SelectReply
    \/ CheckConnection
    \/ PingReply

Server == ServerAnswers \/ ServerRefuses \/ ServerCloses

Next == Client \/ Server

Spec == Init /\ [][Next]_vars

\* The owner calls ReconnectIfNecessary before using the connection and
\* CheckConnection periodically, a blocked ReadLine returns, and the
\* server answers what it has received.
Fairness ==
    /\ SF_vars(ReconnectIfNecessary)
    /\ SF_vars(CheckConnection)
    /\ WF_vars(AuthReply) /\ WF_vars(SelectReply) /\ WF_vars(PingReply)
    /\ WF_vars(ServerAnswers)

LiveSpec == Spec /\ Fairness

-----------------------------------------------------------------------------
(* Properties.                                                             *)

\* The type invariant, as the flags and the data it constrains.
TypeFlags ==
    /\ conn \in BOOLEAN
    /\ srvOpen \in BOOLEAN
    /\ srvAuth \in BOOLEAN
    /\ srvPartial \in BOOLEAN
TypeData ==
    /\ DatabaseId \in Dbs
    /\ pc \in PCs
    /\ selecting \in Dbs
    /\ srvDb \in ValidDbs
    /\ toSrv \in Seq(Requests)
    /\ toCli \in Seq(Replies)
    /\ faults \in 0..MaxFaults
TypeOK == TypeFlags /\ TypeData

\* The DatabaseId the connection records is the database its server
\* session really has selected, whenever no select is in flight: across
\* failed writes, refused or garbled requests, timeouts, closes and
\* reconnects (DatabaseId is read by the pool to decide whether to send
\* select before forwarding a client's command).
DbConsistent == conn /\ pc # "select" => DatabaseId = srvDb

\* When no method is running, no request is pending at the server and no
\* answer to an earlier request is waiting to be read: every reply the
\* next ReadLine sees answers the request it follows, never a late reply
\* to one that timed out or failed.
NoLateReply ==
    pc = "idle" =>
        /\ toSrv = <<>>
        /\ \A i \in 1..Len(toCli) : toCli[i] = "UNSOL"

\* At most one request or one reply line is in flight at any time.
OneInFlight == Len(toSrv) + Len(toCli) <= 1

\* Every request in flight is a select of the id being selected while a
\* select is pending, and no request is a select otherwise.
RequestsMatchPc ==
    \A i \in 1..Len(toSrv) :
        IF pc = "select" THEN toSrv[i] = SelectReq(selecting)
                         ELSE toSrv[i].op # "select"

\* The exchange with the server stays in lockstep (RESP has no request
\* ids, so the client can only pair a reply with a request by position):
\* the methods never pipeline, and every path that gives up on a request
\* (a write or read deadline, a wrong line, a refusal) disconnects before
\* the next method sends, so at most one line is in flight, and a select
\* in flight is always the one SelectDatabase is waiting for, never one
\* that an abandoned call left for the server to execute later.
Lockstep == OneInFlight /\ RequestsMatchPc

\* Once failures stop, the owner keeps getting back a usable session:
\* open, authenticated when a password is set, with no garbling fragment.
Usable == conn /\ pc = "idle" /\ srvOpen /\ Authorized /\ ~srvPartial
Recovery == []<>Usable

\* The database of the session as the pool may rely on it: the one the
\* session has selected, except while a select is in flight (the switch
\* counts once its +OK is read) or without a session (nothing is relied on).
SessionView == IF conn /\ pc # "select" THEN srvDb ELSE DatabaseId

DbView == INSTANCE ConnectionAbstract
              WITH connected <- conn, recordedDb <- DatabaseId,
                   sessionDb <- SessionView

\* The connection implements ConnectionAbstract: seen through SessionView,
\* each step of the methods and of the server is an atomic Connect, Drop or
\* Select of an id the server accepts, or changes nothing the pool sees.
\* Splitting select into a flush and a ReadLine is therefore invisible to
\* the pool: a switch that happens before its +OK is read is never relied
\* on, and an abandoned select leaves nothing behind.
DbTracked == DbView!Spec

\* A failed AUTH flush leaves an unauthenticated session in place (line
\* 165), but no method ever reports success on it: every SelectDatabase
\* that records its id (lines 130-142) and every CheckConnection that
\* returns true (202-218) ran on a session that has accepted AUTH, or
\* needs none.  Otherwise the pool would route commands to a session that
\* refuses them.
SuccessOnlyAuthorized ==
    [][(pc \in {"select", "ping"} /\ pc' = "idle" /\ conn') => Authorized]_vars

\* The spec (sections 4.4 and 7): a failed AUTH, whatever the error,
\* disconnects, so an idle connection with an open session is never left
\* unauthenticated.
AuthenticatedWhenIdle == conn /\ pc = "idle" /\ srvOpen => Authorized

\* The spec (sections 3, 4.4 and 8): SelectDatabase that fails leaves the
\* recorded DatabaseId at its prior value.
SelectFailed == pc = "select" /\ pc' = "idle" /\ ~conn'
SelectFailureKeepsDb == [][SelectFailed => DatabaseId' = DatabaseId]_vars

=============================================================================
