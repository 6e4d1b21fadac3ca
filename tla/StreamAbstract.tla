--------------------------- MODULE StreamAbstract ---------------------------
(***************************************************************************)
(* What the message streamer promises its caller (spec section 4.2): each *)
(* call relays the server's next reply to the client byte for byte        *)
(* (CopyServerResponse), or skips it (the Ignore functions), and leaves   *)
(* the server stream at the start of the following reply.  A call may    *)
(* fail only because the transport failed; the client has then received  *)
(* at most a strict prefix of that reply, and the caller abandons the     *)
(* stream.                                                                 *)
(***************************************************************************)
EXTENDS Naturals, Sequences

CONSTANT Resps  \* the replies a server may send, as byte sequences

VARIABLES
    pending,    \* replies the server has sent that no call has handled yet
    delivered,  \* bytes the client has received
    stopped,    \* a call failed: the caller has given the stream up
    faulted,    \* the transport has failed (timeout, close, write error)
    copying     \* the current call copies the reply (else it skips it)

avars == <<pending, delivered, stopped, faulted, copying>>

Init ==
    /\ pending \in Seq(Resps)
    /\ delivered = <<>>
    /\ stopped = FALSE
    /\ faulted = FALSE
    /\ copying \in BOOLEAN

\* A fault the call gets over may happen during it.
MayFault == faulted' \in {faulted, TRUE}

\* The caller starts a call that copies or skips the next reply.
Choose ==
    /\ ~stopped
    /\ copying' \in BOOLEAN
    /\ MayFault
    /\ UNCHANGED <<pending, delivered, stopped>>

\* A copy call: the next reply reaches the client whole.
Forward ==
    /\ ~stopped
    /\ pending # <<>>
    /\ copying'
    /\ delivered' = delivered \o Head(pending)
    /\ pending' = Tail(pending)
    /\ MayFault
    /\ UNCHANGED stopped

\* A skip call: the next reply is consumed and nothing reaches the client.
Drop ==
    /\ ~stopped
    /\ pending # <<>>
    /\ ~copying'
    /\ pending' = Tail(pending)
    /\ MayFault
    /\ UNCHANGED <<delivered, stopped>>

\* The transport fails.
Fault ==
    /\ faulted' = TRUE
    /\ UNCHANGED <<pending, delivered, stopped, copying>>

\* A call fails on a transport failure, having delivered a strict prefix
\* of the reply it was handling.
Fail ==
    /\ ~stopped
    /\ pending # <<>>
    /\ faulted' = TRUE
    /\ stopped' = TRUE
    /\ copying' \in BOOLEAN
    /\ \E k \in 0..(Len(Head(pending)) - 1) :
           delivered' = delivered \o SubSeq(Head(pending), 1, k)
    /\ UNCHANGED pending

Next == Choose \/ Forward \/ Drop \/ Fault \/ Fail

Spec == Init /\ [][Next]_avars

=============================================================================
