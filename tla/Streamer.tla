------------------------------ MODULE Streamer ------------------------------
(***************************************************************************)
(* The message streamers of src/connection/connection.go (lines 478-777): *)
(* CopyServerResponse with copyBulkMessage and CopyMultiBulkMessage, which *)
(* relay one server reply to a client's buffered writer, and              *)
(* ignoreBulkMessage and IgnoreMultiBulkMessage, which skip one.          *)
(*                                                                         *)
(* The server stream is the immutable sequence `stream` of the replies it *)
(* sends; `calls` counts the calls that have returned.  `src` holds the   *)
(* bytes not yet read (the socket and the bufio.Reader together), `wbuf`  *)
(* the bytes in the client's bufio.Writer, `out` the bytes the client has *)
(* received.  Each blocking read is a step: a bufio.ReadLine, or the      *)
(* io.CopyN/Read loop of a bulk body together with its CRLF.  A read with  *)
(* too few bytes blocks until the read deadline, or returns EOF once the  *)
(* server has closed; a deadline may also pass with the bytes delayed,    *)
(* and bufio then returns the bytes it already holds with a nil error.    *)
(***************************************************************************)
EXTENDS Integers, Sequences, SequencesExt

CONSTANTS
    W,          \* bit width of Go's int (ParseInt)
    BufSize,    \* size of the bufio.Reader buffer (4096 in the code)
    Resps,      \* replies the server may send, as byte sequences
    NResps,     \* number of replies in the stream
    Modes,      \* what the caller does with a reply: "copy", "ignore"
    Faults,     \* transport faults: "timeout", "close", "flush"
    MaxFaults   \* bound on faults

ASSUME StreamerAssumption ==
    /\ BufSize \in Nat \ {0}
    /\ NResps \in Nat
    /\ Modes \subseteq {"copy", "ignore"}
    /\ Faults \subseteq {"timeout", "close", "flush"}
    /\ MaxFaults \in Nat

VARIABLES
    stream,   \* the replies the server sends, in order
    src,      \* bytes sent by the server and not yet read
    closed,   \* the server has closed: a read past src returns EOF
    wbuf,     \* bytes buffered in the client's bufio.Writer
    werr,     \* the client writer holds a write error (bufio keeps it)
    out,      \* bytes the client has received
    pc,       \* "idle", "multi" (element loop), "body" (bulk body), "stop"
    mode,     \* whether the current call copies or ignores
    left,     \* elements still to handle in a multibulk reply
    need,     \* declared length of the bulk body being handled
    inMulti,  \* the bulk body is an element of a multibulk reply
    calls,    \* calls that returned without error
    faults,   \* closes and write faults injected so far
    timeouts  \* read deadlines that passed so far

vars == <<stream, src, closed, wbuf, werr, out, pc, mode, left, need,
          inMulti, calls, faults, timeouts>>

Sc == INSTANCE Scanner WITH Payloads <- {}, Inputs <- {}, input <- <<>>

CR == Sc!CR
LF == Sc!LF
DOLLAR == Sc!DOLLAR
STAR == Sc!STAR
MINUS == 45
COLON == 58
CRLF == <<CR, LF>>

\* ERR_RESPONSE (line 297): the null bulk "$-1".
ERR_RESPONSE == <<DOLLAR, MINUS, 49>>

\* bufio.Reader.ReadLine on the unread bytes s.  A line ending in LF
\* within the buffer is returned without its LF and a CR before it.  A
\* buffer full of a longer line returns its BufSize bytes as a prefix
\* (holding back a final CR); the code ignores isPrefix.  Otherwise the
\* read waits until the server closes (EOF) or the read deadline passes;
\* either way ReadSlice hands back the bytes it holds, and ReadLine
\* returns them as a line with a nil error, the error only when it holds
\* none.
ReadLine(s) ==
    LET k == SelectInSeq(s, LAMBDA b : b = LF)
        cut == IF s[BufSize] = CR THEN BufSize - 1 ELSE BufSize
        line(n, skip) == [err |-> "none", line |-> SubSeq(s, 1, n),
                          rest |-> SubSeq(s, n + skip + 1, Len(s))]
    IN  IF k # 0 /\ k <= BufSize
        THEN line(IF k > 1 /\ s[k - 1] = CR THEN k - 2 ELSE k - 1,
                  IF k > 1 /\ s[k - 1] = CR THEN 2 ELSE 1)
        ELSE IF Len(s) >= BufSize THEN line(cut, 0)
        ELSE IF s = <<>>
             THEN [err |-> IF closed THEN "eof" ELSE "timeout",
                   line |-> <<>>, rest |-> s]
        ELSE line(Len(s), 0)

\* The body of a bulk reply of length n and its CRLF are in s.
BodyOk(s, n) ==
    LET d == IF n < 0 THEN 0 ELSE n
    IN  Len(s) >= d + 2 /\ s[d + 1] = CR /\ s[d + 2] = LF

\* The faults injected so far, of every kind, against their bound.
Injected == faults + timeouts

\* A read deadline passes (the bytes are delayed past it).
TimedOut ==
    /\ "timeout" \in Faults /\ Injected < MaxFaults
    /\ timeouts' = timeouts + 1

-----------------------------------------------------------------------------
(* Outcomes of a call.                                                     *)

\* The call returns an error and the caller gives the stream up.
Stop == pc' = "stop" /\ UNCHANGED <<wbuf, werr, out, left, need, inMulti, calls>>
Abort == Stop /\ UNCHANGED faults

\* A read fails, on its deadline with nothing read, or otherwise.
TimeoutFails == TimedOut /\ Stop /\ UNCHANGED <<src, faults>>
ReadFailed == Abort /\ UNCHANGED <<src, timeouts>>

\* The bytes bufio.Writer.Flush hands to the client: all of buf, or, on a
\* write fault, a prefix of it; nothing once the writer holds an error.
Cuts(buf) ==
    IF werr THEN {0}
    ELSE IF "flush" \in Faults /\ Injected < MaxFaults THEN 0..Len(buf)
    ELSE {Len(buf)}

\* Flush the buffer buf: the writer keeps the rest and the error.
Flushed(buf, k) ==
    /\ out' = out \o SubSeq(buf, 1, k)
    /\ wbuf' = SubSeq(buf, k + 1, Len(buf))
    /\ werr' = (werr \/ k < Len(buf))
    /\ faults' = IF ~werr /\ k < Len(buf) THEN faults + 1 ELSE faults

\* The end of CopyServerResponse (lines 775-777): Flush, whose error is
\* ignored, and return nil.
Finish(buf) ==
    /\ \E k \in Cuts(buf) : Flushed(buf, k)
    /\ pc' = "idle"
    /\ calls' = calls + 1
    /\ UNCHANGED <<left, need, inMulti>>

\* An ignore call returns nil.
Skipped ==
    /\ pc' = "idle"
    /\ calls' = calls + 1
    /\ UNCHANGED <<wbuf, werr, out, left, need, inMulti, faults>>

\* An element of a multibulk reply is done; buf is the writer's buffer.
NextElement(buf) ==
    /\ wbuf' = buf
    /\ left' = left - 1
    /\ pc' = "multi"
    /\ UNCHANGED <<werr, out, need, inMulti, calls, faults>>

\* A bulk message is done: the next element, or the end of the call.
CopiedBulk(buf, multi) == IF multi THEN NextElement(buf) ELSE Finish(buf)
IgnoredBulk(multi) == IF multi THEN NextElement(wbuf) ELSE Skipped

\* The body of a bulk message of length n comes next.
ExpectBody(buf, n, multi) ==
    /\ wbuf' = buf
    /\ need' = n
    /\ inMulti' = multi
    /\ pc' = "body"
    /\ UNCHANGED <<werr, out, left, calls, faults>>

-----------------------------------------------------------------------------
(* The functions, on the line just read.                                   *)

\* A mutant of CopyBulkHeader (a plausible bug in lines 621-628): the null
\* bulk is recognised but not written to the client.
CopyBulkHeaderNilDropped(line, multi) ==
    LET p == Sc!ParseInt(Tail(line)) IN
    IF Len(line) < 2 \/ line[1] # DOLLAR THEN Abort
    ELSE IF line = ERR_RESPONSE THEN CopiedBulk(wbuf, multi)
    ELSE IF p.err \/ werr THEN Abort
    ELSE ExpectBody(wbuf \o line \o CRLF, p.val, multi)

\* copyBulkMessage up to its body (lines 615-646): check the header, pass
\* the null bulk on as a whole, else parse the length and write the
\* header line.  writeLine (494-509) fails once the writer holds an error.
CopyBulkHeader(line, multi) ==
    LET p == Sc!ParseInt(Tail(line)) IN
    IF Len(line) < 2 \/ line[1] # DOLLAR THEN Abort
    ELSE IF line = ERR_RESPONSE
         THEN IF werr THEN Abort
              ELSE CopiedBulk(wbuf \o ERR_RESPONSE \o CRLF, multi)
    ELSE IF p.err \/ werr THEN Abort
    ELSE ExpectBody(wbuf \o line \o CRLF, p.val, multi)

CopyMultiHeader(line) ==
    LET p == Sc!ParseInt(Tail(line)) IN
    IF Len(line) < 2 \/ line[1] # STAR \/ p.err \/ werr THEN Abort
    ELSE /\ wbuf' = wbuf \o line \o CRLF
         /\ left' = p.val
         /\ pc' = "multi"
         /\ UNCHANGED <<werr, out, need, inMulti, calls, faults>>

\* CopyServerResponse after its ReadLine (lines 749-773): dispatch on the
\* first byte; any other line is written through.
CopyDispatch(line) ==
    IF Len(line) < 2 THEN Abort
    ELSE IF line[1] = DOLLAR THEN CopyBulkHeader(line, FALSE)
    ELSE IF line[1] = STAR /\ line[2] # MINUS THEN CopyMultiHeader(line)
    ELSE IF werr THEN Abort
    ELSE Finish(wbuf \o line \o CRLF)

\* ignoreBulkMessage up to its read loop (lines 513-535).
IgnoreBulkHeader(line, multi) ==
    LET p == Sc!ParseInt(Tail(line)) IN
    IF Len(line) < 2 \/ line[1] # DOLLAR THEN Abort
    ELSE IF line = ERR_RESPONSE THEN IgnoredBulk(multi)
    ELSE IF p.err THEN Abort
    ELSE ExpectBody(wbuf, p.val, multi)

\* IgnoreMultiBulkMessage up to its loop (lines 576-592).
IgnoreMultiHeader(line) ==
    LET p == Sc!ParseInt(Tail(line)) IN
    IF Len(line) < 2 \/ line[1] # STAR \/ p.err THEN Abort
    ELSE /\ left' = p.val
         /\ pc' = "multi"
         /\ UNCHANGED <<wbuf, werr, out, need, inMulti, calls, faults>>

\* The caller that skips a reply reads its first line and dispatches as
\* CopyServerResponse does (the caller is not part of this file).
IgnoreDispatch(line) ==
    IF Len(line) >= 1 /\ line[1] = DOLLAR THEN IgnoreBulkHeader(line, FALSE)
    ELSE IF Len(line) >= 2 /\ line[1] = STAR /\ line[2] # MINUS
         THEN IgnoreMultiHeader(line)
    ELSE Skipped

\* A mutant of IgnoreElementLine (the bug of CopyMultiBulkMessage, line
\* 726, in the ignore loop): integer elements are not skipped.
IgnoreElementLineNoInt(line) ==
    IF line = <<>> THEN Abort ELSE IgnoreBulkHeader(line, TRUE)

\* One iteration of IgnoreMultiBulkMessage's loop (lines 594-608): an
\* integer element is skipped; firstLine[0] of an empty line panics.
IgnoreElementLine(line) ==
    IF line = <<>> THEN Abort
    ELSE IF line[1] = COLON THEN NextElement(wbuf)
    ELSE IgnoreBulkHeader(line, TRUE)

-----------------------------------------------------------------------------
(* Actions: one per blocking read, and the end of the element loop.       *)

\* The read deadline passes when only the first n bytes of the next line
\* have arrived (none of them LF, fewer than the buffer holds): ReadLine
\* returns them as a line with a nil error, and the rest arrives later.
CutByDeadline(n) ==
    /\ n \in 1..(BufSize - 1)
    /\ n < Len(src)
    /\ \A i \in 1..n : src[i] # LF

DeadlineRest(n) == SubSeq(src, n + 1, Len(src))

\* A ReadLine and what the function does with the line: the whole line,
\* a read error, a deadline with nothing read, or a deadline in mid-line.
ReadLineThen(Handle(_)) ==
    LET r == ReadLine(src) IN
    \/ r.err # "none" /\ ReadFailed
    \/ r.err = "none" /\ src' = r.rest /\ UNCHANGED timeouts /\ Handle(r.line)
    \/ TimeoutFails
    \/ /\ TimedOut
       /\ \E n \in 1..(BufSize - 1) :
             /\ CutByDeadline(n)
             /\ src' = DeadlineRest(n)
             /\ Handle(SubSeq(src, 1, n))

\* CopyServerResponse (lines 742-778) up to its body or element loop.
CopyServerResponse ==
    /\ pc = "idle" /\ calls < Len(stream) /\ "copy" \in Modes
    /\ mode' = "copy"
    /\ ReadLineThen(CopyDispatch)
    /\ UNCHANGED <<stream, closed>>

\* The caller skips a reply with the Ignore functions.
IgnoreServerResponse ==
    /\ pc = "idle" /\ calls < Len(stream) /\ "ignore" \in Modes
    /\ mode' = "ignore"
    /\ ReadLineThen(IgnoreDispatch)
    /\ UNCHANGED <<stream, closed>>

\* One iteration of CopyMultiBulkMessage's loop (lines 719-730): every
\* element goes to copyBulkMessage.
CopyElement ==
    /\ pc = "multi" /\ left > 0 /\ mode = "copy"
    /\ ReadLineThen(LAMBDA line : CopyBulkHeader(line, TRUE))
    /\ UNCHANGED <<stream, closed, mode>>

\* One iteration of IgnoreMultiBulkMessage's loop.
IgnoreElement ==
    /\ pc = "multi" /\ left > 0 /\ mode = "ignore"
    /\ ReadLineThen(IgnoreElementLine)
    /\ UNCHANGED <<stream, closed, mode>>

\* The body of copyBulkMessage (lines 648-694): io.CopyN of the length,
\* then CR and LF, then the CRLF is written.  A negative length (an
\* overflowed ParseInt) copies nothing: written != n returns nil.
CopyBody ==
    /\ pc = "body" /\ mode = "copy"
    /\ IF need < 0
       THEN CopiedBulk(wbuf, inMulti) /\ UNCHANGED <<src, timeouts>>
       ELSE \/ TimeoutFails
            \/ ~BodyOk(src, need) /\ ReadFailed
            \/ /\ BodyOk(src, need)
               /\ src' = SubSeq(src, need + 3, Len(src))
               /\ UNCHANGED timeouts
               /\ IF werr THEN Abort
                  ELSE CopiedBulk(wbuf \o SubSeq(src, 1, need) \o CRLF, inMulti)
    /\ UNCHANGED <<stream, closed, mode>>

\* A mutant of IgnoreBody (a plausible bug in lines 549-570): the CRLF
\* after the body is checked but not consumed.
IgnoreBodyKeepsCRLF ==
    /\ pc = "body" /\ mode = "ignore"
    /\ \/ TimeoutFails
       \/ ~BodyOk(src, need) /\ ReadFailed
       \/ /\ BodyOk(src, need)
          /\ src' = SubSeq(src, (IF need < 0 THEN 0 ELSE need) + 1, Len(src))
          /\ IgnoredBulk(inMulti)
          /\ UNCHANGED timeouts
    /\ UNCHANGED <<stream, closed, mode>>

\* The body of ignoreBulkMessage (lines 536-572): Read into REFUSE_HEAP
\* until the length is consumed, then CR and LF.
IgnoreBody ==
    /\ pc = "body" /\ mode = "ignore"
    /\ \/ TimeoutFails
       \/ ~BodyOk(src, need) /\ ReadFailed
       \/ /\ BodyOk(src, need)
          /\ src' = SubSeq(src, (IF need < 0 THEN 0 ELSE need) + 3, Len(src))
          /\ IgnoredBulk(inMulti)
          /\ UNCHANGED timeouts
    /\ UNCHANGED <<stream, closed, mode>>

\* A mutant of CopyMultiEnd (the Flush error ignored, as at line 775).
CopyMultiEndIgnoresFlush ==
    /\ pc = "multi" /\ left <= 0 /\ mode = "copy"
    /\ \E k \in Cuts(wbuf) : Flushed(wbuf, k)
    /\ pc' = "idle" /\ calls' = calls + 1
    /\ UNCHANGED <<stream, src, closed, mode, left, need, inMulti, timeouts>>

\* The end of CopyMultiBulkMessage (lines 732-738), whose Flush error is
\* returned, and of CopyServerResponse (its Flush has nothing left).
CopyMultiEnd ==
    /\ pc = "multi" /\ left <= 0 /\ mode = "copy"
    /\ \E k \in Cuts(wbuf) :
          /\ Flushed(wbuf, k)
          /\ IF werr' THEN pc' = "stop" /\ UNCHANGED calls
             ELSE pc' = "idle" /\ calls' = calls + 1
    /\ UNCHANGED <<stream, src, closed, mode, left, need, inMulti, timeouts>>

\* The end of IgnoreMultiBulkMessage's loop.
IgnoreMultiEnd ==
    /\ pc = "multi" /\ left <= 0 /\ mode = "ignore"
    /\ Skipped
    /\ UNCHANGED <<stream, src, closed, mode, timeouts>>

\* The server closes the connection: bytes it had not sent are lost.
ServerCloses ==
    /\ "close" \in Faults /\ ~closed /\ Injected < MaxFaults
    /\ closed' = TRUE
    /\ faults' = faults + 1
    /\ \E k \in 0..Len(src) : src' = SubSeq(src, 1, k)
    /\ UNCHANGED <<stream, wbuf, werr, out, pc, mode, left, need, inMulti,
                   calls, timeouts>>

Init ==
    /\ stream \in [1..NResps -> Resps]
    /\ src = FlattenSeq(stream)
    /\ closed = FALSE
    /\ wbuf = <<>>
    /\ werr = FALSE
    /\ out = <<>>
    /\ pc = "idle"
    /\ mode = "copy"
    /\ left = 0
    /\ need = 0
    /\ inMulti = FALSE
    /\ calls = 0
    /\ faults = 0
    /\ timeouts = 0

Next ==
    \/ CopyServerResponse \/ CopyElement \/ CopyBody \/ CopyMultiEnd
    \/ IgnoreServerResponse \/ IgnoreElement \/ IgnoreBody \/ IgnoreMultiEnd
    \/ ServerCloses

Spec == Init /\ [][Next]_vars

-----------------------------------------------------------------------------
(* Properties.                                                             *)

\* The replies no call has handled yet, as bytes.
Unhandled == FlattenSeq(SubSeq(stream, calls + 1, Len(stream)))

\* Framing (spec 4.2, "preserving framing exactly"): whenever a call has
\* returned nil, the server stream is positioned at the start of the next
\* reply, however the replies were cut into reads: the unread bytes are
\* exactly the replies not yet handled (a prefix of them once the server
\* has closed).
FramingKept ==
    pc = "idle" =>
        IF closed THEN IsPrefix(src, Unhandled) ELSE src = Unhandled

\* The streamer implements StreamAbstract: each call that returns nil
\* delivered exactly the next reply (CopyServerResponse) or nothing (the
\* Ignore functions), and a call fails only on a transport fault, the
\* client having received at most a strict prefix of the reply.
Abs == INSTANCE StreamAbstract
           WITH pending <- SubSeq(stream, calls + 1, Len(stream)),
                delivered <- out,
                stopped <- pc = "stop",
                faulted <- Injected > 0,
                copying <- mode = "copy"
StreamRefines == Abs!Spec

\* The payload bytes of s: s without its CR and LF bytes.
Payload(s) == SelectSeq(s, LAMBDA b : b # CR /\ b # LF)

=============================================================================
