------------------------------ MODULE Scanner ------------------------------
(***************************************************************************)
(* The command scanner of src/connection/connection.go (package protocol,  *)
(* ParseInt lines 368-387 and GetCommand lines 389-476): pure functions    *)
(* over the bytes already buffered from a client.                          *)
(*                                                                         *)
(* A byte is its ASCII code, a buffer a sequence of bytes.  Go's int has   *)
(* width W: every sum and product the code computes in int is reduced to   *)
(* a signed W-bit value (GoInt).  Go slices are 0-based and half-open: a   *)
(* slice s[lo:hi] with lo > hi or hi beyond the buffer is a run-time panic *)
(* and is modelled as the outcome "panic".                                 *)
(*                                                                         *)
(* The one state variable is the buffer handed to the scanner; the runs    *)
(* range it over sets of buffers and check what the functions return.      *)
(***************************************************************************)
EXTENDS Integers, Sequences, SequencesExt

CONSTANTS
    W,         \* bit width of Go's int
    Payloads,  \* command names and arguments used to build requests
    Inputs     \* the buffers the scanner is run on

ASSUME ScannerAssumption ==
    /\ W \in Nat \ {0}
    /\ Payloads \subseteq Seq(0..255)
    /\ Inputs \subseteq Seq(0..255)

VARIABLE input

\* Bytes the scanner compares against.
CR == 13
LF == 10
DOLLAR == 36
STAR == 42
ZERO == 48

\* A value of Go's int: the signed W-bit value congruent to x.
GoInt(x) == ((x + 2^(W-1)) % 2^W) - 2^(W-1)

\* The byte b - '0' of ParseInt (line 376): uint8 arithmetic wraps.
DigitOf(b) == (b - ZERO) % 256

\* bytes.IndexByte: the 0-based index of the first c in s, or -1.
IndexByte(s, c) == SelectInSeq(s, LAMBDA x : x = c) - 1

\* Whether s[lo:hi] is in range, and the slice itself.
InRange(s, lo, hi) == 0 <= lo /\ lo <= hi /\ hi <= Len(s)
Slice(s, lo, hi) == [i \in 1..(hi - lo) |-> s[lo + i]]

\* A mutant of ParseIntStep (a plausible bug in line 376): the byte is
\* reduced in int instead of uint8, so bytes below '0' pass the check.
ParseIntStepSigned(acc, b) ==
    IF acc.err \/ b - ZERO > 9 THEN [acc EXCEPT !.err = TRUE]
    ELSE [val |-> GoInt(GoInt(acc.val * 10) + (b - ZERO)), err |-> FALSE]

\* One iteration of ParseInt's loop (lines 374-385): an invalid byte
\* stops it with the value accumulated so far; otherwise
\* length *= 10 and length += digit, each in int.
ParseIntStep(acc, b) ==
    IF acc.err \/ DigitOf(b) > 9 THEN [acc EXCEPT !.err = TRUE]
    ELSE [val |-> GoInt(GoInt(acc.val * 10) + DigitOf(b)), err |-> FALSE]

\* ParseInt (lines 371-387).
ParseInt(s) == FoldLeft(ParseIntStep, [val |-> 0, err |-> FALSE], s)

\* A mutant of Lower (a plausible bug in lines 431-437): the command is
\* not lowercased.
LowerNone(s) == s

\* The lowercasing loop of GetCommand (lines 431-437): every byte <= 'Z',
\* letter or not, has 32 added.
Lower(s) == [i \in DOMAIN s |-> IF s[i] <= 90 THEN (s[i] + 32) % 256 ELSE s[i]]

\* A mutant of HasRoom (a plausible off-by-one in lines 419 and 464): the
\* terminating CRLF is counted as one byte.
HasRoomOffByOne(s, start, n) == GoInt(start + n + 1) <= Len(s)

\* The length checks of GetCommand (lines 419 and 464): the buffer holds
\* the n bytes of the element starting at start and two more.
HasRoom(s, start, n) == GoInt(start + n + 2) <= Len(s)

\* The outcomes of GetCommand: the command and first argument it
\* returns (named results keep what was set before an error), the error
\* ("none", "format" for ERROR_MULTIBULK_FORMAT_REQUIRED, "int" for
\* ERROR_INVALID_INT, or "panic"), and the caller's buffer afterwards:
\* the command is lowercased in place, inside the bufio buffer.
Result(cmd, arg, err, buf) == [cmd |-> cmd, arg |-> arg, err |-> err, buf |-> buf]

\* The argument half of GetCommand (lines 439-475), on the buffer s with
\* the command lowercased, given the command and the index m after it.
GetArgument(s, cmd, m) ==
    LET rest == Slice(s, m, Len(s))
        j == IndexByte(rest, CR)
        nl == GoInt(j + m)
        p == ParseInt(Slice(s, m + 1, nl))
        start == GoInt(nl + 2)
        stop == GoInt(start + p.val)
    IN  IF ~InRange(s, m, Len(s)) THEN Result(cmd, <<>>, "panic", s)
        ELSE IF j = -1 THEN Result(cmd, <<>>, "format", s)
        ELSE IF ~InRange(s, m + 1, nl) THEN Result(cmd, <<>>, "panic", s)
        ELSE IF p.err THEN Result(cmd, <<>>, "int", s)
        ELSE IF ~HasRoom(s, start, p.val) THEN Result(cmd, <<>>, "format", s)
        ELSE IF ~InRange(s, start, stop) THEN Result(cmd, <<>>, "panic", s)
        ELSE Result(cmd, Slice(s, start, stop), "none", s)

\* GetCommand (lines 391-476) on the buffered bytes s: the first line
\* gives the command's length, then the command, then, unless the buffer
\* ends there, the argument.
GetCommand(s) ==
    LET i == IndexByte(s, CR)
        p == ParseInt(Slice(s, 1, i))
        start == GoInt(i + 2)
        stop == GoInt(start + p.val)
        cmd == Lower(Slice(s, start, stop))
        lowered == [k \in DOMAIN s |->
                       IF start < k /\ k <= stop THEN cmd[k - start] ELSE s[k]]
        m == GoInt(stop + 2)
    IN  IF i = -1 THEN Result(<<>>, <<>>, "format", s)
        ELSE IF ~InRange(s, 1, i) THEN Result(<<>>, <<>>, "panic", s)
        ELSE IF p.err THEN Result(<<>>, <<>>, "int", s)
        ELSE IF ~HasRoom(s, start, p.val) THEN Result(<<>>, <<>>, "format", s)
        ELSE IF ~InRange(s, start, stop) THEN Result(<<>>, <<>>, "panic", s)
        ELSE IF m = Len(s) THEN Result(cmd, <<>>, "none", lowered)
        ELSE GetArgument(lowered, cmd, m)

Init == input \in Inputs

\* The scanner is a pure function: the runs only vary its input.
Next == UNCHANGED input

Spec == Init /\ [][Next]_input

-----------------------------------------------------------------------------
(* Reference definitions, written from the protocol (spec sections 3 and  *)
(* 4.1) rather than from the loops above.                                  *)

\* The decimal digits of n >= 0, most significant first.
DecimalDigits[n \in Nat] ==
    IF n < 10 THEN <<ZERO + n>>
    ELSE Append(DecimalDigits[n \div 10], ZERO + (n % 10))

\* A bulk element $<len>\r\n<payload>\r\n and a multibulk header *<n>\r\n.
Bulk(p) == <<DOLLAR>> \o DecimalDigits[Len(p)] \o <<CR, LF>> \o p \o <<CR, LF>>
Header(n) == <<STAR>> \o DecimalDigits[n] \o <<CR, LF>>

\* The value of a string of decimal digits.
DecimalValue(s) ==
    FoldLeft(LAMBDA acc, b : 10 * acc + (b - ZERO), 0, s)

\* ASCII lowercasing of letters.
LowerLetters(s) == [i \in DOMAIN s |-> IF 65 <= s[i] /\ s[i] <= 90 THEN s[i] + 32 ELSE s[i]]

-----------------------------------------------------------------------------
(* Properties.                                                             *)

\* ParseInt (spec 4.1 and 8): a string of digits, the empty one included,
\* parses to its decimal value as Go's int holds it (modulo 2^W); a
\* string with any other byte is an invalid-integer error.
ParseIntAgrees ==
    IF \A k \in DOMAIN input : ZERO <= input[k] /\ input[k] <= ZERO + 9
    THEN ParseInt(input) = [val |-> GoInt(DecimalValue(input)), err |-> FALSE]
    ELSE ParseInt(input).err

\* GetCommand on buffered bulk elements (a request once its *<n> line has
\* been consumed): one complete element gives its command lowercased and
\* no argument, two give the command and the first argument.
ScansElements ==
    \A c, a \in Payloads :
        /\ input = Bulk(c) =>
              /\ GetCommand(input).err = "none"
              /\ GetCommand(input).cmd = LowerLetters(c)
              /\ GetCommand(input).arg = <<>>
        /\ input = Bulk(c) \o Bulk(a) =>
              /\ GetCommand(input).err = "none"
              /\ GetCommand(input).cmd = LowerLetters(c)
              /\ GetCommand(input).arg = a

\* The scanner never returns a partial result (spec 4.1 and 8): a buffer
\* that holds only part of an element, or of the second element, is
\* rejected with an error, never taken for a shorter request.
TruncatedRejected ==
    \A c, a \in Payloads :
        IsStrictPrefix(input, Bulk(c) \o Bulk(a)) /\ input # Bulk(c) =>
            GetCommand(input).err \in {"format", "int"}

\* The spec's example (section 8): on the buffered request
\* *2\r\n$3\r\nGET\r\n$3\r\nfoo\r\n GetCommand returns the command "get" and
\* the argument "foo".
ScansRequests ==
    \A c, a \in Payloads :
        input = Header(2) \o Bulk(c) \o Bulk(a) =>
            /\ GetCommand(input).err = "none"
            /\ GetCommand(input).cmd = LowerLetters(c)
            /\ GetCommand(input).arg = a

\* Errors are returned, never raised (spec section 7): GetCommand on any
\* buffered client bytes ends without a run-time panic.
NoPanic == GetCommand(input).err # "panic"

====
