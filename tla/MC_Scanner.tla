----------------------------- MODULE MC_Scanner -----------------------------
(***************************************************************************)
(* Inputs for the scanner runs.  Go's int is 64 bits wide; TLC's integers  *)
(* are 32, so the runs take W = 8, which makes the wrap-around of          *)
(* ParseInt reachable with three digits instead of nineteen: the modular   *)
(* arithmetic is the same.                                                 *)
(***************************************************************************)
EXTENDS Scanner

MC_W == 8

\* Command names and arguments: up to two letters, upper or lower case.
MC_Payloads == {<<>>, <<71>>, <<103>>, <<71, 71>>, <<71, 103>>, <<103, 71>>,
                <<103, 103>>}

\* One or two complete bulk elements.
MC_Elements ==
    {Bulk(c) : c \in MC_Payloads} \cup
    {Bulk(c) \o Bulk(a) : c, a \in MC_Payloads}

\* Every prefix of those (what a partial read leaves buffered), and every
\* string of up to three bytes from digits, a letter and CR (ParseInt).
MC_PassInputs ==
    UNION {Prefixes(b) : b \in MC_Elements} \cup
    UNION {[1..n -> {48, 49, 57, 71, 13}] : n \in 0..3}

\* The request of the spec's example: *2\r\n$3\r\nGET\r\n$3\r\nfoo\r\n.
MC_SpecPayloads == {<<71, 69, 84>>, <<102, 111, 111>>}
MC_Requests == {Header(2) \o Bulk(<<71, 69, 84>>) \o Bulk(<<102, 111, 111>>)}

\* Bytes an untrusted client may send: a stray CRLF before an element, an
\* empty line where the argument's header should be, and a declared
\* length past Go's int.
MC_Untrusted ==
    {<<CR, LF>> \o b : b \in MC_Elements} \cup
    {Bulk(c) \o <<CR, LF>> : c \in MC_Payloads} \cup
    {<<DOLLAR, 50, 48, 48, CR, LF>> \o c \o <<CR, LF>> : c \in MC_Payloads}

=============================================================================
