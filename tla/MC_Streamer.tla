----------------------------- MODULE MC_Streamer -----------------------------
(***************************************************************************)
(* Replies for the streamer runs, as byte sequences, and the mode and     *)
(* fault sets the runs combine.                                            *)
(***************************************************************************)
EXTENDS Streamer

MC_W == 8

\* +OK\r\n and :5\r\n (single-line replies)
R_OK == <<43, 79, 75, CR, LF>>
R_INT == <<COLON, 53, CR, LF>>
\* $-1\r\n (null bulk)
R_NIL == ERR_RESPONSE \o CRLF
\* $2\r\n\r\n\r\n: a bulk whose payload is itself CRLF
R_BULK == <<DOLLAR, 50, CR, LF, CR, LF, CR, LF>>
\* *2\r\n$1\r\nx\r\n$-1\r\n, *0\r\n and *-1\r\n
R_MULTI == <<STAR, 50, CR, LF, DOLLAR, 49, CR, LF, 120, CR, LF>> \o R_NIL
R_EMPTY == <<STAR, 48, CR, LF>>
R_NILMULTI == <<STAR, MINUS, 49, CR, LF>>
\* *2\r\n:5\r\n$1\r\nx\r\n: an integer and a bulk element (spec section 8)
R_MIXED == <<STAR, 50, CR, LF>> \o R_INT \o <<DOLLAR, 49, CR, LF, 120, CR, LF>>
\* -ERR xyz\r\n: an error line longer than the run's reader buffer
R_LONG == <<MINUS, 69, 82, 82, 32, 120, 121, 122, CR, LF>>

MC_Plain == {R_OK, R_INT, R_NIL, R_BULK, R_MULTI, R_EMPTY, R_NILMULTI}
MC_Multi == {R_MULTI, R_EMPTY}
MC_Mixed == {R_MIXED, R_MULTI, R_OK}
\* a short status line, an error line longer than the reader buffer and
\* an array mixing integer and bulk elements
MC_Partial == {R_OK, R_LONG, R_MIXED}

MC_BothModes == {"copy", "ignore"}
MC_CopyMode == {"copy"}
MC_IgnoreMode == {"ignore"}

MC_Timeouts == {"timeout"}
MC_CloseFlush == {"close", "flush"}
MC_None == {}
MC_AllFaults == {"timeout", "close", "flush"}
=============================================================================
