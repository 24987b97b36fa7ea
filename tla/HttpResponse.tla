------------------------------- MODULE HttpResponse -------------------------------
(***********************************************************************************)
(* What http_parser_execute (src/http_parser.c, HTTP_RESPONSE, strict) makes of    *)
(* the bytes of a connection, as far as the load generator can tell: a piece of    *)
(* input either is consumed silently, or ends a message (on_message_complete), or  *)
(* is an error (fewer bytes parsed than given).                                    *)
(***********************************************************************************)

\* "start": between messages; "body": inside a message whose end will show;
\* "eof_body": inside a body that lasts until the peer closes; "dead": after a
\* message that ends the connection, or after an error.
Phases == {"start", "body", "eof_body", "dead"}

\* A piece of input: some bytes of a message ("part"); bytes that end a message of
\* a connection to be kept, with a status up to 399 ("ok") or above ("fail"), or of
\* one to be closed ("close"); the head of a message delimited by the end of the
\* stream ("until_eof"); bytes no response has ("junk").
Endings == {"ok", "fail", "close"}
Pieces  == Endings \cup {"part", "until_eof", "junk"}

\* http_should_keep_alive: the message neither said "close" nor is delimited by EOF.
KeepAliveAlways(phase) == TRUE   \* mutant
KeepAlive(phase) == phase = "start"

\* The phase after a piece.  NEW_MESSAGE() goes to the start state or, after a
\* message that ends the connection, to s_dead; any byte there is an error.
Feed(phase, piece) ==
    CASE phase = "eof_body"                                     -> "eof_body"
      [] phase = "dead" \/ (phase # "eof_body" /\ piece = "junk") -> "dead"
      [] phase \in {"start", "body"} /\ piece \in {"ok", "fail"}  -> "start"
      [] phase \in {"start", "body"} /\ piece = "close"           -> "dead"
      [] phase \in {"start", "body"} /\ piece = "part"            -> "body"
      [] phase \in {"start", "body"} /\ piece = "until_eof"       -> "eof_body"

EndsMessage(phase, piece) == phase \in {"start", "body"} /\ piece \in Endings

ParseError(phase, piece) ==
    phase = "dead" \/ (phase # "eof_body" /\ piece = "junk")

\* A read of zero bytes (len == 0).
EofEndsMessage(phase) == phase = "eof_body"
EofError(phase)       == phase = "body"
===================================================================================
