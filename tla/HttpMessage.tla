------------------------------- MODULE HttpMessage -------------------------------
(***********************************************************************************)
(* What the symbols of one response say when they are read alone, one after the    *)
(* other, by a reader that has them all: no reads that cut them, no marks, no       *)
(* callbacks, no buffers that earlier responses left, no socket.  It says where a   *)
(* message ends, whether the connection may be kept after it, and which names,       *)
(* values and octets of a body are in it.  HttpParser is compared with it.          *)
(***********************************************************************************)
EXTENDS HttpParser

\* What is known of a message after some of its symbols.
Begin ==
    [state |-> StartState, header_state |-> "h_general", flags |-> {},
     content_length |-> UMax, status_code |-> "0", version |-> "0.0"]
Bad     == [Begin EXCEPT !.state = "error"]
Over(c) == [c EXCEPT !.state = "over"]
At(c, state) == [c EXCEPT !.state = state]

-----------------------------------------------------------------------------------
(* One more symbol.                                                                  *)

\* A number that another digit may follow, for certain.
Room(n, base) == n <= (UMax - base) \div base

StatusText == {"res_status_start", "res_status"}

InStatusLine(c, s) ==
    CASE c.state = StartState /\ s = "HTTP/"                    -> At(c, "res_version")
      [] c.state = StartState /\ s \in {CR, LF}                 -> c
      [] c.state = "res_version" /\ s \in Versions              ->
             [c EXCEPT !.state = "res_first_status_code", !.version = s]
      [] c.state = "res_first_status_code" /\ s = " "           -> c
      [] c.state = "res_first_status_code" /\ s \in StatusCodes ->
             [c EXCEPT !.state = "res_status_code", !.status_code = s]
      [] c.state = "res_status_code" /\ s = " "                 -> At(c, "res_status_start")
      [] c.state \in StatusText /\ s \notin {CR, LF}            -> At(c, "res_status")
      [] c.state \in StatusText \cup {"res_status_code"} /\ s = CR ->
             At(c, "res_line_almost_done")
      [] c.state \in StatusText \cup {"res_status_code", "res_line_almost_done"} /\ s = LF ->
             At(c, "header_field_start")
      [] OTHER                                                  -> Bad

\* The empty line: what comes is said by the headers.
HeadersEnd(c) ==
    IF Upgrade \subseteq c.flags           THEN Over(c)
    ELSE IF "CHUNKED" \in c.flags          THEN At(c, "chunk_size_start")
    ELSE IF c.content_length \notin {0, UMax} THEN At(c, "body_identity")
    ELSE IF HttpMessageNeedsEof(c)         THEN At(c, "body_identity_eof")
    ELSE Over(c)
HeadEnds(c) == IF "TRAILING" \in c.flags THEN Over(c) ELSE HeadersEnd(c)

\* The first symbol of a line of the head.
LineBegins(c, s) ==
    CASE Token(s) -> [c EXCEPT !.state = "header_field", !.header_state = NameState("", s)]
      [] s = CR   -> At(c, "headers_almost_done")
      [] s = LF   -> HeadEnds(c)
      [] OTHER    -> Bad

ValueBegins(c, s) ==
    CASE c.header_state # "h_content_length" ->
             [c EXCEPT !.state = "header_value", !.header_state = ValueStart(@, s),
                       !.flags = IF c.header_state = "h_upgrade" THEN @ \cup {"UPGRADE"}
                                 ELSE @]
      [] c.header_state = "h_content_length" /\ IsNum(s) ->
             [c EXCEPT !.state = "header_value", !.content_length = Digits[s]]
      [] OTHER -> Bad

\* The line after a value is not a part of it.
ValueEnds(c) ==
    [c EXCEPT !.state = "header_field_start", !.header_state = "h_general",
              !.flags = @ \cup FlagOf(c.header_state)]

InHeader(c, s) ==
    CASE c.state = "header_field_start"                   -> LineBegins(c, s)
      [] c.state = "header_field" /\ Token(s)             ->
             [c EXCEPT !.header_state = NameState(@, s)]
      [] c.state = "header_field" /\ s = ":"              -> At(c, "header_value_discard_ws")
      [] c.state = "header_value_discard_ws" /\ s = " "   -> c
      [] c.state = "header_value_discard_ws" /\ s = CR    ->
             At(c, "header_value_discard_ws_almost_done")
      [] c.state \in {"header_value_discard_ws", "header_value_discard_ws_almost_done"}
            /\ s = LF                                     -> At(c, "header_value_discard_lws")
      [] c.state = "header_value_discard_ws" /\ s \notin {" ", CR, LF} -> ValueBegins(c, s)
      [] c.state = "header_value_discard_lws" /\ s = " "  -> At(c, "header_value_discard_ws")
      [] c.state = "header_value_start"                   -> ValueBegins(c, s)
      [] c.state = "header_value" /\ s = CR               -> At(c, "header_almost_done")
      [] c.state \in {"header_value", "header_almost_done"} /\ s = LF ->
             At(c, "header_value_lws")
      [] c.state = "header_value" /\ s \notin {CR, LF}
            /\ c.header_state # "h_content_length"        ->
             [c EXCEPT !.header_state = ValueNext(@, s),
                       !.flags = @ \cup FlagOfListItem(c.header_state, s)]
      [] c.state = "header_value" /\ c.header_state = "h_content_length" /\ s = " " -> c
      [] c.state = "header_value" /\ c.header_state = "h_content_length"
            /\ IsNum(s) /\ Room(c.content_length, Dec)    ->
             [c EXCEPT !.content_length = @ * Dec + Digits[s]]
      [] c.state = "header_value_lws" /\ s = " "          -> ValueBegins(c, s)
      [] c.state \in {"header_value_lws", "header_value_discard_lws"} /\ s # " " ->
             LineBegins(ValueEnds(c), s)
      [] c.state = "headers_almost_done" /\ s = LF        -> HeadEnds(c)
      [] c.state = "headers_done" /\ s = LF               -> HeadersEnd(c)
      [] OTHER                                            -> Bad

InBody(c, s) ==
    CASE c.state = "body_identity_eof"                    -> c
      [] c.state = "body_identity" /\ c.content_length # 1 ->
             [c EXCEPT !.content_length = @ - 1]
      [] c.state = "body_identity" /\ c.content_length = 1 ->
             Over([c EXCEPT !.content_length = 0])
      [] c.state = "message_done"                         -> Over(c)
      [] c.state = "chunk_size_start" /\ s \in DOMAIN Digits ->
             [c EXCEPT !.state = "chunk_size", !.content_length = Digits[s]]
      [] c.state = "chunk_size" /\ s \in {";", " "}       -> At(c, "chunk_parameters")
      [] c.state \in {"chunk_size", "chunk_parameters"} /\ s = CR ->
             At(c, "chunk_size_almost_done")
      [] c.state = "chunk_size" /\ s \notin {CR, ";", " "} /\ s \in DOMAIN Digits
            /\ Room(c.content_length, Hex)                ->
             [c EXCEPT !.content_length = @ * Hex + Digits[s]]
      [] c.state = "chunk_parameters" /\ s # CR           -> c
      [] c.state = "chunk_size_almost_done" /\ s = LF /\ c.content_length = 0 ->
             [c EXCEPT !.state = "header_field_start", !.flags = @ \cup {"TRAILING"}]
      [] c.state = "chunk_size_almost_done" /\ s = LF /\ c.content_length # 0 ->
             At(c, "chunk_data")
      [] c.state = "chunk_data"                           ->
             [c EXCEPT !.content_length = @ - 1,
                       !.state = IF c.content_length = 1 THEN "chunk_data_almost_done"
                                 ELSE @]
      [] c.state = "chunk_data_almost_done" /\ s = CR     -> At(c, "chunk_data_done")
      [] c.state = "chunk_data_done" /\ s = LF            -> At(c, "chunk_size_start")
      [] OTHER                                            -> Bad

StatusLineStates ==
    {StartState, "res_version", "res_first_status_code", "res_status_code",
     "res_status_start", "res_status", "res_line_almost_done"}
LineStates ==
    {"header_field_start", "header_field", "header_value_discard_ws",
     "header_value_discard_ws_almost_done", "header_value_discard_lws",
     "header_value_start", "header_value", "header_almost_done", "header_value_lws",
     "headers_almost_done", "headers_done"}

After(c, s) ==
    CASE c.state \in StatusLineStates -> InStatusLine(c, s)
      [] c.state \in LineStates       -> InHeader(c, s)
      [] OTHER                        -> InBody(c, s)

\* What is known after each of the symbols w, from none to all.
Alone(w) ==
    LET at[i \in 0 .. Len(w)] == IF i = 0 THEN Begin ELSE After(at[i - 1], w[i]) IN at

-----------------------------------------------------------------------------------
(* What the symbols mean to a script: the names and the values of the headers, with  *)
(* NUL between them, which of the two was last, and the octets of the body.           *)

NoText == [headers |-> <<>>, field |-> "FIELD", body |-> <<>>]

\* A name begins after a value and a value after a name.
NulAfter(x, field) == IF x.field = field THEN <<NUL>> ELSE <<>>

InName(x, s) ==
    [headers |-> (x.headers \o NulAfter(x, "VALUE")) \o s, field |-> "FIELD", body |-> x.body]
InValue(x, s) ==
    [headers |-> (x.headers \o NulAfter(x, "FIELD")) \o s, field |-> "VALUE", body |-> x.body]
InContent(x, s) ==
    [headers |-> x.headers, field |-> x.field, body |-> x.body \o s]

LineText(x, s) == IF Token(s) THEN InName(x, <<s>>) ELSE x

\* One more symbol in a state of the reader.
TextAfter(state, x, s) ==
    CASE state = "header_field_start"                  -> LineText(x, s)
      [] state = "header_field" /\ Token(s)            -> InName(x, <<s>>)
      [] state = "header_value_discard_ws" /\ s \notin {" ", CR, LF} -> InValue(x, <<s>>)
      [] state = "header_value_discard_lws" /\ s # " " -> LineText(InValue(x, <<>>), s)
      [] state = "header_value_start"                  -> InValue(x, <<s>>)
      [] state = "header_value" /\ s \notin {CR, LF}   -> InValue(x, <<s>>)
      [] state = "header_value_lws" /\ s = " "         -> InValue(x, <<s>>)
      [] state = "header_value_lws" /\ s # " "         -> LineText(x, s)
      [] state \in {"body_identity", "body_identity_eof", "chunk_data"} ->
             InContent(x, <<s>>)
      [] OTHER                                         -> x

Texts(w) ==
    LET text[i \in 0 .. Len(w)] ==
            IF i = 0 THEN NoText ELSE TextAfter(Alone(w)[i - 1].state, text[i - 1], w[i])
    IN  text

\* What comes after each of the symbols s, a name or a value: each NUL ends one of them.
Parts(s) ==
    LET part[i \in 0 .. Len(s)] ==
            IF i = 0 THEN "FIELD"
            ELSE IF s[i] # NUL THEN part[i - 1]
            ELSE IF part[i - 1] = "FIELD" THEN "VALUE" ELSE "FIELD"
    IN  part

-----------------------------------------------------------------------------------
(* What the server sends is what it means to send.                                   *)

\* A message after which the connection may be kept.
Lasts(c) ==
    /\ IF c.version = "1.1" THEN "CONNECTION_CLOSE" \notin c.flags
                            ELSE "CONNECTION_KEEP_ALIVE" \in c.flags
    /\ ~HttpMessageNeedsEof(c)

\* A reply is one message: it ends with its last symbol, or with the stream, and not
\* before, and lets the connection be kept exactly if the server keeps it.
IsMessage(r) ==
    LET c == Alone(r.wire)  n == Len(r.wire) IN
    /\ \A i \in 0 .. (n - 1) : c[i].state \notin {"over", "error"}
    /\ r.ends = "eof" => c[n].state = "body_identity_eof"
    /\ r.ends # "eof" => c[n].state = "over" /\ Lasts(c[n]) = (r.ends = "keep")

\* No message ends within these symbols or would be ended by the end of the stream.
NoMessage(w) ==
    /\ \A i \in 0 .. Len(w) : Alone(w)[i].state # "over"
    /\ Alone(w)[Len(w)].state # "body_identity_eof"

\* What comes of a reply that the server does not finish.
Remains(r) == {SubSeq(r.wire, 1, n) \o tail : n \in 1 .. (Len(r.wire) - 1), tail \in Spoilt}

\* Buffers that nothing was in before and that hold just this text.
Unused(x) ==
    LET Holding(s) == [data |-> s, cursor |-> Len(s)] IN
    [headers |-> Holding(x.headers \o <<NUL>>), body |-> Holding(x.body), state |-> x.field]

\* A reply means what response() would make of its text in such buffers.
IsMeant(r) ==
    LET n == Len(r.wire)
        x == Texts(r.wire)[n]
        pairs == x.headers \o <<NUL>> IN
    /\ x.headers # <<>> /\ Parts(pairs)[Len(pairs)] = "FIELD"
    /\ ResponseOf(Alone(r.wire)[n].status_code, Unused(x)) = Expected(r)

ASSUME MeaningAssumption == \A r \in Replies : IsMeant(r)

ASSUME MessagesAssumption ==
    /\ \A r \in Replies : IsMessage(r)
    /\ \A r \in Torn : \A w \in Remains(r) :
          NoMessage(w) /\ Alone(w)[Len(w)].state \notin {"dead", StartState}
    /\ \A g \in Garbage : NoMessage(g)
    \* Garbage after a reply that was cut off could complete it.
    /\ "junk" \in FaultKinds => \A r \in Torn : r.ends # "close"
===================================================================================
