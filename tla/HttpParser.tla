-------------------------------- MODULE HttpParser --------------------------------
(***********************************************************************************)
(* The parser of the responses of one connection: http_parser_execute              *)
(* (src/http_parser.c, HTTP_RESPONSE, strict), the callbacks of src/wrk.c that it   *)
(* calls, the buffers they fill for the response() of a script, and the server's    *)
(* end of the socket.                                                               *)
(*                                                                                  *)
(* The bytes of a response are symbols: a unit of a name or of a value (half a      *)
(* word, so that a read may end within it), a digit, a separator, an octet of a     *)
(* body.  A read takes any number of symbols; an action of the parser is one turn   *)
(* of its loop, which sees one symbol and consumes none (REEXECUTE), one, or as     *)
(* many as a body has.                                                              *)
(***********************************************************************************)
EXTENDS HttpResponse, Integers, TLC, Sequences, SequencesExt, FiniteSets

CONSTANTS
    Replies,     \* the responses the server may send
    Torn,        \* those it may not finish
    Spoilt,      \* what may come then in place of their rest
    Garbage,     \* symbols that are no response
    Digits,      \* the value of each symbol that is a digit
    Dec, Hex,    \* the bases of Content-Length and of a chunk's size
    UMax,        \* ULLONG_MAX, which means "no length"
    RecvBuf,     \* RECVBUF: the symbols a read may take
    FaultKinds,  \* what may go wrong between client and server
    MaxReplies,  \* bound: how many responses the server sends
    MaxFaults    \* bound: how much may go wrong

CR  == "CR"
LF  == "LF"
NUL == "NUL"
Versions    == {"1.0", "1.1"}
StatusCodes == {"100", "101", "200", "204", "304", "404"}
Separators  == {CR, LF, NUL, ":", " ", ",", ";", "junk"}

ASSUME DigitsAssumption ==
    /\ UMax \in Nat /\ Dec \in Nat \ {0} /\ Hex \in Nat \ {0} /\ Dec <= Hex /\ Hex < UMax
    /\ \A d \in DOMAIN Digits : Digits[d] \in 0 .. (Hex - 1) /\ d \notin Separators

\* A response: its symbols, what response() should get of it, and how the server ends
\* it: it keeps the connection, closes it after the response, or delimits the body by
\* closing it.
ASSUME RepliesAssumption ==
    /\ \A r \in Replies : r.wire \in Seq(STRING) /\ r.wire # <<>>
                          /\ r.ends \in {"keep", "close", "eof"}
    /\ \A r \in Torn : r \in Replies /\ r.ends # "eof"
    /\ Spoilt \subseteq Seq(STRING)
    /\ \A g \in Garbage : g \in Seq(STRING) /\ g # <<>>
    /\ RecvBuf \in Nat \ {0} /\ MaxReplies \in Nat /\ MaxFaults \in Nat
    /\ FaultKinds \subseteq {"cut", "rst", "junk"}

VARIABLES
    parser,    \* the fields of struct http_parser
    rest,      \* the symbols of c->buf that the running http_parser_execute has not seen
    parsing,   \* http_parser_execute is running
    marks,     \* its marks that are set
    held,      \* the symbols between the mark and the present one
    full,      \* the last read took RECVBUF
    buf,       \* c->headers, c->body and c->state
    got,       \* what response() was called with for responses on the present socket
    completed, \* calls of response_complete on the present socket
    late,      \* time_us() has reached thread->stop_at
    stopped,   \* aeStop was called
    link,      \* "connecting": reconnect_socket was called; "open": connected
    failed,    \* the present socket takes the place of one that failed
    inq,       \* symbols the server has sent and the client has not read
    peer,      \* the server's end of the socket: "up", "fin" or "rst"
    sent,      \* the responses the server has begun on the present socket
    left,      \* responses still to come (bound)
    faults,    \* faults still to come (bound)
    torn       \* a response was cut off, or garbage had headers

callVars   == <<rest, parsing, marks, held, full>>
scriptVars == <<buf, got, completed>>
netVars    == <<link, failed, inq, peer, sent, left, faults, torn>>
clockVars  == <<late, stopped>>
vars == <<parser, callVars, scriptVars, clockVars, netVars>>

-----------------------------------------------------------------------------------
(* Buffers (script.c): cursor is where the next byte goes; what is behind it stays   *)
(* as the last response left it.                                                     *)

EmptyBuffer == [data |-> <<>>, cursor |-> 0]

\* buffer_append, and a byte stored at the cursor.
BufferAppend(b, s) ==
    [data   |-> SubSeq(b.data, 1, b.cursor) \o s
                  \o SubSeq(b.data, b.cursor + Len(s) + 1, Len(b.data)),
     cursor |-> b.cursor + Len(s)]

BufferReset(b)    == [b EXCEPT !.cursor = 0]
BufferContents(b) == SubSeq(b.data, 1, b.cursor)

\* buffer_pushlstring: the string that begins after i bytes and where the next begins.
\* Bytes no response has written yet may be anything ("?").
StringAt(b, i) ==
    LET ends == {j \in (i + 1) .. Len(b.data) : b.data[j] = NUL}
        end  == CHOOSE j \in ends : \A k \in ends : j <= k IN
    IF ends = {} THEN [str |-> <<"?">>, next |-> Len(b.data) + 2]
    ELSE [str |-> SubSeq(b.data, i + 1, end - 1), next |-> end]

\* The pairs of strings script_response makes of the buffer.
PairAt(b, i) ==
    LET name == StringAt(b, i)  value == StringAt(b, name.next) IN
    [pair |-> <<name.str, value.str>>, next |-> value.next]

Pairs(b) ==
    LET from[n \in 0 .. (Len(b.data) + 2)] ==
            IF n >= b.cursor THEN <<>>
            ELSE LET p == PairAt(b, n) IN
                 <<p.pair>> \o (IF p.next >= b.cursor THEN <<>> ELSE from[p.next]) IN
    from[0]

\* lua_rawset: the last of two headers with one name stays.
Table(pairs) ==
    LET Name(i) == pairs[i][1]
        Latest(n) == CHOOSE i \in DOMAIN pairs :
                      Name(i) = n /\ \A j \in DOMAIN pairs : Name(j) = n => j <= i IN
    [n \in {Name(i) : i \in DOMAIN pairs} |-> pairs[Latest(n)][2]]

\* header_field, header_value and response_body.
OnHeaderField(b, s) ==
    IF b.state = "VALUE"
    THEN [b EXCEPT !.headers = BufferAppend(@, <<NUL>> \o s), !.state = "FIELD"]
    ELSE [b EXCEPT !.headers = BufferAppend(@, s)]

OnHeaderValue(b, s) ==
    IF b.state = "FIELD"
    THEN [b EXCEPT !.headers = BufferAppend(@, <<NUL>> \o s), !.state = "VALUE"]
    ELSE [b EXCEPT !.headers = BufferAppend(@, s)]

OnBody(b, s) == [b EXCEPT !.body = BufferAppend(@, s)]

-----------------------------------------------------------------------------------
(* The connection's socket.                                                         *)

StartState == "start_res"

\* http_parser_init.
HttpParserInit ==
    [state |-> StartState, header_state |-> "h_general", flags |-> {},
     content_length |-> 0, status_code |-> "0", version |-> "0.0", nread |-> 0,
     errno |-> "OK"]

\* socket_readable is not in the middle of a read.
Returned == ~parsing /\ rest = <<>>

\* reconnect_socket: what was on the way is lost.
Reconnect(fail) ==
    /\ link' = "connecting" /\ failed' = fail
    /\ inq' = <<>> /\ peer' = "up"
    /\ UNCHANGED <<sent, left, faults, torn>>

\* socket_connected.
SocketConnected ==
    /\ link = "connecting" /\ Returned /\ ~stopped
    /\ parser' = HttpParserInit
    /\ link' = "open" /\ failed' = FALSE
    /\ sent' = <<>> /\ got' = <<>> /\ completed' = 0
    /\ UNCHANGED <<callVars, buf, clockVars, inq, peer, left, faults, torn>>

\* The error exit of socket_readable.
ReadError(ps) ==
    /\ parser' = ps
    /\ rest' = <<>> /\ parsing' = FALSE /\ marks' = {} /\ held' = <<>> /\ full' = FALSE
    /\ Reconnect(TRUE)
    /\ UNCHANGED <<scriptVars, clockVars>>

\* goto error.
Fail == ReadError([parser EXCEPT !.errno = "error"])

-----------------------------------------------------------------------------------
(* The loop of http_parser_execute.                                                  *)

HeaderStates ==
    {"dead", "start_res", "res_version", "res_first_status_code", "res_status_code",
     "res_status_start", "res_status", "res_line_almost_done", "header_field_start",
     "header_field", "header_value_discard_ws", "header_value_discard_ws_almost_done",
     "header_value_discard_lws", "header_value_start", "header_value",
     "header_value_lws", "header_almost_done", "chunk_size_start", "chunk_size",
     "chunk_parameters", "chunk_size_almost_done", "headers_almost_done",
     "headers_done"}
BodyStates ==
    {"chunk_data", "chunk_data_almost_done", "chunk_data_done", "body_identity",
     "body_identity_eof", "message_done"}
ChunkStates ==
    {"chunk_size_start", "chunk_size", "chunk_parameters", "chunk_size_almost_done",
     "chunk_data", "chunk_data_almost_done", "chunk_data_done"}

In(state) == parsing /\ rest # <<>> /\ parser.state = state

ch == Head(rest)

\* The parser after COUNT_HEADER_SIZE(1): nread is known as 0, 1 or more (2), which is
\* all that its assertion needs; heads of more than HTTP_MAX_HEADER_SIZE are not sent.
Counted ==
    IF parser.state \in HeaderStates
    THEN [parser EXCEPT !.nread = IF @ = 0 THEN 1 ELSE 2] ELSE parser

To(state) == [Counted EXCEPT !.state = state]

\* A turn of the loop ends: n symbols are consumed, which the mark, if set, holds.
Turn(ps, n, newmarks) ==
    /\ parser' = ps /\ marks' = newmarks
    /\ rest' = SubSeq(rest, n + 1, Len(rest))
    /\ held' = IF newmarks = {} THEN <<>> ELSE held \o SubSeq(rest, 1, n)
    /\ UNCHANGED <<parsing, full>>

Quietly == UNCHANGED <<scriptVars, clockVars, netVars>>

Consume(ps) == Turn(ps, 1, marks) /\ Quietly
Reexecute(ps) == Turn(ps, 0, marks) /\ Quietly
MarkAndConsume(m, ps) == Turn(ps, 1, marks \cup {m}) /\ Quietly

\* CALLBACK_DATA: the callback gets what the mark holds, the mark is taken away.
Callback(m, newbuf, ps, n) ==
    /\ Turn(ps, n, marks \ {m})
    /\ buf' = IF m \in marks THEN newbuf ELSE buf
    /\ UNCHANGED <<got, completed, clockVars, netVars>>

HttpMessageNeedsEof(ps) ==
    /\ ps.status_code \notin {"100", "101", "204", "304"}
    /\ "CHUNKED" \notin ps.flags /\ ps.content_length = UMax

\* Mutant: HTTP/1.0 is kept alive as well.
ShouldKeepAliveOld(ps) ==
    "CONNECTION_CLOSE" \notin ps.flags /\ ~HttpMessageNeedsEof(ps)
HttpShouldKeepAlive(ps) ==
    /\ IF ps.version = "1.1" THEN "CONNECTION_CLOSE" \notin ps.flags
                             ELSE "CONNECTION_KEEP_ALIVE" \in ps.flags
    /\ ~HttpMessageNeedsEof(ps)

\* Mutant: as it is without HTTP_PARSER_STRICT.
NewMessageLenient(ps) == StartState
NewMessage(ps) == IF HttpShouldKeepAlive(ps) THEN StartState ELSE "dead"

\* script_response: the arguments of response().
ResponseOf(status, b) ==
    [status  |-> status,
     headers |-> Table(Pairs(b.headers)),
     body    |-> BufferContents(b.body)]

\* The part of response_complete that calls response(), for a response of parser ps.
\* Mutant: the body is not reset.
ScriptResponseKeepsBody(ps) ==
    LET b == [buf EXCEPT !.headers = BufferAppend(@, <<NUL>>)] IN
    IF buf.headers.data = <<>> THEN UNCHANGED <<buf, got>>
    ELSE /\ got' = Append(got, ResponseOf(ps.status_code, b))
         /\ buf' = [b EXCEPT !.headers = BufferReset(@), !.state = "FIELD"]
ScriptResponse(ps) ==
    LET b == [buf EXCEPT !.headers = BufferAppend(@, <<NUL>>)] IN
    IF buf.headers.data = <<>> THEN UNCHANGED <<buf, got>>
    ELSE /\ got' = Append(got, ResponseOf(ps.status_code, b))
         /\ buf' = [headers |-> BufferReset(b.headers), body |-> BufferReset(b.body),
                    state |-> "FIELD"]

\* response_complete: ps is the parser as the callback finds it and ends it; after
\* stop_at the message is only counted.
ResponseComplete(ps) ==
    /\ completed' = completed + 1
    /\ ScriptResponse(ps)
    /\ UNCHANGED late /\ stopped' = (stopped \/ late)
    /\ \/ late /\ parser' = ps /\ UNCHANGED netVars
       \/ /\ ~late /\ HttpShouldKeepAlive(ps)
          /\ parser' = HttpParserInit /\ UNCHANGED netVars
       \/ /\ ~late /\ ~HttpShouldKeepAlive(ps)
          /\ parser' = ps /\ Reconnect(FALSE)

\* UPDATE_STATE(NEW_MESSAGE()); CALLBACK_NOTIFY(message_complete).
MessageComplete(ps) ==
    /\ ResponseComplete([ps EXCEPT !.state = NewMessage(ps)])
    /\ rest' = Tail(rest)
    /\ held' = IF marks = {} THEN <<>> ELSE Append(held, ch)
    /\ UNCHANGED <<parsing, full, marks>>

-----------------------------------------------------------------------------------
(* The status line.                                                                  *)

Dead ==
    /\ In("dead")
    /\ \/ ch \in {CR, LF} /\ Consume(Counted)
       \/ ch \notin {CR, LF} /\ Fail

StartRes ==
    /\ In("start_res")
    /\ LET ps == [Counted EXCEPT !.flags = {}, !.content_length = UMax] IN
       \/ ch = "HTTP/" /\ Consume([ps EXCEPT !.state = "res_version"])
       \/ ch \in {CR, LF} /\ Consume(ps)
       \/ ch \notin {"HTTP/", CR, LF} /\ Fail

\* The digits of the version and of the status code are one symbol each.
ResVersion ==
    /\ In("res_version")
    /\ \/ ch \in Versions
          /\ Consume([To("res_first_status_code") EXCEPT !.version = ch])
       \/ ch \notin Versions /\ Fail

ResFirstStatusCode ==
    /\ In("res_first_status_code")
    /\ \/ ch \in StatusCodes
          /\ Consume([To("res_status_code") EXCEPT !.status_code = ch])
       \/ ch = " " /\ Consume(Counted)
       \/ ch \notin StatusCodes \cup {" "} /\ Fail

ResStatusCode ==
    /\ In("res_status_code")
    /\ \/ ch = " " /\ Consume(To("res_status_start"))
       \/ ch = CR /\ Consume(To("res_line_almost_done"))
       \/ ch = LF /\ Consume(To("header_field_start"))
       \/ ch \notin {" ", CR, LF} /\ Fail

ResStatusStart ==
    /\ In("res_status_start")
    /\ \/ ch = CR /\ Consume(To("res_line_almost_done"))
       \/ ch = LF /\ Consume(To("header_field_start"))
       \/ ch \notin {CR, LF} /\ MarkAndConsume("status", To("res_status"))

\* There is no callback for the status text.
ResStatus ==
    /\ In("res_status")
    /\ \/ ch = CR /\ Callback("status", buf, To("res_line_almost_done"), 1)
       \/ ch = LF /\ Callback("status", buf, To("header_field_start"), 1)
       \/ ch \notin {CR, LF} /\ Consume(Counted)

\* STRICT_CHECK(ch != c) in a state.
Strictly(state, c, action) ==
    /\ In(state)
    /\ \/ ch = c /\ action
       \/ ch # c /\ Fail

ResLineAlmostDone ==
    Strictly("res_line_almost_done", LF, Consume(To("header_field_start")))

-----------------------------------------------------------------------------------
(* The name of a header.  The header state is what is known of the name so far.       *)

Token(c) == c \notin Separators

\* The first unit of a name, and the one that follows in a header state: an unexpected
\* one makes the header an unknown one, also after a whole name.
NameState(from, unit) ==
    CASE from = "" /\ unit = "con"       -> "h_CON"
      [] from = "" /\ unit = "proxy-con" -> "h_matching_proxy_connection"
      [] from = "" /\ unit = "transfer-" -> "h_matching_transfer_encoding"
      [] from = "" /\ unit = "up"        -> "h_matching_upgrade"
      [] from \in {"h_CON", "h_matching_proxy_connection"} /\ unit = "nection" ->
                                            "h_connection"
      [] from = "h_CON" /\ unit = "tent-length" -> "h_content_length"
      [] from = "h_matching_transfer_encoding" /\ unit = "encoding" -> "h_transfer_encoding"
      [] from = "h_matching_upgrade" /\ unit = "grade" -> "h_upgrade"
      [] OTHER -> "h_general"

HeaderFieldStart ==
    /\ In("header_field_start")
    /\ \/ ch = CR /\ Consume(To("headers_almost_done"))
       \/ ch = LF /\ Reexecute(To("headers_almost_done"))
       \/ Token(ch)
          /\ MarkAndConsume("header_field",
                [To("header_field") EXCEPT !.header_state = NameState("", ch)])
       \/ ~Token(ch) /\ ch \notin {CR, LF} /\ Fail

HeaderField ==
    /\ In("header_field")
    /\ \/ Token(ch) /\ Consume([Counted EXCEPT !.header_state = NameState(@, ch)])
       \/ ch = ":" /\ Callback("header_field", OnHeaderField(buf, held),
                               To("header_value_discard_ws"), 1)
       \/ ~Token(ch) /\ ch # ":" /\ Fail

-----------------------------------------------------------------------------------
(* The value of a header.                                                            *)

IsNum(c) == c \in DOMAIN Digits /\ Digits[c] < Dec

\* The flag a header state stands for once its value is over.
FlagOf(header_state) ==
    CASE header_state = "h_connection_keep_alive"     -> {"CONNECTION_KEEP_ALIVE"}
      [] header_state = "h_connection_close"          -> {"CONNECTION_CLOSE"}
      [] header_state = "h_connection_upgrade"        -> {"CONNECTION_UPGRADE"}
      [] header_state = "h_transfer_encoding_chunked" -> {"CHUNKED"}
      [] OTHER                                        -> {}

ConnectionToken(c) ==
    CASE c = "keep-" -> "h_matching_connection_keep_alive"
      [] c = "clo"   -> "h_matching_connection_close"
      [] c = "up"    -> "h_matching_connection_upgrade"
      [] OTHER       -> "h_matching_connection_token"

\* The header state after the first symbol of a value.
ValueStart(header_state, c) ==
    CASE header_state = "h_transfer_encoding" /\ c = "chun" ->
                                     "h_matching_transfer_encoding_chunked"
      [] header_state = "h_connection"                      -> ConnectionToken(c)
      [] header_state \in {"h_content_length", "h_matching_connection_token_start"} ->
                                     header_state
      [] OTHER                                              -> "h_general"

\* ... and after another one (Content-Length is apart: its header state stays).
ValueNext(header_state, c) ==
    CASE header_state = "h_matching_transfer_encoding_chunked" ->
             IF c = "ked" THEN "h_transfer_encoding_chunked" ELSE "h_general"
      [] header_state = "h_transfer_encoding_chunked" ->
             IF c = " " THEN header_state ELSE "h_general"
      [] header_state = "h_matching_connection_token_start" ->
             CASE Token(c) -> ConnectionToken(c)
               [] c = " "  -> header_state
               [] OTHER    -> "h_general"
      [] header_state = "h_matching_connection_keep_alive" ->
             IF c = "alive" THEN "h_connection_keep_alive" ELSE "h_matching_connection_token"
      [] header_state = "h_matching_connection_close" ->
             IF c = "se" THEN "h_connection_close" ELSE "h_matching_connection_token"
      [] header_state = "h_matching_connection_upgrade" ->
             IF c = "grade" THEN "h_connection_upgrade" ELSE "h_matching_connection_token"
      [] header_state = "h_matching_connection_token" ->
             IF c = "," THEN "h_matching_connection_token_start" ELSE header_state
      [] header_state \in {"h_connection_keep_alive", "h_connection_close",
                           "h_connection_upgrade"} ->
             CASE c = "," -> "h_matching_connection_token_start"
               [] c = " " -> header_state
               [] OTHER   -> "h_matching_connection_token"
      [] OTHER -> "h_general"

\* A token of Connection counts once a comma ends it.
FlagOfListItem(header_state, c) ==
    IF c = "," /\ header_state # "h_transfer_encoding_chunked"
    THEN FlagOf(header_state) ELSE {}

\* The symbol begins a value.
BeginValue ==
    LET hs == parser.header_state
        ps == [To("header_value") EXCEPT !.header_state = ValueStart(hs, ch)] IN
    \/ /\ hs = "h_content_length" /\ ~IsNum(ch)
       /\ Fail
    \/ /\ hs = "h_content_length" /\ IsNum(ch)
       /\ MarkAndConsume("header_value", [ps EXCEPT !.content_length = Digits[ch]])
    \/ /\ hs # "h_content_length"
       /\ MarkAndConsume("header_value",
             [ps EXCEPT !.flags = IF hs = "h_upgrade" THEN @ \cup {"UPGRADE"} ELSE @])

HeaderValueDiscardWs ==
    /\ In("header_value_discard_ws")
    /\ \/ ch = " " /\ Consume(Counted)
       \/ ch = CR /\ Consume(To("header_value_discard_ws_almost_done"))
       \/ ch = LF /\ Consume(To("header_value_discard_lws"))
       \/ ch \notin {" ", CR, LF} /\ BeginValue

HeaderValueStart == In("header_value_start") /\ BeginValue

\* The limit on a number in a base: beyond it the next digit might not fit.  Mutant: a
\* limit that is not conservative.
FitsTightly(n, base) == n <= UMax \div base
Fits(n, base) == n <= (UMax - base) \div base

AnotherDigit(n, base) == n * base + Digits[ch]

ContentLengthDigit ==
    \/ ch = " " /\ Consume(Counted)
    \/ /\ IsNum(ch) /\ Fits(parser.content_length, Dec)
       /\ Consume([Counted EXCEPT !.content_length = AnotherDigit(@, Dec)])
    \/ /\ ch # " " /\ ~(IsNum(ch) /\ Fits(parser.content_length, Dec))
       /\ Fail

HeaderValue ==
    /\ In("header_value")
    /\ LET hs == parser.header_state
           Value(n) == Callback("header_value", OnHeaderValue(buf, held),
                                To("header_almost_done"), n) IN
       \/ ch = CR /\ Value(1)
       \/ ch = LF /\ Value(0)
       \/ ch \notin {CR, LF} /\ hs = "h_content_length" /\ ContentLengthDigit
       \/ /\ ch \notin {CR, LF} /\ hs # "h_content_length"
          /\ Consume([Counted EXCEPT !.header_state = ValueNext(hs, ch),
                                     !.flags = @ \cup FlagOfListItem(hs, ch)])

HeaderAlmostDone == Strictly("header_almost_done", LF, Consume(To("header_value_lws")))

\* The value goes on in the next line, or the header is over.
HeaderValueLws ==
    /\ In("header_value_lws")
    /\ \/ ch = " " /\ Reexecute(To("header_value_start"))
       \/ ch # " " /\ Reexecute([To("header_field_start") EXCEPT
                                   !.flags = @ \cup FlagOf(parser.header_state)])

HeaderValueDiscardWsAlmostDone ==
    Strictly("header_value_discard_ws_almost_done", LF,
             Consume(To("header_value_discard_lws")))

\* A value that may be empty: the callback gets no bytes.
HeaderValueDiscardLws ==
    /\ In("header_value_discard_lws")
    /\ \/ ch = " " /\ Consume(To("header_value_discard_ws"))
       \/ /\ ch # " "
          /\ Turn([To("header_field_start") EXCEPT
                     !.flags = @ \cup FlagOf(parser.header_state)], 0, marks)
          /\ buf' = OnHeaderValue(buf, <<>>)
          /\ UNCHANGED <<got, completed, clockVars, netVars>>

-----------------------------------------------------------------------------------
(* The end of the headers, and the body.                                             *)

\* A message that switches protocols ends the call, with the symbols after it unseen.
Upgrade == {"UPGRADE", "CONNECTION_UPGRADE"}
UpgradeComplete(ps) ==
    /\ ResponseComplete([ps EXCEPT !.state = NewMessage(ps)])
    /\ parsing' = FALSE /\ rest' = Tail(rest) /\ held' = <<>>
    /\ full' = (full /\ inq' # <<>>)
    /\ UNCHANGED marks

HeadersAlmostDone ==
    Strictly("headers_almost_done", LF,
        \/ "TRAILING" \in parser.flags /\ MessageComplete(Counted)
        \/ "TRAILING" \notin parser.flags /\ Reexecute(To("headers_done")))

BodyBegins(ps) ==
    LET chunked == "CHUNKED" \in ps.flags
        length  == ps.content_length IN
    \/ chunked /\ Consume([ps EXCEPT !.state = "chunk_size_start"])
    \/ ~chunked /\ length = 0 /\ MessageComplete(ps)
    \/ ~chunked /\ length \notin {0, UMax} /\ Consume([ps EXCEPT !.state = "body_identity"])
    \/ ~chunked /\ length = UMax /\ ~HttpMessageNeedsEof(ps) /\ MessageComplete(ps)
    \/ ~chunked /\ length = UMax /\ HttpMessageNeedsEof(ps)
       /\ Consume([ps EXCEPT !.state = "body_identity_eof"])

\* Mutant: the count goes on.
HeadOverKeepsCount == Counted
HeadOver == [Counted EXCEPT !.nread = 0]

HeadersDone ==
    LET ps == HeadOver IN
    Strictly("headers_done", LF,
        \/ Upgrade \subseteq ps.flags /\ UpgradeComplete(ps)
        \/ ~(Upgrade \subseteq ps.flags) /\ BodyBegins(ps))

\* Mutant: all there is.
ToReadAll == Len(rest)
ToRead == IF parser.content_length <= Len(rest) THEN parser.content_length ELSE Len(rest)

\* The last octet of the body stays, for message_done to consume.
BodyIdentity ==
    /\ In("body_identity")
    /\ LET ps == [Counted EXCEPT !.content_length = @ - ToRead] IN
       \/ /\ ps.content_length = 0
          /\ parser' = [ps EXCEPT !.state = "message_done"]
          /\ rest' = SubSeq(rest, ToRead, Len(rest)) /\ held' = <<>>
          /\ marks' = marks \ {"body"}
          /\ buf' = OnBody(buf, held \o SubSeq(rest, 1, ToRead))
          /\ UNCHANGED <<parsing, full, got, completed, clockVars, netVars>>
       \/ /\ ps.content_length # 0
          /\ Turn(ps, ToRead, marks \cup {"body"}) /\ Quietly

BodyIdentityEof ==
    /\ In("body_identity_eof")
    /\ Turn(Counted, Len(rest), marks \cup {"body"}) /\ Quietly

MessageDone == In("message_done") /\ MessageComplete(Counted)

ChunkSizeStart ==
    /\ In("chunk_size_start")
    /\ \/ /\ ch \in DOMAIN Digits
          /\ Consume([To("chunk_size") EXCEPT !.content_length = Digits[ch]])
       \/ ch \notin DOMAIN Digits /\ Fail

ChunkSize ==
    /\ In("chunk_size")
    /\ \/ ch = CR /\ Consume(To("chunk_size_almost_done"))
       \/ ch \in {";", " "} /\ Consume(To("chunk_parameters"))
       \/ /\ ch \in DOMAIN Digits /\ Fits(parser.content_length, Hex)
          /\ Consume([Counted EXCEPT !.content_length = AnotherDigit(@, Hex)])
       \/ /\ ch \notin {CR, ";", " "}
          /\ ~(ch \in DOMAIN Digits /\ Fits(parser.content_length, Hex))
          /\ Fail

ChunkParameters ==
    /\ In("chunk_parameters")
    /\ \/ ch = CR /\ Consume(To("chunk_size_almost_done"))
       \/ ch # CR /\ Consume(Counted)

ChunkSizeAlmostDone ==
    LET ps == [Counted EXCEPT !.nread = 0] IN
    Strictly("chunk_size_almost_done", LF,
        \/ /\ ps.content_length = 0
           /\ Consume([ps EXCEPT !.state = "header_field_start",
                                 !.flags = @ \cup {"TRAILING"}])
        \/ ps.content_length # 0 /\ Consume([ps EXCEPT !.state = "chunk_data"]))

ChunkData ==
    /\ In("chunk_data")
    /\ LET ps == [Counted EXCEPT !.content_length = @ - ToRead] IN
       Turn(IF ps.content_length = 0 THEN [ps EXCEPT !.state = "chunk_data_almost_done"]
            ELSE ps, ToRead, marks \cup {"body"})
    /\ Quietly

ChunkDataAlmostDone ==
    Strictly("chunk_data_almost_done", CR,
             Callback("body", OnBody(buf, held), To("chunk_data_done"), 1))

ChunkDataDone ==
    Strictly("chunk_data_done", LF, Consume([To("chunk_size_start") EXCEPT !.nread = 0]))

-----------------------------------------------------------------------------------
(* A call of http_parser_execute: its begin, the callbacks for the mark that is left,  *)
(* its return; socket_readable around it.                                             *)

MarksAtBegin ==
    CASE parser.state = "header_field" -> {"header_field"}
      [] parser.state = "header_value" -> {"header_value"}
      [] parser.state = "res_status"   -> {"status"}
      [] OTHER                         -> {}

Read ==
    /\ link = "open" /\ Returned /\ inq # <<>> /\ (full \/ ~stopped)
    /\ \E n \in 1 .. RecvBuf :
        /\ n <= Len(inq)
        /\ rest' = SubSeq(inq, 1, n) /\ inq' = SubSeq(inq, n + 1, Len(inq))
        /\ full' = (n = RecvBuf)
    /\ parsing' = TRUE /\ marks' = MarksAtBegin /\ held' = <<>>
    /\ UNCHANGED <<parser, scriptVars, clockVars, link, failed, peer, sent, left, faults, torn>>

Flushed ==
    LET Field(b) == IF "header_field" \in marks THEN OnHeaderField(b, held) ELSE b
        Value(b) == IF "header_value" \in marks THEN OnHeaderValue(b, held) ELSE b
        Body(b)  == IF "body" \in marks THEN OnBody(b, held) ELSE b IN
    Body(Value(Field(buf)))

EndOfInput ==
    /\ parsing /\ rest = <<>>
    /\ buf' = Flushed
    /\ marks' = {} /\ held' = <<>> /\ parsing' = FALSE
    /\ full' = (full /\ inq # <<>>)
    /\ UNCHANGED <<parser, rest, got, completed, clockVars, netVars>>

\* It parsed less than it was given.
Unparsed == ~parsing /\ rest # <<>> /\ ReadError(parser)

\* The states in which the end of the input says nothing.  Mutant: a body cut short is
\* taken for the end.
EofIgnoredInBody == {"dead", StartState, "body_identity", "chunk_data"}
EofIgnored == {"dead", StartState}

\* A read of zero bytes: http_parser_execute with len = 0.
ReadEof ==
    /\ link = "open" /\ Returned /\ ~stopped /\ inq = <<>> /\ peer = "fin"
    /\ \/ /\ parser.state = "body_identity_eof"
          /\ ResponseComplete(parser) /\ UNCHANGED callVars
       \/ parser.state \in EofIgnored /\ UNCHANGED vars
       \/ parser.state \notin EofIgnored \cup {"body_identity_eof"} /\ Fail

ReadReset ==
    /\ link = "open" /\ Returned /\ ~stopped /\ peer = "rst"
    /\ ReadError(parser)

TimeIsUp ==
    /\ ~late /\ late' = TRUE
    /\ UNCHANGED <<parser, callVars, scriptVars, stopped, netVars>>

\* check_timeouts, between two handlers.
TimerStops ==
    /\ late /\ ~stopped /\ Returned /\ ~full
    /\ stopped' = TRUE
    /\ UNCHANGED <<parser, callVars, scriptVars, late, netVars>>

\* The thread has left its loop.
Idle == stopped /\ Returned /\ ~full /\ UNCHANGED vars

-----------------------------------------------------------------------------------
(* The server and the network (external).                                            *)

Client == <<parser, callVars, scriptVars, clockVars, link, failed>>
Up == link = "open" /\ peer = "up"
Fault(kind) == kind \in FaultKinds /\ faults > 0 /\ faults' = faults - 1

Send == \E r \in Replies :
    /\ Up /\ left > 0 /\ left' = left - 1
    /\ inq' = inq \o r.wire /\ sent' = Append(sent, r)
    /\ peer' = IF r.ends = "keep" THEN "up" ELSE "fin"
    /\ UNCHANGED <<Client, faults, torn>>

\* The server goes away within a response, or spoils it.
SendCut == \E r \in Torn, tail \in Spoilt :
    /\ Up /\ left > 0 /\ left' = left - 1 /\ Fault("cut")
    /\ \E n \in 1 .. (Len(r.wire) - 1) : inq' = inq \o SubSeq(r.wire, 1, n) \o tail
    /\ sent' = Append(sent, r) /\ torn' = TRUE /\ peer' = "fin"
    /\ UNCHANGED Client

\* The server resets the connection, or closes it, between two responses.
HangUp ==
    /\ Up /\ inq = <<>> /\ Fault("rst")
    /\ peer' \in {"fin", "rst"}
    /\ UNCHANGED <<Client, inq, sent, left, torn>>

\* What comes after the responses, or after the last one of a connection, is none.
SendGarbage == \E g \in Garbage :
    /\ link = "open" /\ Fault("junk")
    /\ peer = "up" \/ (peer = "fin" /\ sent # <<>> /\ Last(sent).ends = "close")
    /\ inq' = inq \o g /\ peer' = "fin" /\ torn' = (torn \/ Len(g) > 1)
    /\ UNCHANGED <<Client, sent, left>>

Server == Send \/ SendCut \/ HangUp \/ SendGarbage

-----------------------------------------------------------------------------------
Init ==
    /\ parser = HttpParserInit
    /\ rest = <<>> /\ parsing = FALSE /\ marks = {} /\ held = <<>> /\ full = FALSE
    /\ buf = [headers |-> EmptyBuffer, body |-> EmptyBuffer, state |-> "FIELD"]
    /\ got = <<>> /\ completed = 0 /\ late = FALSE /\ stopped = FALSE
    /\ link = "connecting" /\ failed = FALSE /\ inq = <<>> /\ peer = "up" /\ sent = <<>>
    /\ left = MaxReplies /\ faults = MaxFaults /\ torn = FALSE

Execute ==
    \/ Dead \/ StartRes \/ ResVersion \/ ResFirstStatusCode \/ ResStatusCode
    \/ ResStatusStart \/ ResStatus \/ ResLineAlmostDone
    \/ HeaderFieldStart \/ HeaderField \/ HeaderValueDiscardWs \/ HeaderValueStart
    \/ HeaderValue \/ HeaderAlmostDone \/ HeaderValueLws
    \/ HeaderValueDiscardWsAlmostDone \/ HeaderValueDiscardLws
    \/ HeadersAlmostDone \/ HeadersDone
    \/ BodyIdentity \/ BodyIdentityEof \/ MessageDone
    \/ ChunkSizeStart \/ ChunkSize \/ ChunkParameters \/ ChunkSizeAlmostDone
    \/ ChunkData \/ ChunkDataAlmostDone \/ ChunkDataDone
    \/ EndOfInput \/ Unparsed

SocketReadable == Read \/ Execute \/ ReadEof \/ ReadReset

Next == SocketReadable \/ SocketConnected \/ TimeIsUp \/ TimerStops \/ Idle \/ Server

Spec == Init /\ [][Next]_vars

-----------------------------------------------------------------------------------
(* Properties                                                                        *)

States == HeaderStates \cup BodyStates
Marks  == {"status", "header_field", "header_value", "body"}

HeaderStatesOfValue ==
    {"h_general", "h_connection", "h_content_length", "h_transfer_encoding", "h_upgrade",
     "h_matching_transfer_encoding_chunked", "h_matching_connection_token_start",
     "h_matching_connection_keep_alive", "h_matching_connection_close",
     "h_matching_connection_upgrade", "h_matching_connection_token",
     "h_transfer_encoding_chunked", "h_connection_keep_alive", "h_connection_close",
     "h_connection_upgrade"}
HeaderStatesOfName ==
    {"h_general", "h_CON", "h_connection", "h_content_length",
     "h_matching_proxy_connection", "h_matching_transfer_encoding",
     "h_transfer_encoding", "h_matching_upgrade", "h_upgrade"}

AllFlags == {"CHUNKED", "CONNECTION_KEEP_ALIVE", "CONNECTION_CLOSE",
             "CONNECTION_UPGRADE", "TRAILING", "UPGRADE"}

\* The values of struct http_parser.
Parsers ==
    [state : States, header_state : HeaderStatesOfName \cup HeaderStatesOfValue,
     flags : SUBSET AllFlags, content_length : 0 .. UMax,
     status_code : StatusCodes \cup {"0"}, version : Versions \cup {"0.0"},
     nread : 0 .. 2, errno : {"OK", "error"}]

\* Type correctness of everything but the script's buffers.
TypeOK ==
    /\ parser \in Parsers
    /\ rest \in Seq(STRING) /\ held \in Seq(STRING) /\ inq \in Seq(STRING)
    /\ marks \subseteq Marks
    /\ {parsing, full, late, stopped, failed, torn} \subseteq BOOLEAN
    /\ link \in {"connecting", "open"} /\ peer \in {"up", "fin", "rst"}
    /\ completed \in Nat /\ left \in 0 .. MaxReplies /\ faults \in 0 .. MaxFaults
    /\ sent \in Seq(Replies)

\* The assertions in http_parser_execute: chunk_size begins with the first byte counted
\* and only in a chunked message; a body that is counted has something left; the header
\* state is one that the value's switch knows; one mark at most is left at the end.
ChunksAsserted ==
    /\ parser.state \in ChunkStates => "CHUNKED" \in parser.flags
    /\ In("chunk_size_start") => Counted.nread = 1
CountAsserted ==
    parser.state \in {"body_identity", "chunk_data"} =>
        parser.content_length \notin {0, UMax}
HeaderStateAsserted ==
    parser.state \in {"header_value", "header_value_lws"} =>
        parser.header_state \in HeaderStatesOfValue
OneMark == Cardinality(marks) <= 1
AssertsHold == ChunksAsserted /\ CountAsserted /\ HeaderStateAsserted /\ OneMark

\* A length that is being read, of a body or of a chunk, never takes the value that
\* stands for "no length": with it, a body would be taken to end with the connection.
LengthIsDeclared ==
    /\ parser.state = "header_value" /\ parser.header_state = "h_content_length" =>
          parser.content_length < UMax
    /\ parser.state \in ChunkStates \ {"chunk_size_start"} => parser.content_length < UMax

\* What response() should be called with for a reply.
Expected(r) == [status |-> r.status, headers |-> r.headers, body |-> r.body]

\* response() is called once for each message, in order, with the status, the headers and
\* the body of that message, however the reads cut them: nothing of an earlier message
\* and nothing of the framing gets in (SCRIPTING: "response(status, headers, body)").
ResponsesWhole ==
    /\ Len(got) = completed
    /\ \A i \in DOMAIN got : got[i] = Expected(sent[i])

\* ... as long as no message of an earlier socket was cut off.
ResponsesAsSent == ~torn => ResponsesWhole

\* The connection is replaced without an error only after a response that ends it, and
\* is always replaced after one, unless the thread is about to stop.
RedialsAsAnnounced ==
    /\ link = "connecting" /\ ~failed /\ completed > 0 => sent[completed].ends # "keep"
    /\ link = "open" /\ completed > 0 /\ sent[completed].ends # "keep" => stopped

\* The parser does what the rest of the model takes it to do (module HttpResponse).
Phase ==
    CASE parser.errno # "OK"                -> "dead"
      [] parser.state = "dead"              -> "dead"
      [] parser.state = StartState          -> "start"
      [] parser.state = "body_identity_eof" -> "eof_body"
      [] OTHER                              -> "body"

Abstract == INSTANCE ResponsePhases WITH
    phase <- Phase, done <- completed, redial <- (link = "connecting")

RefinesPhases == Abstract!Spec

\* A connection that waits for the server has no response outstanding: one whose bytes
\* have all come was counted, one that was cut off made an error.  (Without this a thread
\* would wait for ever, since nothing but the socket wakes the connection.)
NoResponseAwaited ==
    /\ link = "open" /\ Returned /\ ~stopped /\ inq = <<>>
    /\ peer = "up" \/ (peer = "fin" /\ parser.state \in EofIgnored)
    => completed = Len(sent)
===================================================================================
