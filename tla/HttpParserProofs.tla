----------------------------- MODULE HttpParserProofs -----------------------------
(***********************************************************************************)
(* Proofs, for every set of responses, every way the reads cut them, every fault   *)
(* and every width of the length, that the assertions in http_parser_execute hold  *)
(* and that no length that is read takes the value that stands for "no length".    *)
(***********************************************************************************)
EXTENDS HttpParser, FiniteSetTheorems, SequenceTheorems, TLAPS

ValueStates == {"header_value", "header_almost_done", "header_value_lws",
                "header_value_start"}
PlainStates == States \ (ChunkStates \cup ValueStates \cup {"body_identity"})

\* What the parser keeps on its own: the assertions, and what they need from one turn
\* to the next.
Good(ps) ==
    /\ ps \in Parsers
    /\ ps.state \in ChunkStates => "CHUNKED" \in ps.flags
    /\ ps.state = "chunk_size_start" => ps.nread = 0
    /\ ps.state \in {"body_identity", "chunk_data"} => ps.content_length \notin {0, UMax}
    /\ ps.state \in ValueStates => ps.header_state \in HeaderStatesOfValue
    /\ ps.state = "header_value" /\ ps.header_state = "h_content_length" =>
          ps.content_length < UMax
    /\ ps.state \in ChunkStates \ {"chunk_size_start"} => ps.content_length < UMax

\* The mark a state of the parser may have set.
MarksOf(state) ==
    CASE state = "res_status"   -> {"status"}
      [] state = "header_field" -> {"header_field"}
      [] state = "header_value" -> {"header_value"}
      [] state \in {"body_identity", "body_identity_eof", "chunk_data",
                    "chunk_data_almost_done"} -> {"body"}
      [] OTHER -> {}

\* The inductive invariant.
Ind ==
    /\ TypeOK
    /\ Good(parser)
    /\ marks \subseteq MarksOf(parser.state)
    /\ ~parsing => marks = {}

-----------------------------------------------------------------------------------
(* Numbers, sequences, marks.                                                        *)

LEMMA DivTimes ==
    ASSUME NEW a \in Nat, NEW b \in Nat \ {0}
    PROVE  /\ a \div b \in Nat
           /\ (a \div b) * b <= a
  BY SMT

LEMMA Monotone ==
    ASSUME NEW n \in Nat, NEW q \in Nat, NEW b \in Nat, n <= q
    PROVE  n * b \in Nat /\ n * b <= q * b
  BY SMT

\* A number within its limit has room for one more digit below UMax.
LEMMA RoomForADigit ==
    ASSUME NEW n \in Nat, NEW base \in {Dec, Hex}, NEW d \in 0 .. (base - 1),
           Fits(n, base)
    PROVE  n * base + d \in Nat /\ n * base + d < UMax
<1> DEFINE q == (UMax - base) \div base
<1>1. base \in Nat \ {0} /\ UMax \in Nat /\ UMax - base \in Nat
  BY DigitsAssumption
<1>2. q \in Nat /\ q * base <= UMax - base
  BY <1>1, DivTimes
<1>3. n <= q
  BY DEF Fits
<1>4. n * base \in Nat /\ n * base <= q * base
  BY <1>1, <1>2, <1>3, Monotone
<1> HIDE DEF q
<1>5. q * base \in Nat
  BY <1>1, <1>2, Monotone
<1> QED BY <1>1, <1>2, <1>4, <1>5

LEMMA DigitValue ==
    ASSUME NEW c
    PROVE  /\ c \in DOMAIN Digits => Digits[c] \in 0 .. (Hex - 1) /\ Digits[c] < UMax
           /\ IsNum(c) => c \in DOMAIN Digits /\ Digits[c] \in 0 .. (Dec - 1)
  BY DigitsAssumption DEF IsNum

LEMMA PartOfSeq ==
    ASSUME NEW S, NEW s \in Seq(S), NEW i \in Nat \ {0}, NEW j \in Nat, j <= Len(s)
    PROVE  SubSeq(s, i, j) \in Seq(S)
<1>1. \A k \in i .. j : s[k] \in S
  BY LenProperties, ElementOfSeq
<1> QED BY <1>1, SubSeqProperties

LEMMA MarksAreMarks ==
    ASSUME NEW state
    PROVE  MarksOf(state) \subseteq Marks /\ \E m \in Marks : MarksOf(state) \subseteq {m}
  BY DEF MarksOf, Marks

-----------------------------------------------------------------------------------
(* The moves that the actions share.                                                 *)

LEMMA PlainIsGood ==
    ASSUME NEW ps \in Parsers, ps.state \in PlainStates
    PROVE  Good(ps)
  BY DEF Good, PlainStates, ChunkStates, ValueStates

\* COUNT_HEADER_SIZE touches nread alone.
LEMMA CountedFields ==
    ASSUME Good(parser)
    PROVE  /\ Counted \in Parsers
           /\ Counted.state = parser.state /\ Counted.flags = parser.flags
           /\ Counted.header_state = parser.header_state
           /\ Counted.content_length = parser.content_length
           /\ parser.state \in BodyStates => Counted = parser
  BY SMT DEF Good, Counted, Parsers, HeaderStates, BodyStates

LEMMA ToFields ==
    ASSUME Good(parser), NEW state \in States
    PROVE  /\ To(state) \in Parsers
           /\ To(state).state = state /\ To(state).flags = parser.flags
           /\ To(state).header_state = parser.header_state
           /\ To(state).content_length = parser.content_length
<1>1. /\ Counted \in Parsers /\ Counted.flags = parser.flags
      /\ Counted.header_state = parser.header_state
      /\ Counted.content_length = parser.content_length
  BY CountedFields
<1> QED BY <1>1 DEF To, Parsers

LEMMA GoTo ==
    ASSUME Good(parser), NEW state \in PlainStates
    PROVE  Good(To(state)) /\ To(state).state = state /\ To(state) \in Parsers
<1>1. state \in States
  BY DEF PlainStates
<1> QED BY <1>1, ToFields, PlainIsGood

LEMMA InitialParser ==
    HttpParserInit \in Parsers /\ Good(HttpParserInit) /\ HttpParserInit.state = StartState
<1>1. HttpParserInit \in Parsers /\ HttpParserInit.state = StartState
  BY DigitsAssumption
     DEF HttpParserInit, Parsers, States, HeaderStates, StartState, HeaderStatesOfName
<1>2. StartState \in PlainStates
  BY DEF StartState, PlainStates, States, HeaderStates, ChunkStates, ValueStates
<1> QED BY <1>1, <1>2, PlainIsGood

\* A turn of the loop keeps the invariant, when the parser it ends with is good and has
\* a mark only for its state.
LEMMA TurnKeeps ==
    ASSUME Ind, parsing, NEW ps, Good(ps), NEW n \in 0 .. Len(rest), NEW ms,
           ms \subseteq MarksOf(ps.state), Turn(ps, n, ms),
           UNCHANGED <<completed, clockVars, netVars>>
    PROVE  Ind'
<1>1. rest \in Seq(STRING) /\ held \in Seq(STRING) /\ Len(rest) \in Nat
  BY LenProperties DEF Ind, TypeOK
<1>2. rest' \in Seq(STRING)
  BY <1>1, PartOfSeq DEF Turn
<1>3. SubSeq(rest, 1, n) \in Seq(STRING)
  BY <1>1, PartOfSeq
<1>4. held' \in Seq(STRING)
  BY <1>1, <1>3, ConcatProperties, EmptySeq DEF Turn
<1>5. marks' \subseteq Marks /\ marks' \subseteq MarksOf(parser'.state)
  BY MarksAreMarks DEF Turn
<1>6. TypeOK'
  BY <1>2, <1>4, <1>5 DEF Ind, TypeOK, Turn, Good, clockVars, netVars
<1> QED BY <1>5, <1>6 DEF Ind, Turn

LEMMA ConsumeKeeps ==
    ASSUME Ind, NEW state, In(state), NEW ps, Good(ps), marks \subseteq MarksOf(ps.state),
           Consume(ps)
    PROVE  Ind'
<1>1. 1 \in 0 .. Len(rest) /\ parsing
  BY EmptySeq DEF Ind, TypeOK, In
<1> QED BY <1>1, TurnKeeps DEF Consume, Quietly, scriptVars

LEMMA ReexecuteKeeps ==
    ASSUME Ind, NEW state, In(state), NEW ps, Good(ps), marks \subseteq MarksOf(ps.state),
           Reexecute(ps)
    PROVE  Ind'
<1>1. 0 \in 0 .. Len(rest) /\ parsing
  BY LenProperties DEF Ind, TypeOK, In
<1> QED BY <1>1, TurnKeeps DEF Reexecute, Quietly, scriptVars

LEMMA MarkKeeps ==
    ASSUME Ind, NEW state, In(state), NEW m, NEW ps, Good(ps),
           marks \cup {m} \subseteq MarksOf(ps.state), MarkAndConsume(m, ps)
    PROVE  Ind'
<1>1. 1 \in 0 .. Len(rest) /\ parsing
  BY EmptySeq DEF Ind, TypeOK, In
<1> QED BY <1>1, TurnKeeps DEF MarkAndConsume, Quietly, scriptVars

LEMMA CallbackKeeps ==
    ASSUME Ind, NEW state, In(state), NEW m, NEW newbuf, NEW ps, Good(ps),
           marks \ {m} \subseteq MarksOf(ps.state), NEW n \in {0, 1},
           Callback(m, newbuf, ps, n)
    PROVE  Ind'
<1>1. n \in 0 .. Len(rest) /\ parsing
  BY EmptySeq DEF Ind, TypeOK, In
<1> QED BY <1>1, TurnKeeps DEF Callback

LEMMA ReadErrorKeeps ==
    ASSUME Ind, NEW ps, Good(ps), ReadError(ps)
    PROVE  Ind'
<1>1. rest' \in Seq(STRING) /\ held' \in Seq(STRING) /\ inq' \in Seq(STRING)
  BY EmptySeq DEF ReadError, Reconnect
<1>2. marks' = {} /\ parsing' = FALSE /\ parser' = ps
  BY DEF ReadError
<1>3. TypeOK'
  BY <1>1, <1>2 DEF Ind, TypeOK, ReadError, Reconnect, scriptVars, clockVars, Good
<1> QED BY <1>2, <1>3 DEF Ind

LEMMA FailKeeps ==
    ASSUME Ind, Fail
    PROVE  Ind'
<1>1. Good([parser EXCEPT !.errno = "error"])
  BY DEF Ind, Good, Parsers
<1> QED BY <1>1, ReadErrorKeeps DEF Fail

LEMMA NewMessagePlain ==
    ASSUME NEW ps
    PROVE  NewMessage(ps) \in PlainStates /\ MarksOf(NewMessage(ps)) = {}
  BY DEF NewMessage, StartState, PlainStates, States, HeaderStates, ChunkStates,
         ValueStates, MarksOf

\* What response_complete leaves of the invariant.
LEMMA CompleteKeeps ==
    ASSUME Ind, NEW ps, Good(ps), ResponseComplete(ps)
    PROVE  /\ Good(parser') /\ parser'.state \in {ps.state, StartState}
           /\ {late, stopped, failed, torn}' \subseteq BOOLEAN
           /\ link' \in {"connecting", "open"} /\ peer' \in {"up", "fin", "rst"}
           /\ completed' \in Nat /\ left' \in 0 .. MaxReplies /\ faults' \in 0 .. MaxFaults
           /\ sent' \in Seq(Replies) /\ inq' \in Seq(STRING)
<1>1. Good(parser') /\ parser'.state \in {ps.state, StartState}
  <2>1. parser' = ps \/ parser' = HttpParserInit
    BY DEF ResponseComplete
  <2> QED BY <2>1, InitialParser
<1>2. UNCHANGED netVars \/ Reconnect(FALSE)
  BY DEF ResponseComplete
<1>3. late' = late /\ stopped' = (stopped \/ late) /\ completed' = completed + 1
  BY DEF ResponseComplete
<1>4. late' \in BOOLEAN /\ stopped' \in BOOLEAN
  BY <1>3 DEF Ind, TypeOK
<1>5. CASE UNCHANGED netVars
  BY <1>1, <1>3, <1>4, <1>5 DEF Ind, TypeOK, netVars
<1>6. CASE Reconnect(FALSE)
  <2>1. inq' \in Seq(STRING)
    BY <1>6, EmptySeq DEF Reconnect
  <2>2. /\ link' = "connecting" /\ failed' = FALSE /\ peer' = "up"
        /\ UNCHANGED <<sent, left, faults, torn>>
    BY <1>6 DEF Reconnect
  <2>3. failed' \in BOOLEAN /\ torn' \in BOOLEAN
    BY <2>2 DEF Ind, TypeOK
  <2> QED BY <1>1, <1>3, <1>4, <2>1, <2>2, <2>3 DEF Ind, TypeOK
<1> QED BY <1>2, <1>5, <1>6

LEMMA MessageKeeps ==
    ASSUME Ind, NEW state, In(state), marks = {}, NEW ps \in Parsers, MessageComplete(ps)
    PROVE  Ind'
<1> DEFINE end == [ps EXCEPT !.state = NewMessage(ps)]
<1>1. NewMessage(ps) \in PlainStates /\ MarksOf(NewMessage(ps)) = {}
  BY NewMessagePlain
<1>2. end \in Parsers /\ end.state = NewMessage(ps)
  BY <1>1 DEF Parsers, PlainStates
<1>3. Good(end)
  BY <1>1, <1>2, PlainIsGood
<1>4. ResponseComplete(end)
  BY DEF MessageComplete
<1> HIDE DEF end
<1>5. /\ Good(parser') /\ {late, stopped, failed, torn}' \subseteq BOOLEAN
      /\ link' \in {"connecting", "open"} /\ peer' \in {"up", "fin", "rst"}
      /\ completed' \in Nat /\ left' \in 0 .. MaxReplies /\ faults' \in 0 .. MaxFaults
      /\ sent' \in Seq(Replies) /\ inq' \in Seq(STRING)
  BY <1>3, <1>4, CompleteKeeps
<1>6. rest' \in Seq(STRING) /\ held' = <<>> /\ marks' = {} /\ UNCHANGED <<parsing, full>>
  BY HeadTailProperties DEF MessageComplete, Ind, TypeOK, In
<1>7. held' \in Seq(STRING)
  BY <1>6, EmptySeq
<1>8. TypeOK'
  BY <1>5, <1>6, <1>7 DEF Ind, TypeOK, Good
<1> QED BY <1>5, <1>6, <1>8 DEF Ind

-----------------------------------------------------------------------------------
(* The actions of the loop.                                                          *)

\* A step to a plain state, with or without a mark.
LEMMA PlainConsume ==
    ASSUME Ind, NEW state, In(state), MarksOf(state) = {}, NEW ps \in Parsers,
           ps.state \in PlainStates, Consume(ps) \/ Reexecute(ps)
    PROVE  Ind'
<1>1. marks = {} /\ Good(ps)
  BY PlainIsGood DEF Ind, In
<1> QED BY <1>1, ConsumeKeeps, ReexecuteKeeps

LEMMA NoMarks ==
    /\ \A state \in (HeaderStates \cup BodyStates) \
                    {"res_status", "header_field", "header_value", "body_identity",
                     "body_identity_eof", "chunk_data", "chunk_data_almost_done"} :
          MarksOf(state) = {}
    /\ MarksOf("res_status") = {"status"} /\ MarksOf("header_field") = {"header_field"}
    /\ MarksOf("header_value") = {"header_value"}
  BY DEF MarksOf, HeaderStates, BodyStates

LEMMA Plain ==
    PlainStates = {"dead", "start_res", "res_version", "res_first_status_code",
        "res_status_code", "res_status_start", "res_status", "res_line_almost_done",
        "header_field_start", "header_field", "header_value_discard_ws",
        "header_value_discard_ws_almost_done", "header_value_discard_lws",
        "headers_almost_done", "headers_done", "body_identity_eof", "message_done"}
  BY DEF PlainStates, States, HeaderStates, BodyStates, ChunkStates, ValueStates

LEMMA StatusLineKeeps ==
    ASSUME Ind,
           \/ Dead \/ StartRes \/ ResVersion \/ ResFirstStatusCode \/ ResStatusCode
           \/ ResStatusStart \/ ResStatus \/ ResLineAlmostDone
    PROVE  Ind'
<1>1. Good(parser) /\ parser \in Parsers
  BY DEF Ind, Good
<1>2. /\ Counted \in Parsers /\ Counted.state = parser.state
      /\ \A state \in PlainStates : To(state) \in Parsers /\ To(state).state = state
  BY <1>1, CountedFields, GoTo
<1>3. CASE Dead
  BY <1>2, <1>3, FailKeeps, PlainConsume, NoMarks, Plain DEF Dead, In, HeaderStates
<1>4. CASE StartRes
  <2> DEFINE ps == [Counted EXCEPT !.flags = {}, !.content_length = UMax]
  <2>1. ps \in Parsers /\ ps.state = parser.state
    <3>1. UMax \in 0 .. UMax /\ {} \in SUBSET AllFlags
      BY DigitsAssumption
    <3> QED BY <1>2, <3>1 DEF Parsers
  <2>2. [ps EXCEPT !.state = "res_version"] \in Parsers
        /\ [ps EXCEPT !.state = "res_version"].state = "res_version"
    BY <2>1 DEF Parsers, States, HeaderStates
  <2>3. \/ Consume([ps EXCEPT !.state = "res_version"]) \/ Consume(ps) \/ Fail
    BY <1>4 DEF StartRes
  <2>4. In("start_res") /\ MarksOf("start_res") = {}
    BY <1>4, NoMarks DEF StartRes, HeaderStates
  <2> HIDE DEF ps
  <2>5. ps.state \in PlainStates /\ [ps EXCEPT !.state = "res_version"].state \in PlainStates
    BY <2>1, <2>2, <2>4, Plain DEF In
  <2> QED BY <2>1, <2>2, <2>3, <2>4, <2>5, FailKeeps, PlainConsume
<1>5. CASE ResVersion
  <2>1. ch \in Versions =>
           /\ [To("res_first_status_code") EXCEPT !.version = ch] \in Parsers
           /\ [To("res_first_status_code") EXCEPT !.version = ch].state \in PlainStates
    BY <1>2, Plain DEF Parsers
  <2> QED BY <1>5, <2>1, FailKeeps, PlainConsume, NoMarks DEF ResVersion, HeaderStates
<1>6. CASE ResFirstStatusCode
  <2>1. ch \in StatusCodes =>
           /\ [To("res_status_code") EXCEPT !.status_code = ch] \in Parsers
           /\ [To("res_status_code") EXCEPT !.status_code = ch].state \in PlainStates
    BY <1>2, Plain DEF Parsers
  <2>2. In("res_first_status_code") => Counted.state \in PlainStates
    BY <1>2, Plain DEF In
  <2> QED BY <1>2, <1>6, <2>1, <2>2, FailKeeps, PlainConsume, NoMarks
          DEF ResFirstStatusCode, HeaderStates
<1>7. CASE ResStatusCode
  BY <1>2, <1>7, FailKeeps, PlainConsume, NoMarks, Plain DEF ResStatusCode, HeaderStates
<1>8. CASE ResStatusStart
  <2>1. In("res_status_start") /\ marks = {}
    BY <1>8, NoMarks DEF ResStatusStart, Ind, In, HeaderStates
  <2>2. ASSUME MarkAndConsume("status", To("res_status")) PROVE Ind'
    BY <1>1, <2>1, <2>2, GoTo, MarkKeeps, NoMarks, Plain
  <2> QED BY <1>2, <1>8, <2>2, FailKeeps, PlainConsume, NoMarks, Plain
          DEF ResStatusStart, HeaderStates
<1>9. CASE ResStatus
  <2>1. In("res_status") /\ marks \subseteq {"status"} /\ MarksOf("res_status") = {"status"}
    BY <1>9, NoMarks DEF ResStatus, Ind, In
  <2>2. ASSUME NEW state \in {"res_line_almost_done", "header_field_start"},
               Callback("status", buf, To(state), 1)
        PROVE  Ind'
    BY <1>1, <2>1, <2>2, GoTo, CallbackKeeps, NoMarks, Plain
  <2>3. ASSUME Consume(Counted) PROVE Ind'
    <3>1. Good(Counted) /\ Counted.state = "res_status"
      BY <1>2, <2>1, Plain, PlainIsGood DEF In
    <3> QED BY <2>1, <2>3, <3>1, ConsumeKeeps
  <2> QED BY <1>9, <2>2, <2>3 DEF ResStatus
<1>10. CASE ResLineAlmostDone
  BY <1>2, <1>10, FailKeeps, PlainConsume, NoMarks, Plain
     DEF ResLineAlmostDone, Strictly, HeaderStates
<1> QED BY <1>3, <1>4, <1>5, <1>6, <1>7, <1>8, <1>9, <1>10

LEMMA NameStates ==
    ASSUME NEW from, NEW unit
    PROVE  NameState(from, unit) \in HeaderStatesOfName
  BY DEF NameState, HeaderStatesOfName

LEMMA ValueStatesClosed ==
    ASSUME NEW hs, NEW c
    PROVE  /\ ValueStart(hs, c) \in HeaderStatesOfValue
           /\ ValueStart(hs, c) = "h_content_length" => hs = "h_content_length"
           /\ ValueNext(hs, c) \in HeaderStatesOfValue \ {"h_content_length"}
           /\ FlagOf(hs) \subseteq AllFlags /\ FlagOfListItem(hs, c) \subseteq AllFlags
<1>1. ConnectionToken(c) \in HeaderStatesOfValue \ {"h_content_length"}
  BY DEF ConnectionToken, HeaderStatesOfValue
<1>2. ValueStart(hs, c) \in HeaderStatesOfValue
      /\ (ValueStart(hs, c) = "h_content_length" => hs = "h_content_length")
  BY <1>1 DEF ValueStart, HeaderStatesOfValue
<1>3. ValueNext(hs, c) \in HeaderStatesOfValue \ {"h_content_length"}
  <2>1. CASE hs = "h_matching_connection_token_start"
    BY <1>1, <2>1 DEF ValueNext, HeaderStatesOfValue
  <2>2. CASE hs # "h_matching_connection_token_start"
    BY <2>2 DEF ValueNext, HeaderStatesOfValue
  <2> QED BY <2>1, <2>2
<1>4. FlagOf(hs) \subseteq AllFlags /\ FlagOfListItem(hs, c) \subseteq AllFlags
  BY DEF FlagOf, FlagOfListItem, AllFlags
<1> QED BY <1>2, <1>3, <1>4

LEMMA HeaderNameKeeps ==
    ASSUME Ind, HeaderFieldStart \/ HeaderField
    PROVE  Ind'
<1>1. Good(parser) /\ parser \in Parsers
  BY DEF Ind, Good
<1>2. /\ Counted \in Parsers /\ Counted.state = parser.state
      /\ \A state \in PlainStates :
            Good(To(state)) /\ To(state) \in Parsers /\ To(state).state = state
  BY <1>1, CountedFields, GoTo
<1>3. CASE HeaderFieldStart
  <2>1. In("header_field_start") /\ marks = {}
    BY <1>3, NoMarks DEF HeaderFieldStart, Ind, In, HeaderStates
  <2> DEFINE ps == [To("header_field") EXCEPT !.header_state = NameState("", ch)]
  <2>2. ps \in Parsers /\ ps.state = "header_field"
    <3>1. NameState("", ch) \in HeaderStatesOfName
      BY NameStates
    <3>2. To("header_field") \in Parsers /\ To("header_field").state = "header_field"
      BY <1>2, Plain
    <3> QED BY <3>1, <3>2 DEF Parsers
  <2>3. Good(ps)
    <3> HIDE DEF ps
    <3>1. ps.state \in PlainStates
      BY <2>2, Plain
    <3> QED BY <2>2, <3>1, PlainIsGood
  <2> HIDE DEF ps
  <2>4. ASSUME MarkAndConsume("header_field", ps) PROVE Ind'
    BY <2>1, <2>2, <2>3, <2>4, MarkKeeps, NoMarks
  <2>5. \/ Consume(To("headers_almost_done")) \/ Reexecute(To("headers_almost_done"))
        \/ MarkAndConsume("header_field", ps) \/ Fail
    BY <1>3 DEF HeaderFieldStart, ps
  <2>6. MarksOf("header_field_start") = {}
    BY NoMarks DEF HeaderStates
  <2> QED BY <1>2, <2>1, <2>4, <2>5, <2>6, FailKeeps, PlainConsume, Plain
<1>4. CASE HeaderField
  <2>1. In("header_field") /\ marks \subseteq {"header_field"}
    BY <1>4, NoMarks DEF HeaderField, Ind, In
  <2> DEFINE ps == [Counted EXCEPT !.header_state = NameState(@, ch)]
  <2>2. ps \in Parsers /\ ps.state = "header_field"
    <3>1. NameState(Counted.header_state, ch) \in HeaderStatesOfName
      BY NameStates
    <3> QED BY <1>2, <2>1, <3>1 DEF Parsers, In
  <2>3. Good(ps)
    <3> HIDE DEF ps
    <3>1. ps.state \in PlainStates
      BY <2>2, Plain
    <3> QED BY <2>2, <3>1, PlainIsGood
  <2> HIDE DEF ps
  <2>4. ASSUME Consume(ps) PROVE Ind'
    BY <2>1, <2>2, <2>3, <2>4, ConsumeKeeps, NoMarks
  <2>5. ASSUME Callback("header_field", OnHeaderField(buf, held),
                        To("header_value_discard_ws"), 1)
        PROVE  Ind'
    BY <1>2, <2>1, <2>5, CallbackKeeps, Plain
  <2>6. Consume(ps) \/ Fail \/ Callback("header_field", OnHeaderField(buf, held),
                                        To("header_value_discard_ws"), 1)
    BY <1>4 DEF HeaderField, ps
  <2> QED BY <2>4, <2>5, <2>6, FailKeeps
<1> QED BY <1>3, <1>4

\* The first symbol of a value.
LEMMA BeginValueKeeps ==
    ASSUME Ind, NEW state, In(state), MarksOf(state) = {}, BeginValue
    PROVE  Ind'
<1> DEFINE hs == parser.header_state
           ps == [To("header_value") EXCEPT !.header_state = ValueStart(hs, ch)]
           long == [ps EXCEPT !.content_length = Digits[ch]]
           flagged == [ps EXCEPT !.flags = IF hs = "h_upgrade" THEN @ \cup {"UPGRADE"} ELSE @]
<1>1. Good(parser) /\ marks = {}
  BY DEF Ind, In
<1>2. To("header_value") \in Parsers /\ To("header_value").state = "header_value"
  BY <1>1, ToFields DEF States, HeaderStates
<1>3. /\ ps \in Parsers /\ ps.state = "header_value"
      /\ ps.header_state \in HeaderStatesOfValue
      /\ ps.header_state = "h_content_length" => hs = "h_content_length"
  BY <1>2, ValueStatesClosed DEF Parsers
<1> HIDE DEF ps, hs
<1>4. ASSUME IsNum(ch) PROVE Good(long) /\ long.state = "header_value"
  <2>1. Digits[ch] \in 0 .. UMax /\ Digits[ch] < UMax
    BY <1>4, DigitValue, DigitsAssumption
  <2>2. /\ long \in Parsers /\ long.state = "header_value"
        /\ long.content_length < UMax /\ long.header_state \in HeaderStatesOfValue
    BY <1>3, <2>1 DEF Parsers
  <2> QED BY <2>2 DEF Good, ChunkStates, ValueStates
<1>5. ASSUME hs # "h_content_length" PROVE Good(flagged) /\ flagged.state = "header_value"
  <2>1. /\ flagged \in Parsers /\ flagged.state = "header_value"
        /\ flagged.header_state \in HeaderStatesOfValue \ {"h_content_length"}
    BY <1>3, <1>5 DEF Parsers, AllFlags
  <2> QED BY <2>1 DEF Good, ChunkStates, ValueStates
<1>6. \/ Fail
      \/ IsNum(ch) /\ MarkAndConsume("header_value", long)
      \/ hs # "h_content_length" /\ MarkAndConsume("header_value", flagged)
  BY DEF BeginValue, ps, hs
<1>7. MarksOf("header_value") = {"header_value"}
  BY NoMarks
<1> HIDE DEF long, flagged
<1> QED BY <1>1, <1>4, <1>5, <1>6, <1>7, FailKeeps, MarkKeeps

LEMMA ValueSpaceKeeps ==
    ASSUME Ind,
           \/ HeaderValueDiscardWs \/ HeaderValueStart \/ HeaderAlmostDone
           \/ HeaderValueLws \/ HeaderValueDiscardWsAlmostDone \/ HeaderValueDiscardLws
    PROVE  Ind'
<1>1. Good(parser) /\ parser \in Parsers
  BY DEF Ind, Good
<1>2. /\ Counted \in Parsers /\ Counted.state = parser.state
      /\ \A state \in PlainStates :
            Good(To(state)) /\ To(state) \in Parsers /\ To(state).state = state
  BY <1>1, CountedFields, GoTo
<1>3. CASE HeaderValueDiscardWs
  BY <1>2, <1>3, BeginValueKeeps, PlainConsume, NoMarks, Plain
     DEF HeaderValueDiscardWs, HeaderStates, In
<1>4. CASE HeaderValueStart
  BY <1>4, BeginValueKeeps, NoMarks DEF HeaderValueStart, HeaderStates
<1>5. CASE HeaderAlmostDone
  <2>1. In("header_almost_done") /\ marks = {}
    BY <1>5, NoMarks DEF HeaderAlmostDone, Strictly, Ind, In, HeaderStates
  <2>2. Good(To("header_value_lws")) /\ To("header_value_lws").state = "header_value_lws"
    <3>1. parser.header_state \in HeaderStatesOfValue
      BY <1>1, <2>1 DEF Good, ValueStates, In
    <3>2. /\ To("header_value_lws") \in Parsers
          /\ To("header_value_lws").state = "header_value_lws"
          /\ To("header_value_lws").header_state = parser.header_state
      BY <1>1, ToFields DEF States, HeaderStates
    <3> QED BY <3>1, <3>2 DEF Good, ChunkStates, ValueStates
  <2>3. Consume(To("header_value_lws")) \/ Fail
    BY <1>5 DEF HeaderAlmostDone, Strictly
  <2> QED BY <2>1, <2>2, <2>3, FailKeeps, ConsumeKeeps
<1>6. CASE HeaderValueLws
  <2>1. In("header_value_lws") /\ MarksOf("header_value_lws") = {} /\ marks = {}
    BY <1>6, NoMarks DEF HeaderValueLws, Ind, In, HeaderStates
  <2>2. Good(To("header_value_start"))
    <3>1. parser.header_state \in HeaderStatesOfValue
      BY <1>1, <2>1 DEF Good, ValueStates, In
    <3>2. /\ To("header_value_start") \in Parsers
          /\ To("header_value_start").state = "header_value_start"
          /\ To("header_value_start").header_state = parser.header_state
      BY <1>1, ToFields DEF States, HeaderStates
    <3> QED BY <3>1, <3>2 DEF Good, ChunkStates, ValueStates
  <2> DEFINE ps == [To("header_field_start") EXCEPT
                      !.flags = @ \cup FlagOf(parser.header_state)]
  <2>3. ps \in Parsers /\ ps.state = "header_field_start"
    <3>1. FlagOf(parser.header_state) \subseteq AllFlags
      BY ValueStatesClosed
    <3>2. To("header_field_start") \in Parsers
          /\ To("header_field_start").state = "header_field_start"
      BY <1>2, Plain
    <3> QED BY <3>1, <3>2 DEF Parsers
  <2>4. Reexecute(To("header_value_start")) \/ Reexecute(ps)
    BY <1>6 DEF HeaderValueLws
  <2> HIDE DEF ps
  <2>5. ASSUME Reexecute(ps) PROVE Ind'
    BY <2>1, <2>3, <2>5, PlainConsume, Plain
  <2>6. ASSUME Reexecute(To("header_value_start")) PROVE Ind'
    BY <2>1, <2>2, <2>6, ReexecuteKeeps
  <2> QED BY <2>4, <2>5, <2>6
<1>7. CASE HeaderValueDiscardWsAlmostDone
  BY <1>2, <1>7, FailKeeps, PlainConsume, NoMarks, Plain
     DEF HeaderValueDiscardWsAlmostDone, Strictly, HeaderStates
<1>8. CASE HeaderValueDiscardLws
  <2>1. /\ In("header_value_discard_lws") /\ MarksOf("header_value_discard_lws") = {}
        /\ marks = {} /\ parsing
    BY <1>8, NoMarks DEF HeaderValueDiscardLws, Ind, In, HeaderStates
  <2> DEFINE ps == [To("header_field_start") EXCEPT
                      !.flags = @ \cup FlagOf(parser.header_state)]
  <2>2. ps \in Parsers /\ ps.state = "header_field_start"
    <3>1. FlagOf(parser.header_state) \subseteq AllFlags
      BY ValueStatesClosed
    <3>2. To("header_field_start") \in Parsers
          /\ To("header_field_start").state = "header_field_start"
      BY <1>2, Plain
    <3> QED BY <3>1, <3>2 DEF Parsers
  <2>3. \/ Consume(To("header_value_discard_ws"))
        \/ Turn(ps, 0, marks) /\ UNCHANGED <<got, completed, clockVars, netVars>>
    BY <1>8 DEF HeaderValueDiscardLws
  <2> HIDE DEF ps
  <2>4. Good(ps)
    BY <2>2, PlainIsGood, Plain
  <2>5. ASSUME Turn(ps, 0, marks), UNCHANGED <<got, completed, clockVars, netVars>>
        PROVE  Ind'
    <3>1. 0 \in 0 .. Len(rest)
      BY LenProperties DEF Ind, TypeOK
    <3> QED BY <2>1, <2>4, <2>5, <3>1, TurnKeeps
  <2>6. ASSUME Consume(To("header_value_discard_ws")) PROVE Ind'
    BY <1>2, <2>1, <2>6, PlainConsume, Plain
  <2> QED BY <2>3, <2>5, <2>6
<1> QED BY <1>3, <1>4, <1>5, <1>6, <1>7, <1>8

LEMMA HeaderValueKeeps ==
    ASSUME Ind, HeaderValue
    PROVE  Ind'
<1> DEFINE hs == parser.header_state
           n  == parser.content_length
           another == [Counted EXCEPT !.content_length = AnotherDigit(@, Dec)]
           next == [Counted EXCEPT !.header_state = ValueNext(hs, ch),
                                   !.flags = @ \cup FlagOfListItem(hs, ch)]
<1>1. /\ In("header_value") /\ parser \in Parsers /\ Good(parser)
      /\ hs \in HeaderStatesOfValue
      /\ marks \subseteq {"header_value"} /\ MarksOf("header_value") = {"header_value"}
  BY NoMarks DEF HeaderValue, Ind, In, Good, ValueStates
<1>2. /\ Counted \in Parsers /\ Counted.state = "header_value"
      /\ Counted.header_state = hs /\ Counted.content_length = n
      /\ Counted.flags = parser.flags
  BY <1>1, CountedFields DEF In
<1>3. Good(Counted)
  BY <1>1, <1>2 DEF Good, In, ChunkStates, ValueStates
<1>4. ASSUME hs = "h_content_length", IsNum(ch), Fits(n, Dec)
      PROVE  Good(another) /\ another.state = "header_value"
  <2>1. n \in Nat /\ Digits[ch] \in 0 .. (Dec - 1)
    BY <1>1, <1>4, DigitValue, DigitsAssumption DEF Parsers
  <2>2. AnotherDigit(n, Dec) \in 0 .. UMax /\ AnotherDigit(n, Dec) < UMax
    <3>1. n * Dec + Digits[ch] \in Nat /\ n * Dec + Digits[ch] < UMax
      BY <1>4, <2>1, RoomForADigit
    <3> QED BY <3>1, DigitsAssumption DEF AnotherDigit
  <2>3. /\ another \in Parsers /\ another.state = "header_value"
        /\ another.header_state = hs /\ another.content_length < UMax
    BY <1>2, <2>2 DEF Parsers
  <2> HIDE DEF another
  <2> QED BY <1>1, <2>3 DEF Good, ChunkStates, ValueStates
<1>5. ASSUME hs # "h_content_length" PROVE Good(next) /\ next.state = "header_value"
  <2>1. /\ ValueNext(hs, ch) \in HeaderStatesOfValue \ {"h_content_length"}
        /\ FlagOfListItem(hs, ch) \subseteq AllFlags
    BY ValueStatesClosed
  <2>2. /\ next \in Parsers /\ next.state = "header_value"
        /\ next.header_state \in HeaderStatesOfValue \ {"h_content_length"}
    BY <1>2, <2>1 DEF Parsers
  <2> HIDE DEF next
  <2> QED BY <2>2 DEF Good, ChunkStates, ValueStates
<1>6. Good(To("header_almost_done"))
  <2>1. /\ To("header_almost_done") \in Parsers
        /\ To("header_almost_done").state = "header_almost_done"
        /\ To("header_almost_done").header_state = hs
    BY <1>1, ToFields DEF States, HeaderStates
  <2> QED BY <1>1, <2>1 DEF Good, ChunkStates, ValueStates
<1>7. \/ \E k \in {0, 1} : Callback("header_value", OnHeaderValue(buf, held),
                                    To("header_almost_done"), k)
      \/ hs = "h_content_length" /\ ContentLengthDigit
      \/ hs # "h_content_length" /\ Consume(next)
  BY DEF HeaderValue
<1>8. ASSUME NEW k \in {0, 1}, Callback("header_value", OnHeaderValue(buf, held),
                                        To("header_almost_done"), k)
      PROVE  Ind'
  BY <1>1, <1>6, <1>8, CallbackKeeps
<1>9. ASSUME hs = "h_content_length", ContentLengthDigit PROVE Ind'
  <2>1. \/ Consume(Counted) \/ Fail
        \/ IsNum(ch) /\ Fits(n, Dec) /\ Consume(another)
    BY <1>2, <1>9 DEF ContentLengthDigit
  <2> HIDE DEF another, hs, n
  <2> QED BY <1>1, <1>2, <1>3, <1>4, <1>9, <2>1, FailKeeps, ConsumeKeeps
<1>10. ASSUME hs # "h_content_length", Consume(next) PROVE Ind'
  <2> HIDE DEF next, hs, n
  <2> QED BY <1>1, <1>5, <1>10, ConsumeKeeps
<1> QED BY <1>7, <1>8, <1>9, <1>10

-----------------------------------------------------------------------------------
(* The end of the headers, bodies and chunks.                                        *)

LEMMA HeadersAlmostDoneKeeps ==
    ASSUME Ind, HeadersAlmostDone
    PROVE  Ind'
<1>1. In("headers_almost_done") /\ marks = {} /\ MarksOf("headers_almost_done") = {}
  BY NoMarks DEF HeadersAlmostDone, Strictly, Ind, In, HeaderStates
<1>2. /\ Counted \in Parsers
      /\ To("headers_done") \in Parsers /\ To("headers_done").state = "headers_done"
  BY CountedFields, GoTo, Plain DEF Ind
<1>3. MessageComplete(Counted) \/ Reexecute(To("headers_done")) \/ Fail
  BY DEF HeadersAlmostDone, Strictly
<1> QED BY <1>1, <1>2, <1>3, FailKeeps, MessageKeeps, PlainConsume, Plain

LEMMA UpgradeKeeps ==
    ASSUME Ind, NEW state, In(state), marks = {}, NEW ps \in Parsers, UpgradeComplete(ps)
    PROVE  Ind'
<1> DEFINE end == [ps EXCEPT !.state = NewMessage(ps)]
<1>1. NewMessage(ps) \in PlainStates /\ MarksOf(NewMessage(ps)) = {}
  BY NewMessagePlain
<1>2. end \in Parsers /\ end.state = NewMessage(ps)
  BY <1>1 DEF Parsers, PlainStates
<1>3. Good(end)
  BY <1>1, <1>2, PlainIsGood
<1>4. ResponseComplete(end)
  BY DEF UpgradeComplete
<1> HIDE DEF end
<1>5. /\ Good(parser') /\ {late, stopped, failed, torn}' \subseteq BOOLEAN
      /\ link' \in {"connecting", "open"} /\ peer' \in {"up", "fin", "rst"}
      /\ completed' \in Nat /\ left' \in 0 .. MaxReplies /\ faults' \in 0 .. MaxFaults
      /\ sent' \in Seq(Replies) /\ inq' \in Seq(STRING)
  BY <1>3, <1>4, CompleteKeeps
<1>6. /\ rest' \in Seq(STRING) /\ held' = <<>> /\ marks' = {} /\ parsing' = FALSE
      /\ full' = (full /\ inq' # <<>>)
  BY HeadTailProperties DEF UpgradeComplete, Ind, TypeOK, In
<1>7. held' \in Seq(STRING) /\ full' \in BOOLEAN
  BY <1>6, EmptySeq DEF Ind, TypeOK
<1>8. TypeOK'
  BY <1>5, <1>6, <1>7 DEF Ind, TypeOK, Good
<1> QED BY <1>5, <1>6, <1>8 DEF Ind

LEMMA HeadersDoneKeeps ==
    ASSUME Ind, HeadersDone
    PROVE  Ind'
<1> DEFINE to(state) == [HeadOver EXCEPT !.state = state]
<1>1. In("headers_done") /\ marks = {} /\ MarksOf("headers_done") = {}
  BY NoMarks DEF HeadersDone, Strictly, Ind, In, HeaderStates
<1>2. Counted \in Parsers
  BY CountedFields DEF Ind
<1>3. HeadOver \in Parsers /\ HeadOver.nread = 0
  BY <1>2 DEF HeadOver, Parsers
<1>4. ASSUME NEW state \in States
      PROVE  /\ to(state) \in Parsers /\ to(state).state = state
             /\ to(state).flags = HeadOver.flags /\ to(state).nread = 0
             /\ to(state).content_length = HeadOver.content_length
  BY <1>3 DEF Parsers
<1>5. \/ Fail \/ UpgradeComplete(HeadOver) \/ MessageComplete(HeadOver)
      \/ "CHUNKED" \in HeadOver.flags /\ Consume(to("chunk_size_start"))
      \/ HeadOver.content_length \notin {0, UMax} /\ Consume(to("body_identity"))
      \/ Consume(to("body_identity_eof"))
  BY DEF HeadersDone, Strictly, BodyBegins
<1>6. {"chunk_size_start", "body_identity", "body_identity_eof"} \subseteq States
  BY DEF States, HeaderStates, BodyStates
<1>7. ASSUME "CHUNKED" \in HeadOver.flags PROVE Good(to("chunk_size_start"))
  <2> HIDE DEF to
  <2> QED BY <1>4, <1>6, <1>7 DEF Good, ValueStates
<1>8. ASSUME HeadOver.content_length \notin {0, UMax} PROVE Good(to("body_identity"))
  <2> HIDE DEF to
  <2> QED BY <1>4, <1>6, <1>8 DEF Good, ChunkStates, ValueStates
<1>9. to("body_identity_eof") \in Parsers
      /\ to("body_identity_eof").state \in PlainStates
  <2> HIDE DEF to
  <2> QED BY <1>4, <1>6, Plain
<1> HIDE DEF to
<1> QED BY <1>1, <1>3, <1>5, <1>7, <1>8, <1>9, FailKeeps, UpgradeKeeps, MessageKeeps,
           ConsumeKeeps, PlainConsume

\* What a turn takes of a body that is counted.
LEMMA ToReadSmall ==
    ASSUME Ind, NEW state, In(state), parser.content_length # 0
    PROVE  /\ ToRead \in Nat /\ ToRead \in 1 .. Len(rest)
           /\ parser.content_length - ToRead \in 0 .. UMax
           /\ parser.content_length - ToRead < UMax
<1>1. Len(rest) \in Nat \ {0}
  BY EmptySeq DEF Ind, TypeOK, In
<1>2. parser.content_length \in 0 .. UMax /\ UMax \in Nat
  BY DigitsAssumption DEF Ind, Good, Parsers
<1> QED BY <1>1, <1>2 DEF ToRead

LEMMA BodyKeeps ==
    ASSUME Ind, BodyIdentity \/ BodyIdentityEof \/ MessageDone
    PROVE  Ind'
<1>1. Good(parser) /\ parser \in Parsers
  BY DEF Ind, Good
<1>2. /\ MarksOf("body_identity") = {"body"} /\ MarksOf("body_identity_eof") = {"body"}
      /\ MarksOf("message_done") = {}
  BY DEF MarksOf
<1>3. CASE BodyIdentity
  <2> DEFINE ps == [Counted EXCEPT !.content_length = @ - ToRead]
  <2>1. In("body_identity") /\ Counted = parser /\ marks \subseteq {"body"}
    BY <1>2, <1>3, CountedFields DEF BodyIdentity, Ind, In, BodyStates
  <2>2. parser.content_length # 0
    BY <1>1, <2>1 DEF Good, In
  <2>3. /\ ToRead \in 1 .. Len(rest) /\ ToRead \in Nat
        /\ parser.content_length - ToRead \in 0 .. UMax
        /\ parser.content_length - ToRead < UMax
    BY <2>1, <2>2, ToReadSmall
  <2>4. /\ ps \in Parsers /\ ps.state = "body_identity"
        /\ ps.content_length < UMax /\ ps.content_length = parser.content_length - ToRead
    BY <1>1, <2>1, <2>3 DEF Parsers, In
  <2> HIDE DEF ps
  <2>5. CASE ps.content_length = 0
    <3>1. /\ parser' = [ps EXCEPT !.state = "message_done"]
          /\ rest' = SubSeq(rest, ToRead, Len(rest)) /\ held' = <<>>
          /\ marks' = marks \ {"body"}
          /\ UNCHANGED <<parsing, full, got, completed, clockVars, netVars>>
      BY <1>3, <2>5 DEF BodyIdentity, ps
    <3>2. parser' \in Parsers /\ parser'.state = "message_done"
      BY <2>4, <3>1 DEF Parsers, States, BodyStates
    <3>3. Good(parser')
      BY <3>2, PlainIsGood, Plain
    <3>4. rest \in Seq(STRING) /\ Len(rest) \in Nat
      BY LenProperties DEF Ind, TypeOK
    <3>5. rest' \in Seq(STRING) /\ held' \in Seq(STRING)
      BY <2>3, <3>1, <3>4, PartOfSeq, EmptySeq
    <3>6. marks' = {}
      BY <2>1, <3>1
    <3>7. TypeOK'
      BY <3>1, <3>2, <3>5, <3>6 DEF Ind, TypeOK, clockVars, netVars
    <3> QED BY <3>3, <3>6, <3>7 DEF Ind
  <2>6. CASE ps.content_length # 0
    <3>1. Turn(ps, ToRead, marks \cup {"body"}) /\ Quietly
      BY <1>3, <2>6 DEF BodyIdentity, ps
    <3>2. Good(ps)
      BY <2>4, <2>6, DigitsAssumption DEF Good, ChunkStates, ValueStates
    <3>3. marks \cup {"body"} \subseteq MarksOf(ps.state)
      BY <1>2, <2>1, <2>4
    <3>4. ToRead \in 0 .. Len(rest) /\ parsing
      BY <2>1, <2>3 DEF In
    <3> QED BY <3>1, <3>2, <3>3, <3>4, TurnKeeps DEF Quietly, scriptVars
  <2> QED BY <2>5, <2>6
<1>4. CASE BodyIdentityEof
  <2>1. In("body_identity_eof") /\ Counted = parser /\ marks \subseteq {"body"}
    BY <1>2, <1>4, CountedFields DEF BodyIdentityEof, Ind, In, BodyStates
  <2>2. Len(rest) \in 0 .. Len(rest) /\ parsing
    BY <2>1, LenProperties DEF Ind, TypeOK, In
  <2>3. marks \cup {"body"} \subseteq MarksOf(parser.state)
    BY <1>2, <2>1 DEF In
  <2> QED BY <1>1, <1>4, <2>1, <2>2, <2>3, TurnKeeps DEF BodyIdentityEof, Quietly, scriptVars
<1>5. CASE MessageDone
  <2>1. In("message_done") /\ marks = {} /\ Counted \in Parsers
    BY <1>2, <1>5, CountedFields DEF MessageDone, Ind, In
  <2> QED BY <1>5, <2>1, MessageKeeps DEF MessageDone
<1> QED BY <1>3, <1>4, <1>5

\* A parser in a state of a chunk.
LEMMA ChunkIsGood ==
    ASSUME NEW ps \in Parsers, "CHUNKED" \in ps.flags, ps.content_length < UMax,
           ps.state \in {"chunk_size", "chunk_parameters", "chunk_size_almost_done",
                         "chunk_data_almost_done", "chunk_data_done"}
    PROVE  Good(ps)
  BY DEF Good, ChunkStates, ValueStates

LEMMA ChunkSizeKeeps ==
    ASSUME Ind, ChunkSizeStart \/ ChunkSize \/ ChunkParameters \/ ChunkSizeAlmostDone
    PROVE  Ind'
<1>1. Good(parser) /\ parser \in Parsers /\ UMax \in Nat
  BY DigitsAssumption DEF Ind, Good
<1>2. /\ Counted \in Parsers /\ Counted.state = parser.state
      /\ Counted.flags = parser.flags /\ Counted.content_length = parser.content_length
  BY <1>1, CountedFields
<1>3. \A state \in States :
         /\ To(state) \in Parsers /\ To(state).state = state
         /\ To(state).flags = parser.flags
         /\ To(state).content_length = parser.content_length
  BY <1>1, ToFields
<1>4. {"chunk_size", "chunk_parameters", "chunk_size_almost_done", "chunk_data",
       "header_field_start"} \subseteq States
  BY DEF States, HeaderStates, BodyStates
<1>5. MarksOf("chunk_size_start") = {} /\ MarksOf("chunk_size") = {}
      /\ MarksOf("chunk_parameters") = {} /\ MarksOf("chunk_size_almost_done") = {}
  BY DEF MarksOf
<1>6. CASE ChunkSizeStart
  <2> DEFINE ps == [To("chunk_size") EXCEPT !.content_length = Digits[ch]]
  <2>1. In("chunk_size_start") /\ marks = {} /\ "CHUNKED" \in parser.flags
    BY <1>1, <1>5, <1>6 DEF ChunkSizeStart, Ind, In, Good, ChunkStates
  <2>2. ASSUME ch \in DOMAIN Digits PROVE Good(ps)
    <3>1. Digits[ch] \in 0 .. UMax /\ Digits[ch] < UMax
      BY <2>2, DigitValue, DigitsAssumption
    <3>2. /\ ps \in Parsers /\ ps.state = "chunk_size" /\ "CHUNKED" \in ps.flags
          /\ ps.content_length < UMax
      BY <1>3, <1>4, <2>1, <3>1 DEF Parsers
    <3> HIDE DEF ps
    <3> QED BY <3>2, ChunkIsGood
  <2>3. Fail \/ (ch \in DOMAIN Digits /\ Consume(ps))
    BY <1>6 DEF ChunkSizeStart
  <2> HIDE DEF ps
  <2> QED BY <2>1, <2>2, <2>3, FailKeeps, ConsumeKeeps
<1>7. CASE ChunkSize
  <2> DEFINE another == [Counted EXCEPT !.content_length = AnotherDigit(@, Hex)]
  <2>1. /\ In("chunk_size") /\ marks = {} /\ "CHUNKED" \in parser.flags
        /\ parser.content_length < UMax
    BY <1>1, <1>5, <1>7 DEF ChunkSize, Ind, In, Good, ChunkStates
  <2>2. ASSUME ch \in DOMAIN Digits, Fits(parser.content_length, Hex) PROVE Good(another)
    <3>1. parser.content_length \in Nat /\ Digits[ch] \in 0 .. (Hex - 1)
      BY <1>1, <2>2, DigitValue DEF Parsers
    <3>2. LET c == parser.content_length * Hex + Digits[ch] IN c \in Nat /\ c < UMax
      BY <2>2, <3>1, RoomForADigit
    <3>3. AnotherDigit(parser.content_length, Hex) \in 0 .. UMax
          /\ AnotherDigit(parser.content_length, Hex) < UMax
      BY <1>1, <3>2 DEF AnotherDigit
    <3>4. /\ another \in Parsers /\ another.state = "chunk_size"
          /\ "CHUNKED" \in another.flags /\ another.content_length < UMax
      BY <1>2, <2>1, <3>3 DEF Parsers, In
    <3> HIDE DEF another
    <3> QED BY <3>4, ChunkIsGood
  <2>3. Good(To("chunk_size_almost_done")) /\ Good(To("chunk_parameters"))
    BY <1>3, <1>4, <2>1, ChunkIsGood
  <2>4. \/ Fail \/ Consume(To("chunk_size_almost_done")) \/ Consume(To("chunk_parameters"))
        \/ ch \in DOMAIN Digits /\ Fits(parser.content_length, Hex) /\ Consume(another)
    BY <1>7 DEF ChunkSize
  <2> HIDE DEF another
  <2> QED BY <2>1, <2>2, <2>3, <2>4, FailKeeps, ConsumeKeeps
<1>8. CASE ChunkParameters
  <2>1. /\ In("chunk_parameters") /\ marks = {} /\ "CHUNKED" \in parser.flags
        /\ parser.content_length < UMax
    BY <1>1, <1>5, <1>8 DEF ChunkParameters, Ind, In, Good, ChunkStates
  <2>2. Good(To("chunk_size_almost_done")) /\ Good(Counted)
    BY <1>2, <1>3, <1>4, <2>1, ChunkIsGood DEF In
  <2> QED BY <1>8, <2>1, <2>2, ConsumeKeeps DEF ChunkParameters
<1>9. CASE ChunkSizeAlmostDone
  <2> DEFINE ps == [Counted EXCEPT !.nread = 0]
             trailer == [ps EXCEPT !.state = "header_field_start",
                                   !.flags = @ \cup {"TRAILING"}]
             data == [ps EXCEPT !.state = "chunk_data"]
  <2>1. /\ In("chunk_size_almost_done") /\ marks = {} /\ "CHUNKED" \in parser.flags
        /\ parser.content_length < UMax
    BY <1>1, <1>5, <1>9 DEF ChunkSizeAlmostDone, Strictly, Ind, In, Good, ChunkStates
  <2>2. /\ ps \in Parsers /\ ps.flags = parser.flags
        /\ ps.content_length = parser.content_length
    BY <1>2 DEF Parsers
  <2>3. \/ Fail
        \/ Consume(trailer)
        \/ ps.content_length # 0 /\ Consume(data)
    BY <1>9 DEF ChunkSizeAlmostDone, Strictly
  <2> HIDE DEF ps
  <2>4. trailer \in Parsers /\ trailer.state = "header_field_start"
    <3>1. ps.flags \cup {"TRAILING"} \in SUBSET AllFlags
      BY <2>2 DEF Parsers, AllFlags
    <3>2. "header_field_start" \in States
      BY <1>4
    <3> HIDE DEF ps
    <3> QED BY <2>2, <3>1, <3>2 DEF Parsers
  <2>5. /\ data \in Parsers /\ data.state = "chunk_data" /\ data.flags = parser.flags
        /\ data.content_length = parser.content_length
    BY <1>4, <2>2 DEF Parsers
  <2> HIDE DEF data, trailer
  <2>6. ASSUME ps.content_length # 0 PROVE Good(data)
    <3>1. data.content_length \notin {0, UMax}
      BY <1>1, <2>1, <2>2, <2>5, <2>6 DEF Parsers
    <3> QED BY <2>1, <2>5, <3>1 DEF Good, ValueStates, ChunkStates
  <2>7. Good(trailer)
    BY <2>4, PlainIsGood, Plain
  <2> QED BY <2>1, <2>3, <2>6, <2>7, FailKeeps, ConsumeKeeps
<1> QED BY <1>6, <1>7, <1>8, <1>9

LEMMA ChunkDataKeeps ==
    ASSUME Ind, ChunkData \/ ChunkDataAlmostDone \/ ChunkDataDone
    PROVE  Ind'
<1>1. Good(parser) /\ parser \in Parsers /\ UMax \in Nat
  BY DigitsAssumption DEF Ind, Good
<1>2. \A state \in States :
         /\ To(state) \in Parsers /\ To(state).state = state
         /\ To(state).flags = parser.flags
         /\ To(state).content_length = parser.content_length
  BY <1>1, ToFields
<1>3. {"chunk_data_almost_done", "chunk_data_done", "chunk_size_start"} \subseteq States
  BY DEF States, HeaderStates, BodyStates
<1>4. /\ MarksOf("chunk_data") = {"body"} /\ MarksOf("chunk_data_almost_done") = {"body"}
      /\ MarksOf("chunk_data_done") = {}
  BY DEF MarksOf
<1>5. CASE ChunkData
  <2> DEFINE ps == [Counted EXCEPT !.content_length = @ - ToRead]
             over == [ps EXCEPT !.state = "chunk_data_almost_done"]
  <2>1. /\ In("chunk_data") /\ Counted = parser /\ marks \subseteq {"body"}
        /\ "CHUNKED" \in parser.flags /\ parser.content_length # 0
    BY <1>1, <1>4, <1>5, CountedFields
       DEF ChunkData, Ind, In, BodyStates, Good, ChunkStates
  <2>2. /\ ToRead \in 1 .. Len(rest) /\ ToRead \in Nat
        /\ parser.content_length - ToRead \in 0 .. UMax
        /\ parser.content_length - ToRead < UMax
    BY <2>1, ToReadSmall
  <2>3. /\ ps \in Parsers /\ ps.state = "chunk_data" /\ "CHUNKED" \in ps.flags
        /\ ps.content_length < UMax
    BY <1>1, <2>1, <2>2 DEF Parsers, In
  <2>4. \/ ps.content_length = 0 /\ Turn(over, ToRead, marks \cup {"body"}) /\ Quietly
        \/ ps.content_length # 0 /\ Turn(ps, ToRead, marks \cup {"body"}) /\ Quietly
    BY <1>5 DEF ChunkData
  <2> HIDE DEF ps
  <2>5. /\ over \in Parsers /\ over.state = "chunk_data_almost_done"
        /\ "CHUNKED" \in over.flags /\ over.content_length < UMax
    BY <1>3, <2>3 DEF Parsers
  <2> HIDE DEF over
  <2>6. Good(over)
    BY <2>5, ChunkIsGood
  <2>7. ASSUME ps.content_length # 0 PROVE Good(ps)
    BY <1>1, <2>3, <2>7 DEF Good, ValueStates, ChunkStates
  <2>8. /\ marks \cup {"body"} \subseteq MarksOf(over.state)
        /\ marks \cup {"body"} \subseteq MarksOf(ps.state)
        /\ ToRead \in 0 .. Len(rest) /\ parsing
    BY <1>4, <2>1, <2>2, <2>3, <2>5 DEF In
  <2> QED BY <2>4, <2>6, <2>7, <2>8, TurnKeeps DEF Quietly, scriptVars
<1>6. CASE ChunkDataAlmostDone
  <2>1. /\ In("chunk_data_almost_done") /\ marks \subseteq {"body"}
        /\ "CHUNKED" \in parser.flags /\ parser.content_length < UMax
    BY <1>1, <1>4, <1>6 DEF ChunkDataAlmostDone, Strictly, Ind, In, Good, ChunkStates
  <2>2. Good(To("chunk_data_done"))
    BY <1>2, <1>3, <2>1, ChunkIsGood
  <2>3. Fail \/ Callback("body", OnBody(buf, held), To("chunk_data_done"), 1)
    BY <1>6 DEF ChunkDataAlmostDone, Strictly
  <2> QED BY <2>1, <2>2, <2>3, FailKeeps, CallbackKeeps
<1>7. CASE ChunkDataDone
  <2> DEFINE ps == [To("chunk_size_start") EXCEPT !.nread = 0]
  <2>1. In("chunk_data_done") /\ marks = {} /\ "CHUNKED" \in parser.flags
    BY <1>1, <1>4, <1>7 DEF ChunkDataDone, Strictly, Ind, In, Good, ChunkStates
  <2>2. /\ ps \in Parsers /\ ps.state = "chunk_size_start" /\ "CHUNKED" \in ps.flags
        /\ ps.nread = 0
    BY <1>2, <1>3, <2>1 DEF Parsers
  <2>3. Fail \/ Consume(ps)
    BY <1>7 DEF ChunkDataDone, Strictly
  <2> HIDE DEF ps
  <2>4. Good(ps)
    BY <2>2 DEF Good, ValueStates
  <2> QED BY <2>1, <2>3, <2>4, FailKeeps, ConsumeKeeps
<1> QED BY <1>5, <1>6, <1>7

-----------------------------------------------------------------------------------
(* The calls of http_parser_execute, the socket, the server.                         *)

LEMMA CallKeeps ==
    ASSUME Ind, Read \/ EndOfInput \/ Unparsed
    PROVE  Ind'
<1>1. CASE Read
  <2>1. PICK n \in 1 .. RecvBuf : /\ n <= Len(inq)
                                  /\ rest' = SubSeq(inq, 1, n)
                                  /\ inq' = SubSeq(inq, n + 1, Len(inq))
                                  /\ full' = (n = RecvBuf)
    BY <1>1 DEF Read
  <2>2. inq \in Seq(STRING) /\ Len(inq) \in Nat /\ n \in Nat
    BY LenProperties, RepliesAssumption DEF Ind, TypeOK
  <2>3. rest' \in Seq(STRING) /\ inq' \in Seq(STRING)
    BY <2>1, <2>2, PartOfSeq
  <2>4. /\ parsing' = TRUE /\ marks' = MarksAtBegin /\ held' = <<>> /\ full' \in BOOLEAN
        /\ UNCHANGED <<parser, scriptVars, clockVars, link, failed, peer, sent, left,
                       faults, torn>>
    BY <1>1, <2>1 DEF Read
  <2>5. MarksAtBegin \subseteq MarksOf(parser.state)
    BY DEF MarksAtBegin, MarksOf
  <2>6. held' \in Seq(STRING) /\ marks' \subseteq Marks
    BY <2>4, <2>5, MarksAreMarks, EmptySeq
  <2>7. TypeOK'
    BY <2>3, <2>4, <2>6 DEF Ind, TypeOK, scriptVars, clockVars
  <2> QED BY <2>4, <2>5, <2>7 DEF Ind
<1>2. CASE EndOfInput
  <2>1. /\ marks' = {} /\ held' = <<>> /\ parsing' = FALSE
        /\ full' = (full /\ inq # <<>>)
        /\ UNCHANGED <<parser, rest, got, completed, clockVars, netVars>>
    BY <1>2 DEF EndOfInput
  <2>2. held' \in Seq(STRING) /\ full' \in BOOLEAN
    BY <2>1, EmptySeq DEF Ind, TypeOK
  <2>3. TypeOK'
    BY <2>1, <2>2 DEF Ind, TypeOK, clockVars, netVars
  <2> QED BY <2>1, <2>3 DEF Ind
<1>3. CASE Unparsed
  BY <1>3, ReadErrorKeeps DEF Unparsed, Ind
<1> QED BY <1>1, <1>2, <1>3

LEMMA SocketKeeps ==
    ASSUME Ind, ReadEof \/ ReadReset \/ SocketConnected \/ TimeIsUp \/ TimerStops \/ Idle
    PROVE  Ind'
<1>1. CASE ReadEof
  <2>1. CASE parser.state = "body_identity_eof" /\ ResponseComplete(parser)
             /\ UNCHANGED callVars
    <3>1. marks = {} /\ Good(parser)
      BY <1>1 DEF ReadEof, Returned, Ind
    <3>2. /\ Good(parser') /\ {late, stopped, failed, torn}' \subseteq BOOLEAN
          /\ link' \in {"connecting", "open"} /\ peer' \in {"up", "fin", "rst"}
          /\ completed' \in Nat /\ left' \in 0 .. MaxReplies
          /\ faults' \in 0 .. MaxFaults
          /\ sent' \in Seq(Replies) /\ inq' \in Seq(STRING)
      BY <2>1, <3>1, CompleteKeeps
    <3>3. TypeOK'
      BY <2>1, <3>2 DEF Ind, TypeOK, callVars, Good
    <3> QED BY <2>1, <3>1, <3>2, <3>3 DEF Ind, callVars
  <2>2. CASE UNCHANGED vars
    BY <2>2 DEF Ind, TypeOK, vars, callVars, scriptVars, clockVars, netVars
  <2> QED BY <1>1, <2>1, <2>2, FailKeeps DEF ReadEof
<1>2. CASE ReadReset
  BY <1>2, ReadErrorKeeps DEF ReadReset, Ind
<1>3. CASE SocketConnected
  <2>1. /\ marks = {} /\ parser' = HttpParserInit /\ link' = "open" /\ failed' = FALSE
        /\ sent' = <<>> /\ completed' = 0
        /\ UNCHANGED <<callVars, clockVars, inq, peer, left, faults, torn>>
    BY <1>3 DEF SocketConnected, Returned, Ind
  <2>2. sent' \in Seq(Replies)
    BY <2>1, EmptySeq
  <2>3. TypeOK'
    BY <2>1, <2>2, InitialParser DEF Ind, TypeOK, callVars, clockVars
  <2> QED BY <2>1, <2>3, InitialParser DEF Ind, callVars
<1>4. CASE TimeIsUp \/ TimerStops \/ Idle
  BY <1>4 DEF TimeIsUp, TimerStops, Idle, Ind, TypeOK, vars, callVars, scriptVars,
              clockVars, netVars
<1> QED BY <1>1, <1>2, <1>3, <1>4

LEMMA ServerKeeps ==
    ASSUME Ind, Server
    PROVE  Ind'
<1>1. inq' \in Seq(STRING)
  <2>1. inq \in Seq(STRING)
    BY DEF Ind, TypeOK
  <2>2. CASE Send
    BY <2>1, <2>2, ConcatProperties, RepliesAssumption DEF Send
  <2>3. CASE SendCut
    <3>1. PICK r \in Torn, tail \in Spoilt : \E n \in 1 .. (Len(r.wire) - 1) :
             inq' = inq \o SubSeq(r.wire, 1, n) \o tail
      BY <2>3 DEF SendCut
    <3>2. PICK n \in 1 .. (Len(r.wire) - 1) : inq' = inq \o SubSeq(r.wire, 1, n) \o tail
      BY <3>1
    <3>3. r.wire \in Seq(STRING) /\ Len(r.wire) \in Nat /\ n \in Nat /\ n <= Len(r.wire)
      BY LenProperties, RepliesAssumption
    <3>4. SubSeq(r.wire, 1, n) \in Seq(STRING) /\ tail \in Seq(STRING)
      BY <3>3, PartOfSeq, RepliesAssumption
    <3>5. inq \o SubSeq(r.wire, 1, n) \in Seq(STRING)
      BY <2>1, <3>4, ConcatProperties
    <3> QED BY <3>2, <3>4, <3>5, ConcatProperties
  <2>4. CASE HangUp
    BY <2>1, <2>4 DEF HangUp
  <2>5. CASE SendGarbage
    BY <2>1, <2>5, ConcatProperties, RepliesAssumption DEF SendGarbage
  <2> QED BY <2>2, <2>3, <2>4, <2>5 DEF Server
<1>2. sent' \in Seq(Replies)
  <2>1. sent \in Seq(Replies)
    BY DEF Ind, TypeOK
  <2>2. sent' = sent \/ \E r \in Replies : sent' = Append(sent, r)
    BY RepliesAssumption DEF Server, Send, SendCut, HangUp, SendGarbage
  <2> QED BY <2>1, <2>2
<1>3. /\ peer' \in {"up", "fin", "rst"} /\ torn' \in BOOLEAN
      /\ left' \in 0 .. MaxReplies /\ faults' \in 0 .. MaxFaults
      /\ UNCHANGED Client
  <2>1. /\ peer \in {"up", "fin", "rst"} /\ torn \in BOOLEAN
        /\ left \in 0 .. MaxReplies /\ faults \in 0 .. MaxFaults
        /\ MaxReplies \in Nat /\ MaxFaults \in Nat
    BY RepliesAssumption DEF Ind, TypeOK
  <2>2. CASE Send
    BY <2>1, <2>2 DEF Send, Up
  <2>3. CASE SendCut
    BY <2>1, <2>3 DEF SendCut, Fault
  <2>4. CASE HangUp
    BY <2>1, <2>4 DEF HangUp, Fault
  <2>5. CASE SendGarbage
    <3>1. torn' \in BOOLEAN
      BY <2>1, <2>5 DEF SendGarbage
    <3> QED BY <2>1, <2>5, <3>1 DEF SendGarbage, Fault
  <2> QED BY <2>2, <2>3, <2>4, <2>5 DEF Server
<1>4. TypeOK'
  BY <1>1, <1>2, <1>3 DEF Ind, TypeOK, Client, callVars, scriptVars, clockVars
<1> QED BY <1>3, <1>4 DEF Ind, Client, callVars

-----------------------------------------------------------------------------------
(* The theorems.                                                                     *)

LEMMA InitInd ==
    ASSUME Init
    PROVE  Ind
<1>1. /\ rest \in Seq(STRING) /\ held \in Seq(STRING) /\ inq \in Seq(STRING)
      /\ sent \in Seq(Replies)
  BY EmptySeq DEF Init
<1>2. MaxReplies \in 0 .. MaxReplies /\ MaxFaults \in 0 .. MaxFaults
  BY RepliesAssumption
<1>3. TypeOK
  BY <1>1, <1>2, InitialParser DEF Init, TypeOK
<1> QED BY <1>3, InitialParser DEF Init, Ind

LEMMA NextInd ==
    ASSUME Ind, [Next]_vars
    PROVE  Ind'
<1>1. CASE Execute
  BY <1>1, StatusLineKeeps, HeaderNameKeeps, ValueSpaceKeeps, HeaderValueKeeps,
     HeadersAlmostDoneKeeps, HeadersDoneKeeps, BodyKeeps, ChunkSizeKeeps, ChunkDataKeeps,
     CallKeeps DEF Execute
<1>2. CASE Read \/ ReadEof \/ ReadReset
  BY <1>2, CallKeeps, SocketKeeps
<1>3. CASE SocketConnected \/ TimeIsUp \/ TimerStops \/ Idle
  BY <1>3, SocketKeeps
<1>4. CASE Server
  BY <1>4, ServerKeeps
<1>5. CASE UNCHANGED vars
  BY <1>5 DEF Ind, TypeOK, vars, callVars, scriptVars, clockVars, netVars
<1> QED BY <1>1, <1>2, <1>3, <1>4, <1>5 DEF Next, SocketReadable

LEMMA Invariance == Spec => []Ind
<1>1. Init => Ind
  BY InitInd
<1>2. Ind /\ [Next]_vars => Ind'
  BY NextInd
<1> QED BY <1>1, <1>2, PTL DEF Spec

\* The parser, the socket and the reads keep their types.
THEOREM TypeCorrect == Spec => []TypeOK
<1>1. Ind => TypeOK
  BY DEF Ind
<1> QED BY <1>1, Invariance, PTL

\* No length that is read, of a body or of a chunk, is ever ULLONG_MAX, whatever digits
\* the server sends: the "conservative limit" of http_parser_execute is one.
THEOREM LengthsDeclared == Spec => []LengthIsDeclared
<1>1. Ind => LengthIsDeclared
  BY DEF Ind, Good, LengthIsDeclared
<1> QED BY <1>1, Invariance, PTL

\* None of the assertions in http_parser_execute fails, whatever the server sends and
\* however the reads cut it.
THEOREM AssertionsHold == Spec => []AssertsHold
<1>1. ASSUME Ind PROVE AssertsHold
  <2>1. Good(parser)
    BY <1>1 DEF Ind
  <2>2. ChunksAsserted
    <3>1. In("chunk_size_start") => parser.nread = 0 /\ parser.state \in HeaderStates
      BY <2>1 DEF Good, In, HeaderStates
    <3>2. In("chunk_size_start") => Counted.nread = 1
      BY <2>1, <3>1 DEF Counted, Good, Parsers
    <3> QED BY <2>1, <3>2 DEF ChunksAsserted, Good
  <2>3. CountAsserted /\ HeaderStateAsserted
    BY <2>1 DEF CountAsserted, HeaderStateAsserted, Good, ValueStates
  <2>4. OneMark
    <3>1. PICK m \in Marks : marks \subseteq {m}
      BY <1>1, MarksAreMarks DEF Ind
    <3>2. marks = {} \/ marks = {m}
      BY <3>1
    <3> QED BY <3>2, FS_EmptySet, FS_Singleton DEF OneMark
  <2> QED BY <2>2, <2>3, <2>4 DEF AssertsHold
<1> QED BY <1>1, Invariance, PTL

-----------------------------------------------------------------------------------
(* Seen from outside, the parser goes through the phases of ResponsePhases: it does   *)
(* what the rest of the model takes it to do.                                        *)

\* What the phases need of the parser: after an error the connection is dialled again
\* before anything is parsed; only a message that has no other end is ended by the end
\* of the stream; and what is still parsed of a connection that was given up is what
\* follows its last message.
PhaseInv ==
    /\ Ind
    /\ parser.errno # "OK" => link = "connecting" /\ Returned
    /\ parser.state = "body_identity_eof" => HttpMessageNeedsEof(parser)
    /\ link = "connecting" /\ parsing => parser.state = "dead"

PhaseOf(ps) ==
    CASE ps.errno # "OK"                -> "dead"
      [] ps.state = "dead"              -> "dead"
      [] ps.state = StartState          -> "start"
      [] ps.state = "body_identity_eof" -> "eof_body"
      [] OTHER                          -> "body"

\* A turn of the loop within a message.
Within ==
    /\ parser'.errno = "OK" /\ parser'.state \notin {"dead", StartState}
    /\ parser'.state = "body_identity_eof" =>
          HttpMessageNeedsEof(parser') /\ parser.state # StartState
    /\ UNCHANGED <<completed, link, parsing>>

\* One that ends a message.
Ends(ps) ==
    /\ ps \in Parsers /\ ps.errno = "OK"
    /\ ResponseComplete([ps EXCEPT !.state = NewMessage(ps)])
    /\ parsing' \in {parsing, FALSE}

\* One that stays where it is.
Stays ==
    /\ parser'.errno = "OK" /\ parser'.state = parser.state
    /\ parser.state # "body_identity_eof" \/ parser' = parser
    /\ UNCHANGED <<completed, link>> /\ parsing' \in {parsing, FALSE}

AbstractStep == PhaseInv' /\ [Abstract!Next]_Abstract!vars

-----------------------------------------------------------------------------------
(* The steps that the actions share.                                                *)

LEMMA Phased == Phase = PhaseOf(parser) /\ Phase' = PhaseOf(parser')
  BY DEF Phase, PhaseOf

LEMMA PhaseReady ==
    ASSUME PhaseInv
    PROVE  /\ parser \in Parsers /\ Good(parser) /\ completed \in Nat
           /\ link \in {"connecting", "open"}
           /\ parsing => parser.errno = "OK"
           /\ parsing /\ parser.state # "dead" => link = "open"
  BY DEF PhaseInv, Ind, TypeOK, Good, Returned

LEMMA WithinStep ==
    ASSUME PhaseInv, Ind', NEW state \in States \ {"dead", "body_identity_eof"},
           In(state), Within
    PROVE  AbstractStep
<1>1. /\ parser.errno = "OK" /\ link = "open" /\ parser.state = state /\ parsing
  BY PhaseReady DEF In
<1>2. PhaseInv'
  BY <1>1 DEF PhaseInv, Within
<1>3. /\ Phase = IF state = StartState THEN "start" ELSE "body"
      /\ Phase' = IF parser'.state = "body_identity_eof" THEN "eof_body" ELSE "body"
  BY <1>1, Phased DEF PhaseOf, Within
<1>4. CASE parser'.state = "body_identity_eof"
  <2>1. Phase = "body" /\ Phase' = "eof_body"
    BY <1>1, <1>3, <1>4 DEF Within
  <2>2. /\ ~Abstract!ParseError(Phase, "until_eof")
        /\ Phase' = Abstract!Feed(Phase, "until_eof")
        /\ "until_eof" \in Abstract!Pieces \ Abstract!Endings
    BY <2>1 DEF Abstract!ParseError, Abstract!Feed, Abstract!Pieces, Abstract!Endings
  <2>3. Abstract!Part
    BY <1>1, <2>2 DEF Abstract!Part, Within
  <2> QED BY <1>2, <2>3 DEF AbstractStep, Abstract!Next
<1>5. CASE parser'.state # "body_identity_eof"
  <2>1. Phase \in {"start", "body"} /\ Phase' = "body"
    BY <1>3, <1>5
  <2>2. /\ ~Abstract!ParseError(Phase, "part")
        /\ Phase' = Abstract!Feed(Phase, "part")
        /\ "part" \in Abstract!Pieces \ Abstract!Endings
    BY <2>1 DEF Abstract!ParseError, Abstract!Feed, Abstract!Pieces, Abstract!Endings
  <2>3. Abstract!Part
    BY <1>1, <2>2 DEF Abstract!Part, Within
  <2> QED BY <1>2, <2>3 DEF AbstractStep, Abstract!Next
<1> QED BY <1>4, <1>5

LEMMA StaysStep ==
    ASSUME PhaseInv, Ind', parser.errno = "OK", Stays
    PROVE  AbstractStep
<1>1. PhaseInv'
  <2>1. parser'.errno = "OK" /\ parser'.state = parser.state /\ link' = link
    BY DEF Stays
  <2>2. parser'.state = "body_identity_eof" => HttpMessageNeedsEof(parser')
    <3>1. CASE parser' = parser
      BY <3>1 DEF PhaseInv
    <3>2. CASE parser.state # "body_identity_eof"
      BY <2>1, <3>2
    <3> QED BY <3>1, <3>2 DEF Stays
  <2>3. parsing' => parsing
    BY DEF Stays
  <2> QED BY <2>1, <2>2, <2>3 DEF PhaseInv
<1>2. Phase' = Phase
  BY Phased DEF PhaseOf, Stays
<1> QED BY <1>1, <1>2 DEF AbstractStep, Stays, Abstract!vars

LEMMA ErrorStep ==
    ASSUME PhaseInv, Ind', NEW ps, ReadError(ps),
           ps = parser \/ ps = [parser EXCEPT !.errno = "error"]
    PROVE  AbstractStep
<1>1. /\ parser' = ps /\ rest' = <<>> /\ parsing' = FALSE /\ link' = "connecting"
      /\ completed' = completed
  BY DEF ReadError, Reconnect, scriptVars
<1>2. ps.state = parser.state /\ (ps = parser \/ ps.errno = "error")
      /\ HttpMessageNeedsEof(ps) = HttpMessageNeedsEof(parser)
  BY PhaseReady DEF Parsers, HttpMessageNeedsEof
<1>3. PhaseInv'
  BY <1>1, <1>2 DEF PhaseInv, Returned
<1>4. Phase' \in {Phase, "dead"}
  BY <1>1, <1>2, Phased DEF PhaseOf
<1>5. Abstract!Error
  BY <1>1, <1>4 DEF Abstract!Error
<1> QED BY <1>3, <1>5 DEF AbstractStep, Abstract!Next

LEMMA FailStep ==
    ASSUME PhaseInv, Ind', Fail
    PROVE  AbstractStep
  BY ErrorStep DEF Fail

\* What keeps a connection alive is not the state of its parser.
LEMMA KeepsAlive ==
    ASSUME NEW ps \in Parsers, NEW state \in States
    PROVE  LET end == [ps EXCEPT !.state = state] IN
           /\ HttpShouldKeepAlive(end) = HttpShouldKeepAlive(ps)
           /\ end.state = state /\ end.errno = ps.errno
<1> DEFINE end == [ps EXCEPT !.state = state]
<1>1. /\ end.version = ps.version /\ end.flags = ps.flags
      /\ end.status_code = ps.status_code /\ end.content_length = ps.content_length
      /\ end.state = state /\ end.errno = ps.errno
  BY DEF Parsers
<1> HIDE DEF end
<1>2. HttpShouldKeepAlive(end) = HttpShouldKeepAlive(ps)
  BY <1>1 DEF HttpShouldKeepAlive, HttpMessageNeedsEof
<1> QED BY <1>1, <1>2 DEF end

LEMMA EndsStep ==
    ASSUME PhaseInv, Ind',
           NEW state \in States \ {"dead", StartState, "body_identity_eof"},
           In(state), NEW ps, Ends(ps)
    PROVE  AbstractStep
<1> DEFINE end == [ps EXCEPT !.state = NewMessage(ps)]
<1>1. /\ parser.errno = "OK" /\ link = "open" /\ parser.state = state /\ parsing
      /\ Phase = "body"
  BY PhaseReady, Phased DEF In, PhaseOf
<1>2. NewMessage(ps) = (IF HttpShouldKeepAlive(ps) THEN StartState ELSE "dead")
      /\ NewMessage(ps) \in States
  BY DEF NewMessage, StartState, States, HeaderStates
<1>3. /\ HttpShouldKeepAlive(end) = HttpShouldKeepAlive(ps)
      /\ end.state = NewMessage(ps) /\ end.errno = "OK"
  BY <1>2, KeepsAlive DEF Ends
<1>4. /\ completed' = completed + 1
      /\ \/ late /\ parser' = end /\ UNCHANGED netVars
         \/ HttpShouldKeepAlive(end) /\ parser' = HttpParserInit /\ UNCHANGED netVars
         \/ ~HttpShouldKeepAlive(end) /\ parser' = end /\ Reconnect(FALSE)
  BY DEF Ends, ResponseComplete
<1> HIDE DEF end
<1>5. CASE HttpShouldKeepAlive(ps)
  <2>1. parser'.state = StartState /\ parser'.errno = "OK" /\ link' = "open"
    BY <1>1, <1>2, <1>3, <1>4, <1>5 DEF HttpParserInit, netVars
  <2>2. Phase' = "start"
    BY <2>1, Phased DEF PhaseOf, StartState
  <2>3. /\ Abstract!EndsMessage(Phase, "ok") /\ Phase' = Abstract!Feed(Phase, "ok")
        /\ "ok" \in Abstract!Endings
    BY <1>1, <2>2 DEF Abstract!EndsMessage, Abstract!Feed, Abstract!Endings
  <2>4. Abstract!Message
    BY <1>1, <1>4, <2>1, <2>3 DEF Abstract!Message
  <2>5. PhaseInv'
    BY <2>1 DEF PhaseInv, StartState
  <2> QED BY <2>4, <2>5 DEF AbstractStep, Abstract!Next
<1>6. CASE ~HttpShouldKeepAlive(ps)
  <2>1. parser'.state = "dead" /\ parser'.errno = "OK"
    BY <1>2, <1>3, <1>4, <1>6
  <2>2. link' \in {"open", "connecting"}
    <3>1. UNCHANGED netVars => link' = link
      BY DEF netVars
    <3>2. Reconnect(FALSE) => link' = "connecting"
      BY DEF Reconnect
    <3> QED BY <1>1, <1>4, <3>1, <3>2
  <2>3. Phase' = "dead"
    BY <2>1, Phased DEF PhaseOf, StartState
  <2>4. /\ Abstract!EndsMessage(Phase, "close") /\ Phase' = Abstract!Feed(Phase, "close")
        /\ "close" \in Abstract!Endings /\ ~Abstract!KeepAlive(Phase')
    BY <1>1, <2>3 DEF Abstract!EndsMessage, Abstract!Feed, Abstract!Endings,
                      Abstract!KeepAlive
  <2>5. Abstract!Message
    BY <1>1, <1>4, <2>2, <2>4 DEF Abstract!Message
  <2>6. PhaseInv'
    BY <2>1 DEF PhaseInv
  <2> QED BY <2>5, <2>6 DEF AbstractStep, Abstract!Next
<1> QED BY <1>5, <1>6

-----------------------------------------------------------------------------------
(* The actions of the loop.                                                          *)

\* The turn ends with parser ps, in the same message.
Goes(ps) == parser' = ps /\ UNCHANGED <<completed, link, parsing>>

LEMMA Going ==
    ASSUME NEW ps,
           \/ Consume(ps) \/ Reexecute(ps) \/ \E m \in Marks : MarkAndConsume(m, ps)
           \/ \E m \in Marks, b \in {OnHeaderField(buf, held), OnHeaderValue(buf, held),
                                     OnBody(buf, held), buf}, n \in {0, 1} :
                 Callback(m, b, ps, n)
    PROVE  Goes(ps)
  BY DEF Goes, Consume, Reexecute, MarkAndConsume, Callback, Turn, Quietly, scriptVars,
         netVars

\* The parsers the actions go to in the middle of a message.
Middle == States \ {"dead", StartState, "body_identity_eof"}

LEMMA Middles ==
    Middle = (HeaderStates \cup BodyStates) \ {"dead", "start_res", "body_identity_eof"}
  BY DEF Middle, States, StartState

Fresh(ps) == ps \in Parsers /\ ps.errno = "OK"
Mid(ps) == Fresh(ps) /\ ps.state \in Middle

LEMMA GoesStep ==
    ASSUME PhaseInv, Ind', NEW state \in States \ {"dead", "body_identity_eof"},
           In(state), NEW ps, Mid(ps), Goes(ps)
    PROVE  AbstractStep
  BY WithinStep DEF Within, Goes, Mid, Fresh, Middle

LEMMA CountedFresh ==
    ASSUME PhaseInv, NEW state, In(state)
    PROVE  /\ Fresh(Counted) /\ Counted.state = state
           /\ \A next \in States : Fresh(To(next)) /\ To(next).state = next
           /\ \A next \in Middle : Mid(To(next)) /\ To(next).state = next
<1>1. parser \in Parsers /\ parser.errno = "OK" /\ parser.state = state
  BY PhaseReady DEF In
<1>2. Fresh(Counted) /\ Counted.state = state
  BY <1>1 DEF Fresh, Counted, Parsers
<1>3. ASSUME NEW next \in States PROVE Fresh(To(next)) /\ To(next).state = next
  BY <1>2 DEF Fresh, To, Parsers
<1>4. Middle \subseteq States
  BY DEF Middle
<1> QED BY <1>2, <1>3, <1>4 DEF Mid

LEMMA StatusLineSteps ==
    ASSUME PhaseInv, Ind',
           \/ Dead \/ StartRes \/ ResVersion \/ ResFirstStatusCode \/ ResStatusCode
           \/ ResStatusStart \/ ResStatus \/ ResLineAlmostDone
    PROVE  AbstractStep
<1>1. {"res_version", "res_first_status_code", "res_status_code", "res_status_start",
       "res_status", "res_line_almost_done", "header_field_start"} \subseteq Middle
  BY Middles DEF HeaderStates
<1>2. StartState = "start_res" /\ StartState \in States
      /\ Middle \subseteq States \ {"dead", "body_identity_eof"}
  BY DEF StartState, States, HeaderStates, Middle
<1>3. parser \in Parsers
  BY PhaseReady
<1>4. CASE Dead
  <2>1. In("dead") /\ (Consume(Counted) \/ Fail)
    BY <1>4 DEF Dead
  <2>2. parser.errno = "OK" /\ parser.state = "dead" /\ Fresh(Counted)
        /\ Counted.state = "dead"
    BY <2>1, CountedFresh, PhaseReady DEF In
  <2>3. ASSUME Consume(Counted) PROVE Stays
    <3>1. Goes(Counted)
      BY <2>3, Going
    <3> QED BY <2>2, <3>1 DEF Goes, Stays, Fresh
  <2> QED BY <2>1, <2>2, <2>3, StaysStep, FailStep
<1>5. CASE StartRes
  <2> DEFINE ps == [Counted EXCEPT !.flags = {}, !.content_length = UMax]
             next == [ps EXCEPT !.state = "res_version"]
  <2>1. In("start_res") /\ (Consume(next) \/ Consume(ps) \/ Fail)
    BY <1>5 DEF StartRes
  <2>2. Fresh(Counted) /\ Counted.state = "start_res" /\ parser.errno = "OK"
        /\ parser.state = "start_res"
    BY <2>1, CountedFresh, PhaseReady DEF In
  <2>3. Fresh(ps) /\ ps.state = "start_res"
    <3>1. UMax \in 0 .. UMax /\ {} \in SUBSET AllFlags
      BY DigitsAssumption
    <3> QED BY <2>2, <3>1 DEF Fresh, Parsers
  <2> HIDE DEF ps
  <2>4. Mid(next)
    BY <1>1, <1>2, <2>3 DEF Mid, Fresh, Parsers
  <2> HIDE DEF next
  <2>5. ASSUME Consume(ps) PROVE Stays
    <3>1. Goes(ps)
      BY <2>5, Going
    <3> QED BY <2>2, <2>3, <3>1 DEF Goes, Stays, Fresh
  <2>6. ASSUME Consume(next) PROVE AbstractStep
    <3>1. Goes(next) /\ "start_res" \in States \ {"dead", "body_identity_eof"}
      BY <1>2, <2>6, Going
    <3> QED BY <2>1, <2>4, <3>1, GoesStep
  <2> QED BY <2>1, <2>2, <2>5, <2>6, StaysStep, FailStep
<1>6. CASE ResVersion
  <2> DEFINE ps == [To("res_first_status_code") EXCEPT !.version = ch]
  <2>1. In("res_version") /\ ((ch \in Versions /\ Consume(ps)) \/ Fail)
    BY <1>6 DEF ResVersion
  <2>2. Mid(To("res_first_status_code"))
    BY <1>1, <2>1, CountedFresh
  <2>3. ch \in Versions => Mid(ps)
    BY <2>2 DEF Mid, Fresh, Parsers
  <2> HIDE DEF ps
  <2> QED BY <1>1, <1>2, <2>1, <2>3, Going, GoesStep, FailStep
<1>7. CASE ResFirstStatusCode
  <2> DEFINE ps == [To("res_status_code") EXCEPT !.status_code = ch]
  <2>1. /\ In("res_first_status_code")
        /\ (ch \in StatusCodes /\ Consume(ps)) \/ Consume(Counted) \/ Fail
    BY <1>7 DEF ResFirstStatusCode
  <2>2. Mid(To("res_status_code")) /\ Mid(Counted)
    BY <1>1, <2>1, CountedFresh DEF Mid
  <2>3. ch \in StatusCodes => Mid(ps)
    BY <2>2 DEF Mid, Fresh, Parsers
  <2> HIDE DEF ps
  <2> QED BY <1>1, <1>2, <2>1, <2>2, <2>3, Going, GoesStep, FailStep
<1>8. CASE ResStatusCode
  <2>1. /\ In("res_status_code")
        /\ Fail \/ \E next \in {"res_status_start", "res_line_almost_done",
                                "header_field_start"} : Consume(To(next))
    BY <1>8 DEF ResStatusCode
  <2> QED BY <1>1, <1>2, <2>1, CountedFresh, Going, GoesStep, FailStep
<1>9. CASE ResStatusStart
  <2>1. /\ In("res_status_start")
        /\ \/ Consume(To("res_line_almost_done")) \/ Consume(To("header_field_start"))
           \/ MarkAndConsume("status", To("res_status")) \/ Fail
    BY <1>9 DEF ResStatusStart
  <2>2. /\ Mid(To("res_line_almost_done")) /\ Mid(To("header_field_start"))
        /\ Mid(To("res_status"))
    BY <1>1, <2>1, CountedFresh
  <2>3. "status" \in Marks
    BY DEF Marks
  <2> QED BY <1>1, <1>2, <2>1, <2>2, <2>3, Going, GoesStep, FailStep
<1>10. CASE ResStatus
  <2>1. /\ In("res_status")
        /\ \/ Callback("status", buf, To("res_line_almost_done"), 1)
           \/ Callback("status", buf, To("header_field_start"), 1)
           \/ Consume(Counted) \/ Fail
    BY <1>10 DEF ResStatus
  <2>2. /\ Mid(To("res_line_almost_done")) /\ Mid(To("header_field_start"))
        /\ Mid(Counted)
    BY <1>1, <2>1, CountedFresh DEF Mid
  <2>3. "status" \in Marks
    BY DEF Marks
  <2> QED BY <1>1, <1>2, <2>1, <2>2, <2>3, Going, GoesStep, FailStep
<1>11. CASE ResLineAlmostDone
  <2>1. In("res_line_almost_done") /\ (Consume(To("header_field_start")) \/ Fail)
    BY <1>11 DEF ResLineAlmostDone, Strictly
  <2> QED BY <1>1, <1>2, <2>1, CountedFresh, Going, GoesStep, FailStep
<1> QED BY <1>4, <1>5, <1>6, <1>7, <1>8, <1>9, <1>10, <1>11

\* A turn within the headers or the body.
LEMMA MiddleStep ==
    ASSUME PhaseInv, Ind', NEW state \in Middle, In(state), NEW ps, Mid(ps),
           \/ Consume(ps) \/ Reexecute(ps) \/ \E m \in Marks : MarkAndConsume(m, ps)
           \/ \E m \in Marks, b \in {OnHeaderField(buf, held), OnHeaderValue(buf, held),
                                     OnBody(buf, held), buf}, n \in {0, 1} :
                 Callback(m, b, ps, n)
    PROVE  AbstractStep
<1>1. Goes(ps)
  BY Going
<1>2. state \in States \ {"dead", "body_identity_eof"}
  BY DEF Middle
<1> QED BY <1>1, <1>2, GoesStep

LEMMA HeaderNameSteps ==
    ASSUME PhaseInv, Ind', HeaderFieldStart \/ HeaderField
    PROVE  AbstractStep
<1>1. {"header_field_start", "header_field", "headers_almost_done",
       "header_value_discard_ws"} \subseteq Middle /\ "header_field" \in Marks
  BY Middles DEF HeaderStates, Marks
<1>2. \A from, unit : NameState(from, unit) \in HeaderStatesOfName \cup HeaderStatesOfValue
  BY NameStates
<1>3. CASE HeaderFieldStart
  <2> DEFINE ps == [To("header_field") EXCEPT !.header_state = NameState("", ch)]
  <2>1. /\ In("header_field_start")
        /\ \/ Consume(To("headers_almost_done")) \/ Reexecute(To("headers_almost_done"))
           \/ MarkAndConsume("header_field", ps) \/ Fail
    BY <1>3 DEF HeaderFieldStart
  <2>2. Mid(To("headers_almost_done")) /\ Mid(To("header_field"))
    BY <1>1, <2>1, CountedFresh
  <2>3. Mid(ps)
    BY <1>2, <2>2 DEF Mid, Fresh, Parsers
  <2> HIDE DEF ps
  <2> QED BY <1>1, <2>1, <2>2, <2>3, MiddleStep, FailStep
<1>4. CASE HeaderField
  <2> DEFINE ps == [Counted EXCEPT !.header_state = NameState(@, ch)]
             over == To("header_value_discard_ws")
  <2>1. /\ In("header_field")
        /\ \/ Consume(ps) \/ Fail
           \/ Callback("header_field", OnHeaderField(buf, held), over, 1)
    BY <1>4 DEF HeaderField
  <2>2. Mid(Counted) /\ Mid(over)
    BY <1>1, <2>1, CountedFresh DEF Mid
  <2>3. Mid(ps)
    BY <1>2, <2>2 DEF Mid, Fresh, Parsers
  <2> HIDE DEF ps, over
  <2> QED BY <1>1, <2>1, <2>2, <2>3, MiddleStep, FailStep
<1> QED BY <1>3, <1>4

LEMMA BeginValueSteps ==
    ASSUME PhaseInv, Ind', NEW state \in Middle, In(state), BeginValue
    PROVE  AbstractStep
<1> DEFINE hs == parser.header_state
           ps == [To("header_value") EXCEPT !.header_state = ValueStart(hs, ch)]
           long == [ps EXCEPT !.content_length = Digits[ch]]
           flagged == [ps EXCEPT !.flags = IF hs = "h_upgrade" THEN @ \cup {"UPGRADE"} ELSE @]
<1>1. /\ "header_value" \in Middle /\ "header_value" \in Marks
      /\ ValueStart(hs, ch) \in HeaderStatesOfName \cup HeaderStatesOfValue
  BY Middles, ValueStatesClosed DEF HeaderStates, Marks
<1>2. Mid(To("header_value"))
  BY <1>1, CountedFresh
<1>3. Mid(ps)
  BY <1>1, <1>2 DEF Mid, Fresh, Parsers
<1>4. \/ Fail
      \/ IsNum(ch) /\ MarkAndConsume("header_value", long)
      \/ MarkAndConsume("header_value", flagged)
  BY DEF BeginValue
<1> HIDE DEF ps, hs
<1>5. ASSUME IsNum(ch) PROVE Mid(long)
  <2>1. Digits[ch] \in 0 .. UMax
    BY <1>5, DigitValue, DigitsAssumption
  <2> QED BY <1>3, <2>1 DEF Mid, Fresh, Parsers
<1>6. Mid(flagged)
  <2>1. ps.flags \in SUBSET AllFlags /\ "UPGRADE" \in AllFlags
    BY <1>3 DEF Mid, Fresh, Parsers, AllFlags
  <2> QED BY <1>3, <2>1 DEF Mid, Fresh, Parsers
<1> HIDE DEF long, flagged
<1> QED BY <1>1, <1>4, <1>5, <1>6, MiddleStep, FailStep

LEMMA ValueSpaceSteps ==
    ASSUME PhaseInv, Ind',
           \/ HeaderValueDiscardWs \/ HeaderValueStart \/ HeaderAlmostDone
           \/ HeaderValueLws \/ HeaderValueDiscardWsAlmostDone \/ HeaderValueDiscardLws
    PROVE  AbstractStep
<1> DEFINE done == [To("header_field_start") EXCEPT
                      !.flags = @ \cup FlagOf(parser.header_state)]
<1>1. /\ {"header_value_discard_ws", "header_value_start", "header_almost_done",
          "header_value_lws", "header_value_discard_ws_almost_done",
          "header_value_discard_lws", "header_field_start"} \subseteq Middle
  BY Middles DEF HeaderStates
<1>2. ASSUME NEW state, In(state) PROVE Mid(done)
  <2>1. Mid(To("header_field_start"))
    BY <1>1, <1>2, CountedFresh
  <2>2. FlagOf(parser.header_state) \subseteq AllFlags
    BY ValueStatesClosed
  <2> QED BY <2>1, <2>2 DEF Mid, Fresh, Parsers
<1> HIDE DEF done
<1>3. CASE HeaderValueDiscardWs
  <2>1. /\ In("header_value_discard_ws")
        /\ \/ Consume(Counted) \/ Consume(To("header_value_discard_ws_almost_done"))
           \/ Consume(To("header_value_discard_lws")) \/ BeginValue
    BY <1>3 DEF HeaderValueDiscardWs
  <2>2. /\ Mid(Counted) /\ Mid(To("header_value_discard_ws_almost_done"))
        /\ Mid(To("header_value_discard_lws"))
    BY <1>1, <2>1, CountedFresh DEF Mid
  <2> QED BY <1>1, <2>1, <2>2, MiddleStep, BeginValueSteps
<1>4. CASE HeaderValueStart
  BY <1>1, <1>4, BeginValueSteps DEF HeaderValueStart
<1>5. CASE HeaderAlmostDone
  <2>1. In("header_almost_done") /\ (Consume(To("header_value_lws")) \/ Fail)
    BY <1>5 DEF HeaderAlmostDone, Strictly
  <2> QED BY <1>1, <2>1, CountedFresh, MiddleStep, FailStep
<1>6. CASE HeaderValueLws
  <2>1. /\ In("header_value_lws")
        /\ Reexecute(To("header_value_start")) \/ Reexecute(done)
    BY <1>6 DEF HeaderValueLws, done
  <2> QED BY <1>1, <1>2, <2>1, CountedFresh, MiddleStep
<1>7. CASE HeaderValueDiscardWsAlmostDone
  <2>1. /\ In("header_value_discard_ws_almost_done")
        /\ Consume(To("header_value_discard_lws")) \/ Fail
    BY <1>7 DEF HeaderValueDiscardWsAlmostDone, Strictly
  <2> QED BY <1>1, <2>1, CountedFresh, MiddleStep, FailStep
<1>8. CASE HeaderValueDiscardLws
  <2>1. /\ In("header_value_discard_lws")
        /\ \/ Consume(To("header_value_discard_ws"))
           \/ Turn(done, 0, marks) /\ UNCHANGED <<got, completed, clockVars, netVars>>
    BY <1>8 DEF HeaderValueDiscardLws, done
  <2>2. ASSUME Turn(done, 0, marks), UNCHANGED <<got, completed, clockVars, netVars>>
        PROVE  AbstractStep
    <3>1. Goes(done)
      BY <2>2 DEF Goes, Turn, netVars
    <3>2. "header_value_discard_lws" \in States \ {"dead", "body_identity_eof"}
      BY <1>1 DEF Middle
    <3> QED BY <1>2, <2>1, <3>1, <3>2, GoesStep
  <2> QED BY <1>1, <2>1, <2>2, CountedFresh, MiddleStep
<1> QED BY <1>3, <1>4, <1>5, <1>6, <1>7, <1>8

LEMMA HeaderValueSteps ==
    ASSUME PhaseInv, Ind', HeaderValue
    PROVE  AbstractStep
<1> DEFINE hs == parser.header_state
           n  == parser.content_length
           another == [Counted EXCEPT !.content_length = AnotherDigit(@, Dec)]
           next == [Counted EXCEPT !.header_state = ValueNext(hs, ch),
                                   !.flags = @ \cup FlagOfListItem(hs, ch)]
<1>1. /\ {"header_value", "header_almost_done"} \subseteq Middle
      /\ "header_value" \in Marks /\ In("header_value")
  BY Middles DEF HeaderStates, Marks, HeaderValue
<1>2. Mid(Counted) /\ Counted.content_length = n /\ Mid(To("header_almost_done"))
  BY <1>1, CountedFresh, CountedFields, PhaseReady DEF Mid
<1>3. ASSUME IsNum(ch), Fits(n, Dec) PROVE Mid(another)
  <2>1. n \in Nat /\ Digits[ch] \in 0 .. (Dec - 1)
    BY <1>2, <1>3, DigitValue, DigitsAssumption DEF Mid, Fresh, Parsers
  <2>2. AnotherDigit(n, Dec) \in 0 .. UMax
    <3>1. n * Dec + Digits[ch] \in Nat /\ n * Dec + Digits[ch] < UMax
      BY <1>3, <2>1, RoomForADigit
    <3> QED BY <3>1, DigitsAssumption DEF AnotherDigit
  <2> HIDE DEF n
  <2> QED BY <1>2, <2>2 DEF Mid, Fresh, Parsers
<1>4. Mid(next)
  <2>1. /\ ValueNext(hs, ch) \in HeaderStatesOfName \cup HeaderStatesOfValue
        /\ FlagOfListItem(hs, ch) \subseteq AllFlags
    BY ValueStatesClosed
  <2> HIDE DEF hs
  <2> QED BY <1>2, <2>1 DEF Mid, Fresh, Parsers
<1>5. \/ \E k \in {0, 1} : Callback("header_value", OnHeaderValue(buf, held),
                                    To("header_almost_done"), k)
      \/ Consume(Counted) \/ Consume(next) \/ Fail
      \/ IsNum(ch) /\ Fits(n, Dec) /\ Consume(another)
  BY DEF HeaderValue, ContentLengthDigit
<1> HIDE DEF hs, n, another, next
<1> QED BY <1>1, <1>2, <1>3, <1>4, <1>5, MiddleStep, FailStep

\* What is left of a body that is counted.
LEMMA LeftOfBody ==
    ASSUME PhaseInv, NEW state \in {"body_identity", "chunk_data"}, In(state)
    PROVE  Mid([Counted EXCEPT !.content_length = @ - ToRead])
<1>1. state \in Middle
  BY Middles DEF HeaderStates, BodyStates
<1>2. Mid(Counted) /\ Counted.content_length = parser.content_length
      /\ parser.content_length # 0
  BY <1>1, CountedFresh, CountedFields, PhaseReady DEF Mid, Good, In
<1>3. parser.content_length - ToRead \in 0 .. UMax
  BY <1>2, ToReadSmall DEF PhaseInv
<1> QED BY <1>2, <1>3 DEF Mid, Fresh, Parsers

LEMMA BodySteps ==
    ASSUME PhaseInv, Ind', BodyIdentity \/ BodyIdentityEof \/ MessageDone
    PROVE  AbstractStep
<1>1. {"body_identity", "message_done"} \subseteq Middle
      /\ Middle \subseteq States \ {"dead", "body_identity_eof"}
  BY Middles DEF HeaderStates, BodyStates, Middle
<1>2. CASE BodyIdentity
  <2> DEFINE ps == [Counted EXCEPT !.content_length = @ - ToRead]
             over == [ps EXCEPT !.state = "message_done"]
  <2>1. In("body_identity")
    BY <1>2 DEF BodyIdentity
  <2>2. Mid(ps)
    BY <2>1, LeftOfBody
  <2>3. Goes(over) \/ Goes(ps)
    BY <1>2 DEF BodyIdentity, Goes, Turn, Quietly, scriptVars, netVars
  <2> HIDE DEF ps
  <2>4. Mid(over)
    BY <1>1, <2>2 DEF Mid, Fresh, Parsers
  <2> HIDE DEF over
  <2> QED BY <1>1, <2>1, <2>2, <2>3, <2>4, GoesStep
<1>3. CASE BodyIdentityEof
  <2>1. In("body_identity_eof") /\ Turn(Counted, Len(rest), marks \cup {"body"}) /\ Quietly
    BY <1>3 DEF BodyIdentityEof
  <2>2. Counted = parser /\ parser.errno = "OK"
    BY <2>1, CountedFields, PhaseReady DEF In, BodyStates
  <2>3. Stays
    BY <2>1, <2>2 DEF Stays, Turn, Quietly, scriptVars, netVars
  <2> QED BY <2>2, <2>3, StaysStep
<1>4. CASE MessageDone
  <2>1. In("message_done") /\ MessageComplete(Counted)
    BY <1>4 DEF MessageDone
  <2>2. Ends(Counted)
    BY <2>1, CountedFresh DEF Ends, MessageComplete, Fresh
  <2> QED BY <1>1, <2>1, <2>2, EndsStep DEF Middle
<1> QED BY <1>2, <1>3, <1>4

LEMMA HeadersSteps ==
    ASSUME PhaseInv, Ind', HeadersAlmostDone \/ HeadersDone
    PROVE  AbstractStep
<1>1. {"headers_almost_done", "headers_done", "chunk_size_start", "body_identity"}
         \subseteq Middle
  BY Middles DEF HeaderStates, BodyStates
<1>2. CASE HeadersAlmostDone
  <2>1. /\ In("headers_almost_done")
        /\ MessageComplete(Counted) \/ Reexecute(To("headers_done")) \/ Fail
    BY <1>2 DEF HeadersAlmostDone, Strictly
  <2>2. Mid(To("headers_done")) /\ Fresh(Counted)
    BY <1>1, <2>1, CountedFresh
  <2>3. MessageComplete(Counted) => Ends(Counted)
    BY <2>2 DEF Ends, MessageComplete, Fresh
  <2>4. MessageComplete(Counted) => AbstractStep
    BY <1>1, <2>1, <2>3, EndsStep DEF Middle
  <2> QED BY <1>1, <2>1, <2>2, <2>4, MiddleStep, FailStep
<1>3. CASE HeadersDone
  <2> DEFINE to(state) == [HeadOver EXCEPT !.state = state]
  <2>1. /\ In("headers_done")
        /\ \/ Fail \/ UpgradeComplete(HeadOver) \/ MessageComplete(HeadOver)
           \/ Consume(to("chunk_size_start")) \/ Consume(to("body_identity"))
           \/ HttpMessageNeedsEof(HeadOver) /\ Consume(to("body_identity_eof"))
    BY <1>3 DEF HeadersDone, Strictly, BodyBegins
  <2>2. Fresh(Counted)
    BY <2>1, CountedFresh
  <2>3. Fresh(HeadOver)
    BY <2>2 DEF HeadOver, Fresh, Parsers
  <2>4. \A state \in States : Fresh(to(state)) /\ to(state).state = state
    BY <2>3 DEF Fresh, Parsers
  <2>5. UpgradeComplete(HeadOver) \/ MessageComplete(HeadOver) => Ends(HeadOver)
    BY <2>3 DEF Ends, MessageComplete, UpgradeComplete, Fresh
  <2>6. UpgradeComplete(HeadOver) \/ MessageComplete(HeadOver) => AbstractStep
    BY <1>1, <2>1, <2>5, EndsStep DEF Middle
  <2>7. ASSUME HttpMessageNeedsEof(HeadOver), Consume(to("body_identity_eof"))
        PROVE  AbstractStep
    <3> DEFINE ps == to("body_identity_eof")
    <3>1. Fresh(ps) /\ ps.state = "body_identity_eof"
      BY <2>4 DEF States, BodyStates
    <3>2. HttpMessageNeedsEof(ps)
      BY <2>3, <2>7 DEF HttpMessageNeedsEof, Fresh, Parsers
    <3>3. Goes(ps)
      BY <2>7, Going
    <3> HIDE DEF ps
    <3>4. parser.state = "headers_done"
      BY <2>1 DEF In
    <3>5. Within
      BY <3>1, <3>2, <3>3, <3>4 DEF Within, Goes, Fresh, StartState
    <3> QED BY <1>1, <2>1, <3>5, WithinStep DEF Middle
  <2>8. Mid(to("chunk_size_start")) /\ Mid(to("body_identity"))
    BY <1>1, <2>4 DEF Mid, Middle
  <2> HIDE DEF to
  <2> QED BY <1>1, <2>1, <2>6, <2>7, <2>8, MiddleStep, FailStep
<1> QED BY <1>2, <1>3

LEMMA ChunkSizeSteps ==
    ASSUME PhaseInv, Ind', ChunkSizeStart \/ ChunkSize \/ ChunkParameters \/ ChunkSizeAlmostDone
    PROVE  AbstractStep
<1>1. {"chunk_size_start", "chunk_size", "chunk_parameters", "chunk_size_almost_done",
       "chunk_data", "header_field_start"} \subseteq Middle
  BY Middles DEF HeaderStates, BodyStates
<1>2. CASE ChunkSizeStart
  <2> DEFINE ps == [To("chunk_size") EXCEPT !.content_length = Digits[ch]]
  <2>1. In("chunk_size_start") /\ (Fail \/ (ch \in DOMAIN Digits /\ Consume(ps)))
    BY <1>2 DEF ChunkSizeStart
  <2>2. Mid(To("chunk_size"))
    BY <1>1, <2>1, CountedFresh
  <2>3. ASSUME ch \in DOMAIN Digits PROVE Mid(ps)
    <3>1. Digits[ch] \in 0 .. UMax
      BY <2>3, DigitValue, DigitsAssumption
    <3> QED BY <2>2, <3>1 DEF Mid, Fresh, Parsers
  <2> HIDE DEF ps
  <2> QED BY <1>1, <2>1, <2>3, MiddleStep, FailStep
<1>3. CASE ChunkSize
  <2> DEFINE n == parser.content_length
             another == [Counted EXCEPT !.content_length = AnotherDigit(@, Hex)]
  <2>1. /\ In("chunk_size")
        /\ \/ Fail \/ Consume(To("chunk_size_almost_done")) \/ Consume(To("chunk_parameters"))
           \/ ch \in DOMAIN Digits /\ Fits(n, Hex) /\ Consume(another)
    BY <1>3 DEF ChunkSize
  <2>2. /\ Mid(Counted) /\ Counted.content_length = n
        /\ Mid(To("chunk_size_almost_done")) /\ Mid(To("chunk_parameters"))
    BY <1>1, <2>1, CountedFresh, CountedFields, PhaseReady DEF Mid
  <2>3. ASSUME ch \in DOMAIN Digits, Fits(n, Hex) PROVE Mid(another)
    <3>1. n \in Nat /\ Digits[ch] \in 0 .. (Hex - 1)
      BY <2>2, <2>3, DigitValue, DigitsAssumption DEF Mid, Fresh, Parsers
    <3>2. AnotherDigit(n, Hex) \in 0 .. UMax
      <4>1. n * Hex + Digits[ch] \in Nat /\ n * Hex + Digits[ch] < UMax
        BY <2>3, <3>1, RoomForADigit
      <4> QED BY <4>1, DigitsAssumption DEF AnotherDigit
    <3> HIDE DEF n
    <3> QED BY <2>2, <3>2 DEF Mid, Fresh, Parsers
  <2> HIDE DEF n, another
  <2> QED BY <1>1, <2>1, <2>2, <2>3, MiddleStep, FailStep
<1>4. CASE ChunkParameters
  <2>1. In("chunk_parameters") /\ (Consume(To("chunk_size_almost_done")) \/ Consume(Counted))
    BY <1>4 DEF ChunkParameters
  <2>2. Mid(Counted) /\ Mid(To("chunk_size_almost_done"))
    BY <1>1, <2>1, CountedFresh DEF Mid
  <2> QED BY <1>1, <2>1, <2>2, MiddleStep
<1>5. CASE ChunkSizeAlmostDone
  <2> DEFINE ps == [Counted EXCEPT !.nread = 0]
             trailer == [ps EXCEPT !.state = "header_field_start",
                                   !.flags = @ \cup {"TRAILING"}]
             data == [ps EXCEPT !.state = "chunk_data"]
  <2>1. /\ In("chunk_size_almost_done")
        /\ Fail \/ Consume(trailer) \/ Consume(data)
    BY <1>5 DEF ChunkSizeAlmostDone, Strictly
  <2>2. Mid(Counted)
    BY <1>1, <2>1, CountedFresh DEF Mid
  <2>3. Mid(ps)
    BY <2>2 DEF Mid, Fresh, Parsers
  <2> HIDE DEF ps
  <2>4. Mid(data)
    BY <1>1, <2>3 DEF Mid, Fresh, Parsers, Middle
  <2>5. Mid(trailer)
    <3>1. ps.flags \cup {"TRAILING"} \in SUBSET AllFlags
      BY <2>3 DEF Mid, Fresh, Parsers, AllFlags
    <3> QED BY <1>1, <2>3, <3>1 DEF Mid, Fresh, Parsers, Middle
  <2> HIDE DEF data, trailer
  <2> QED BY <1>1, <2>1, <2>4, <2>5, MiddleStep, FailStep
<1> QED BY <1>2, <1>3, <1>4, <1>5

LEMMA ChunkDataSteps ==
    ASSUME PhaseInv, Ind', ChunkData \/ ChunkDataAlmostDone \/ ChunkDataDone
    PROVE  AbstractStep
<1>1. /\ {"chunk_data", "chunk_data_almost_done", "chunk_data_done", "chunk_size_start"}
            \subseteq Middle
      /\ Middle \subseteq States \ {"dead", "body_identity_eof"} /\ "body" \in Marks
  BY Middles DEF HeaderStates, BodyStates, Middle, Marks
<1>2. CASE ChunkData
  <2> DEFINE ps == [Counted EXCEPT !.content_length = @ - ToRead]
             over == [ps EXCEPT !.state = "chunk_data_almost_done"]
  <2>1. In("chunk_data")
    BY <1>2 DEF ChunkData
  <2>2. Mid(ps)
    BY <2>1, LeftOfBody
  <2>3. Goes(over) \/ Goes(ps)
    BY <1>2 DEF ChunkData, Goes, Turn, Quietly, scriptVars, netVars
  <2> HIDE DEF ps
  <2>4. Mid(over)
    BY <1>1, <2>2 DEF Mid, Fresh, Parsers
  <2> HIDE DEF over
  <2> QED BY <1>1, <2>1, <2>2, <2>3, <2>4, GoesStep
<1>3. CASE ChunkDataAlmostDone
  <2>1. /\ In("chunk_data_almost_done")
        /\ Fail \/ Callback("body", OnBody(buf, held), To("chunk_data_done"), 1)
    BY <1>3 DEF ChunkDataAlmostDone, Strictly
  <2>2. Mid(To("chunk_data_done"))
    BY <1>1, <2>1, CountedFresh
  <2> QED BY <1>1, <2>1, <2>2, MiddleStep, FailStep
<1>4. CASE ChunkDataDone
  <2> DEFINE ps == [To("chunk_size_start") EXCEPT !.nread = 0]
  <2>1. In("chunk_data_done") /\ (Fail \/ Consume(ps))
    BY <1>4 DEF ChunkDataDone, Strictly
  <2>2. Mid(To("chunk_size_start"))
    BY <1>1, <2>1, CountedFresh
  <2>3. Mid(ps)
    BY <2>2 DEF Mid, Fresh, Parsers
  <2> HIDE DEF ps
  <2> QED BY <1>1, <2>1, <2>3, MiddleStep, FailStep
<1> QED BY <1>2, <1>3, <1>4

-----------------------------------------------------------------------------------
(* The calls of http_parser_execute, the socket, the server.                         *)

\* A step that leaves the parser and the connection alone.
LEMMA Stutters ==
    ASSUME PhaseInv, Ind', UNCHANGED <<parser, rest, parsing, completed, link>>
    PROVE  AbstractStep
<1>1. PhaseInv'
  BY DEF PhaseInv, Returned, HttpMessageNeedsEof
<1>2. UNCHANGED Abstract!vars
  BY DEF Abstract!vars, Phase
<1> QED BY <1>1, <1>2 DEF AbstractStep

LEMMA CallSteps ==
    ASSUME PhaseInv, Ind', Read \/ EndOfInput \/ Unparsed
    PROVE  AbstractStep
<1>1. CASE Read
  <2>1. link = "open" /\ link' = "open" /\ parser' = parser /\ completed' = completed
    BY <1>1 DEF Read, scriptVars
  <2>2. parser.errno = "OK"
    BY <2>1 DEF PhaseInv
  <2>3. PhaseInv'
    BY <2>1, <2>2 DEF PhaseInv, HttpMessageNeedsEof
  <2>4. UNCHANGED Abstract!vars
    BY <2>1 DEF Abstract!vars, Phase
  <2> QED BY <2>3, <2>4 DEF AbstractStep
<1>2. CASE EndOfInput
  <2>1. parser.errno = "OK"
    BY <1>2, PhaseReady DEF EndOfInput
  <2>2. Stays
    BY <1>2, <2>1 DEF EndOfInput, Stays, netVars
  <2> QED BY <2>1, <2>2, StaysStep
<1>3. CASE Unparsed
  BY <1>3, ErrorStep DEF Unparsed
<1> QED BY <1>1, <1>2, <1>3

\* The end of the stream ends only a body that has no other end.
LEMMA EofSteps ==
    ASSUME PhaseInv, Ind', ReadEof
    PROVE  AbstractStep
<1>1. link = "open" /\ Returned /\ parser.errno = "OK"
  BY DEF ReadEof, PhaseInv
<1>2. CASE parser.state = "body_identity_eof" /\ ResponseComplete(parser)
           /\ UNCHANGED callVars
  <2>1. HttpMessageNeedsEof(parser) /\ ~HttpShouldKeepAlive(parser)
    BY <1>2 DEF PhaseInv, HttpShouldKeepAlive
  <2>2. parser' = parser /\ completed' = completed + 1
    BY <1>2, <2>1 DEF ResponseComplete
  <2>3. link' \in {"open", "connecting"}
    <3>1. UNCHANGED netVars \/ Reconnect(FALSE)
      BY <1>2 DEF ResponseComplete
    <3>2. UNCHANGED netVars => link' = link
      BY DEF netVars
    <3>3. Reconnect(FALSE) => link' = "connecting"
      BY DEF Reconnect
    <3> QED BY <1>1, <3>1, <3>2, <3>3
  <2>4. parsing' = FALSE
    BY <1>1, <1>2 DEF Returned, callVars, Ind, TypeOK, PhaseInv
  <2>5. PhaseInv'
    BY <1>1, <2>1, <2>2, <2>4 DEF PhaseInv, HttpMessageNeedsEof
  <2>6. Phase = "eof_body" /\ Phase' = Phase
    BY <1>1, <1>2, <2>2, Phased DEF PhaseOf, StartState
  <2>7. Abstract!EndOfBody
    BY <1>1, <2>2, <2>3, <2>6 DEF Abstract!EndOfBody, Abstract!EofEndsMessage
  <2> QED BY <2>5, <2>7 DEF AbstractStep, Abstract!Next
<1>3. CASE UNCHANGED vars
  BY <1>3, Stutters DEF vars, callVars, scriptVars, netVars
<1>4. CASE Fail
  BY <1>4, FailStep
<1> QED BY <1>2, <1>3, <1>4 DEF ReadEof

LEMMA SocketSteps ==
    ASSUME PhaseInv, Ind',
           ReadReset \/ SocketConnected \/ TimeIsUp \/ TimerStops \/ Idle \/ Server
    PROVE  AbstractStep
<1>1. CASE ReadReset
  BY <1>1, ErrorStep DEF ReadReset
<1>2. CASE SocketConnected
  <2>1. /\ link = "connecting" /\ link' = "open" /\ parser' = HttpParserInit
        /\ completed' = 0
    BY <1>2 DEF SocketConnected
  <2>2. parser'.errno = "OK" /\ parser'.state = StartState
    BY <2>1 DEF HttpParserInit
  <2>3. PhaseInv'
    BY <2>1, <2>2 DEF PhaseInv, StartState
  <2>4. Phase' = "start"
    BY <2>2, Phased DEF PhaseOf, StartState
  <2>5. Abstract!Dial
    BY <2>1, <2>4 DEF Abstract!Dial
  <2> QED BY <2>3, <2>5 DEF AbstractStep, Abstract!Next
<1>3. CASE TimeIsUp \/ TimerStops \/ Idle
  BY <1>3, Stutters DEF TimeIsUp, TimerStops, Idle, vars, callVars, scriptVars, netVars
<1>4. CASE Server
  <2>1. UNCHANGED Client
    BY <1>4 DEF Server, Send, SendCut, HangUp, SendGarbage
  <2> QED BY <2>1, Stutters DEF Client, callVars, scriptVars
<1> QED BY <1>1, <1>2, <1>3, <1>4

-----------------------------------------------------------------------------------
(* The theorem.                                                                      *)

LEMMA PhaseInit ==
    ASSUME Init
    PROVE  PhaseInv /\ Abstract!Init
<1>1. /\ parser.errno = "OK" /\ parser.state = StartState /\ ~parsing
      /\ link = "connecting" /\ completed = 0
  BY DEF Init, HttpParserInit
<1>2. PhaseInv
  BY <1>1, InitInd DEF PhaseInv, StartState
<1>3. Phase = "start"
  BY <1>1 DEF Phase, StartState
<1> QED BY <1>1, <1>2, <1>3 DEF Abstract!Init

LEMMA PhaseNext ==
    ASSUME PhaseInv, [Next]_vars
    PROVE  AbstractStep
<1>1. Ind'
  BY NextInd DEF PhaseInv
<1>2. CASE Execute
  BY <1>1, <1>2, StatusLineSteps, HeaderNameSteps, ValueSpaceSteps, HeaderValueSteps,
     HeadersSteps, BodySteps, ChunkSizeSteps, ChunkDataSteps, CallSteps DEF Execute
<1>3. CASE Read \/ ReadEof \/ ReadReset
  BY <1>1, <1>3, CallSteps, EofSteps, SocketSteps
<1>4. CASE SocketConnected \/ TimeIsUp \/ TimerStops \/ Idle \/ Server
  BY <1>1, <1>4, SocketSteps
<1>5. CASE UNCHANGED vars
  BY <1>1, <1>5, Stutters DEF vars, callVars, scriptVars, netVars
<1> QED BY <1>2, <1>3, <1>4, <1>5 DEF Next, SocketReadable

\* The parser, its callbacks and the socket together go through the phases that the
\* connections of a worker thread are modelled with: response_complete is called once
\* per message, at its last byte or, only for a body that nothing else ends, at the end
\* of the stream; after it, and after nothing else but an error, the connection is
\* replaced, and a fresh socket has a fresh parser.
THEOREM ParserKeepsPhases == Spec => RefinesPhases
<1>1. Init => PhaseInv /\ Abstract!Init
  BY PhaseInit
<1>2. PhaseInv /\ [Next]_vars => PhaseInv' /\ [Abstract!Next]_Abstract!vars
  BY PhaseNext DEF AbstractStep
<1> QED BY <1>1, <1>2, PTL DEF Spec, RefinesPhases, Abstract!Spec
===================================================================================
