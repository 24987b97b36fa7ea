------------------------------ MODULE ResponseProofs ------------------------------
(***********************************************************************************)
(* Proofs that the parser makes of the bytes of a connection what a reader of each *)
(* message makes of it alone, and that response() gets of each what its sender     *)
(* means, however the reads cut them.                                              *)
(***********************************************************************************)
EXTENDS HttpMessage, HttpParserProofs

-----------------------------------------------------------------------------------
(* Reading alone.                                                                    *)

LEMMA Least ==
    ASSUME NEW S, S \subseteq Nat, S # {}
    PROVE  \E m \in S : \A k \in S : m <= k
<1>1. PICK m \in S : \A k \in S : ~(<<k, m>> \in OpToRel(<, Nat))
  BY NatLessThanWellFounded, WFMin
<1>2. \A k \in S : ~(k < m)
  BY <1>1 DEF OpToRel
<1> QED BY <1>2

\* The first n + 1 states of a reader.
IsTrace(w, n, at) ==
    at = [i \in 0 .. n |-> IF i = 0 THEN Begin ELSE After(at[i - 1], w[i])]

LEMMA TraceExists ==
    ASSUME NEW w, NEW n \in Nat
    PROVE  \E at : IsTrace(w, n, at)
<1> DEFINE missing == {m \in Nat : ~ \E at : IsTrace(w, m, at)}
<1>1. SUFFICES ASSUME missing # {} PROVE FALSE
  OBVIOUS
<1>2. PICK m \in missing : \A k \in missing : m <= k
  <2>1. missing \subseteq Nat
    OBVIOUS
  <2> HIDE DEF missing
  <2> QED BY <1>1, <2>1, Least
<1>3. CASE m = 0
  <2>1. IsTrace(w, 0, [i \in 0 .. 0 |-> Begin])
    BY DEF IsTrace
  <2> QED BY <1>2, <1>3, <2>1
<1>4. CASE m # 0
  <2>1. m - 1 \in Nat /\ m - 1 \notin missing
    BY <1>2, <1>4
  <2>2. PICK at : IsTrace(w, m - 1, at)
    BY <2>1
  <2> DEFINE next == [i \in 0 .. m |-> IF i = m THEN After(at[m - 1], w[m]) ELSE at[i]]
  <2>3. \A i \in 0 .. (m - 1) :
           at[i] = IF i = 0 THEN Begin ELSE After(at[i - 1], w[i])
    BY <2>2 DEF IsTrace
  <2>4. \A i \in 0 .. m :
           next[i] = IF i = 0 THEN Begin ELSE After(next[i - 1], w[i])
    BY <1>4, <2>1, <2>3
  <2>5. IsTrace(w, m, next)
    BY <2>4 DEF IsTrace
  <2> QED BY <1>2, <2>5
<1> QED BY <1>3, <1>4

\* The equations of the recursive function.
LEMMA AloneSteps ==
    ASSUME NEW w, Len(w) \in Nat
    PROVE  /\ Alone(w)[0] = Begin
           /\ \A i \in 1 .. Len(w) : Alone(w)[i] = After(Alone(w)[i - 1], w[i])
<1>1. \E at : IsTrace(w, Len(w), at)
  BY TraceExists
<1>2. IsTrace(w, Len(w), Alone(w))
  BY <1>1 DEF IsTrace, Alone
<1>3. \A i \in 0 .. Len(w) :
         Alone(w)[i] = IF i = 0 THEN Begin ELSE After(Alone(w)[i - 1], w[i])
  BY <1>2 DEF IsTrace
<1> QED BY <1>3

-----------------------------------------------------------------------------------
(* What the parser knows that a reader alone knows as well: what is left of an        *)
(* earlier message counts for nothing.                                                *)

Named == {"header_field", "header_value_discard_ws", "header_value_discard_ws_almost_done",
          "header_value_discard_lws", "header_value_start", "header_value",
          "header_almost_done", "header_value_lws"}

Control(ps) ==
    [state          |-> ps.state,
     header_state   |-> IF ps.state \in Named THEN ps.header_state ELSE "h_general",
     flags          |-> IF ps.state = StartState THEN {} ELSE ps.flags,
     content_length |-> IF ps.state = StartState THEN UMax ELSE ps.content_length,
     status_code    |-> IF ps.state \in {StartState, "res_version", "res_first_status_code"}
                        THEN "0" ELSE ps.status_code,
     version        |-> IF ps.state \in {StartState, "res_version"} THEN "0.0"
                        ELSE ps.version]

Steps(n) ==
    /\ rest' = SubSeq(rest, n + 1, Len(rest))
    /\ UNCHANGED <<parsing, full, completed, clockVars, netVars>>

\* A turn that sees one symbol consumes it, or leaves it to the next turn, or fails, or
\* ends the message.
Moves  == Steps(1) /\ Control(parser') = After(Control(parser), ch)
Waits  == Steps(0) /\ After(Control(parser'), ch) = After(Control(parser), ch)
Breaks == Fail /\ After(Control(parser), ch).state = "error"
Completes ==
    \E ps : /\ Ends(ps) /\ rest' = Tail(rest)
            /\ After(Control(parser), ch).state = "over"
            /\ After(Control(parser), ch).status_code = ps.status_code
            /\ HttpShouldKeepAlive(After(Control(parser), ch)) <=> HttpShouldKeepAlive(ps)
Sees == Moves \/ Waits \/ Breaks \/ Completes

LEMMA Consumes ==
    ASSUME NEW ps,
           \/ Consume(ps) \/ \E m \in Marks : MarkAndConsume(m, ps)
           \/ \E m \in Marks : \E b : Callback(m, b, ps, 1)
    PROVE  parser' = ps /\ Steps(1)
  BY DEF Steps, Consume, MarkAndConsume, Callback, Turn, Quietly, scriptVars

LEMMA Leaves ==
    ASSUME NEW ps, Reexecute(ps) \/ \E m \in Marks : \E b : Callback(m, b, ps, 0)
    PROVE  parser' = ps /\ Steps(0)
  BY DEF Steps, Reexecute, Callback, Turn, Quietly, scriptVars

\* Counting the size of a head changes nothing a reader alone knows.
LEMMA CountedControl ==
    ASSUME parser \in Parsers
    PROVE  /\ Counted \in Parsers
           /\ Counted.state = parser.state /\ Counted.header_state = parser.header_state
           /\ Counted.flags = parser.flags
           /\ Counted.content_length = parser.content_length
           /\ Counted.status_code = parser.status_code
           /\ Counted.version = parser.version
           /\ Counted.errno = parser.errno
  BY SMT DEF Counted, Parsers

LEMMA ToControl ==
    ASSUME parser \in Parsers, NEW state \in States
    PROVE  /\ To(state) \in Parsers
           /\ To(state).state = state /\ To(state).header_state = parser.header_state
           /\ To(state).flags = parser.flags
           /\ To(state).content_length = parser.content_length
           /\ To(state).status_code = parser.status_code
           /\ To(state).version = parser.version
           /\ To(state).errno = parser.errno
  BY SMT DEF To, Counted, Parsers

Controls ==
    [state : States \cup {"over", "error"},
     header_state : HeaderStatesOfName \cup HeaderStatesOfValue,
     flags : SUBSET AllFlags, content_length : 0 .. UMax,
     status_code : StatusCodes \cup {"0"}, version : Versions \cup {"0.0"}]

LEMMA ControlTyped ==
    ASSUME NEW ps \in Parsers
    PROVE  Control(ps) \in Controls
<1>1. "h_general" \in HeaderStatesOfName /\ UMax \in 0 .. UMax
  BY DigitsAssumption DEF HeaderStatesOfName
<1> QED BY <1>1 DEF Controls, Control, Parsers

\* The states in which the header state, the status and the version are known.
Settled == States \ {StartState, "res_version", "res_first_status_code"}

LEMMA ControlFields ==
    ASSUME NEW ps \in Parsers
    PROVE  /\ Control(ps).state = ps.state
           /\ ps.state \in Named => Control(ps).header_state = ps.header_state
           /\ ps.state \notin Named => Control(ps).header_state = "h_general"
           /\ ps.state # StartState => /\ Control(ps).flags = ps.flags
                                       /\ Control(ps).content_length = ps.content_length
           /\ ps.state = StartState => /\ Control(ps).flags = {}
                                       /\ Control(ps).content_length = UMax
           /\ ps.state \in Settled => /\ Control(ps).status_code = ps.status_code
                                      /\ Control(ps).version = ps.version
           /\ ps.state \notin Settled => Control(ps).status_code = "0"
           /\ ps.state = "res_first_status_code" => Control(ps).version = ps.version
           /\ ps.state \in {StartState, "res_version"} => Control(ps).version = "0.0"
  BY DEF Control, Settled, StartState, Parsers

LEMMA SameControl ==
    ASSUME NEW a \in Controls, NEW b \in Controls,
           a.state = b.state, a.header_state = b.header_state, a.flags = b.flags,
           a.content_length = b.content_length, a.status_code = b.status_code,
           a.version = b.version
    PROVE  a = b
  BY DEF Controls

LEMMA CountedSame ==
    ASSUME parser \in Parsers
    PROVE  Control(Counted) = Control(parser)
  BY CountedControl DEF Control

LEMMA NewState ==
    ASSUME NEW c \in Controls, NEW d \in Controls, NEW st,
           d.state = st, d.header_state = c.header_state, d.flags = c.flags,
           d.content_length = c.content_length, d.status_code = c.status_code, d.version = c.version
    PROVE  d = [c EXCEPT !.state = st]
  BY DEF Controls

\* A move to a state in which the same is known.
LEMMA ToSame ==
    ASSUME parser \in Parsers, parser.state \in Settled, NEW state \in Settled,
           state \in Named <=> parser.state \in Named
    PROVE  Control(To(state)) = At(Control(parser), state)
<1>1. state \in States /\ state # StartState /\ parser.state # StartState
  BY DEF Settled
<1>2. Control(parser) \in Controls /\ Control(To(state)) \in Controls
  BY <1>1, ToControl, ControlTyped
<1>3. /\ Control(To(state)).state = state
      /\ Control(To(state)).header_state = Control(parser).header_state
      /\ Control(To(state)).flags = Control(parser).flags
      /\ Control(To(state)).content_length = Control(parser).content_length
      /\ Control(To(state)).status_code = Control(parser).status_code
      /\ Control(To(state)).version = Control(parser).version
  BY <1>1, ToControl, ControlFields
<1> QED BY <1>2, <1>3, NewState DEF At

LEMMA StatesListed ==
    /\ States = HeaderStates \cup BodyStates
    /\ {"res_status_code", "res_status_start", "res_status", "res_line_almost_done",
        "header_field_start", "headers_almost_done", "headers_done", "chunk_size_start",
        "chunk_size", "chunk_parameters", "chunk_size_almost_done", "chunk_data",
        "chunk_data_almost_done", "chunk_data_done", "body_identity",
        "body_identity_eof", "message_done"} \subseteq Settled \ Named
    /\ Named \subseteq Settled
    /\ {"dead", StartState, "res_version", "res_first_status_code"} \cap Named = {}
    /\ {StartState, "res_version", "res_first_status_code"} \subseteq States \ Settled
  BY DEF States, Settled, Named, HeaderStates, BodyStates, StartState

-----------------------------------------------------------------------------------
(* The turns that see one symbol.                                                    *)

LEMMA AfterStatusLine ==
    ASSUME NEW c, c.state \in StatusLineStates, NEW s
    PROVE  After(c, s) = InStatusLine(c, s)
  BY DEF After, StatusLineStates, LineStates, StartState

LEMMA AfterHeader ==
    ASSUME NEW c, c.state \in LineStates, NEW s
    PROVE  After(c, s) = InHeader(c, s)
  BY DEF After, StatusLineStates, LineStates, StartState

LEMMA AfterBody ==
    ASSUME NEW c, c.state \in BodyStates \cup ChunkStates, NEW s
    PROVE  After(c, s) = InBody(c, s)
  BY DEF After, StatusLineStates, LineStates, StartState, BodyStates, ChunkStates

LEMMA BadState == Bad.state = "error"
  BY DEF Bad, Begin

\* Moves to a state in which the same is known, by whatever the action does besides.
LEMMA MovesTo ==
    ASSUME parser \in Parsers, parser.state \in Settled, NEW state \in Settled,
           state \in Named <=> parser.state \in Named,
           After(Control(parser), ch) = At(Control(parser), state),
           \/ Consume(To(state)) \/ \E m \in Marks : MarkAndConsume(m, To(state))
           \/ \E m \in Marks : \E b : Callback(m, b, To(state), 1)
    PROVE  Sees
<1>1. parser' = To(state) /\ Steps(1)
  BY Consumes
<1> QED BY <1>1, ToSame DEF Sees, Moves

LEMMA StaysAt ==
    ASSUME parser \in Parsers, After(Control(parser), ch) = Control(parser),
           Consume(Counted)
    PROVE  Sees
  BY Consumes, CountedSame DEF Sees, Moves

LEMMA BreaksAt ==
    ASSUME After(Control(parser), ch) = Bad, Fail
    PROVE  Sees
  BY BadState DEF Sees, Breaks

LEMMA StartSees ==
    ASSUME parser \in Parsers, StartRes
    PROVE  Sees
<1> DEFINE c == Control(parser)
           start == [Counted EXCEPT !.flags = {}, !.content_length = UMax]
           ps == [start EXCEPT !.state = "res_version"]
<1>1. parser.state = StartState /\ StartState = "start_res"
  BY DEF StartRes, In, StartState
<1>2. /\ c \in Controls /\ c.state = StartState /\ c.header_state = "h_general"
      /\ c.flags = {} /\ c.content_length = UMax /\ c.status_code = "0"
      /\ c.version = "0.0"
  BY <1>1, ControlTyped, ControlFields, StatesListed
<1>3. /\ start \in Parsers /\ start.state = StartState
      /\ ps \in Parsers /\ ps.state = "res_version" /\ ps.flags = {}
      /\ ps.content_length = UMax
  <2>1. "res_version" \in States /\ UMax \in 0 .. UMax /\ Counted \in Parsers
        /\ Counted.state = StartState
    BY <1>1, CountedControl, StatesListed, DigitsAssumption
  <2> QED BY <2>1 DEF Parsers
<1>4. /\ Control(start) \in Controls /\ Control(start).state = StartState
      /\ Control(start).header_state = "h_general"
      /\ Control(start).flags = {} /\ Control(start).content_length = UMax
      /\ Control(start).status_code = "0" /\ Control(start).version = "0.0"
  BY <1>3, ControlTyped, ControlFields, StatesListed
<1>5. /\ Control(ps) \in Controls /\ Control(ps).state = "res_version"
      /\ Control(ps).header_state = "h_general"
      /\ Control(ps).flags = {} /\ Control(ps).content_length = UMax
      /\ Control(ps).status_code = "0" /\ Control(ps).version = "0.0"
  BY <1>1, <1>3, ControlTyped, ControlFields, StatesListed
<1> HIDE DEF c
<1>6. After(c, ch) = InStatusLine(c, ch)
  BY <1>2, AfterStatusLine DEF StatusLineStates
<1>7. CASE ch = "HTTP/" /\ Consume(ps)
  <2>1. Control(ps) = At(c, "res_version")
    <3>1. PICK d : d = Control(ps)
      OBVIOUS
    <3>2. /\ d \in Controls /\ d.state = "res_version"
          /\ d.header_state = c.header_state /\ d.flags = c.flags
          /\ d.content_length = c.content_length
          /\ d.status_code = c.status_code /\ d.version = c.version
      BY <1>2, <1>5, <3>1
    <3>3. d = [c EXCEPT !.state = "res_version"]
      BY <1>2, <3>2, NewState
    <3> QED BY <3>1, <3>3 DEF At
  <2>2. After(c, ch) = At(c, "res_version")
    BY <1>1, <1>2, <1>6, <1>7 DEF InStatusLine, StatusText, CR, LF
  <2>3. parser' = ps /\ Steps(1)
    BY <1>7, Consumes
  <2> QED BY <2>1, <2>2, <2>3 DEF Sees, Moves, c
<1>8. CASE ch \in {CR, LF} /\ Consume(start)
  <2>1. Control(start) = c
    BY <1>2, <1>4, SameControl
  <2>2. After(c, ch) = c
    BY <1>1, <1>2, <1>6, <1>8 DEF InStatusLine, StatusText, CR, LF
  <2>3. parser' = start /\ Steps(1)
    BY <1>8, Consumes
  <2> QED BY <2>1, <2>2, <2>3 DEF Sees, Moves, c
<1>9. CASE ch \notin {"HTTP/", CR, LF} /\ Fail
  <2>1. After(c, ch) = Bad
    BY <1>1, <1>2, <1>6, <1>9 DEF InStatusLine, StatusText
  <2> QED BY <1>9, <2>1, BadState DEF Sees, Breaks, c
<1> QED BY <1>7, <1>8, <1>9 DEF StartRes

LEMMA VersionSees ==
    ASSUME parser \in Parsers, ResVersion
    PROVE  Sees
<1> DEFINE c == Control(parser)
           ps == [To("res_first_status_code") EXCEPT !.version = ch]
<1>1. parser.state = "res_version" /\ StartState = "start_res"
  BY DEF ResVersion, In, StartState
<1>2. /\ c \in Controls /\ c.state = "res_version" /\ c.header_state = "h_general"
      /\ c.flags = parser.flags /\ c.content_length = parser.content_length
      /\ c.status_code = "0"
  BY <1>1, ControlTyped, ControlFields, StatesListed
<1>3. ch \in Versions => /\ ps \in Parsers /\ ps.state = "res_first_status_code"
                         /\ ps.version = ch /\ ps.flags = parser.flags
                         /\ ps.content_length = parser.content_length
  BY ToControl, StatesListed DEF Parsers
<1> HIDE DEF c, ps
<1>4. After(c, ch) = InStatusLine(c, ch)
  BY <1>2, AfterStatusLine DEF StatusLineStates
<1>5. CASE ch \in Versions /\ Consume(ps)
  <2>1. /\ Control(ps) \in Controls /\ Control(ps).state = "res_first_status_code"
        /\ Control(ps).header_state = "h_general" /\ Control(ps).flags = parser.flags
        /\ Control(ps).content_length = parser.content_length
        /\ Control(ps).status_code = "0" /\ Control(ps).version = ch
    BY <1>1, <1>3, <1>5, ControlTyped, ControlFields, StatesListed
  <2>2. Control(ps) = [c EXCEPT !.state = "res_first_status_code", !.version = ch]
    BY <1>2, <2>1 DEF Controls
  <2>3. InStatusLine(c, ch) = [c EXCEPT !.state = "res_first_status_code", !.version = ch]
    BY <1>1, <1>2, <1>5 DEF InStatusLine, StatusText
  <2>4. parser' = ps /\ Steps(1)
    BY <1>5, Consumes
  <2> QED BY <1>4, <2>2, <2>3, <2>4 DEF Sees, Moves, c
<1>6. CASE ch \notin Versions /\ Fail
  <2>1. InStatusLine(c, ch) = Bad
    BY <1>1, <1>2, <1>6 DEF InStatusLine, StatusText
  <2> QED BY <1>4, <1>6, <2>1, BadState DEF Sees, Breaks, c
<1> QED BY <1>5, <1>6 DEF ResVersion, ps

LEMMA FirstStatusCodeSees ==
    ASSUME parser \in Parsers, ResFirstStatusCode
    PROVE  Sees
<1> DEFINE c == Control(parser)
           ps == [To("res_status_code") EXCEPT !.status_code = ch]
<1>1. parser.state = "res_first_status_code" /\ StartState = "start_res"
      /\ " " \notin StatusCodes
  BY DEF ResFirstStatusCode, In, StartState, StatusCodes
<1>2. /\ c \in Controls /\ c.state = "res_first_status_code"
      /\ c.header_state = "h_general" /\ c.flags = parser.flags
      /\ c.content_length = parser.content_length /\ c.version = parser.version
  BY <1>1, ControlTyped, ControlFields, StatesListed
<1>3. ch \in StatusCodes => /\ ps \in Parsers /\ ps.state = "res_status_code"
                            /\ ps.status_code = ch /\ ps.flags = parser.flags
                            /\ ps.content_length = parser.content_length
                            /\ ps.version = parser.version
  <2>1. "res_status_code" \in States
    BY StatesListed DEF Settled
  <2> QED BY <2>1, ToControl DEF Parsers
<1> HIDE DEF c, ps
<1>4. After(c, ch) = InStatusLine(c, ch)
  BY <1>2, AfterStatusLine DEF StatusLineStates
<1>5. CASE ch \in StatusCodes /\ Consume(ps)
  <2>1. /\ Control(ps) \in Controls /\ Control(ps).state = "res_status_code"
        /\ Control(ps).header_state = "h_general" /\ Control(ps).flags = parser.flags
        /\ Control(ps).content_length = parser.content_length
        /\ Control(ps).status_code = ch /\ Control(ps).version = parser.version
    BY <1>1, <1>3, <1>5, ControlTyped, ControlFields, StatesListed
  <2>2. Control(ps) = [c EXCEPT !.state = "res_status_code", !.status_code = ch]
    BY <1>2, <2>1 DEF Controls
  <2>3. InStatusLine(c, ch) = [c EXCEPT !.state = "res_status_code", !.status_code = ch]
    BY <1>1, <1>2, <1>5 DEF InStatusLine, StatusText
  <2>4. parser' = ps /\ Steps(1)
    BY <1>5, Consumes
  <2> QED BY <1>4, <2>2, <2>3, <2>4 DEF Sees, Moves, c
<1>6. CASE ch = " " /\ Consume(Counted)
  <2>1. InStatusLine(c, ch) = c
    BY <1>1, <1>2, <1>6 DEF InStatusLine, StatusText
  <2> QED BY <1>4, <1>6, <2>1, StaysAt DEF c
<1>7. CASE ch \notin StatusCodes \cup {" "} /\ Fail
  <2>1. InStatusLine(c, ch) = Bad
    BY <1>1, <1>2, <1>7 DEF InStatusLine, StatusText
  <2> QED BY <1>4, <1>7, <2>1, BadState DEF Sees, Breaks, c
<1> QED BY <1>5, <1>6, <1>7 DEF ResFirstStatusCode, ps

LEMMA StatusTextSees ==
    ASSUME parser \in Parsers,
           ResStatusCode \/ ResStatusStart \/ ResStatus \/ ResLineAlmostDone
    PROVE  Sees
<1> DEFINE c == Control(parser)
<1>1. /\ parser.state \in {"res_status_code", "res_status_start", "res_status",
                           "res_line_almost_done"}
      /\ c.state = parser.state
  BY ControlFields
     DEF ResStatusCode, ResStatusStart, ResStatus, ResLineAlmostDone, Strictly, In
<1>2. /\ parser.state \in Settled \ Named /\ "status" \in Marks
      /\ {"res_status_start", "res_status", "res_line_almost_done", "header_field_start"}
            \subseteq Settled \ Named
  BY <1>1, StatesListed DEF Marks
<1>3. After(c, ch) = InStatusLine(c, ch)
  BY <1>1, AfterStatusLine DEF StatusLineStates
<1> HIDE DEF c
<1>4. CASE ResStatusCode
  <2>1. c.state = "res_status_code"
    BY <1>1, <1>4 DEF ResStatusCode, In
  <2>2. InStatusLine(c, ch) = CASE ch = " " -> At(c, "res_status_start")
                                [] ch = CR  -> At(c, "res_line_almost_done")
                                [] ch = LF  -> At(c, "header_field_start")
                                [] OTHER    -> Bad
    BY <2>1 DEF InStatusLine, StatusText, StartState, CR, LF
  <2> QED BY <1>2, <1>3, <1>4, <2>2, MovesTo, BreaksAt DEF ResStatusCode, CR, LF, c
<1>5. CASE ResStatusStart \/ ResStatus
  <2>1. c.state \in StatusText
    BY <1>1, <1>5 DEF ResStatusStart, ResStatus, In, StatusText
  <2>2. InStatusLine(c, ch) = CASE ch = CR -> At(c, "res_line_almost_done")
                                [] ch = LF -> At(c, "header_field_start")
                                [] OTHER   -> At(c, "res_status")
    BY <2>1 DEF InStatusLine, StatusText, StartState, CR, LF
  <2>3. CASE ResStatusStart
    BY <1>2, <1>3, <2>2, <2>3, MovesTo DEF ResStatusStart, CR, LF, c
  <2>4. CASE ResStatus /\ ch \in {CR, LF}
    BY <1>2, <1>3, <2>2, <2>4, MovesTo DEF ResStatus, CR, LF, c
  <2>5. CASE ResStatus /\ ch \notin {CR, LF}
    <3>1. Consume(Counted) /\ c.state = "res_status" /\ c \in Controls
      BY <1>1, <2>5, ControlTyped DEF ResStatus, In, c
    <3>2. At(c, "res_status") = c
      BY <3>1, NewState DEF At
    <3> QED BY <1>3, <2>2, <2>5, <3>1, <3>2, StaysAt DEF CR, LF, c
  <2> QED BY <1>5, <2>3, <2>4, <2>5
<1>6. CASE ResLineAlmostDone
  <2>1. c.state = "res_line_almost_done"
    BY <1>1, <1>6 DEF ResLineAlmostDone, Strictly, In
  <2>2. InStatusLine(c, ch) = IF ch = LF THEN At(c, "header_field_start") ELSE Bad
    BY <2>1 DEF InStatusLine, StatusText, StartState
  <2> QED BY <1>2, <1>3, <1>6, <2>2, MovesTo, BreaksAt DEF ResLineAlmostDone, Strictly, c
<1> QED BY <1>4, <1>5, <1>6

\* In a line of the head all of the parser's fields are known, but for a header state
\* that counts for nothing between two lines.
LEMMA LineControl ==
    ASSUME parser \in Parsers, parser.state \in LineStates
    PROVE  /\ Control(parser) \in Controls
           /\ Control(parser).state = parser.state
           /\ parser.state \in Named =>
                 Control(parser).header_state = parser.header_state
           /\ parser.state \notin Named => Control(parser).header_state = "h_general"
           /\ Control(parser).flags = parser.flags
           /\ Control(parser).content_length = parser.content_length
           /\ Control(parser).status_code = parser.status_code
           /\ Control(parser).version = parser.version
           /\ parser.state \in Settled
           /\ After(Control(parser), ch) = InHeader(Control(parser), ch)
<1>1. parser.state \in Settled /\ parser.state # StartState
  BY DEF LineStates, Settled, States, HeaderStates, BodyStates, StartState
<1> QED BY <1>1, ControlTyped, ControlFields, AfterHeader

\* The same of a parser that the turn leaves in such a state.
LEMMA LineLeft ==
    ASSUME NEW ps \in Parsers, ps.state \in LineStates
    PROVE  /\ Control(ps) \in Controls
           /\ Control(ps).state = ps.state
           /\ ps.state \in Named => Control(ps).header_state = ps.header_state
           /\ ps.state \notin Named => Control(ps).header_state = "h_general"
           /\ Control(ps).flags = ps.flags
           /\ Control(ps).content_length = ps.content_length
           /\ Control(ps).status_code = ps.status_code
           /\ Control(ps).version = ps.version
           /\ \A s : After(Control(ps), s) = InHeader(Control(ps), s)
<1>1. ps.state \in Settled /\ ps.state # StartState
  BY DEF LineStates, Settled, States, HeaderStates, BodyStates, StartState
<1> QED BY <1>1, ControlTyped, ControlFields, AfterHeader

LEMMA HeadEndsAt ==
    ASSUME NEW c \in Controls, NEW state \in States
    PROVE  HeadEnds(At(c, state)) = HeadEnds(c) /\ HeadersEnd(At(c, state)) = HeadersEnd(c)
<1> DEFINE d == At(c, state)
<1>1. /\ d.flags = c.flags /\ d.content_length = c.content_length
      /\ d.status_code = c.status_code
      /\ At(d, "chunk_size_start") = At(c, "chunk_size_start")
      /\ At(d, "body_identity") = At(c, "body_identity")
      /\ At(d, "body_identity_eof") = At(c, "body_identity_eof")
  BY DEF At, Controls
<1>2. HttpMessageNeedsEof(d) <=> HttpMessageNeedsEof(c)
  BY <1>1 DEF HttpMessageNeedsEof
<1>3. Over(d) = Over(c)
  BY <1>1 DEF Over, At
<1> HIDE DEF d
<1>4. HeadersEnd(d) = HeadersEnd(c)
  BY <1>1, <1>2, <1>3 DEF HeadersEnd
<1>5. HeadEnds(d) = HeadEnds(c)
  BY <1>1, <1>3, <1>4 DEF HeadEnds
<1> QED BY <1>4, <1>5 DEF d

LEMMA FieldStartSees ==
    ASSUME parser \in Parsers, HeaderFieldStart
    PROVE  Sees
<1> DEFINE c == Control(parser)
           ps == [To("header_field") EXCEPT !.header_state = NameState("", ch)]
<1>1. parser.state = "header_field_start" /\ "header_field_start" \in LineStates \ Named
  BY DEF HeaderFieldStart, In, LineStates, Named
<1>2. /\ c \in Controls /\ c.state = "header_field_start" /\ c.header_state = "h_general"
      /\ c.flags = parser.flags /\ c.content_length = parser.content_length
      /\ c.status_code = parser.status_code /\ c.version = parser.version
      /\ parser.state \in Settled /\ After(c, ch) = InHeader(c, ch)
  BY <1>1, LineControl
<1>3. /\ ps \in Parsers /\ ps.state = "header_field" /\ ps.header_state = NameState("", ch)
      /\ ps.flags = parser.flags /\ ps.content_length = parser.content_length
      /\ ps.status_code = parser.status_code /\ ps.version = parser.version
  <2>1. "header_field" \in States /\ NameState("", ch) \in HeaderStatesOfName
    BY NameStates, StatesListed DEF Settled, Named
  <2> QED BY <2>1, ToControl DEF Parsers
<1> HIDE DEF c, ps
<1>4. InHeader(c, ch) = LineBegins(c, ch)
  BY <1>2 DEF InHeader
<1>5. "headers_almost_done" \in Settled \ Named /\ "headers_almost_done" \in LineStates
      /\ "headers_almost_done" \in States
  BY StatesListed DEF LineStates, Settled
<1>6. CASE ch = CR /\ Consume(To("headers_almost_done"))
  <2>1. LineBegins(c, ch) = At(c, "headers_almost_done")
    BY <1>6 DEF LineBegins, Token, Separators, CR, LF
  <2> QED BY <1>1, <1>2, <1>4, <1>5, <1>6, <2>1, MovesTo DEF c
<1>7. CASE ch = LF /\ Reexecute(To("headers_almost_done"))
  <2> DEFINE d == Control(To("headers_almost_done"))
  <2>1. LineBegins(c, ch) = HeadEnds(c)
    BY <1>7 DEF LineBegins, Token, Separators, CR, LF
  <2>2. d = At(c, "headers_almost_done")
    BY <1>1, <1>2, <1>5, ToSame DEF c
  <2>3. d.state = "headers_almost_done" /\ After(d, ch) = InHeader(d, ch)
    BY <1>5, ToControl, LineLeft
  <2> HIDE DEF d
  <2>4. InHeader(d, ch) = HeadEnds(d)
    BY <1>7, <2>3 DEF InHeader
  <2>5. HeadEnds(d) = HeadEnds(c)
    BY <1>2, <1>5, <2>2, HeadEndsAt
  <2>6. parser' = To("headers_almost_done") /\ Steps(0)
    BY <1>7, Leaves
  <2> QED BY <1>2, <1>4, <2>1, <2>3, <2>4, <2>5, <2>6 DEF Sees, Waits, c, d
<1>8. CASE Token(ch) /\ MarkAndConsume("header_field", ps)
  <2>1. LineBegins(c, ch)
           = [c EXCEPT !.state = "header_field", !.header_state = NameState("", ch)]
    BY <1>8 DEF LineBegins, Token, Separators, CR, LF
  <2>2. "header_field" \in LineStates \cap Named
    BY DEF LineStates, Named
  <2>3. /\ Control(ps) \in Controls /\ Control(ps).state = "header_field"
        /\ Control(ps).header_state = NameState("", ch) /\ Control(ps).flags = c.flags
        /\ Control(ps).content_length = c.content_length
        /\ Control(ps).status_code = c.status_code /\ Control(ps).version = c.version
    BY <1>2, <1>3, <2>2, LineLeft
  <2>4. Control(ps)
           = [c EXCEPT !.state = "header_field", !.header_state = NameState("", ch)]
    BY <1>2, <2>3 DEF Controls
  <2>5. parser' = ps /\ Steps(1)
    BY <1>8, Consumes DEF Marks
  <2> QED BY <1>2, <1>4, <2>1, <2>4, <2>5 DEF Sees, Moves, c
<1>9. CASE ~Token(ch) /\ ch \notin {CR, LF} /\ Fail
  <2>1. LineBegins(c, ch) = Bad
    BY <1>9 DEF LineBegins
  <2> QED BY <1>2, <1>4, <1>9, <2>1, BreaksAt DEF c
<1> QED BY <1>6, <1>7, <1>8, <1>9 DEF HeaderFieldStart, ps

LEMMA FieldSees ==
    ASSUME parser \in Parsers, HeaderField
    PROVE  Sees
<1> DEFINE c == Control(parser)
           name == NameState(parser.header_state, ch)
           ps == [Counted EXCEPT !.header_state = name]
<1>1. parser.state = "header_field" /\ "header_field" \in LineStates \cap Named
  BY DEF HeaderField, In, LineStates, Named
<1>2. /\ c \in Controls /\ c.state = "header_field"
      /\ c.header_state = parser.header_state
      /\ c.flags = parser.flags /\ c.content_length = parser.content_length
      /\ c.status_code = parser.status_code /\ c.version = parser.version
      /\ parser.state \in Settled /\ After(c, ch) = InHeader(c, ch)
  BY <1>1, LineControl
<1>3. /\ ps \in Parsers /\ ps.state = "header_field" /\ ps.header_state = name
      /\ ps.flags = parser.flags /\ ps.content_length = parser.content_length
      /\ ps.status_code = parser.status_code /\ ps.version = parser.version
      /\ [Counted EXCEPT !.header_state = NameState(@, ch)] = ps
  <2>1. name \in HeaderStatesOfName
    BY NameStates
  <2> HIDE DEF name
  <2>2. ps \in Parsers /\ ps.state = "header_field" /\ ps.header_state = name
        /\ ps.flags = parser.flags /\ ps.content_length = parser.content_length
        /\ ps.status_code = parser.status_code /\ ps.version = parser.version
    BY <1>1, <2>1, CountedControl DEF Parsers
  <2> QED BY <2>2, CountedControl DEF name
<1> HIDE DEF c, ps, name
<1>4. CASE Token(ch) /\ Consume(ps)
  <2>1. InHeader(c, ch) = [c EXCEPT !.header_state = NameState(@, ch)]
    BY <1>2, <1>4 DEF InHeader, Token, Separators
  <2>2. /\ Control(ps) \in Controls /\ Control(ps).state = "header_field"
        /\ Control(ps).header_state = name /\ Control(ps).flags = c.flags
        /\ Control(ps).content_length = c.content_length
        /\ Control(ps).status_code = c.status_code /\ Control(ps).version = c.version
    BY <1>1, <1>2, <1>3, LineLeft
  <2>3. Control(ps) = [c EXCEPT !.header_state = name]
    BY <1>2, <2>2 DEF Controls
  <2>4. parser' = ps /\ Steps(1)
    BY <1>4, Consumes
  <2> QED BY <1>2, <2>1, <2>3, <2>4 DEF Sees, Moves, c, name
<1>5. CASE ch = ":" /\ Callback("header_field", OnHeaderField(buf, held),
                                To("header_value_discard_ws"), 1)
  <2>1. InHeader(c, ch) = At(c, "header_value_discard_ws")
    BY <1>2, <1>5 DEF InHeader, Token, Separators
  <2>2. "header_value_discard_ws" \in Settled \cap Named /\ "header_field" \in Marks
    BY StatesListed DEF Named, Marks
  <2> QED BY <1>1, <1>2, <1>5, <2>1, <2>2, MovesTo DEF c
<1>6. CASE ~Token(ch) /\ ch # ":" /\ Fail
  <2>1. InHeader(c, ch) = Bad
    BY <1>2, <1>6 DEF InHeader
  <2> QED BY <1>2, <1>6, <2>1, BreaksAt DEF c
<1> QED BY <1>3, <1>4, <1>5, <1>6 DEF HeaderField

LEMMA ValueBeginsAt ==
    ASSUME NEW c \in Controls, NEW state \in States, NEW s
    PROVE  ValueBegins(At(c, state), s) = ValueBegins(c, s)
<1> DEFINE d == At(c, state)
           hs == ValueStart(c.header_state, s)
           flags == IF c.header_state = "h_upgrade" THEN c.flags \cup {"UPGRADE"} ELSE c.flags
<1>1. /\ d.header_state = c.header_state /\ d.flags = c.flags
      /\ [d EXCEPT !.state = "header_value", !.header_state = hs, !.flags = flags]
         = [c EXCEPT !.state = "header_value", !.header_state = hs, !.flags = flags]
      /\ \A n : [d EXCEPT !.state = "header_value", !.content_length = n]
                = [c EXCEPT !.state = "header_value", !.content_length = n]
  BY DEF At, Controls
<1> HIDE DEF d
<1>2. CASE c.header_state # "h_content_length"
  <2>1. ValueBegins(c, s)
           = [c EXCEPT !.state = "header_value", !.header_state = hs, !.flags = flags]
    BY <1>2 DEF ValueBegins, Controls
  <2>2. d \in Controls
    BY DEF d, At, Controls
  <2>3. ValueBegins(d, s)
           = [d EXCEPT !.state = "header_value", !.header_state = hs, !.flags = flags]
    BY <1>1, <1>2, <2>2 DEF ValueBegins, Controls
  <2> HIDE DEF hs, flags
  <2>4. ValueBegins(d, s) = ValueBegins(c, s)
    BY <1>1, <2>1, <2>3
  <2> QED BY <2>4 DEF d
<1>3. CASE c.header_state = "h_content_length"
  BY <1>1, <1>3 DEF ValueBegins, d
<1> QED BY <1>2, <1>3

LEMMA BeginValueSees ==
    ASSUME parser \in Parsers, parser.state \in LineStates \cap Named, BeginValue,
           After(Control(parser), ch) = ValueBegins(Control(parser), ch)
    PROVE  Sees
<1> DEFINE c == Control(parser)
           hs == parser.header_state
           start == ValueStart(hs, ch)
           ps == [To("header_value") EXCEPT !.header_state = start]
           long == [ps EXCEPT !.content_length = Digits[ch]]
           flags == IF hs = "h_upgrade" THEN parser.flags \cup {"UPGRADE"} ELSE parser.flags
           flagged == [ps EXCEPT !.flags = IF hs = "h_upgrade" THEN @ \cup {"UPGRADE"} ELSE @]
<1>1. /\ c \in Controls /\ c.header_state = hs
      /\ c.flags = parser.flags /\ c.content_length = parser.content_length
      /\ c.status_code = parser.status_code /\ c.version = parser.version
  BY LineControl
<1>2. "header_value" \in LineStates \cap Named \cap States /\ "header_value" \in Marks
  BY StatesListed DEF LineStates, Named, Settled, Marks
<1>3. start \in HeaderStatesOfValue /\ flags \in SUBSET AllFlags
  BY ValueStatesClosed DEF Parsers, AllFlags
<1>4. /\ ps \in Parsers /\ ps.state = "header_value" /\ ps.header_state = start
      /\ ps.flags = parser.flags /\ ps.content_length = parser.content_length
      /\ ps.status_code = parser.status_code /\ ps.version = parser.version
  <2> HIDE DEF start
  <2> QED BY <1>2, <1>3, ToControl DEF Parsers
<1>5. CASE hs = "h_content_length" /\ ~IsNum(ch) /\ Fail
  <2>1. ValueBegins(c, ch) = Bad
    BY <1>1, <1>5 DEF ValueBegins
  <2> QED BY <1>5, <2>1, BreaksAt
<1>6. CASE hs = "h_content_length" /\ IsNum(ch) /\ MarkAndConsume("header_value", long)
  <2>1. Digits[ch] \in 0 .. UMax
    BY <1>6, DigitValue, DigitsAssumption
  <2>2. start = "h_content_length"
    BY <1>6 DEF ValueStart
  <2> HIDE DEF start, ps, c
  <2>3. /\ long \in Parsers /\ long.state = "header_value" /\ long.header_state = hs
        /\ long.flags = parser.flags /\ long.content_length = Digits[ch]
        /\ long.status_code = parser.status_code /\ long.version = parser.version
    BY <1>4, <1>6, <2>1, <2>2 DEF Parsers
  <2> HIDE DEF long
  <2>4. /\ Control(long) \in Controls /\ Control(long).state = "header_value"
        /\ Control(long).header_state = c.header_state /\ Control(long).flags = c.flags
        /\ Control(long).content_length = Digits[ch]
        /\ Control(long).status_code = c.status_code /\ Control(long).version = c.version
    BY <1>1, <1>2, <2>3, LineLeft
  <2>5. Control(long) = [c EXCEPT !.state = "header_value", !.content_length = Digits[ch]]
    BY <1>1, <2>4 DEF Controls
  <2>6. ValueBegins(c, ch) = [c EXCEPT !.state = "header_value", !.content_length = Digits[ch]]
    BY <1>1, <1>6 DEF ValueBegins
  <2>7. parser' = long /\ Steps(1)
    BY <1>2, <1>6, Consumes
  <2> QED BY <2>5, <2>6, <2>7 DEF Sees, Moves, c
<1>7. CASE hs # "h_content_length" /\ MarkAndConsume("header_value", flagged)
  <2> HIDE DEF start, ps, c
  <2>3. /\ flagged \in Parsers /\ flagged.state = "header_value"
        /\ flagged.header_state = start
        /\ flagged.flags = flags /\ flagged.content_length = parser.content_length
        /\ flagged.status_code = parser.status_code /\ flagged.version = parser.version
    BY <1>3, <1>4 DEF Parsers
  <2>4. ValueBegins(c, ch)
           = [c EXCEPT !.state = "header_value", !.header_state = start, !.flags = flags]
    BY <1>1, <1>7 DEF ValueBegins, Controls, start
  <2> HIDE DEF flagged, flags
  <2>5. /\ Control(flagged) \in Controls /\ Control(flagged).state = "header_value"
        /\ Control(flagged).header_state = start /\ Control(flagged).flags = flags
        /\ Control(flagged).content_length = c.content_length
        /\ Control(flagged).status_code = c.status_code
        /\ Control(flagged).version = c.version
    BY <1>1, <1>2, <2>3, LineLeft
  <2>6. Control(flagged)
           = [c EXCEPT !.state = "header_value", !.header_state = start, !.flags = flags]
    BY <1>1, <2>5 DEF Controls
  <2>7. parser' = flagged /\ Steps(1)
    BY <1>2, <1>7, Consumes
  <2> QED BY <2>4, <2>6, <2>7 DEF Sees, Moves, c
<1> QED BY <1>5, <1>6, <1>7 DEF BeginValue

\* The states around a value.
LEMMA LineStatesListed ==
    /\ LineStates \subseteq Settled
    /\ {"header_value_discard_ws", "header_value_discard_ws_almost_done",
        "header_value_discard_lws", "header_value_start", "header_value",
        "header_almost_done", "header_value_lws"} \subseteq LineStates \cap Named
    /\ {"header_field_start", "headers_almost_done", "headers_done"}
          \subseteq LineStates \ Named
  BY DEF LineStates, Settled, Named, States, HeaderStates, BodyStates, StartState

\* A value ends with the line that follows it.
LEMMA ValueEndsAt ==
    ASSUME parser \in Parsers, parser.state \in LineStates \cap Named
    PROVE  LET ps == [To("header_field_start") EXCEPT
                        !.flags = @ \cup FlagOf(parser.header_state)] IN
           /\ ps \in Parsers /\ ps.state = "header_field_start"
           /\ Control(ps) = ValueEnds(Control(parser))
<1> DEFINE c == Control(parser)
           ps == [To("header_field_start") EXCEPT
                    !.flags = @ \cup FlagOf(parser.header_state)]
           flags == parser.flags \cup FlagOf(parser.header_state)
<1>1. /\ c \in Controls /\ c.header_state = parser.header_state
      /\ c.flags = parser.flags /\ c.content_length = parser.content_length
      /\ c.status_code = parser.status_code /\ c.version = parser.version
  BY LineControl
<1>2. "header_field_start" \in LineStates \ Named /\ "header_field_start" \in States
  BY LineStatesListed DEF Settled
<1>3. flags \in SUBSET AllFlags
  BY ValueStatesClosed DEF Parsers
<1>4. /\ ps \in Parsers /\ ps.state = "header_field_start" /\ ps.flags = flags
      /\ ps.content_length = parser.content_length
      /\ ps.status_code = parser.status_code /\ ps.version = parser.version
  BY <1>2, <1>3, ToControl DEF Parsers
<1> HIDE DEF c, ps
<1>5. /\ Control(ps) \in Controls /\ Control(ps).state = "header_field_start"
      /\ Control(ps).header_state = "h_general" /\ Control(ps).flags = flags
      /\ Control(ps).content_length = c.content_length
      /\ Control(ps).status_code = c.status_code /\ Control(ps).version = c.version
  BY <1>1, <1>2, <1>4, LineLeft
<1>6. Control(ps) = [c EXCEPT !.state = "header_field_start", !.header_state = "h_general",
                              !.flags = flags]
  BY <1>1, <1>5 DEF Controls
<1>7. ValueEnds(c) = [c EXCEPT !.state = "header_field_start",
                               !.header_state = "h_general", !.flags = flags]
  BY <1>1 DEF ValueEnds, Controls
<1> QED BY <1>4, <1>6, <1>7 DEF c, ps

\* The reader's limits are those of the parser.
LEMMA SameLimits ==
    /\ \A n, base : Room(n, base) <=> Fits(n, base)
    /\ \A c : Lasts(c) = HttpShouldKeepAlive(c)
  BY DEF Room, Fits, Lasts, HttpShouldKeepAlive

LEMMA SeparatorsAreNoDigits ==
    ASSUME NEW s \in DOMAIN Digits
    PROVE  s \notin {CR, LF, " ", ";"}
  BY DigitsAssumption DEF Separators

LEMMA ValueSpaceSees ==
    ASSUME parser \in Parsers,
           \/ HeaderValueDiscardWs \/ HeaderValueStart \/ HeaderAlmostDone
           \/ HeaderValueLws \/ HeaderValueDiscardWsAlmostDone \/ HeaderValueDiscardLws
    PROVE  Sees
<1> DEFINE c == Control(parser)
           ps == [To("header_field_start") EXCEPT
                    !.flags = @ \cup FlagOf(parser.header_state)]
<1>1. parser.state \in LineStates \cap Named
  BY LineStatesListed
     DEF HeaderValueDiscardWs, HeaderValueStart, HeaderAlmostDone, HeaderValueLws,
         HeaderValueDiscardWsAlmostDone, HeaderValueDiscardLws, Strictly, In
<1>2. /\ c \in Controls /\ c.state = parser.state /\ parser.state \in Settled
      /\ After(c, ch) = InHeader(c, ch)
  BY <1>1, LineControl
<1>3. CR # LF /\ CR # " " /\ LF # " "
  BY DEF CR, LF
<1>4. /\ ps \in Parsers /\ ps.state = "header_field_start"
      /\ Control(ps) = ValueEnds(c)
  BY <1>1, ValueEndsAt
<1> HIDE DEF c, ps
\* The line that follows a value sees the same of the symbol as the next one.
<1>5. ASSUME Steps(0), parser' = ps, After(c, ch) = LineBegins(ValueEnds(c), ch)
      PROVE  Sees
  <2>1. After(Control(ps), ch) = InHeader(Control(ps), ch)
        /\ Control(ps).state = "header_field_start"
    BY <1>4, LineLeft, LineStatesListed
  <2>2. InHeader(Control(ps), ch) = LineBegins(Control(ps), ch)
    BY <2>1 DEF InHeader
  <2> QED BY <1>4, <1>5, <2>1, <2>2 DEF Sees, Waits, c
<1>6. CASE HeaderValueDiscardWs
  <2>1. c.state = "header_value_discard_ws"
    BY <1>2, <1>6 DEF HeaderValueDiscardWs, In
  <2>2. CASE ch = " " /\ Consume(Counted)
    <3>1. InHeader(c, ch) = c
      BY <1>3, <2>1, <2>2 DEF InHeader
    <3> QED BY <1>2, <2>2, <3>1, StaysAt DEF c
  <2>3. CASE ch = CR /\ Consume(To("header_value_discard_ws_almost_done"))
    <3>1. InHeader(c, ch) = At(c, "header_value_discard_ws_almost_done")
      BY <1>3, <2>1, <2>3 DEF InHeader
    <3> QED BY <1>1, <1>2, <2>3, <3>1, MovesTo, LineStatesListed DEF c
  <2>4. CASE ch = LF /\ Consume(To("header_value_discard_lws"))
    <3>1. InHeader(c, ch) = At(c, "header_value_discard_lws")
      BY <1>3, <2>1, <2>4 DEF InHeader
    <3> QED BY <1>1, <1>2, <2>4, <3>1, MovesTo, LineStatesListed DEF c
  <2>5. CASE ch \notin {" ", CR, LF} /\ BeginValue
    <3>1. InHeader(c, ch) = ValueBegins(c, ch)
      BY <1>3, <2>1, <2>5 DEF InHeader
    <3> QED BY <1>1, <1>2, <2>5, <3>1, BeginValueSees DEF c
  <2> QED BY <1>6, <2>2, <2>3, <2>4, <2>5 DEF HeaderValueDiscardWs
<1>7. CASE HeaderValueStart
  <2>1. c.state = "header_value_start"
    BY <1>2, <1>7 DEF HeaderValueStart, In
  <2>2. InHeader(c, ch) = ValueBegins(c, ch)
    BY <2>1 DEF InHeader
  <2> QED BY <1>1, <1>2, <1>7, <2>2, BeginValueSees DEF c, HeaderValueStart
<1>8. CASE HeaderAlmostDone
  <2>1. c.state = "header_almost_done"
    BY <1>2, <1>8 DEF HeaderAlmostDone, Strictly, In
  <2>2. InHeader(c, ch) = IF ch = LF THEN At(c, "header_value_lws") ELSE Bad
    BY <2>1 DEF InHeader
  <2> QED BY <1>1, <1>2, <1>8, <2>2, MovesTo, BreaksAt, LineStatesListed
          DEF HeaderAlmostDone, Strictly, c
<1>9. CASE HeaderValueLws
  <2>1. c.state = "header_value_lws"
    BY <1>2, <1>9 DEF HeaderValueLws, In
  <2>2. CASE ch = " " /\ Reexecute(To("header_value_start"))
    <3> DEFINE d == Control(To("header_value_start"))
    <3>1. InHeader(c, ch) = ValueBegins(c, ch)
      BY <2>1, <2>2 DEF InHeader
    <3>2. "header_value_start" \in States /\ "header_value_start" \in LineStates
          /\ "header_value_start" \in Settled \cap Named
      BY LineStatesListed DEF Settled
    <3>3. d = At(c, "header_value_start")
      BY <1>1, <1>2, <3>2, ToSame DEF c
    <3>4. d.state = "header_value_start" /\ After(d, ch) = InHeader(d, ch)
      BY <3>2, ToControl, LineLeft
    <3> HIDE DEF d
    <3>5. InHeader(d, ch) = ValueBegins(d, ch)
      BY <3>4 DEF InHeader
    <3>6. ValueBegins(d, ch) = ValueBegins(c, ch)
      BY <1>2, <3>2, <3>3, ValueBeginsAt
    <3>7. parser' = To("header_value_start") /\ Steps(0)
      BY <2>2, Leaves
    <3> QED BY <1>2, <3>1, <3>4, <3>5, <3>6, <3>7 DEF Sees, Waits, c, d
  <2>3. CASE ch # " " /\ Reexecute(ps)
    <3>1. InHeader(c, ch) = LineBegins(ValueEnds(c), ch)
      BY <2>1, <2>3 DEF InHeader
    <3>2. parser' = ps /\ Steps(0)
      BY <2>3, Leaves
    <3> QED BY <1>2, <1>5, <3>1, <3>2
  <2> QED BY <1>9, <2>2, <2>3 DEF HeaderValueLws, ps
<1>10. CASE HeaderValueDiscardWsAlmostDone
  <2>1. c.state = "header_value_discard_ws_almost_done"
    BY <1>2, <1>10 DEF HeaderValueDiscardWsAlmostDone, Strictly, In
  <2>2. InHeader(c, ch) = IF ch = LF THEN At(c, "header_value_discard_lws") ELSE Bad
    BY <2>1 DEF InHeader
  <2> QED BY <1>1, <1>2, <1>10, <2>2, MovesTo, BreaksAt, LineStatesListed
          DEF HeaderValueDiscardWsAlmostDone, Strictly, c
<1>11. CASE HeaderValueDiscardLws
  <2>1. c.state = "header_value_discard_lws"
    BY <1>2, <1>11 DEF HeaderValueDiscardLws, In
  <2>2. CASE ch = " " /\ Consume(To("header_value_discard_ws"))
    <3>1. InHeader(c, ch) = At(c, "header_value_discard_ws")
      BY <2>1, <2>2 DEF InHeader
    <3> QED BY <1>1, <1>2, <2>2, <3>1, MovesTo, LineStatesListed DEF c
  <2>3. CASE ch # " " /\ Turn(ps, 0, marks)
             /\ UNCHANGED <<got, completed, clockVars, netVars>>
    <3>1. InHeader(c, ch) = LineBegins(ValueEnds(c), ch)
      BY <2>1, <2>3 DEF InHeader
    <3>2. parser' = ps /\ Steps(0)
      BY <2>3 DEF Turn, Steps
    <3> QED BY <1>2, <1>5, <3>1, <3>2
  <2> QED BY <1>11, <2>2, <2>3 DEF HeaderValueDiscardLws, ps
<1> QED BY <1>6, <1>7, <1>8, <1>9, <1>10, <1>11

LEMMA HeaderValueSees ==
    ASSUME Ind, HeaderValue
    PROVE  Sees
<1> DEFINE c == Control(parser)
           hs == parser.header_state
           n  == parser.content_length
           next == ValueNext(hs, ch)
           flags == parser.flags \cup FlagOfListItem(hs, ch)
           another == n * Dec + Digits[ch]
           longer == [Counted EXCEPT !.content_length = AnotherDigit(@, Dec)]
           ps == [Counted EXCEPT !.header_state = ValueNext(hs, ch),
                                 !.flags = @ \cup FlagOfListItem(hs, ch)]
<1>1. parser.state = "header_value" /\ parser.state \in LineStates \cap Named
      /\ parser \in Parsers
  BY LineStatesListed DEF HeaderValue, In, Ind, TypeOK
<1>2. /\ c \in Controls /\ c.state = "header_value" /\ c.header_state = hs
      /\ c.flags = parser.flags /\ c.content_length = n
      /\ c.status_code = parser.status_code /\ c.version = parser.version
      /\ parser.state \in Settled /\ After(c, ch) = InHeader(c, ch)
  BY <1>1, LineControl
<1>3. /\ CR # LF /\ CR # " " /\ LF # " " /\ "header_value" \in Marks
      /\ {"header_almost_done", "header_value_lws"} \subseteq LineStates \cap Named
      /\ LineStates \subseteq Settled
  BY LineStatesListed DEF CR, LF, Marks
<1>4. CASE ch = CR /\ \E b : Callback("header_value", b, To("header_almost_done"), 1)
  <2> HIDE DEF c, hs, n
  <2>1. InHeader(c, ch) = At(c, "header_almost_done")
    <3>1. ch = CR /\ c.state = "header_value"
      BY <1>2, <1>4
    <3> QED BY <1>3, <3>1, SeparatorsAreNoDigits DEF InHeader, IsNum
  <2> QED BY <1>1, <1>2, <1>3, <1>4, <2>1, MovesTo DEF c
<1>5. CASE ch = LF /\ \E b : Callback("header_value", b, To("header_almost_done"), 0)
  <2> DEFINE d == Control(To("header_almost_done"))
  <2>1. d = At(c, "header_almost_done")
    BY <1>1, <1>2, <1>3, ToSame
  <2>2. d.state = "header_almost_done" /\ After(d, ch) = InHeader(d, ch) /\ d \in Controls
    <3>1. "header_almost_done" \in States
      BY <1>3 DEF Settled
    <3>2. To("header_almost_done") \in Parsers
          /\ To("header_almost_done").state = "header_almost_done"
      BY <1>1, <3>1, ToControl
    <3> QED BY <1>3, <3>2, LineLeft
  <2> HIDE DEF c, d, hs, n
  <2>3. InHeader(c, ch) = At(c, "header_value_lws")
    <3>1. ch = LF /\ c.state = "header_value"
      BY <1>2, <1>5
    <3> QED BY <1>3, <3>1, SeparatorsAreNoDigits DEF InHeader, IsNum
  <2>4. InHeader(d, ch) = At(d, "header_value_lws")
    BY <1>3, <1>5, <2>2 DEF InHeader
  <2>5. At(d, "header_value_lws") = At(c, "header_value_lws")
    BY <1>2, <2>1 DEF At, Controls
  <2>6. parser' = To("header_almost_done") /\ Steps(0)
    BY <1>3, <1>5, Leaves
  <2> QED BY <1>2, <2>2, <2>3, <2>4, <2>5, <2>6 DEF Sees, Waits, c, d
<1>6. CASE ch \notin {CR, LF} /\ hs = "h_content_length" /\ ContentLengthDigit
  <2>1. CASE ch = " " /\ Consume(Counted)
    <3> HIDE DEF c
    <3>1. InHeader(c, ch) = c
      BY <1>2, <1>3, <1>6, <2>1, SeparatorsAreNoDigits DEF InHeader, IsNum
    <3> QED BY <1>1, <1>2, <2>1, <3>1, StaysAt DEF c
  <2>2. CASE IsNum(ch) /\ Fits(n, Dec) /\ Consume(longer)
    <3>1. another \in 0 .. UMax
      <4>1. n \in Nat /\ Digits[ch] \in 0 .. (Dec - 1)
        BY <1>1, <2>2, DigitValue, DigitsAssumption DEF Parsers
      <4>2. another \in Nat /\ another < UMax
        BY <2>2, <4>1, RoomForADigit
      <4> QED BY <4>2, DigitsAssumption
    <3>2. Counted \in Parsers /\ Counted.content_length = n
          /\ AnotherDigit(n, Dec) = another /\ Counted.state = "header_value"
          /\ Counted.header_state = hs /\ Counted.flags = parser.flags
          /\ Counted.status_code = parser.status_code /\ Counted.version = parser.version
      BY <1>1, CountedControl DEF AnotherDigit
    <3> HIDE DEF another, n, hs
    <3>3. /\ longer \in Parsers /\ longer.state = "header_value"
          /\ longer.header_state = hs /\ longer.flags = parser.flags
          /\ longer.content_length = another
          /\ longer.status_code = parser.status_code /\ longer.version = parser.version
      BY <3>1, <3>2 DEF Parsers
    <3> HIDE DEF longer, c
    <3>4. /\ Control(longer) \in Controls /\ Control(longer).state = "header_value"
          /\ Control(longer).header_state = hs /\ Control(longer).flags = c.flags
          /\ Control(longer).content_length = another
          /\ Control(longer).status_code = c.status_code
          /\ Control(longer).version = c.version
      BY <1>1, <1>2, <3>3, LineLeft
    <3>5. Control(longer) = [c EXCEPT !.content_length = another]
      BY <1>2, <3>4 DEF Controls
    <3>6. parser' = longer /\ Steps(1)
      BY <2>2, Consumes
    <3>7. CASE ch # " "
      <4>1. InHeader(c, ch) = [c EXCEPT !.content_length = @ * Dec + Digits[ch]]
        BY <1>2, <1>3, <1>6, <2>2, <3>7, SameLimits DEF InHeader, n, hs
      <4> QED BY <1>2, <3>5, <3>6, <4>1 DEF Sees, Moves, c, another, n
    <3> QED BY <2>2, <3>7, SeparatorsAreNoDigits DEF IsNum
  <2>3. CASE ch # " " /\ ~(IsNum(ch) /\ Fits(n, Dec)) /\ Fail
    <3> HIDE DEF c, n, hs
    <3>1. InHeader(c, ch) = Bad
      BY <1>2, <1>3, <1>6, <2>3, SameLimits DEF InHeader
    <3> QED BY <1>2, <2>3, <3>1, BreaksAt DEF c
  <2> QED BY <1>6, <2>1, <2>2, <2>3 DEF ContentLengthDigit
<1>7. CASE ch \notin {CR, LF} /\ hs # "h_content_length" /\ Consume(ps)
  <2>1. /\ next \in HeaderStatesOfValue
        /\ FlagOfListItem(hs, ch) \subseteq AllFlags
    BY ValueStatesClosed
  <2>2. flags \in SUBSET AllFlags
    BY <1>1, <2>1 DEF Parsers
  <2>3. Counted \in Parsers /\ Counted.content_length = n
        /\ Counted.state = "header_value" /\ Counted.flags = parser.flags
        /\ Counted.status_code = parser.status_code /\ Counted.version = parser.version
    BY <1>1, CountedControl
  <2> HIDE DEF next
  <2>4. /\ ps \in Parsers /\ ps.state = "header_value" /\ ps.header_state = next
        /\ ps.flags = flags /\ ps.content_length = n
        /\ ps.status_code = parser.status_code /\ ps.version = parser.version
    BY <2>1, <2>2, <2>3 DEF Parsers, next
  <2> HIDE DEF c, n, hs, ps, flags
  <2>5. /\ Control(ps) \in Controls /\ Control(ps).state = "header_value"
        /\ Control(ps).header_state = next /\ Control(ps).flags = flags
        /\ Control(ps).content_length = c.content_length
        /\ Control(ps).status_code = c.status_code
        /\ Control(ps).version = c.version
    BY <1>1, <1>2, <2>4, LineLeft
  <2>6. Control(ps) = [c EXCEPT !.header_state = next, !.flags = flags]
    BY <1>2, <2>5 DEF Controls
  <2>7. InHeader(c, ch) = [c EXCEPT !.header_state = ValueNext(@, ch),
                                    !.flags = @ \cup FlagOfListItem(c.header_state, ch)]
    BY <1>2, <1>3, <1>7 DEF InHeader
  <2>8. InHeader(c, ch) = [c EXCEPT !.header_state = next, !.flags = flags]
    BY <1>2, <2>7 DEF next, flags, hs, Controls
  <2>9. parser' = ps /\ Steps(1)
    BY <1>7, Consumes
  <2> QED BY <1>2, <2>6, <2>8, <2>9 DEF Sees, Moves, c
<1>8. \/ ch = CR /\ Callback("header_value", OnHeaderValue(buf, held), To("header_almost_done"), 1)
      \/ ch = LF /\ Callback("header_value", OnHeaderValue(buf, held), To("header_almost_done"), 0)
      \/ ch \notin {CR, LF} /\ hs = "h_content_length" /\ ContentLengthDigit
      \/ ch \notin {CR, LF} /\ hs # "h_content_length" /\ Consume(ps)
  BY DEF HeaderValue
<1> HIDE DEF hs, ps, c
<1> QED BY <1>4, <1>5, <1>6, <1>7, <1>8

-----------------------------------------------------------------------------------
(* The end of the headers, the framing of the body.                                  *)

\* A parser in which the same is known, but for the state.
LEMMA SameKnown ==
    ASSUME parser \in Parsers, parser.state \in Settled \ Named,
           NEW ps \in Parsers, ps.state \in Settled \ Named, ps.flags = parser.flags,
           ps.content_length = parser.content_length,
           ps.status_code = parser.status_code, ps.version = parser.version
    PROVE  Control(ps) = At(Control(parser), ps.state)
<1>1. ps.state # StartState /\ parser.state # StartState
  BY DEF Settled
<1>2. Control(parser) \in Controls /\ Control(ps) \in Controls
  BY ControlTyped
<1>3. /\ Control(ps).state = ps.state
      /\ Control(ps).header_state = Control(parser).header_state
      /\ Control(ps).flags = Control(parser).flags
      /\ Control(ps).content_length = Control(parser).content_length
      /\ Control(ps).status_code = Control(parser).status_code
      /\ Control(ps).version = Control(parser).version
  BY <1>1, ControlFields
<1> QED BY <1>2, <1>3, NewState DEF At

LEMMA OverFields ==
    ASSUME NEW c \in Controls, NEW ps, c.flags = ps.flags, c.version = ps.version,
           c.status_code = ps.status_code, c.content_length = ps.content_length
    PROVE  /\ Over(c).state = "over" /\ Over(c).status_code = ps.status_code
           /\ HttpShouldKeepAlive(Over(c)) <=> HttpShouldKeepAlive(ps)
<1> DEFINE d == Over(c)
<1>1. /\ d.state = "over" /\ d.flags = ps.flags /\ d.version = ps.version
      /\ d.status_code = ps.status_code /\ d.content_length = ps.content_length
  BY DEF Over, Controls
<1> HIDE DEF d
<1>2. HttpShouldKeepAlive(d) <=> HttpShouldKeepAlive(ps)
  BY <1>1 DEF HttpShouldKeepAlive, HttpMessageNeedsEof
<1> QED BY <1>1, <1>2 DEF d

LEMMA CompletesAt ==
    ASSUME PhaseInv, parsing, parser.state \in Settled, NEW ps \in Parsers, ps.errno = "OK",
           ps.flags = parser.flags, ps.content_length = parser.content_length,
           ps.status_code = parser.status_code, ps.version = parser.version,
           MessageComplete(ps) \/ UpgradeComplete(ps),
           After(Control(parser), ch) = Over(Control(parser))
    PROVE  Sees
<1> DEFINE c == Control(parser)
<1>1. parser \in Parsers /\ parser.state # StartState
  BY PhaseReady DEF Settled
<1>2. /\ c \in Controls /\ c.flags = ps.flags /\ c.version = ps.version
      /\ c.status_code = ps.status_code /\ c.content_length = ps.content_length
  BY <1>1, ControlTyped, ControlFields
<1> HIDE DEF c
<1>3. /\ Over(c).state = "over" /\ Over(c).status_code = ps.status_code
      /\ HttpShouldKeepAlive(Over(c)) <=> HttpShouldKeepAlive(ps)
  BY <1>2, OverFields
<1>4. Ends(ps) /\ rest' = Tail(rest)
  BY DEF Ends, MessageComplete, UpgradeComplete
<1> QED BY <1>3, <1>4 DEF Sees, Completes, c

LEMMA HeadersSee ==
    ASSUME PhaseInv, HeadersAlmostDone \/ HeadersDone
    PROVE  Sees
<1> DEFINE c == Control(parser)
<1>1. /\ parser \in Parsers /\ parsing /\ parser.errno = "OK"
      /\ parser.state \in {"headers_almost_done", "headers_done"}
  BY PhaseReady DEF HeadersAlmostDone, HeadersDone, Strictly, In
<1>2. parser.state \in LineStates \ Named /\ LineStates \subseteq Settled
  BY <1>1, LineStatesListed
<1>3. /\ c \in Controls /\ c.state = parser.state /\ After(c, ch) = InHeader(c, ch)
      /\ c.flags = parser.flags /\ c.content_length = parser.content_length
      /\ c.status_code = parser.status_code /\ c.version = parser.version
  BY <1>1, <1>2, LineControl
<1>4. /\ Counted \in Parsers /\ Counted.errno = "OK" /\ Counted.state = parser.state
      /\ Counted.flags = parser.flags /\ Counted.content_length = parser.content_length
      /\ Counted.status_code = parser.status_code /\ Counted.version = parser.version
  BY <1>1, CountedControl
<1> HIDE DEF c
<1>5. CASE HeadersAlmostDone
  <2>1. c.state = "headers_almost_done"
    BY <1>3, <1>5 DEF HeadersAlmostDone, Strictly, In
  <2>2. InHeader(c, ch) = IF ch = LF THEN HeadEnds(c) ELSE Bad
    BY <2>1 DEF InHeader
  <2>3. CASE ch = LF /\ "TRAILING" \in parser.flags /\ MessageComplete(Counted)
    <3>1. HeadEnds(c) = Over(c)
      BY <1>3, <2>3 DEF HeadEnds
    <3> QED BY <1>1, <1>2, <1>3, <1>4, <2>2, <2>3, <3>1, CompletesAt DEF c
  <2>4. CASE ch = LF /\ "TRAILING" \notin parser.flags /\ Reexecute(To("headers_done"))
    <3> DEFINE d == Control(To("headers_done"))
    <3>1. HeadEnds(c) = HeadersEnd(c)
      BY <1>3, <2>4 DEF HeadEnds
    <3>2. "headers_done" \in States /\ "headers_done" \in Settled \ Named
          /\ "headers_done" \in LineStates
      BY <1>2, LineStatesListed DEF Settled
    <3>3. d = At(c, "headers_done")
      BY <1>1, <1>2, <3>2, ToSame DEF c
    <3>4. d.state = "headers_done" /\ After(d, ch) = InHeader(d, ch)
      BY <1>1, <3>2, ToControl, LineLeft
    <3> HIDE DEF d
    <3>5. InHeader(d, ch) = HeadersEnd(d)
      BY <2>4, <3>4 DEF InHeader
    <3>6. HeadersEnd(d) = HeadersEnd(c)
      BY <1>3, <3>2, <3>3, HeadEndsAt
    <3>7. parser' = To("headers_done") /\ Steps(0)
      BY <2>4, Leaves
    <3> QED BY <1>3, <2>2, <2>4, <3>1, <3>4, <3>5, <3>6, <3>7 DEF Sees, Waits, c, d
  <2>5. CASE ch # LF /\ Fail
    BY <1>3, <2>2, <2>5, BreaksAt DEF c
  <2> QED BY <1>5, <2>3, <2>4, <2>5 DEF HeadersAlmostDone, Strictly
<1>6. CASE HeadersDone
  <2> DEFINE ps == HeadOver
             to(state) == [ps EXCEPT !.state = state]
  <2>1. c.state = "headers_done"
    BY <1>3, <1>6 DEF HeadersDone, Strictly, In
  <2>2. InHeader(c, ch) = IF ch = LF THEN HeadersEnd(c) ELSE Bad
    BY <2>1 DEF InHeader
  <2>3. /\ ps \in Parsers /\ ps.errno = "OK" /\ ps.flags = parser.flags
        /\ ps.content_length = parser.content_length
        /\ ps.status_code = parser.status_code /\ ps.version = parser.version
    BY <1>4 DEF HeadOver, Parsers
  <2> HIDE DEF ps
  <2>4. HttpMessageNeedsEof(c) <=> HttpMessageNeedsEof(ps)
    BY <1>3, <2>3 DEF HttpMessageNeedsEof
  <2>5. ASSUME NEW state \in Settled \ Named, Consume(to(state)), ch = LF,
               HeadersEnd(c) = At(c, state)
        PROVE  Sees
    <3>1. /\ to(state) \in Parsers /\ to(state).state = state
          /\ to(state).flags = parser.flags
          /\ to(state).content_length = parser.content_length
          /\ to(state).status_code = parser.status_code
          /\ to(state).version = parser.version
      BY <2>3, <2>5 DEF Parsers, Settled
    <3>2. parser' = to(state) /\ Steps(1)
      BY <2>5, Consumes
    <3> HIDE DEF to
    <3>3. Control(to(state)) = At(c, state)
      BY <1>1, <1>2, <2>5, <3>1, SameKnown DEF c
    <3> QED BY <1>3, <2>2, <2>5, <3>2, <3>3 DEF Sees, Moves, c
  <2>6. ASSUME MessageComplete(ps) \/ UpgradeComplete(ps), ch = LF, HeadersEnd(c) = Over(c)
        PROVE  Sees
    BY <1>1, <1>2, <1>3, <2>2, <2>3, <2>6, CompletesAt DEF c
  <2>7. {"chunk_size_start", "body_identity", "body_identity_eof"} \subseteq Settled \ Named
        /\ UMax # 0
    BY StatesListed, DigitsAssumption
  <2>8. \/ ch # LF /\ Fail
        \/ ch = LF /\ Upgrade \subseteq c.flags /\ UpgradeComplete(ps)
        \/ ch = LF /\ ~(Upgrade \subseteq c.flags) /\ BodyBegins(ps)
    BY <1>3, <1>6, <2>3 DEF HeadersDone, Strictly, ps
  <2>9. CASE ch # LF /\ Fail
    BY <1>3, <2>2, <2>9, BreaksAt DEF c
  <2>10. CASE ch = LF /\ Upgrade \subseteq c.flags /\ UpgradeComplete(ps)
    BY <2>6, <2>10 DEF HeadersEnd
  <2>11. CASE ch = LF /\ ~(Upgrade \subseteq c.flags) /\ BodyBegins(ps)
    <3>1. \/ "CHUNKED" \in c.flags /\ Consume(to("chunk_size_start"))
          \/ /\ "CHUNKED" \notin c.flags /\ c.content_length = 0
             /\ MessageComplete(ps)
          \/ /\ "CHUNKED" \notin c.flags /\ c.content_length \notin {0, UMax}
             /\ Consume(to("body_identity"))
          \/ /\ "CHUNKED" \notin c.flags /\ c.content_length = UMax
             /\ ~HttpMessageNeedsEof(c) /\ MessageComplete(ps)
          \/ /\ "CHUNKED" \notin c.flags /\ c.content_length = UMax
             /\ HttpMessageNeedsEof(c) /\ Consume(to("body_identity_eof"))
      BY <1>3, <2>3, <2>4, <2>11 DEF BodyBegins
    <3> HIDE DEF to
    <3>2. CASE "CHUNKED" \in c.flags /\ Consume(to("chunk_size_start"))
      BY <2>5, <2>7, <2>11, <3>2 DEF HeadersEnd
    <3>3. CASE "CHUNKED" \notin c.flags /\ c.content_length = 0 /\ MessageComplete(ps)
      <4>1. ~HttpMessageNeedsEof(c)
        BY <2>7, <3>3 DEF HttpMessageNeedsEof
      <4> QED BY <2>6, <2>11, <3>3, <4>1 DEF HeadersEnd
    <3>4. CASE "CHUNKED" \notin c.flags /\ c.content_length \notin {0, UMax}
               /\ Consume(to("body_identity"))
      BY <2>5, <2>7, <2>11, <3>4 DEF HeadersEnd
    <3>5. CASE "CHUNKED" \notin c.flags /\ c.content_length = UMax
               /\ ~HttpMessageNeedsEof(c) /\ MessageComplete(ps)
      BY <2>6, <2>11, <3>5 DEF HeadersEnd
    <3>6. CASE "CHUNKED" \notin c.flags /\ c.content_length = UMax
               /\ HttpMessageNeedsEof(c) /\ Consume(to("body_identity_eof"))
      BY <2>5, <2>7, <2>11, <3>6 DEF HeadersEnd
    <3> QED BY <3>1, <3>2, <3>3, <3>4, <3>5, <3>6
  <2> QED BY <2>8, <2>9, <2>10, <2>11
<1> QED BY <1>5, <1>6

LEMMA BodyControl ==
    ASSUME NEW ps \in Parsers, ps.state \in BodyStates \cup ChunkStates
    PROVE  /\ Control(ps) \in Controls
           /\ Control(ps).state = ps.state
           /\ Control(ps).header_state = "h_general"
           /\ Control(ps).flags = ps.flags
           /\ Control(ps).content_length = ps.content_length
           /\ Control(ps).status_code = ps.status_code
           /\ Control(ps).version = ps.version
           /\ ps.state \in Settled \ Named
           /\ \A s : After(Control(ps), s) = InBody(Control(ps), s)
<1>1. ps.state \in Settled \ Named /\ ps.state # StartState
  BY DEF BodyStates, ChunkStates, Settled, Named, States, HeaderStates, StartState
<1> QED BY <1>1, ControlTyped, ControlFields, AfterBody

LEMMA MessageDoneSees ==
    ASSUME PhaseInv, MessageDone
    PROVE  Sees
<1> DEFINE c == Control(parser)
<1>1. /\ parser \in Parsers /\ parsing /\ parser.errno = "OK"
      /\ parser.state = "message_done"
  BY PhaseReady DEF MessageDone, In
<1>2. /\ c.state = "message_done" /\ After(c, ch) = InBody(c, ch)
      /\ parser.state \in Settled
  BY <1>1, BodyControl DEF BodyStates
<1>3. /\ Counted \in Parsers /\ Counted.errno = "OK"
      /\ Counted.flags = parser.flags /\ Counted.content_length = parser.content_length
      /\ Counted.status_code = parser.status_code /\ Counted.version = parser.version
  BY <1>1, CountedControl
<1> HIDE DEF c
<1>4. InBody(c, ch) = Over(c)
  BY <1>2 DEF InBody
<1> QED BY <1>1, <1>2, <1>3, <1>4, CompletesAt DEF c, MessageDone

\* A move to a state, with another length.
LEMMA NewLength ==
    ASSUME parser \in Parsers, parser.state \in BodyStates \cup ChunkStates,
           NEW ps \in Parsers, ps.state \in BodyStates \cup ChunkStates,
           ps.flags = parser.flags, ps.status_code = parser.status_code,
           ps.version = parser.version
    PROVE  Control(ps) = [Control(parser) EXCEPT !.state = ps.state,
                                                 !.content_length = ps.content_length]
<1> DEFINE c == Control(parser)
<1>1. /\ c \in Controls /\ c.header_state = "h_general" /\ c.flags = parser.flags
      /\ c.status_code = parser.status_code /\ c.version = parser.version
  BY BodyControl
<1> HIDE DEF c
<1>2. /\ Control(ps) \in Controls /\ Control(ps).state = ps.state
      /\ Control(ps).header_state = c.header_state /\ Control(ps).flags = c.flags
      /\ Control(ps).content_length = ps.content_length
      /\ Control(ps).status_code = c.status_code /\ Control(ps).version = c.version
  BY <1>1, BodyControl
<1> QED BY <1>1, <1>2 DEF Controls, c

LEMMA ChunkStatesListed ==
    /\ {"chunk_size_start", "chunk_size", "chunk_parameters", "chunk_size_almost_done",
        "chunk_data", "chunk_data_almost_done", "chunk_data_done"}
          \subseteq (BodyStates \cup ChunkStates) \cap States
    /\ BodyStates \cup ChunkStates \subseteq Settled \ Named
    /\ "body" \in Marks
  BY DEF BodyStates, ChunkStates, States, Settled, Named, HeaderStates, StartState, Marks

LEMMA ChunkSizeSees ==
    ASSUME PhaseInv, ChunkSizeStart \/ ChunkSize
    PROVE  Sees
<1> DEFINE c == Control(parser)
           n == parser.content_length
<1>1. /\ parser \in Parsers /\ parser.state \in BodyStates \cup ChunkStates
      /\ parser.state \in {"chunk_size_start", "chunk_size"}
  BY PhaseReady, ChunkStatesListed DEF ChunkSizeStart, ChunkSize, In
<1>2. /\ c \in Controls /\ c.state = parser.state /\ c.content_length = n
      /\ After(c, ch) = InBody(c, ch)
  BY <1>1, BodyControl
<1>3. parser.state \in Settled \ Named
  BY <1>1, ChunkStatesListed
<1>4. ASSUME ch \in DOMAIN Digits
      PROVE  /\ ch \notin {CR, LF, " ", ";"} /\ Digits[ch] \in 0 .. UMax
             /\ Digits[ch] \in 0 .. (Hex - 1)
  <2>1. ch \notin {CR, LF, " ", ";"}
    BY <1>4, SeparatorsAreNoDigits
  <2>2. Digits[ch] \in 0 .. (Hex - 1)
    BY <1>4, DigitsAssumption
  <2>3. Digits[ch] \in 0 .. UMax
    BY <2>2, DigitsAssumption
  <2> QED BY <2>1, <2>2, <2>3
<1>5. CR # ";" /\ CR # " "
  BY DEF CR
<1> HIDE DEF c, n
<1>6. CASE ChunkSizeStart
  <2> DEFINE ps == [To("chunk_size") EXCEPT !.content_length = Digits[ch]]
  <2>1. c.state = "chunk_size_start"
    BY <1>2, <1>6 DEF ChunkSizeStart, In
  <2>2. CASE ch \in DOMAIN Digits /\ Consume(ps)
    <3>1. /\ ps \in Parsers /\ ps.state = "chunk_size" /\ ps.content_length = Digits[ch]
          /\ ps.flags = parser.flags /\ ps.status_code = parser.status_code
          /\ ps.version = parser.version
      <4>1. PICK to : to = To("chunk_size")
        OBVIOUS
      <4>2. /\ to \in Parsers /\ to.state = "chunk_size" /\ to.flags = parser.flags
            /\ to.status_code = parser.status_code /\ to.version = parser.version
        <5>1. parser \in Parsers /\ "chunk_size" \in States
          BY <1>1, ChunkStatesListed
        <5> QED BY <4>1, <5>1, ToControl
      <4>3. PICK d : d = Digits[ch]
        OBVIOUS
      <4>4. d \in 0 .. UMax
        BY <1>4, <2>2, <4>3
      <4>5. PICK set : set = [to EXCEPT !.content_length = d]
        OBVIOUS
      <4>6. /\ set \in Parsers /\ set.state = to.state /\ set.content_length = d
            /\ set.flags = to.flags /\ set.status_code = to.status_code
            /\ set.version = to.version
        BY <4>2, <4>4, <4>5 DEF Parsers
      <4>7. set = ps
        BY <4>1, <4>3, <4>5
      <4> HIDE DEF ps
      <4> QED BY <4>2, <4>3, <4>6, <4>7
    <3>2. parser' = ps /\ Steps(1)
      BY <2>2, Consumes
    <3> HIDE DEF ps
    <3>3. Control(ps) = [c EXCEPT !.state = "chunk_size", !.content_length = Digits[ch]]
      BY <1>1, <3>1, NewLength, ChunkStatesListed DEF c
    <3>4. InBody(c, ch) = [c EXCEPT !.state = "chunk_size", !.content_length = Digits[ch]]
      BY <2>1, <2>2 DEF InBody
    <3> QED BY <1>2, <3>2, <3>3, <3>4 DEF Sees, Moves, c
  <2>3. CASE ch \notin DOMAIN Digits /\ Fail
    <3>1. InBody(c, ch) = Bad
      BY <2>1, <2>3 DEF InBody
    <3> QED BY <1>2, <2>3, <3>1, BreaksAt DEF c
  <2> QED BY <1>6, <2>2, <2>3 DEF ChunkSizeStart
<1>7. CASE ChunkSize
  <2> DEFINE ps == [Counted EXCEPT !.content_length = AnotherDigit(@, Hex)]
             another == n * Hex + Digits[ch]
  <2>1. c.state = "chunk_size"
    BY <1>2, <1>7 DEF ChunkSize, In
  <2>2. CASE ch = CR /\ Consume(To("chunk_size_almost_done"))
    <3>1. InBody(c, ch) = At(c, "chunk_size_almost_done")
      BY <1>4, <1>5, <2>1, <2>2 DEF InBody
    <3> QED BY <1>1, <1>2, <1>3, <2>2, <3>1, MovesTo, ChunkStatesListed DEF c
  <2>3. CASE ch \in {";", " "} /\ Consume(To("chunk_parameters"))
    <3>1. InBody(c, ch) = At(c, "chunk_parameters")
      BY <1>4, <1>5, <2>1, <2>3 DEF InBody
    <3> QED BY <1>1, <1>2, <1>3, <2>3, <3>1, MovesTo, ChunkStatesListed DEF c
  <2>4. CASE ch \in DOMAIN Digits /\ Fits(n, Hex) /\ Consume(ps)
    <3>1. another \in 0 .. UMax
      <4>1. n \in Nat
        BY <1>1, DigitsAssumption DEF Parsers, n
      <4>2. another \in Nat /\ another < UMax
        BY <1>4, <2>4, <4>1, RoomForADigit
      <4> QED BY <4>2, DigitsAssumption
    <3>2. Counted \in Parsers /\ Counted.content_length = n
          /\ AnotherDigit(n, Hex) = another /\ Counted.state = "chunk_size"
          /\ Counted.flags = parser.flags
          /\ Counted.status_code = parser.status_code /\ Counted.version = parser.version
      BY <1>1, <1>2, <2>1, CountedControl DEF AnotherDigit, n
    <3> HIDE DEF another
    <3>3. /\ ps \in Parsers /\ ps.state = "chunk_size" /\ ps.content_length = another
          /\ ps.flags = parser.flags /\ ps.status_code = parser.status_code
          /\ ps.version = parser.version
      BY <3>1, <3>2 DEF Parsers
    <3>4. parser' = ps /\ Steps(1)
      BY <2>4, Consumes
    <3> HIDE DEF ps
    <3>5. Control(ps) = [c EXCEPT !.state = "chunk_size", !.content_length = another]
      BY <1>1, <3>3, NewLength, ChunkStatesListed DEF c
    <3>6. Control(ps) = [c EXCEPT !.content_length = another]
      BY <1>2, <2>1, <3>5 DEF Controls
    <3>7. InBody(c, ch) = [c EXCEPT !.content_length = c.content_length * Hex + Digits[ch]]
      BY <1>2, <1>4, <2>1, <2>4, SameLimits DEF InBody
    <3> QED BY <1>2, <3>4, <3>6, <3>7 DEF Sees, Moves, c, another
  <2>5. CASE /\ ch \notin {CR, ";", " "}
             /\ ~(ch \in DOMAIN Digits /\ Fits(n, Hex))
             /\ Fail
    <3>1. InBody(c, ch) = Bad
      BY <1>2, <2>1, <2>5, SameLimits DEF InBody
    <3> QED BY <1>2, <2>5, <3>1, BreaksAt DEF c
  <2> QED BY <1>7, <2>2, <2>3, <2>4, <2>5 DEF ChunkSize, n
<1> QED BY <1>6, <1>7

LEMMA ChunkFramingSees ==
    ASSUME PhaseInv,
           ChunkParameters \/ ChunkSizeAlmostDone \/ ChunkDataAlmostDone \/ ChunkDataDone
    PROVE  Sees
<1> DEFINE c == Control(parser)
           n == parser.content_length
<1>1. /\ parser \in Parsers /\ parser.state \in BodyStates \cup ChunkStates
  BY PhaseReady, ChunkStatesListed
     DEF ChunkParameters, ChunkSizeAlmostDone, ChunkDataAlmostDone, ChunkDataDone,
         Strictly, In
<1>2. /\ c \in Controls /\ c.state = parser.state /\ c.content_length = n
      /\ After(c, ch) = InBody(c, ch) /\ c.header_state = "h_general"
      /\ c.flags = parser.flags /\ c.status_code = parser.status_code
      /\ c.version = parser.version
  BY <1>1, BodyControl
<1>3. parser.state \in Settled \ Named
  BY <1>1, ChunkStatesListed
<1>4. /\ Counted \in Parsers /\ Counted.state = parser.state
      /\ Counted.flags = parser.flags /\ Counted.content_length = n
      /\ Counted.status_code = parser.status_code /\ Counted.version = parser.version
  BY <1>1, CountedControl
<1> HIDE DEF c, n
<1>5. CASE ChunkParameters
  <2>1. c.state = "chunk_parameters"
    BY <1>2, <1>5 DEF ChunkParameters, In
  <2>2. InBody(c, ch) = IF ch = CR THEN At(c, "chunk_size_almost_done") ELSE c
    BY <2>1 DEF InBody
  <2>3. CASE ch = CR /\ Consume(To("chunk_size_almost_done"))
    BY <1>1, <1>2, <1>3, <2>2, <2>3, MovesTo, ChunkStatesListed DEF c
  <2>4. CASE ch # CR /\ Consume(Counted)
    BY <1>1, <1>2, <2>2, <2>4, StaysAt DEF c
  <2> QED BY <1>5, <2>3, <2>4 DEF ChunkParameters
<1>6. CASE ChunkSizeAlmostDone
  <2> DEFINE ps == [Counted EXCEPT !.nread = 0]
             flags == parser.flags \cup {"TRAILING"}
             trailer == [ps EXCEPT !.state = "header_field_start",
                                   !.flags = @ \cup {"TRAILING"}]
             data == [ps EXCEPT !.state = "chunk_data"]
  <2>1. c.state = "chunk_size_almost_done"
    BY <1>2, <1>6 DEF ChunkSizeAlmostDone, Strictly, In
  <2>2. /\ ps \in Parsers /\ ps.state = parser.state
        /\ ps.flags = parser.flags /\ ps.content_length = n
        /\ ps.status_code = parser.status_code /\ ps.version = parser.version
    BY <1>4 DEF Parsers
  <2> HIDE DEF ps
  <2>3. CASE ch = LF /\ n = 0 /\ Consume(trailer)
    <3>1. flags \in SUBSET AllFlags
      BY <1>1 DEF Parsers, AllFlags
    <3>2. "header_field_start" \in LineStates \ Named /\ "header_field_start" \in States
      BY LineStatesListed DEF Settled
    <3>3. /\ trailer \in Parsers /\ trailer.state = "header_field_start"
          /\ trailer.flags = flags /\ trailer.content_length = n
          /\ trailer.status_code = parser.status_code
          /\ trailer.version = parser.version
      BY <2>2, <3>1, <3>2 DEF Parsers
    <3>4. parser' = trailer /\ Steps(1)
      BY <2>3, Consumes
    <3> HIDE DEF trailer
    <3>5. /\ Control(trailer) \in Controls /\ Control(trailer).state = "header_field_start"
          /\ Control(trailer).header_state = c.header_state
          /\ Control(trailer).flags = c.flags \cup {"TRAILING"}
          /\ Control(trailer).content_length = c.content_length
          /\ Control(trailer).status_code = c.status_code
          /\ Control(trailer).version = c.version
      BY <1>2, <3>2, <3>3, LineLeft
    <3>6. Control(trailer) = [c EXCEPT !.state = "header_field_start",
                                       !.flags = @ \cup {"TRAILING"}]
      BY <1>2, <3>5 DEF Controls
    <3>7. InBody(c, ch) = [c EXCEPT !.state = "header_field_start",
                                    !.flags = @ \cup {"TRAILING"}]
      BY <1>2, <2>1, <2>3 DEF InBody
    <3> QED BY <1>2, <3>4, <3>6, <3>7 DEF Sees, Moves, c
  <2>4. CASE ch = LF /\ n # 0 /\ Consume(data)
    <3>1. /\ data \in Parsers /\ data.state = "chunk_data"
          /\ data.flags = parser.flags /\ data.content_length = parser.content_length
          /\ data.status_code = parser.status_code /\ data.version = parser.version
      BY <2>2, ChunkStatesListed DEF Parsers, n
    <3>2. parser' = data /\ Steps(1)
      BY <2>4, Consumes
    <3> HIDE DEF data
    <3>3. Control(data) = At(c, "chunk_data")
      BY <1>1, <1>3, <3>1, SameKnown, ChunkStatesListed DEF c
    <3>4. InBody(c, ch) = At(c, "chunk_data")
      BY <1>2, <2>1, <2>4 DEF InBody
    <3> QED BY <1>2, <3>2, <3>3, <3>4 DEF Sees, Moves, c
  <2>5. CASE ch # LF /\ Fail
    <3>1. InBody(c, ch) = Bad
      BY <2>1, <2>5 DEF InBody
    <3> QED BY <1>2, <2>5, <3>1, BreaksAt DEF c
  <2> QED BY <1>6, <2>2, <2>3, <2>4, <2>5 DEF ChunkSizeAlmostDone, Strictly, ps
<1>7. CASE ChunkDataAlmostDone
  <2>1. c.state = "chunk_data_almost_done"
    BY <1>2, <1>7 DEF ChunkDataAlmostDone, Strictly, In
  <2>2. InBody(c, ch) = IF ch = CR THEN At(c, "chunk_data_done") ELSE Bad
    BY <2>1 DEF InBody
  <2> QED BY <1>1, <1>2, <1>3, <1>7, <2>2, MovesTo, BreaksAt, ChunkStatesListed
          DEF ChunkDataAlmostDone, Strictly, c
<1>8. CASE ChunkDataDone
  <2> DEFINE ps == [To("chunk_size_start") EXCEPT !.nread = 0]
  <2>1. c.state = "chunk_data_done"
    BY <1>2, <1>8 DEF ChunkDataDone, Strictly, In
  <2>2. InBody(c, ch) = IF ch = LF THEN At(c, "chunk_size_start") ELSE Bad
    BY <2>1 DEF InBody
  <2>3. CASE ch = LF /\ Consume(ps)
    <3>1. /\ ps \in Parsers /\ ps.state = "chunk_size_start"
          /\ ps.flags = parser.flags /\ ps.content_length = parser.content_length
          /\ ps.status_code = parser.status_code /\ ps.version = parser.version
      BY <1>1, ToControl, ChunkStatesListed DEF Parsers
    <3>2. parser' = ps /\ Steps(1)
      BY <2>3, Consumes
    <3> HIDE DEF ps
    <3>3. Control(ps) = At(c, "chunk_size_start")
      BY <1>1, <1>3, <3>1, SameKnown, ChunkStatesListed DEF c
    <3> QED BY <1>2, <2>2, <2>3, <3>2, <3>3 DEF Sees, Moves, c
  <2>4. CASE ch # LF /\ Fail
    BY <1>2, <2>2, <2>4, BreaksAt DEF c
  <2> QED BY <1>8, <2>3, <2>4 DEF ChunkDataDone, Strictly
<1> QED BY <1>5, <1>6, <1>7, <1>8

-----------------------------------------------------------------------------------
(* The turns that take as much of a body as there is.                                *)

LEMMA StaysAlive ==
    ASSUME PhaseInv, Next, parsing, parser.state # "dead", UNCHANGED <<completed, link>>
    PROVE  parser'.state # "dead"
<1>1. link = "open" /\ parser.errno = "OK" /\ completed \in Nat /\ parsing \in BOOLEAN
      /\ parser \in Parsers
  BY PhaseReady DEF PhaseInv, Ind, TypeOK
<1>2. PhaseInv' /\ [Abstract!Next]_Abstract!vars
  BY PhaseNext DEF AbstractStep
<1>3. parser'.errno = "OK"
  BY <1>1, <1>2 DEF PhaseInv
<1>4. Phase # "dead" /\ Phase \in {"start", "eof_body", "body"}
  BY <1>1, Phased DEF PhaseOf, StartState
<1>5. Phase' # "dead"
  <2>1. CASE Abstract!Part
    BY <1>4, <2>1 DEF Abstract!Part, Abstract!Feed, Abstract!ParseError, Abstract!Endings,
                      Abstract!Pieces
  <2>2. CASE Abstract!Message \/ Abstract!EndOfBody
    <3>1. completed' = completed + 1
      BY <2>2, Zenon DEF Abstract!Message, Abstract!EndOfBody
    <3> QED BY <1>1, <3>1
  <2>3. CASE Abstract!Error \/ Abstract!Dial
    BY <1>1, <2>3 DEF Abstract!Error, Abstract!Dial
  <2>4. CASE UNCHANGED Abstract!vars
    <3>1. Phase' = Phase
      BY <2>4, Zenon DEF Abstract!vars
    <3> QED BY <1>4, <3>1
  <2> QED BY <1>2, <2>1, <2>2, <2>3, <2>4 DEF Abstract!Next
<1> QED BY <1>3, <1>5, Phased DEF PhaseOf, StartState

Remaining(c, n) == [c EXCEPT !.content_length = n]
BodyEnds(c) ==
    IF c.state = "body_identity" THEN Over(Remaining(c, 0))
    ELSE At(Remaining(c, 0), "chunk_data_almost_done")

LEMMA RemainingFields ==
    ASSUME NEW c \in Controls, NEW n \in 0 .. UMax
    PROVE  /\ Remaining(c, n) \in Controls /\ Remaining(c, n).state = c.state
           /\ Remaining(c, n).content_length = n
           /\ \A k : Remaining(Remaining(c, n), k) = Remaining(c, k)
           /\ BodyEnds(Remaining(c, n)) = BodyEnds(c)
<1>1. /\ Remaining(c, n) \in Controls /\ Remaining(c, n).state = c.state
      /\ Remaining(c, n).content_length = n
      /\ \A k : Remaining(Remaining(c, n), k) = Remaining(c, k)
  BY DEF Remaining, Controls
<1> QED BY <1>1 DEF BodyEnds

LEMMA BodyAfter ==
    ASSUME NEW c \in Controls, c.state \in {"body_identity", "chunk_data"},
           c.content_length # 0, NEW s
    PROVE  After(c, s) = IF c.content_length = 1 THEN BodyEnds(c)
                         ELSE Remaining(c, c.content_length - 1)
<1>1. After(c, s) = InBody(c, s)
  BY AfterBody DEF BodyStates
<1>2. c.content_length \in 0 .. UMax
  BY DEF Controls
<1>3. CASE c.state = "body_identity"
  <2>1. InBody(c, s) = IF c.content_length = 1 THEN Over([c EXCEPT !.content_length = 0])
                       ELSE [c EXCEPT !.content_length = @ - 1]
    BY <1>3 DEF InBody
  <2> QED BY <1>1, <1>2, <1>3, <2>1 DEF BodyEnds, Remaining
<1>4. CASE c.state = "chunk_data"
  <2>1. InBody(c, s) = [c EXCEPT !.content_length = @ - 1,
                                 !.state = IF c.content_length = 1
                                           THEN "chunk_data_almost_done" ELSE @]
    BY <1>4 DEF InBody
  <2>2. CASE c.content_length = 1
    <3>1. InBody(c, s) = [c EXCEPT !.content_length = 0, !.state = "chunk_data_almost_done"]
      BY <2>1, <2>2 DEF Controls
    <3>2. BodyEnds(c) = [c EXCEPT !.content_length = 0, !.state = "chunk_data_almost_done"]
      BY <1>4 DEF BodyEnds, Remaining, At, Controls
    <3> QED BY <1>1, <2>2, <3>1, <3>2
  <2>3. CASE c.content_length # 1
    <3>1. InBody(c, s) = [c EXCEPT !.content_length = @ - 1]
      BY <2>1, <2>3 DEF Controls
    <3> QED BY <1>1, <2>3, <3>1 DEF Remaining
  <2> QED BY <2>2, <2>3
<1> QED BY <1>3, <1>4

\* What a reader alone knows within a body.
LEMMA BodyRun ==
    ASSUME NEW c \in Controls, c.state \in {"body_identity", "chunk_data"},
           c.content_length # 0, NEW w, Len(w) \in Nat, NEW p \in Nat, p < Len(w),
           After(c, w[p + 1]) = Alone(w)[p + 1]
    PROVE  \A j \in 1 .. (Len(w) - p) :
             /\ j < c.content_length =>
                  Alone(w)[p + j] = Remaining(c, c.content_length - j)
             /\ j = c.content_length => Alone(w)[p + j] = BodyEnds(c)
<1> DEFINE n == c.content_length
           Right(j) == /\ j < n => Alone(w)[p + j] = Remaining(c, n - j)
                       /\ j = n => Alone(w)[p + j] = BodyEnds(c)
           wrong == {j \in 1 .. (Len(w) - p) : ~Right(j)}
<1>1. SUFFICES ASSUME wrong # {} PROVE FALSE
  OBVIOUS
<1>2. n \in 0 .. UMax /\ UMax \in Nat /\ n # 0
  BY DigitsAssumption DEF Controls
<1>3. PICK j \in wrong : \A k \in wrong : j <= k
  <2>1. wrong \subseteq Nat
    OBVIOUS
  <2> HIDE DEF wrong
  <2> QED BY <1>1, <2>1, Least
<1>4. j \in 1 .. (Len(w) - p) /\ ~Right(j) /\ j <= n
  BY <1>2
<1> HIDE DEF n
<1>5. CASE j = 1
  <2>1. Alone(w)[p + 1] = IF n = 1 THEN BodyEnds(c) ELSE Remaining(c, n - 1)
    BY BodyAfter DEF n
  <2> QED BY <1>2, <1>4, <1>5, <2>1
<1>6. CASE j # 1
  <2>1. j - 1 \in 1 .. (Len(w) - p) /\ j - 1 < n /\ j - 1 \in Nat
    BY <1>2, <1>4, <1>6
  <2>2. Right(j - 1)
    BY <1>3, <2>1
  <2> DEFINE d == Remaining(c, n - (j - 1))
  <2>3. Alone(w)[p + (j - 1)] = d
    BY <2>1, <2>2
  <2>4. n - (j - 1) \in 0 .. UMax /\ n - (j - 1) # 0 /\ n - (j - 1) - 1 = n - j
    BY <1>2, <1>4, <2>1
  <2>5. /\ d \in Controls /\ d.state = c.state /\ d.content_length = n - (j - 1)
        /\ Remaining(d, n - j) = Remaining(c, n - j) /\ BodyEnds(d) = BodyEnds(c)
    BY <2>4, RemainingFields
  <2> HIDE DEF d
  <2>6. After(d, w[p + j]) = IF n - (j - 1) = 1 THEN BodyEnds(c) ELSE Remaining(c, n - j)
    BY <2>4, <2>5, BodyAfter
  <2>7. p + j \in 1 .. Len(w) /\ (p + j) - 1 = p + (j - 1)
    BY <1>4
  <2>8. Alone(w)[p + j] = After(d, w[p + j])
    BY <2>3, <2>7, AloneSteps
  <2> QED BY <1>2, <1>4, <2>4, <2>6, <2>8
<1> QED BY <1>5, <1>6

Reads(c, w, p) == p < Len(w) /\ After(c, w[p + 1]) = Alone(w)[p + 1]

LEMMA EofRun ==
    ASSUME NEW c, c.state = "body_identity_eof", NEW w, Len(w) \in Nat,
           NEW p \in Nat, Reads(c, w, p)
    PROVE  \A j \in 1 .. (Len(w) - p) : Alone(w)[p + j] = c
<1> DEFINE wrong == {j \in 1 .. (Len(w) - p) : Alone(w)[p + j] # c}
<1>1. SUFFICES ASSUME wrong # {} PROVE FALSE
  OBVIOUS
<1>2. \A s : After(c, s) = c
  <2>1. \A s : After(c, s) = InBody(c, s)
    BY AfterBody DEF BodyStates
  <2> QED BY <2>1 DEF InBody
<1>3. PICK j \in wrong : \A k \in wrong : j <= k
  <2>1. wrong \subseteq Nat
    OBVIOUS
  <2> HIDE DEF wrong
  <2> QED BY <1>1, <2>1, Least
<1>4. CASE j = 1
  BY <1>2, <1>3, <1>4 DEF Reads
<1>5. CASE j # 1
  <2>1. j - 1 \in 1 .. (Len(w) - p) /\ p + j \in 1 .. Len(w) /\ (p + j) - 1 = p + (j - 1)
    BY <1>3, <1>5
  <2>2. Alone(w)[p + (j - 1)] = c
    BY <1>3, <2>1
  <2>3. Alone(w)[p + j] = After(c, w[p + j])
    BY <2>1, <2>2, AloneSteps
  <2> QED BY <1>2, <1>3, <2>3
<1> QED BY <1>4, <1>5

\* A turn that is within a message, whatever the message: the parser has read n symbols
\* of the message and knows what a reader alone knows, or has read all but the one that
\* it left; or it has read more than the message has.
Follows(n) ==
    /\ n \in 0 .. Len(rest) /\ Steps(n)
    /\ \A w \in Seq(STRING), p \in Nat :
          p < Len(w) /\ w[p + 1] = ch /\ After(Control(parser), ch) = Alone(w)[p + 1] =>
             \/ p + n <= Len(w) /\ Control(parser') = Alone(w)[p + n]
             \/ /\ n < Len(rest) /\ p + n < Len(w)
                /\ After(Control(parser'), w[p + n + 1]) = Alone(w)[p + n + 1]
             \/ Len(rest) > Len(w) - p /\ Alone(w)[Len(w)].state \in BodyStates

LEMMA OneFollows ==
    ASSUME Ind, rest # <<>>, Moves \/ Waits
    PROVE  \E n : Follows(n)
<1>1. Len(rest) \in Nat \ {0}
  BY EmptySeq, LenProperties DEF Ind, TypeOK
<1>2. \A w \in Seq(STRING) : Len(w) \in Nat
  BY LenProperties
<1>3. CASE Moves
  <2>1. Follows(1)
    BY <1>1, <1>2, <1>3 DEF Follows, Moves
  <2> QED BY <2>1
<1>4. CASE Waits
  <2>1. Follows(0)
    BY <1>1, <1>2, <1>4 DEF Follows, Waits
  <2> QED BY <2>1
<1> QED BY <1>3, <1>4

LEMMA BodyFollows ==
    ASSUME PhaseInv, BodyIdentity \/ ChunkData
    PROVE  \E n : Follows(n)
<1> DEFINE c == Control(parser)
           length == parser.content_length
           ps == [Counted EXCEPT !.content_length = @ - ToRead]
<1>1. /\ parser \in Parsers /\ Good(parser) /\ Ind
      /\ parser.state \in {"body_identity", "chunk_data"} /\ In(parser.state)
  BY PhaseReady DEF BodyIdentity, ChunkData, In, PhaseInv
<1>2. /\ length # 0 /\ length \in Nat /\ ToRead \in 1 .. Len(rest) /\ ToRead \in Nat
      /\ Len(rest) \in Nat /\ length - ToRead \in 0 .. UMax
      /\ ToRead = IF length <= Len(rest) THEN length ELSE Len(rest)
  BY <1>1, ToReadSmall, LenProperties, DigitsAssumption
     DEF Good, Parsers, ToRead, Ind, TypeOK
<1>3. parser.state \in (BodyStates \cup ChunkStates) \cap States
  BY <1>1 DEF BodyStates, ChunkStates, States
<1>4. c \in Controls /\ c.state = parser.state /\ c.content_length = length
  BY <1>3, <1>1, BodyControl
<1>5. Counted = parser
  BY <1>1, CountedFields DEF BodyStates
<1>6. /\ ps \in Parsers /\ ps.state = parser.state /\ ps.content_length = length - ToRead
      /\ ps.flags = parser.flags /\ ps.status_code = parser.status_code
      /\ ps.version = parser.version
  BY <1>1, <1>2, <1>5 DEF Parsers
<1> HIDE DEF c, length
<1>7. Control(ps) = Remaining(c, length - ToRead)
  <2>1. Control(ps) = [c EXCEPT !.state = parser.state, !.content_length = length - ToRead]
    BY <1>1, <1>3, <1>6, NewLength DEF c
  <2> QED BY <1>4, <2>1 DEF Remaining, Controls
<1>8. ASSUME NEW w \in Seq(STRING), NEW p \in Nat,
             p < Len(w), w[p + 1] = ch, After(c, ch) = Alone(w)[p + 1]
      PROVE  /\ Len(w) \in Nat
             /\ \A j \in 1 .. (Len(w) - p) :
                   /\ j < length => Alone(w)[p + j] = Remaining(c, length - j)
                   /\ j = length => Alone(w)[p + j] = BodyEnds(c)
             /\ Len(w) - p < length => Alone(w)[Len(w)].state \in BodyStates
  <2>1. Len(w) \in Nat
    BY LenProperties
  <2>2. \A j \in 1 .. (Len(w) - p) :
           /\ j < length => Alone(w)[p + j] = Remaining(c, length - j)
           /\ j = length => Alone(w)[p + j] = BodyEnds(c)
    <3>1. After(c, w[p + 1]) = Alone(w)[p + 1] /\ p < Len(w) /\ c.content_length # 0
          /\ c.state \in {"body_identity", "chunk_data"}
      BY <1>1, <1>2, <1>4, <1>8
    <3> QED BY <1>4, <2>1, <3>1, BodyRun
  <2>3. ASSUME Len(w) - p < length PROVE Alone(w)[Len(w)].state \in BodyStates
    <3>1. Len(w) - p \in 1 .. (Len(w) - p) /\ p + (Len(w) - p) = Len(w)
      BY <1>8, <2>1
    <3>2. Alone(w)[Len(w)] = Remaining(c, length - (Len(w) - p))
      BY <2>2, <2>3, <3>1
    <3>3. Remaining(c, length - (Len(w) - p)).state = c.state
      BY <1>4 DEF Remaining, Controls
    <3> QED BY <1>1, <1>4, <3>2, <3>3 DEF BodyStates
  <2> QED BY <2>1, <2>2, <2>3
<1> HIDE DEF ps
<1>9. ASSUME Steps(ToRead), parser' = ps, ps.content_length # 0
      PROVE  Follows(ToRead)
  <2>1. ToRead < length
    BY <1>2, <1>6, <1>9
  <2>2. ASSUME NEW w \in Seq(STRING), NEW p \in Nat,
               p < Len(w), w[p + 1] = ch, After(c, ch) = Alone(w)[p + 1]
        PROVE  \/ p + ToRead <= Len(w) /\ Control(parser') = Alone(w)[p + ToRead]
               \/ Len(rest) > Len(w) - p /\ Alone(w)[Len(w)].state \in BodyStates
    <3>1. /\ Len(w) \in Nat
          /\ \A j \in 1 .. (Len(w) - p) :
                j < length => Alone(w)[p + j] = Remaining(c, length - j)
          /\ Len(w) - p < length => Alone(w)[Len(w)].state \in BodyStates
      BY <1>8, <2>2
    <3>2. CASE p + ToRead <= Len(w)
      BY <1>2, <1>7, <1>9, <2>1, <3>1, <3>2
    <3>3. CASE p + ToRead > Len(w)
      BY <1>2, <2>1, <3>1, <3>3
    <3> QED BY <1>2, <3>1, <3>2, <3>3
  <2> QED BY <1>2, <1>9, <2>2 DEF Follows, c
<1>10. CASE BodyIdentity
  <2> DEFINE over == [ps EXCEPT !.state = "message_done"]
  <2>1. parser.state = "body_identity"
    BY <1>10 DEF BodyIdentity, In
  <2>2. CASE ps.content_length # 0 /\ Turn(ps, ToRead, marks \cup {"body"}) /\ Quietly
    <3>1. Steps(ToRead) /\ parser' = ps
      BY <2>2 DEF Turn, Quietly, Steps, scriptVars
    <3> QED BY <1>9, <2>2, <3>1
  <2>3. CASE /\ ps.content_length = 0
             /\ parser' = over /\ rest' = SubSeq(rest, ToRead, Len(rest))
             /\ UNCHANGED <<parsing, full, got, completed, clockVars, netVars>>
    <3>1. ToRead = length /\ length \in 1 .. Len(rest) /\ (length - 1) + 1 = length
      BY <1>2, <1>6, <2>3
    <3>2. Steps(length - 1)
      BY <2>3, <3>1 DEF Steps
    <3>3. /\ over \in Parsers /\ over.state = "message_done" /\ over.content_length = 0
          /\ over.flags = parser.flags /\ over.status_code = parser.status_code
          /\ over.version = parser.version /\ "message_done" \in BodyStates
      BY <1>6, <2>3 DEF Parsers, States, BodyStates
    <3> HIDE DEF over
    <3>4. Control(over) = [c EXCEPT !.state = "message_done", !.content_length = 0]
      BY <1>1, <1>3, <3>3, NewLength DEF c
    <3>5. \A s : After(Control(over), s) = BodyEnds(c)
      <4>1. Control(over).state = "message_done"
            /\ \A s : After(Control(over), s) = InBody(Control(over), s)
        BY <3>3, BodyControl
      <4>2. \A s : InBody(Control(over), s) = Over(Control(over))
        BY <4>1 DEF InBody
      <4>3. Over(Control(over)) = Over(Remaining(c, 0))
        BY <1>4, <3>4 DEF Over, Remaining, Controls
      <4> QED BY <1>4, <2>1, <4>1, <4>2, <4>3 DEF BodyEnds
    <3>6. ASSUME NEW w \in Seq(STRING), NEW p \in Nat,
                 p < Len(w), w[p + 1] = ch, After(c, ch) = Alone(w)[p + 1]
          PROVE  \/ /\ p + (length - 1) < Len(w)
                    /\ After(Control(parser'), w[p + (length - 1) + 1])
                          = Alone(w)[p + (length - 1) + 1]
                 \/ Len(rest) > Len(w) - p /\ Alone(w)[Len(w)].state \in BodyStates
      <4>1. /\ Len(w) \in Nat
            /\ \A j \in 1 .. (Len(w) - p) :
                  j = length => Alone(w)[p + j] = BodyEnds(c)
            /\ Len(w) - p < length => Alone(w)[Len(w)].state \in BodyStates
        BY <1>8, <3>6
      <4>2. CASE p + length <= Len(w)
        <5>1. length \in 1 .. (Len(w) - p) /\ p + (length - 1) + 1 = p + length
              /\ p + (length - 1) < Len(w)
          BY <1>2, <3>1, <4>1, <4>2
        <5> QED BY <2>3, <3>5, <4>1, <5>1
      <4>3. CASE p + length > Len(w)
        BY <1>2, <3>1, <4>1, <4>3
      <4> QED BY <1>2, <4>1, <4>2, <4>3
    <3>7. length - 1 \in 0 .. Len(rest) /\ length - 1 < Len(rest)
      BY <1>2, <3>1
    <3>8. Follows(length - 1)
      BY <3>2, <3>6, <3>7 DEF Follows, c
    <3> QED BY <3>8
  <2> QED BY <1>10, <2>2, <2>3 DEF BodyIdentity, ps
<1>11. CASE ChunkData
  <2> DEFINE over == [ps EXCEPT !.state = "chunk_data_almost_done"]
  <2>1. parser.state = "chunk_data"
    BY <1>11 DEF ChunkData, In
  <2>2. Steps(ToRead) /\ parser' = IF ps.content_length = 0 THEN over ELSE ps
    BY <1>11 DEF ChunkData, Turn, Quietly, Steps, scriptVars, ps
  <2>3. CASE ps.content_length # 0
    BY <1>9, <2>2, <2>3
  <2>4. CASE ps.content_length = 0
    <3>1. ToRead = length /\ length \in 1 .. Len(rest)
      BY <1>2, <1>6, <2>4
    <3>2. /\ over \in Parsers /\ over.state = "chunk_data_almost_done"
          /\ over.content_length = 0
          /\ over.flags = parser.flags /\ over.status_code = parser.status_code
          /\ over.version = parser.version
          /\ "chunk_data_almost_done" \in BodyStates \cup ChunkStates
      BY <1>6, <2>4 DEF Parsers, States, BodyStates
    <3> HIDE DEF over
    <3>3. Control(over) = [c EXCEPT !.state = "chunk_data_almost_done",
                                    !.content_length = 0]
      BY <1>1, <1>3, <3>2, NewLength DEF c
    <3>4. Control(over) = BodyEnds(c)
      BY <1>4, <2>1, <3>3 DEF BodyEnds, Remaining, At, Controls
    <3>5. ASSUME NEW w \in Seq(STRING), NEW p \in Nat,
                 p < Len(w), w[p + 1] = ch, After(c, ch) = Alone(w)[p + 1]
          PROVE  \/ p + length <= Len(w) /\ Control(parser') = Alone(w)[p + length]
                 \/ Len(rest) > Len(w) - p /\ Alone(w)[Len(w)].state \in BodyStates
      <4>1. /\ Len(w) \in Nat
            /\ \A j \in 1 .. (Len(w) - p) :
                  j = length => Alone(w)[p + j] = BodyEnds(c)
            /\ Len(w) - p < length => Alone(w)[Len(w)].state \in BodyStates
        BY <1>8, <3>5
      <4>2. CASE p + length <= Len(w)
        <5>1. length \in 1 .. (Len(w) - p)
          BY <1>2, <3>1, <4>1, <4>2
        <5> QED BY <2>2, <2>4, <3>4, <4>1, <4>2, <5>1
      <4>3. CASE p + length > Len(w)
        BY <1>2, <3>1, <4>1, <4>3
      <4> QED BY <1>2, <4>1, <4>2, <4>3
    <3>6. Follows(length)
      BY <1>2, <2>2, <3>1, <3>5 DEF Follows, c
    <3> QED BY <3>6
  <2> QED BY <2>3, <2>4
<1> QED BY <1>10, <1>11

LEMMA EofFollows ==
    ASSUME PhaseInv, BodyIdentityEof
    PROVE  \E n : Follows(n)
<1> DEFINE c == Control(parser)
<1>1. /\ parser \in Parsers /\ Ind /\ parser.state = "body_identity_eof" /\ rest # <<>>
      /\ Len(rest) \in Nat /\ Len(rest) # 0
  BY PhaseReady, LenProperties, EmptySeq DEF BodyIdentityEof, In, PhaseInv, Ind, TypeOK
<1>2. c.state = "body_identity_eof"
  BY <1>1, ControlFields
<1>3. parser' = Counted /\ Steps(Len(rest))
  BY DEF BodyIdentityEof, Turn, Quietly, Steps, scriptVars
<1>4. Control(parser') = c
  BY <1>1, <1>3, CountedSame
<1> HIDE DEF c
<1>5. ASSUME NEW w \in Seq(STRING), NEW p \in Nat,
             p < Len(w), w[p + 1] = ch, After(c, ch) = Alone(w)[p + 1]
      PROVE  \/ p + Len(rest) <= Len(w) /\ Control(parser') = Alone(w)[p + Len(rest)]
             \/ Len(rest) > Len(w) - p /\ Alone(w)[Len(w)].state \in BodyStates
  <2>1. Len(w) \in Nat
    BY LenProperties
  <2>2. \A j \in 1 .. (Len(w) - p) : Alone(w)[p + j] = c
    <3>1. Reads(c, w, p)
      BY <1>5 DEF Reads
    <3> QED BY <1>2, <2>1, <3>1, EofRun
  <2>3. CASE p + Len(rest) <= Len(w)
    <3>1. Len(rest) \in 1 .. (Len(w) - p)
      BY <1>1, <2>1, <2>3
    <3> QED BY <1>4, <2>2, <2>3, <3>1
  <2>4. CASE p + Len(rest) > Len(w)
    <3>1. Len(w) - p \in 1 .. (Len(w) - p) /\ p + (Len(w) - p) = Len(w)
          /\ Len(rest) > Len(w) - p
      BY <1>1, <1>5, <2>1, <2>4
    <3>2. Alone(w)[Len(w)] = c
      BY <2>2, <3>1
    <3> QED BY <1>2, <3>1, <3>2 DEF BodyStates
  <2> QED BY <1>1, <2>1, <2>3, <2>4
<1> QED BY <1>1, <1>3, <1>5 DEF Follows, c

LEMMA TurnFollows ==
    ASSUME PhaseInv, parsing, rest # <<>>, parser.state # "dead", Execute
    PROVE  (\E n : Follows(n)) \/ Breaks \/ Completes
<1>1. Ind /\ parser \in Parsers
  BY PhaseReady DEF PhaseInv
<1>2. Sees => (\E n : Follows(n)) \/ Breaks \/ Completes
  BY <1>1, OneFollows DEF Sees
<1>3. ~Dead /\ ~EndOfInput /\ ~Unparsed
  BY DEF Dead, In, EndOfInput, Unparsed
<1>4. CASE StartRes \/ ResVersion \/ ResFirstStatusCode \/ ResStatusCode \/ ResStatusStart
           \/ ResStatus \/ ResLineAlmostDone
  BY <1>1, <1>2, <1>4, StartSees, VersionSees, FirstStatusCodeSees, StatusTextSees
<1>5. CASE HeaderFieldStart \/ HeaderField \/ HeaderValueDiscardWs \/ HeaderValueStart
           \/ HeaderValue \/ HeaderAlmostDone \/ HeaderValueLws
           \/ HeaderValueDiscardWsAlmostDone \/ HeaderValueDiscardLws
  BY <1>1, <1>2, <1>5, FieldStartSees, FieldSees, ValueSpaceSees, HeaderValueSees
<1>6. CASE HeadersAlmostDone \/ HeadersDone \/ MessageDone
  BY <1>2, <1>6, HeadersSee, MessageDoneSees
<1>7. CASE ChunkSizeStart \/ ChunkSize \/ ChunkParameters \/ ChunkSizeAlmostDone
           \/ ChunkDataAlmostDone \/ ChunkDataDone
  BY <1>2, <1>7, ChunkSizeSees, ChunkFramingSees
<1>8. CASE BodyIdentity \/ ChunkData \/ BodyIdentityEof
  BY <1>8, BodyFollows, EofFollows
<1> QED BY <1>3, <1>4, <1>5, <1>6, <1>7, <1>8 DEF Execute

-----------------------------------------------------------------------------------
(* Buffers and what they hold.                                                       *)

\* What is in the buffers (the provers do not know that the symbol of NUL is a string).
Symbols == STRING \cup {NUL}

Buffers == {b \in [data : Seq(Symbols), cursor : Nat] : b.cursor <= Len(b.data)}
Kept    == [headers : Buffers, body : Buffers, state : {"FIELD", "VALUE"}]

TextsOf == [headers : Seq(Symbols), field : {"FIELD", "VALUE"}, body : Seq(Symbols)]

Contents(b) == [headers |-> BufferContents(b.headers), field |-> b.state,
                body |-> BufferContents(b.body)]

LEMMA Joined ==
    ASSUME NEW a \in Seq(Symbols), NEW b \in Seq(Symbols)
    PROVE  /\ a \o b \in Seq(Symbols) /\ Len(a \o b) = Len(a) + Len(b)
           /\ a \o <<>> = a /\ (a \o b = <<>> => a = <<>> /\ b = <<>>)
           /\ Len(a) \in Nat /\ Len(b) \in Nat
<1>1. a \o b \in Seq(Symbols) /\ Len(a \o b) = Len(a) + Len(b)
  BY ConcatProperties
<1>2. a \o <<>> = a
  BY ConcatEmptySeq
<1>3. a \o b = <<>> => a = <<>> /\ b = <<>>
  BY ConcatEqualIffEmpty
<1> QED BY <1>1, <1>2, <1>3, LenProperties

LEMMA Single ==
                /\ <<NUL>> \in Seq(Symbols) /\ <<>> \in Seq(Symbols)
                /\ Seq(STRING) \subseteq Seq(Symbols)
                /\ \A s \in Symbols : <<s>> \in Seq(Symbols) /\ <<s>> # <<>>
<1>1. ASSUME NEW S, NEW s \in S PROVE <<s>> \in Seq(S)
  BY SMT
<1>2. \A s : <<s>> # <<>>
  OBVIOUS
<1>3. NUL \in Symbols /\ STRING \subseteq Symbols
  BY DEF Symbols
<1>4. Seq(STRING) \subseteq Seq(Symbols)
  BY <1>3, SeqMonotonic
<1> QED BY <1>1, <1>2, <1>3, <1>4, EmptySeq

LEMMA Associative ==
    ASSUME NEW a \in Seq(Symbols), NEW b \in Seq(Symbols), NEW c \in Seq(Symbols)
    PROVE  (a \o b) \o c = a \o (b \o c)
  BY ConcatAssociative

LEMMA Appended ==
    ASSUME NEW b \in Buffers, NEW s \in Seq(Symbols)
    PROVE  /\ BufferAppend(b, s) \in Buffers /\ BufferContents(b) \in Seq(Symbols)
           /\ BufferContents(BufferAppend(b, s)) = BufferContents(b) \o s
           /\ Len(BufferContents(b)) = b.cursor
<1>0. PICK a, z, n : /\ a = SubSeq(b.data, 1, b.cursor)
                     /\ z = SubSeq(b.data, b.cursor + Len(s) + 1, Len(b.data))
                     /\ n = b.cursor + Len(s)
  OBVIOUS
<1>1. /\ b.data \in Seq(Symbols) /\ b.cursor \in Nat /\ b.cursor <= Len(b.data)
      /\ Len(b.data) \in Nat /\ Len(s) \in Nat
  BY LenProperties DEF Buffers
<1>2. a \in Seq(Symbols) /\ Len(a) = b.cursor
  <2>1. \A i \in 1 .. b.cursor : b.data[i] \in Symbols
    BY <1>1, ElementOfSeq
  <2> QED BY <1>0, <1>1, <2>1, SubSeqProperties
<1>3. z \in Seq(Symbols) /\ Len(z) \in Nat
  <2>1. b.cursor + Len(s) + 1 \in Nat \ {0}
    BY <1>1
  <2>2. z \in Seq(Symbols)
    BY <1>0, <1>1, <2>1, PartOfSeq
  <2> QED BY <2>2, LenProperties
<1>4. BufferContents(b) = a
  BY <1>0 DEF BufferContents
<1>5. BufferAppend(b, s) = [data |-> (a \o s) \o z, cursor |-> n]
  BY <1>0 DEF BufferAppend
<1>6. a \o s \in Seq(Symbols) /\ Len(a \o s) = n /\ n \in Nat
  BY <1>0, <1>1, <1>2, Joined
<1>7. (a \o s) \o z \in Seq(Symbols) /\ Len((a \o s) \o z) = n + Len(z)
  BY <1>3, <1>6, Joined
<1>8. BufferAppend(b, s) \in Buffers
  <2>1. n <= Len((a \o s) \o z)
    BY <1>3, <1>6, <1>7
  <2> QED BY <1>5, <1>6, <1>7, <2>1 DEF Buffers
<1>9. SubSeq((a \o s) \o z, 1, n) = a \o s
  <2>1. CASE n = 0
    BY <1>6, <2>1, SubSeqEmpty, EmptySeq
  <2>2. CASE n # 0
    <3>1. 1 \in 1 .. Len(a \o s) /\ n \in 1 .. Len(a \o s)
      BY <1>6, <2>2
    <3>2. SubSeq((a \o s) \o z, 1, n) = SubSeq(a \o s, 1, n)
      BY <1>3, <1>6, <3>1, SubSeqOfConcat1
    <3>3. SubSeq(a \o s, 1, n) = a \o s
      BY <1>6, SubSeqFull
    <3> QED BY <3>2, <3>3
  <2> QED BY <2>1, <2>2
<1>10. BufferContents(BufferAppend(b, s)) = a \o s
  <2>1. PICK r : r = BufferAppend(b, s)
    OBVIOUS
  <2>2. r.data = (a \o s) \o z /\ r.cursor = n
    BY <1>5, <2>1
  <2>3. BufferContents(r) = SubSeq(r.data, 1, r.cursor)
    BY DEF BufferContents
  <2> QED BY <1>9, <2>1, <2>2, <2>3
<1> QED BY <1>2, <1>4, <1>8, <1>10

LEMMA Emptied ==
    ASSUME NEW b \in Buffers
    PROVE  BufferReset(b) \in Buffers /\ BufferContents(BufferReset(b)) = <<>>
<1>1. BufferReset(b) \in Buffers /\ BufferReset(b).cursor = 0
  BY LenProperties DEF BufferReset, Buffers
<1>2. SubSeq(BufferReset(b).data, 1, 0) = <<>>
  BY SubSeqEmpty
<1> QED BY <1>1, <1>2 DEF BufferContents

LEMMA ContentsTyped ==
    ASSUME NEW b \in Kept
    PROVE  /\ Contents(b) \in TextsOf
           /\ Contents(b).headers = BufferContents(b.headers)
           /\ Contents(b).body = BufferContents(b.body) /\ Contents(b).field = b.state
           /\ b.headers \in Buffers /\ b.body \in Buffers /\ b.state \in {"FIELD", "VALUE"}
           /\ b = [headers |-> b.headers, body |-> b.body, state |-> b.state]
<1>1. b.headers \in Buffers /\ b.body \in Buffers /\ b.state \in {"FIELD", "VALUE"}
      /\ b = [headers |-> b.headers, body |-> b.body, state |-> b.state]
  BY DEF Kept
<1>2. BufferContents(b.headers) \in Seq(Symbols) /\ BufferContents(b.body) \in Seq(Symbols)
  BY <1>1, Appended, Single
<1> QED BY <1>1, <1>2 DEF Contents, TextsOf

LEMMA TextTyped ==
    ASSUME NEW x \in TextsOf, NEW field
    PROVE  /\ x.headers \in Seq(Symbols) /\ x.body \in Seq(Symbols)
           /\ x.field \in {"FIELD", "VALUE"}
           /\ x = [headers |-> x.headers, field |-> x.field, body |-> x.body]
           /\ NulAfter(x, field) \in Seq(Symbols)
           /\ x.field # field => NulAfter(x, field) = <<>>
           /\ x.headers \o NulAfter(x, field) \in Seq(Symbols)
<1>1. /\ x.headers \in Seq(Symbols) /\ x.body \in Seq(Symbols)
      /\ x.field \in {"FIELD", "VALUE"}
      /\ x = [headers |-> x.headers, field |-> x.field, body |-> x.body]
  BY DEF TextsOf
<1>2. NulAfter(x, field) \in Seq(Symbols) /\ (x.field # field => NulAfter(x, field) = <<>>)
  BY Single DEF NulAfter
<1> QED BY <1>1, <1>2, Joined

\* Text is a name, a value or a part of the body, in pieces or at once.
LEMMA NamePieces ==
    ASSUME NEW x \in TextsOf, NEW s \in Seq(Symbols), NEW t \in Seq(Symbols)
    PROVE  /\ InName(x, s) \in TextsOf /\ InName(x, s).field = "FIELD"
           /\ InName(InName(x, s), t) = InName(x, s \o t)
           /\ x.field = "FIELD" => InName(x, <<>>) = x
<1>0. PICK h, y : h = x.headers \o NulAfter(x, "VALUE") /\ y = InName(x, s)
  OBVIOUS
<1>1. h \in Seq(Symbols) /\ x.body \in Seq(Symbols)
  BY <1>0, TextTyped
<1>2. h \o s \in Seq(Symbols) /\ (h \o s) \o <<>> = h \o s /\ h \o <<>> = h
  BY <1>1, Joined
<1>3. y = [headers |-> h \o s, field |-> "FIELD", body |-> x.body]
  BY <1>0 DEF InName
<1>4. y \in TextsOf /\ y.field = "FIELD" /\ y.headers = h \o s /\ y.body = x.body
  BY <1>1, <1>2, <1>3 DEF TextsOf
<1>5. NulAfter(y, "VALUE") = <<>>
  BY <1>4 DEF NulAfter
<1>6. InName(y, t) = [headers |-> (h \o s) \o t, field |-> "FIELD", body |-> x.body]
  BY <1>2, <1>4, <1>5 DEF InName
<1>7. (h \o s) \o t = h \o (s \o t)
  BY <1>1, Associative
<1>8. InName(x, s \o t) = [headers |-> h \o (s \o t), field |-> "FIELD", body |-> x.body]
  BY <1>0 DEF InName
<1>9. ASSUME x.field = "FIELD" PROVE InName(x, <<>>) = x
  <2>1. h = x.headers
    BY <1>0, <1>9, TextTyped, Joined DEF NulAfter
  <2>2. InName(x, <<>>) = [headers |-> h, field |-> "FIELD", body |-> x.body]
    BY <1>0, <1>2 DEF InName
  <2> QED BY <1>9, <2>1, <2>2, TextTyped
<1> QED BY <1>0, <1>4, <1>6, <1>7, <1>8, <1>9

LEMMA ValuePieces ==
    ASSUME NEW x \in TextsOf, NEW s \in Seq(Symbols), NEW t \in Seq(Symbols)
    PROVE  /\ InValue(x, s) \in TextsOf /\ InValue(x, s).field = "VALUE"
           /\ InValue(InValue(x, s), t) = InValue(x, s \o t)
           /\ x.field = "VALUE" => InValue(x, <<>>) = x
<1>0. PICK h, y : h = x.headers \o NulAfter(x, "FIELD") /\ y = InValue(x, s)
  OBVIOUS
<1>1. h \in Seq(Symbols) /\ x.body \in Seq(Symbols)
  BY <1>0, TextTyped
<1>2. h \o s \in Seq(Symbols) /\ (h \o s) \o <<>> = h \o s /\ h \o <<>> = h
  BY <1>1, Joined
<1>3. y = [headers |-> h \o s, field |-> "VALUE", body |-> x.body]
  BY <1>0 DEF InValue
<1>4. y \in TextsOf /\ y.field = "VALUE" /\ y.headers = h \o s /\ y.body = x.body
  BY <1>1, <1>2, <1>3 DEF TextsOf
<1>5. NulAfter(y, "FIELD") = <<>>
  BY <1>4 DEF NulAfter
<1>6. InValue(y, t) = [headers |-> (h \o s) \o t, field |-> "VALUE", body |-> x.body]
  BY <1>2, <1>4, <1>5 DEF InValue
<1>7. (h \o s) \o t = h \o (s \o t)
  BY <1>1, Associative
<1>8. InValue(x, s \o t) = [headers |-> h \o (s \o t), field |-> "VALUE", body |-> x.body]
  BY <1>0 DEF InValue
<1>9. ASSUME x.field = "VALUE" PROVE InValue(x, <<>>) = x
  <2>1. h = x.headers
    BY <1>0, <1>9, TextTyped, Joined DEF NulAfter
  <2>2. InValue(x, <<>>) = [headers |-> h, field |-> "VALUE", body |-> x.body]
    BY <1>0, <1>2 DEF InValue
  <2> QED BY <1>9, <2>1, <2>2, TextTyped
<1> QED BY <1>0, <1>4, <1>6, <1>7, <1>8, <1>9

LEMMA ContentPieces ==
    ASSUME NEW x \in TextsOf, NEW s \in Seq(Symbols), NEW t \in Seq(Symbols)
    PROVE  /\ InContent(x, s) \in TextsOf /\ InContent(x, s).field = x.field
           /\ InContent(x, s).headers = x.headers
           /\ InContent(InContent(x, s), t) = InContent(x, s \o t)
           /\ InContent(x, <<>>) = x
<1>0. PICK y : y = InContent(x, s)
  OBVIOUS
<1>1. /\ x.headers \in Seq(Symbols) /\ x.body \in Seq(Symbols) /\ x.field \in {"FIELD", "VALUE"}
      /\ x = [headers |-> x.headers, field |-> x.field, body |-> x.body]
  BY TextTyped
<1>2. x.body \o s \in Seq(Symbols) /\ x.body \o <<>> = x.body
  BY <1>1, Joined
<1>3. y = [headers |-> x.headers, field |-> x.field, body |-> x.body \o s]
  BY <1>0 DEF InContent
<1>4. y \in TextsOf /\ y.field = x.field /\ y.headers = x.headers /\ y.body = x.body \o s
  BY <1>1, <1>2, <1>3 DEF TextsOf
<1>5. InContent(y, t) = [headers |-> x.headers, field |-> x.field, body |-> (x.body \o s) \o t]
  BY <1>4 DEF InContent
<1>6. (x.body \o s) \o t = x.body \o (s \o t)
  BY <1>1, Associative
<1>7. InContent(x, s \o t)
         = [headers |-> x.headers, field |-> x.field, body |-> x.body \o (s \o t)]
  BY DEF InContent
<1>8. InContent(x, <<>>) = x
  BY <1>1, <1>2 DEF InContent
<1> QED BY <1>0, <1>4, <1>5, <1>6, <1>7, <1>8

LEMMA KeptChanged ==
    ASSUME NEW b \in Kept, NEW y, NEW f
    PROVE  /\ [b EXCEPT !.headers = y] = [headers |-> y, body |-> b.body, state |-> b.state]
           /\ [b EXCEPT !.headers = y, !.state = f]
                 = [headers |-> y, body |-> b.body, state |-> f]
           /\ [b EXCEPT !.body = y] = [headers |-> b.headers, body |-> y, state |-> b.state]
<1>1. PICK h, d, g : b = [headers |-> h, body |-> d, state |-> g]
  BY DEF Kept
<1>2. b.headers = h /\ b.body = d /\ b.state = g
  BY <1>1
<1>3. [b EXCEPT !.headers = y] = [headers |-> y, body |-> d, state |-> g]
  BY <1>1
<1>4. [b EXCEPT !.headers = y, !.state = f] = [headers |-> y, body |-> d, state |-> f]
  <2>1. PICK c : c = [b EXCEPT !.headers = y]
    OBVIOUS
  <2>2. c = [headers |-> y, body |-> d, state |-> g]
    BY <1>3, <2>1
  <2>3. [c EXCEPT !.state = f] = [headers |-> y, body |-> d, state |-> f]
    BY <2>2
  <2> QED BY <2>1, <2>3
<1>5. [b EXCEPT !.body = y] = [headers |-> h, body |-> y, state |-> g]
  BY <1>1
<1> QED BY <1>2, <1>3, <1>4, <1>5

LEMMA KeptMade ==
    ASSUME NEW h \in Buffers, NEW d \in Buffers, NEW f \in {"FIELD", "VALUE"}
    PROVE  LET b == [headers |-> h, body |-> d, state |-> f] IN
           /\ b \in Kept
           /\ Contents(b) = [headers |-> BufferContents(h), field |-> f,
                             body |-> BufferContents(d)]
  BY DEF Kept, Contents

\* The callbacks do to the buffers what the text says.
LEMMA CallbacksTell ==
    ASSUME NEW b \in Kept, NEW s \in Seq(Symbols)
    PROVE  /\ OnHeaderField(b, s) \in Kept
           /\ Contents(OnHeaderField(b, s)) = InName(Contents(b), s)
           /\ OnHeaderValue(b, s) \in Kept
           /\ Contents(OnHeaderValue(b, s)) = InValue(Contents(b), s)
           /\ OnBody(b, s) \in Kept
           /\ Contents(OnBody(b, s)) = InContent(Contents(b), s)
<1>0. PICK x, h, d, f : x = Contents(b) /\ h = b.headers /\ d = b.body /\ f = b.state
  OBVIOUS
<1>1. /\ h \in Buffers /\ d \in Buffers /\ f \in {"FIELD", "VALUE"}
      /\ x.headers = BufferContents(h) /\ x.body = BufferContents(d) /\ x.field = f
  BY <1>0, ContentsTyped
<1>2. <<NUL>> \o s \in Seq(Symbols) /\ BufferContents(h) \in Seq(Symbols)
      /\ BufferContents(h) \o <<>> = BufferContents(h)
  BY <1>1, Appended, Joined, Single
<1>3. PICK one, two, more :
        one = BufferAppend(h, s) /\ two = BufferAppend(h, <<NUL>> \o s)
        /\ more = BufferAppend(d, s)
  OBVIOUS
<1>4. /\ one \in Buffers /\ BufferContents(one) = BufferContents(h) \o s
      /\ two \in Buffers /\ BufferContents(two) = (BufferContents(h) \o <<NUL>>) \o s
      /\ more \in Buffers /\ BufferContents(more) = BufferContents(d) \o s
  <2>1. BufferContents(h) \o (<<NUL>> \o s) = (BufferContents(h) \o <<NUL>>) \o s
    BY <1>2, Associative, Single
  <2> QED BY <1>1, <1>2, <1>3, <2>1, Appended
<1>5. \A y, g : /\ [b EXCEPT !.headers = y] = [headers |-> y, body |-> d, state |-> f]
                /\ [b EXCEPT !.headers = y, !.state = g]
                      = [headers |-> y, body |-> d, state |-> g]
                /\ [b EXCEPT !.body = y] = [headers |-> h, body |-> y, state |-> f]
  <2>1. h = b.headers /\ d = b.body /\ f = b.state
    BY <1>0
  <2>2. ASSUME NEW y, NEW g
        PROVE  /\ [b EXCEPT !.headers = y] = [headers |-> y, body |-> d, state |-> f]
               /\ [b EXCEPT !.headers = y, !.state = g]
                     = [headers |-> y, body |-> d, state |-> g]
               /\ [b EXCEPT !.body = y] = [headers |-> h, body |-> y, state |-> f]
    <3>1. /\ [b EXCEPT !.headers = y] = [headers |-> y, body |-> b.body, state |-> b.state]
          /\ [b EXCEPT !.body = y] = [headers |-> b.headers, body |-> y, state |-> b.state]
      BY KeptChanged
    <3>2. [b EXCEPT !.headers = y, !.state = g] = [headers |-> y, body |-> d, state |-> g]
      <4>1. PICK c : c = [b EXCEPT !.headers = y]
        OBVIOUS
      <4>2. c = [headers |-> y, body |-> d, state |-> f]
        BY <2>1, <3>1, <4>1
      <4>3. [c EXCEPT !.state = g] = [headers |-> y, body |-> d, state |-> g]
        BY <4>2
      <4> QED BY <4>1, <4>3
    <3> QED BY <2>1, <3>1, <3>2
  <2> QED BY <2>2
<1>6. /\ OnHeaderField(b, s) \in Kept
      /\ Contents(OnHeaderField(b, s)) = InName(x, s)
  <2>1. CASE f = "VALUE"
    <3>1. OnHeaderField(b, s) = [headers |-> two, body |-> d, state |-> "FIELD"]
      BY <1>0, <1>3, <1>5, <2>1 DEF OnHeaderField
    <3>2. InName(x, s) = [headers |-> BufferContents(two), field |-> "FIELD",
                       body |-> BufferContents(d)]
      BY <1>1, <1>4, <2>1 DEF InName, NulAfter
    <3> QED BY <1>1, <1>4, <3>1, <3>2, KeptMade
  <2>2. CASE f = "FIELD"
    <3>1. OnHeaderField(b, s) = [headers |-> one, body |-> d, state |-> "FIELD"]
      BY <1>0, <1>3, <1>5, <2>2 DEF OnHeaderField
    <3>2. InName(x, s) = [headers |-> BufferContents(one), field |-> "FIELD",
                       body |-> BufferContents(d)]
      BY <1>1, <1>2, <1>4, <2>2 DEF InName, NulAfter
    <3> QED BY <1>1, <1>4, <3>1, <3>2, KeptMade
  <2> QED BY <1>1, <2>1, <2>2
<1>7. /\ OnHeaderValue(b, s) \in Kept
      /\ Contents(OnHeaderValue(b, s)) = InValue(x, s)
  <2>1. CASE f = "FIELD"
    <3>1. OnHeaderValue(b, s) = [headers |-> two, body |-> d, state |-> "VALUE"]
      BY <1>0, <1>3, <1>5, <2>1 DEF OnHeaderValue
    <3>2. InValue(x, s) = [headers |-> BufferContents(two), field |-> "VALUE",
                       body |-> BufferContents(d)]
      BY <1>1, <1>4, <2>1 DEF InValue, NulAfter
    <3> QED BY <1>1, <1>4, <3>1, <3>2, KeptMade
  <2>2. CASE f = "VALUE"
    <3>1. OnHeaderValue(b, s) = [headers |-> one, body |-> d, state |-> "VALUE"]
      BY <1>0, <1>3, <1>5, <2>2 DEF OnHeaderValue
    <3>2. InValue(x, s) = [headers |-> BufferContents(one), field |-> "VALUE",
                       body |-> BufferContents(d)]
      BY <1>1, <1>2, <1>4, <2>2 DEF InValue, NulAfter
    <3> QED BY <1>1, <1>4, <3>1, <3>2, KeptMade
  <2> QED BY <1>1, <2>1, <2>2
<1>8. /\ OnBody(b, s) \in Kept
      /\ Contents(OnBody(b, s)) = InContent(x, s)
  <2>1. OnBody(b, s) = [headers |-> h, body |-> more, state |-> f]
    BY <1>0, <1>3, <1>5 DEF OnBody
  <2>2. InContent(x, s) = [headers |-> BufferContents(h), field |-> f,
                           body |-> BufferContents(more)]
    BY <1>1, <1>4 DEF InContent
  <2>3. PICK made : made = [headers |-> h, body |-> more, state |-> f]
    OBVIOUS
  <2>4. /\ made \in Kept
        /\ Contents(made) = [headers |-> BufferContents(h), field |-> f,
                             body |-> BufferContents(more)]
    BY <1>1, <1>4, <2>3, KeptMade
  <2> QED BY <2>1, <2>2, <2>3, <2>4
<1> QED BY <1>0, <1>6, <1>7, <1>8

-----------------------------------------------------------------------------------
(* The pairs of names and values that response() gets depend on the text alone, not   *)
(* on what earlier responses left in the buffer behind it.                            *)

\* The equations of the recursive functions, as for Alone.
IsParts(s, n, part) ==
    part = [i \in 0 .. n |->
              IF i = 0 THEN "FIELD"
              ELSE IF s[i] # NUL THEN part[i - 1]
              ELSE IF part[i - 1] = "FIELD" THEN "VALUE" ELSE "FIELD"]

LEMMA PartsExist ==
    ASSUME NEW s, NEW n \in Nat
    PROVE  \E part : IsParts(s, n, part)
<1> DEFINE missing == {m \in Nat : ~ \E part : IsParts(s, m, part)}
<1>1. SUFFICES ASSUME missing # {} PROVE FALSE
  OBVIOUS
<1>2. PICK m \in missing : \A k \in missing : m <= k
  <2>1. missing \subseteq Nat
    OBVIOUS
  <2> HIDE DEF missing
  <2> QED BY <1>1, <2>1, Least
<1>3. CASE m = 0
  <2>1. IsParts(s, 0, [i \in 0 .. 0 |-> "FIELD"])
    BY DEF IsParts
  <2> QED BY <1>2, <1>3, <2>1
<1>4. CASE m # 0
  <2>1. m - 1 \in Nat /\ m - 1 \notin missing
    BY <1>2, <1>4
  <2>2. PICK part : IsParts(s, m - 1, part)
    BY <2>1
  <2> DEFINE Step(i, last) == IF s[i] # NUL THEN last
                              ELSE IF last = "FIELD" THEN "VALUE" ELSE "FIELD"
             next == [i \in 0 .. m |-> IF i = m THEN Step(m, part[m - 1]) ELSE part[i]]
  <2>3. \A i \in 0 .. (m - 1) : part[i] = IF i = 0 THEN "FIELD" ELSE Step(i, part[i - 1])
    BY <2>2 DEF IsParts
  <2>4. \A i \in 0 .. m : next[i] = IF i = 0 THEN "FIELD" ELSE Step(i, next[i - 1])
    <3> HIDE DEF Step
    <3> QED BY <1>4, <2>1, <2>3
  <2>5. next = [i \in 0 .. m |-> IF i = 0 THEN "FIELD" ELSE Step(i, next[i - 1])]
    <3>1. next = [i \in 0 .. m |-> next[i]]
      OBVIOUS
    <3> HIDE DEF next, Step
    <3> QED BY <2>4, <3>1
  <2>6. IsParts(s, m, next)
    BY <2>5 DEF IsParts
  <2> QED BY <1>2, <2>6
<1> QED BY <1>3, <1>4

LEMMA PartsSteps ==
    ASSUME NEW s, Len(s) \in Nat
    PROVE  /\ Parts(s)[0] = "FIELD"
           /\ \A i \in 1 .. Len(s) :
                 Parts(s)[i] = IF s[i] # NUL THEN Parts(s)[i - 1]
                               ELSE IF Parts(s)[i - 1] = "FIELD" THEN "VALUE" ELSE "FIELD"
<1>1. \E part : IsParts(s, Len(s), part)
  BY PartsExist
<1>2. IsParts(s, Len(s), Parts(s))
  BY <1>1 DEF IsParts, Parts
<1>3. \A i \in 0 .. Len(s) :
         Parts(s)[i] = IF i = 0 THEN "FIELD"
                       ELSE IF s[i] # NUL THEN Parts(s)[i - 1]
                       ELSE IF Parts(s)[i - 1] = "FIELD" THEN "VALUE" ELSE "FIELD"
  BY <1>2 DEF IsParts
<1> QED BY <1>3

\* Within a name or a value nothing changes.
LEMMA PartsStay ==
    ASSUME NEW s, Len(s) \in Nat, NEW i \in 0 .. Len(s), NEW j \in i .. Len(s),
           \A k \in (i + 1) .. j : s[k] # NUL
    PROVE  Parts(s)[j] = Parts(s)[i]
<1> DEFINE changed == {k \in i .. j : Parts(s)[k] # Parts(s)[i]}
<1>1. SUFFICES ASSUME changed # {} PROVE FALSE
  OBVIOUS
<1>2. PICK m \in changed : \A k \in changed : m <= k
  <2>1. changed \subseteq Nat
    OBVIOUS
  <2> HIDE DEF changed
  <2> QED BY <1>1, <2>1, Least
<1>3. m # i /\ m \in i .. j
  BY <1>2
<1>4. m - 1 \in i .. j /\ m - 1 \notin changed /\ m \in 1 .. Len(s) /\ m \in (i + 1) .. j
  BY <1>2, <1>3
<1>5. Parts(s)[m] = Parts(s)[m - 1]
  BY <1>4, PartsSteps
<1> QED BY <1>2, <1>4, <1>5

\* The first NUL behind i.
FirstNul(s, i, e) == e \in (i + 1) .. Len(s) /\ s[e] = NUL
                     /\ \A k \in (i + 1) .. (e - 1) : s[k] # NUL

LEMMA SomeFirstNul ==
    ASSUME NEW s, Len(s) \in Nat, NEW i \in Nat, NEW j \in (i + 1) .. Len(s), s[j] = NUL
    PROVE  \E e : FirstNul(s, i, e)
<1> DEFINE nuls == {k \in (i + 1) .. Len(s) : s[k] = NUL}
<1>1. nuls \subseteq Nat /\ nuls # {}
  OBVIOUS
<1>2. PICK e \in nuls : \A k \in nuls : e <= k
  <2> HIDE DEF nuls
  <2> QED BY <1>1, Least
<1>3. e \in (i + 1) .. Len(s) /\ s[e] = NUL
  BY <1>2
<1>4. ASSUME NEW k \in (i + 1) .. (e - 1) PROVE s[k] # NUL
  <2>1. k \in (i + 1) .. Len(s) /\ ~(e <= k)
    BY <1>3
  <2> QED BY <1>2, <2>1
<1> QED BY <1>3, <1>4 DEF FirstNul

LEMMA PartsFlip ==
    ASSUME NEW s, Len(s) \in Nat, NEW i \in 0 .. Len(s), NEW e, FirstNul(s, i, e)
    PROVE  Parts(s)[e] = IF Parts(s)[i] = "FIELD" THEN "VALUE" ELSE "FIELD"
<1>1. e \in (i + 1) .. Len(s) /\ s[e] = NUL /\ \A k \in (i + 1) .. (e - 1) : s[k] # NUL
  BY DEF FirstNul
<1>2. e - 1 \in i .. Len(s) /\ e \in 1 .. Len(s)
  BY <1>1
<1>3. Parts(s)[e - 1] = Parts(s)[i]
  BY <1>1, <1>2, PartsStay
<1> QED BY <1>1, <1>2, <1>3, PartsSteps

-----------------------------------------------------------------------------------
\* The string that begins after i bytes.
LEMMA StringFound ==
    ASSUME NEW b \in Buffers, NEW i \in Nat, NEW e, FirstNul(b.data, i, e)
    PROVE  StringAt(b, i) = [str |-> SubSeq(b.data, i + 1, e - 1), next |-> e]
<1> DEFINE ends == {j \in (i + 1) .. Len(b.data) : b.data[j] = NUL}
           end  == CHOOSE j \in ends : \A k \in ends : j <= k
<1>1. Len(b.data) \in Nat
  BY LenProperties DEF Buffers
<1>2. e \in ends
  BY DEF FirstNul
<1>3. \A k \in ends : e <= k
  BY <1>1 DEF FirstNul
<1>4. end \in ends /\ \A k \in ends : end <= k
  BY <1>2, <1>3
<1>5. end = e
  BY <1>1, <1>2, <1>3, <1>4
<1>6. StringAt(b, i) = IF ends = {} THEN [str |-> <<"?">>, next |-> Len(b.data) + 2]
                       ELSE [str |-> SubSeq(b.data, i + 1, end - 1), next |-> end]
  BY DEF StringAt
<1> HIDE DEF ends, end
<1> QED BY <1>2, <1>5, <1>6

LEMMA StringBeyond ==
    ASSUME NEW b \in Buffers, NEW i \in 0 .. (Len(b.data) + 2)
    PROVE  /\ StringAt(b, i).next \in 0 .. (Len(b.data) + 2)
           /\ StringAt(b, i).next > i \/ i > Len(b.data)
           /\ StringAt(b, i).next = Len(b.data) + 2 \/ StringAt(b, i).next > i
<1>1. Len(b.data) \in Nat
  BY LenProperties DEF Buffers
<1>2. CASE \E j \in (i + 1) .. Len(b.data) : b.data[j] = NUL
  <2>1. PICK e : FirstNul(b.data, i, e)
    BY <1>1, <1>2, SomeFirstNul
  <2>2. StringAt(b, i) = [str |-> SubSeq(b.data, i + 1, e - 1), next |-> e]
    <3>1. i \in Nat
      BY <1>1
    <3> QED BY <2>1, <3>1, StringFound
  <2>3. StringAt(b, i).next = e
    BY <2>2
  <2> QED BY <1>1, <2>1, <2>3 DEF FirstNul
<1>3. CASE ~ \E j \in (i + 1) .. Len(b.data) : b.data[j] = NUL
  <2>1. {j \in (i + 1) .. Len(b.data) : b.data[j] = NUL} = {}
    BY <1>3
  <2>2. StringAt(b, i) = [str |-> <<"?">>, next |-> Len(b.data) + 2]
    BY <2>1 DEF StringAt
  <2> QED BY <1>1, <2>2
<1> QED BY <1>2, <1>3

LEMMA PairBeyond ==
    ASSUME NEW b \in Buffers, NEW n \in 0 .. Len(b.data)
    PROVE  PairAt(b, n).next \in (n + 1) .. (Len(b.data) + 2)
<1>0. PICK x, y, l : x = StringAt(b, n).next /\ y = StringAt(b, x).next /\ l = Len(b.data)
  OBVIOUS
<1>1. l \in Nat /\ n \in 0 .. l
  BY <1>0, LenProperties DEF Buffers
<1>2. x \in 0 .. (l + 2) /\ x > n
  BY <1>0, <1>1, StringBeyond
<1>3. y \in 0 .. (l + 2) /\ (y = l + 2 \/ y > x)
  BY <1>0, <1>1, <1>2, StringBeyond
<1>4. PairAt(b, n).next = y
  BY <1>0 DEF PairAt
<1> QED BY <1>0, <1>1, <1>2, <1>3, <1>4

\* One step of Pairs, and the pairs from each position on.
More(b, from, n) ==
    IF n >= b.cursor THEN <<>>
    ELSE LET p == PairAt(b, n) IN
         <<p.pair>> \o (IF p.next >= b.cursor THEN <<>> ELSE from[p.next])
ArePairs(b, m, from) ==
    from = [n \in m .. (Len(b.data) + 2) |-> More(b, from, n)]

LEMMA PairsExist ==
    ASSUME NEW b \in Buffers, NEW d \in 0 .. (Len(b.data) + 2)
    PROVE  \E from : ArePairs(b, (Len(b.data) + 2) - d, from)
<1> DEFINE top == Len(b.data) + 2
           missing == {k \in 0 .. top : ~ \E from : ArePairs(b, top - k, from)}
<1>1. SUFFICES ASSUME missing # {} PROVE FALSE
  OBVIOUS
<1>2. PICK k \in missing : \A j \in missing : k <= j
  <2>1. missing \subseteq Nat
    OBVIOUS
  <2> HIDE DEF missing
  <2> QED BY <1>1, <2>1, Least
<1>3. Len(b.data) \in Nat /\ top \in Nat /\ b.cursor \in Nat /\ b.cursor < top
      /\ top = Len(b.data) + 2
  BY LenProperties DEF Buffers
<1>4. k \in 0 .. top /\ ~ \E from : ArePairs(b, top - k, from)
  BY <1>2
<1>5. k > 0 => \E from : ArePairs(b, top - (k - 1), from)
  <2>1. SUFFICES ASSUME k > 0 PROVE k - 1 \in 0 .. top /\ k - 1 \notin missing
    OBVIOUS
  <2>2. k - 1 \in 0 .. top /\ ~(k <= k - 1)
    BY <1>3, <1>4, <2>1
  <2> HIDE DEF missing
  <2> QED BY <1>2, <2>2
<1> HIDE DEF missing, top
<1>6. CASE k = 0
  <2>1. \A from : More(b, from, top) = <<>>
    BY <1>3 DEF More
  <2>2. top .. (Len(b.data) + 2) = {top} /\ top - k = top
    BY <1>3, <1>6
  <2>3. ArePairs(b, top, [n \in top .. (Len(b.data) + 2) |-> <<>>])
    BY <2>1, <2>2 DEF ArePairs
  <2> QED BY <1>4, <2>2, <2>3
<1>7. CASE k > 0
  <2>1. PICK m : m = top - k
    OBVIOUS
  <2>2. m \in Nat /\ m + 1 = top - (k - 1) /\ m < top
    BY <1>3, <1>4, <1>7, <2>1
  <2>3. PICK old : ArePairs(b, m + 1, old)
    BY <1>5, <1>7, <2>2
  <2> DEFINE new == [n \in m .. top |-> IF n = m THEN More(b, old, m) ELSE old[n]]
  <2>4. \A n \in (m + 1) .. top : old[n] = More(b, old, n)
    BY <1>3, <2>3 DEF ArePairs
  <2>5. ASSUME NEW n \in m .. top PROVE More(b, old, n) = More(b, new, n)
    <3>1. CASE n >= b.cursor
      BY <3>1 DEF More
    <3>2. CASE ~(n >= b.cursor)
      <4>1. n \in 0 .. Len(b.data)
        BY <1>3, <2>2, <3>2 DEF Buffers
      <4>2. PICK q : q = PairAt(b, n).next
        OBVIOUS
      <4>3. q \in (n + 1) .. (Len(b.data) + 2)
        BY <4>1, <4>2, PairBeyond
      <4>4. q \in m .. top /\ q # m
        BY <1>3, <2>2, <4>3
      <4>5. new[q] = old[q]
        BY <4>4
      <4> HIDE DEF new
      <4> QED BY <4>2, <4>5 DEF More
    <3> QED BY <3>1, <3>2
  <2>6. ASSUME NEW n \in m .. top PROVE new[n] = More(b, new, n)
    <3>1. CASE n = m
      <4>1. new[n] = More(b, old, n)
        BY <3>1
      <4> QED BY <2>5, <4>1
    <3>2. CASE n # m
      <4>1. n \in (m + 1) .. top
        BY <1>3, <2>2, <3>2
      <4>2. new[n] = old[n] /\ old[n] = More(b, old, n)
        BY <2>4, <3>2, <4>1
      <4> QED BY <2>5, <4>2
    <3> QED BY <3>1, <3>2
  <2>7. new = [n \in m .. top |-> new[n]]
    OBVIOUS
  <2>8. ArePairs(b, m, new)
    <3> HIDE DEF new
    <3>1. new = [n \in m .. top |-> More(b, new, n)]
      BY <2>6, <2>7
    <3> QED BY <1>3, <3>1 DEF ArePairs
  <2> QED BY <1>4, <2>1, <2>8
<1> QED BY <1>4, <1>6, <1>7

LEMMA PairsSteps ==
    ASSUME NEW b \in Buffers
    PROVE  \E from : /\ Pairs(b) = from[0]
                     /\ \A n \in 0 .. (Len(b.data) + 2) : from[n] = More(b, from, n)
<1> DEFINE from == CHOOSE f : ArePairs(b, 0, f)
<1>1. Len(b.data) \in Nat
  BY LenProperties DEF Buffers
<1>2. \E f : ArePairs(b, 0, f)
  <2>1. (Len(b.data) + 2) \in 0 .. (Len(b.data) + 2)
        /\ (Len(b.data) + 2) - (Len(b.data) + 2) = 0
    BY <1>1
  <2>2. \E f : ArePairs(b, (Len(b.data) + 2) - (Len(b.data) + 2), f)
    BY <2>1, PairsExist
  <2> QED BY <2>1, <2>2
<1>3. ArePairs(b, 0, from)
  BY <1>2
<1>4. Pairs(b) = from[0]
  BY DEF Pairs, ArePairs, More
<1>5. \A n \in 0 .. (Len(b.data) + 2) : from[n] = More(b, from, n)
  <2> HIDE DEF from
  <2> QED BY <1>3 DEF ArePairs
<1> QED BY <1>4, <1>5

\* The first strings in a buffer are those of its text.
LEMMA TextStrings ==
    ASSUME NEW b \in Buffers, NEW c, c = BufferContents(b)
    PROVE  /\ c \in Seq(Symbols) /\ Len(c) \in Nat /\ Len(c) = b.cursor
           /\ Len(c) <= Len(b.data) /\ Len(b.data) \in Nat
           /\ \A i \in Nat : \A e : FirstNul(c, i, e) =>
                 StringAt(b, i) = [str |-> SubSeq(c, i + 1, e - 1), next |-> e]
<1>1. /\ b.data \in Seq(Symbols) /\ b.cursor \in Nat /\ b.cursor <= Len(b.data)
      /\ Len(b.data) \in Nat /\ c = SubSeq(b.data, 1, b.cursor)
  BY LenProperties DEF Buffers, BufferContents
<1>2. c \in Seq(Symbols) /\ Len(c) = b.cursor /\ \A i \in 1 .. b.cursor : c[i] = b.data[i]
  <2>1. \A i \in 1 .. b.cursor : b.data[i] \in Symbols
    BY <1>1, ElementOfSeq
  <2>2. /\ c \in Seq(Symbols) /\ Len(c) = IF 1 <= b.cursor THEN b.cursor - 1 + 1 ELSE 0
        /\ \A i \in 1 .. (b.cursor - 1 + 1) : c[i] = b.data[1 + i - 1]
    BY <1>1, <2>1, SubSeqProperties
  <2>3. \A i \in 1 .. b.cursor : i \in 1 .. (b.cursor - 1 + 1) /\ 1 + i - 1 = i
    BY <1>1
  <2>4. Len(c) = b.cursor
    BY <1>1, <2>2
  <2> QED BY <2>2, <2>3, <2>4
<1>3. ASSUME NEW i \in Nat, NEW e, FirstNul(c, i, e)
      PROVE  StringAt(b, i) = [str |-> SubSeq(c, i + 1, e - 1), next |-> e]
  <2>1. /\ e \in (i + 1) .. b.cursor /\ c[e] = NUL
        /\ \A k \in (i + 1) .. (e - 1) : c[k] # NUL
    BY <1>2, <1>3 DEF FirstNul
  <2>2. e \in (i + 1) .. Len(b.data) /\ e \in 1 .. b.cursor
        /\ \A k \in (i + 1) .. (e - 1) : k \in 1 .. b.cursor
    BY <1>1, <2>1
  <2>3. FirstNul(b.data, i, e)
    BY <1>2, <2>1, <2>2 DEF FirstNul
  <2>4. SubSeq(c, i + 1, e - 1) = SubSeq(b.data, i + 1, e - 1)
    <3>1. CASE i + 1 > e - 1
      BY <2>1, <3>1, SubSeqEmpty
    <3>2. CASE i + 1 <= e - 1
      <4>1. /\ 1 \in 1 .. Len(b.data) /\ b.cursor \in 1 .. Len(b.data)
            /\ i + 1 \in 1 .. (b.cursor - 1 + 1) /\ e - 1 \in 1 .. (b.cursor - 1 + 1)
            /\ 1 + (i + 1) - 1 = i + 1 /\ 1 + (e - 1) - 1 = e - 1
        BY <1>1, <2>1, <3>2
      <4>2. SubSeq(SubSeq(b.data, 1, b.cursor), i + 1, e - 1)
               = SubSeq(b.data, 1 + (i + 1) - 1, 1 + (e - 1) - 1)
        BY <1>1, <4>1, SubSeqOfSubSeq
      <4> QED BY <1>1, <4>1, <4>2
    <3> QED BY <2>1, <3>1, <3>2
  <2> QED BY <2>3, <2>4, StringFound
<1> QED BY <1>1, <1>2, <1>3

\* A text that ends with the NUL of a value.
Whole(c) == /\ c \in Seq(Symbols) /\ Len(c) \in Nat \ {0} /\ c[Len(c)] = NUL
            /\ Parts(c)[Len(c)] = "FIELD"

LEMMA PairWithin ==
    ASSUME NEW c, Whole(c), NEW n \in 0 .. (Len(c) - 1), Parts(c)[n] = "FIELD"
    PROVE  \E p : /\ p.next \in (n + 1) .. Len(c) /\ Parts(c)[p.next] = "FIELD"
                  /\ \A b \in Buffers : BufferContents(b) = c => PairAt(b, n) = p
<1>1. Len(c) \in Nat /\ Len(c) # 0 /\ c[Len(c)] = NUL /\ Len(c) \in (n + 1) .. Len(c)
      /\ n \in 0 .. Len(c) /\ n \in Nat
  BY DEF Whole
<1>2. PICK e : FirstNul(c, n, e)
  BY <1>1, SomeFirstNul
<1>3. e \in (n + 1) .. Len(c) /\ Parts(c)[e] = "VALUE"
  BY <1>1, <1>2, PartsFlip DEF FirstNul
<1>4. e # Len(c)
  BY <1>3 DEF Whole
<1>5. Len(c) \in (e + 1) .. Len(c) /\ e \in 0 .. Len(c) /\ e \in Nat
  BY <1>1, <1>3, <1>4
<1>6. PICK g : FirstNul(c, e, g)
  BY <1>1, <1>5, SomeFirstNul
<1>7. g \in (e + 1) .. Len(c) /\ Parts(c)[g] = "FIELD"
  BY <1>1, <1>3, <1>5, <1>6, PartsFlip DEF FirstNul
<1> DEFINE p == [pair |-> <<SubSeq(c, n + 1, e - 1), SubSeq(c, e + 1, g - 1)>>, next |-> g]
<1>8. ASSUME NEW b \in Buffers, BufferContents(b) = c
      PROVE  PairAt(b, n) = p
  <2>1. StringAt(b, n) = [str |-> SubSeq(c, n + 1, e - 1), next |-> e]
    BY <1>1, <1>2, <1>8, TextStrings
  <2>2. StringAt(b, e) = [str |-> SubSeq(c, e + 1, g - 1), next |-> g]
    BY <1>5, <1>6, <1>8, TextStrings
  <2>3. PICK x, y : x = StringAt(b, n) /\ y = StringAt(b, x.next)
    OBVIOUS
  <2>7. PICK u, v : u = SubSeq(c, n + 1, e - 1) /\ v = SubSeq(c, e + 1, g - 1)
    OBVIOUS
  <2>8. x = [str |-> u, next |-> e]
    BY <2>1, <2>3, <2>7
  <2>9. x.next = e /\ x.str = u
    BY <2>8
  <2>10. y = [str |-> v, next |-> g]
    BY <2>2, <2>3, <2>7, <2>9
  <2>11. y.next = g /\ y.str = v
    BY <2>10
  <2>4. x.next = e /\ x.str = SubSeq(c, n + 1, e - 1)
    BY <2>7, <2>9
  <2>5. y.next = g /\ y.str = SubSeq(c, e + 1, g - 1)
    BY <2>7, <2>11
  <2>6. PairAt(b, n) = [pair |-> <<x.str, y.str>>, next |-> y.next]
    BY <2>3 DEF PairAt
  <2> QED BY <2>4, <2>5, <2>6
<1>9. p.next \in (n + 1) .. Len(c) /\ Parts(c)[p.next] = "FIELD"
  BY <1>1, <1>3, <1>7
<1> HIDE DEF p
<1> QED BY <1>8, <1>9

LEMMA SamePairs ==
    ASSUME NEW a \in Buffers, NEW b \in Buffers, NEW c, Whole(c),
           BufferContents(a) = c, BufferContents(b) = c
    PROVE  Pairs(a) = Pairs(b)
<1>1. PICK fa : /\ Pairs(a) = fa[0]
                /\ \A n \in 0 .. (Len(a.data) + 2) : fa[n] = More(a, fa, n)
  BY PairsSteps
<1>2. PICK fb : /\ Pairs(b) = fb[0]
                /\ \A n \in 0 .. (Len(b.data) + 2) : fb[n] = More(b, fb, n)
  BY PairsSteps
<1>3. /\ Len(c) \in Nat /\ Len(c) # 0 /\ a.cursor = Len(c) /\ b.cursor = Len(c)
      /\ Len(c) <= Len(a.data) /\ Len(c) <= Len(b.data)
      /\ Len(a.data) \in Nat /\ Len(b.data) \in Nat
  BY TextStrings DEF Whole
<1> DEFINE differ == {k \in 1 .. Len(c) : /\ Parts(c)[Len(c) - k] = "FIELD"
                                          /\ fa[Len(c) - k] # fb[Len(c) - k]}
<1>4. differ = {}
  <2>1. SUFFICES ASSUME differ # {} PROVE FALSE
    OBVIOUS
  <2>2. PICK k \in differ : \A j \in differ : k <= j
    <3>1. differ \subseteq Nat
      OBVIOUS
    <3> HIDE DEF differ
    <3> QED BY <2>1, <3>1, Least
  <2>3. PICK n : n = Len(c) - k
    OBVIOUS
  <2>4. k \in 1 .. Len(c) /\ n \in 0 .. (Len(c) - 1) /\ Parts(c)[n] = "FIELD" /\ fa[n] # fb[n]
        /\ k = Len(c) - n
    BY <1>3, <2>2, <2>3
  <2>5. PICK p : /\ p.next \in (n + 1) .. Len(c) /\ Parts(c)[p.next] = "FIELD"
                 /\ \A d \in Buffers : BufferContents(d) = c => PairAt(d, n) = p
    BY <2>4, PairWithin
  <2>6. PairAt(a, n) = p /\ PairAt(b, n) = p
    BY <2>5
  <2>7. PICK q : q = p.next
    OBVIOUS
  <2>8. q \in (n + 1) .. Len(c) /\ Parts(c)[q] = "FIELD"
    BY <2>5, <2>7
  <2>9. q < Len(c) => fa[q] = fb[q]
    <3>1. SUFFICES ASSUME q < Len(c) PROVE fa[q] = fb[q]
      OBVIOUS
    <3>2. Len(c) - q \in 1 .. Len(c) /\ ~(k <= Len(c) - q) /\ Len(c) - (Len(c) - q) = q
      BY <1>3, <2>4, <2>8, <3>1
    <3>3. Len(c) - q \notin differ
      <4> HIDE DEF differ
      <4> QED BY <2>2, <3>2
    <3> QED BY <2>8, <3>2, <3>3
  <2>10. ~(n >= Len(c)) /\ n \in 0 .. (Len(a.data) + 2) /\ n \in 0 .. (Len(b.data) + 2)
         /\ (q >= Len(c) <=> ~(q < Len(c)))
    BY <1>3, <2>4, <2>8
  <2>11. fa[n] = <<p.pair>> \o (IF q >= Len(c) THEN <<>> ELSE fa[q])
    BY <1>1, <1>3, <2>6, <2>7, <2>10 DEF More
  <2>12. fb[n] = <<p.pair>> \o (IF q >= Len(c) THEN <<>> ELSE fb[q])
    BY <1>2, <1>3, <2>6, <2>7, <2>10 DEF More
  <2> QED BY <2>4, <2>9, <2>10, <2>11, <2>12
<1>5. Len(c) \in 1 .. Len(c) /\ Len(c) - Len(c) = 0
  BY <1>3
<1>6. Parts(c)[0] = "FIELD"
  BY <1>3, PartsSteps
<1>7. fa[0] = fb[0]
  BY <1>4, <1>5, <1>6
<1> QED BY <1>1, <1>2, <1>7

-----------------------------------------------------------------------------------
(* What response() gets.                                                             *)

\* Buffers in which just the text of a reply was gathered make the response that the
\* reply means, whatever is in them behind it.
LEMMA Meant ==
    ASSUME NEW r \in Replies, NEW b \in Kept, NEW n, n = Len(r.wire),
           Contents(b) = Texts(r.wire)[n]
    PROVE  /\ b.headers.data # <<>>
           /\ ResponseOf(Alone(r.wire)[n].status_code,
                         [b EXCEPT !.headers = BufferAppend(@, <<NUL>>)]) = Expected(r)
<1>0. PICK x, st, pairs, h, d :
        /\ x = Contents(b) /\ st = Alone(r.wire)[n].status_code
        /\ pairs = x.headers \o <<NUL>> /\ h = b.headers /\ d = b.body
  OBVIOUS
<1>1. /\ x.headers # <<>> /\ Parts(pairs)[Len(pairs)] = "FIELD"
      /\ ResponseOf(st, Unused(x)) = Expected(r)
  <2>1. IsMeant(r)
    BY MeaningAssumption
  <2> QED BY <1>0, <2>1 DEF IsMeant
<1>2. /\ h \in Buffers /\ d \in Buffers /\ x \in TextsOf
      /\ x.headers = BufferContents(h) /\ x.body = BufferContents(d)
  BY <1>0, ContentsTyped
<1>3. x.headers \in Seq(Symbols) /\ x.body \in Seq(Symbols)
  BY <1>2, TextTyped
<1>4. Whole(pairs)
  <2>1. pairs \in Seq(Symbols) /\ Len(pairs) \in Nat
    BY <1>0, <1>3, Single, Joined
  <2>2. Len(pairs) = Len(x.headers) + 1 /\ Len(x.headers) \in Nat
    <3>1. PICK one : one = <<NUL>>
      OBVIOUS
    <3>2. one \in Seq(Symbols) /\ Len(one) = 1
      BY <3>1, Single
    <3>3. Len(x.headers \o one) = Len(x.headers) + Len(one) /\ Len(x.headers) \in Nat
      BY <1>3, <3>2, Joined
    <3> QED BY <1>0, <3>1, <3>2, <3>3
  <2>3. pairs[Len(pairs)] = NUL
    <3>1. pairs = Append(x.headers, NUL)
      <4>1. PICK a, S : a = x.headers /\ S = Symbols
        OBVIOUS
      <4>2. a \in Seq(S) /\ NUL \in S
        BY <1>3, <4>1 DEF Symbols
      <4>3. Append(a, NUL) = a \o <<NUL>>
        BY <4>2, AppendIsConcat
      <4> QED BY <1>0, <4>1, <4>3
    <3> QED BY <1>3, <2>2, <3>1, AppendProperties DEF Symbols
  <2> QED BY <1>1, <2>1, <2>2, <2>3 DEF Whole
<1>5. PICK more : more = BufferAppend(h, <<NUL>>)
  OBVIOUS
<1>6. more \in Buffers /\ BufferContents(more) = pairs
  <2>1. PICK one : one = <<NUL>>
    OBVIOUS
  <2>2. one \in Seq(Symbols) /\ more = BufferAppend(h, one)
    BY <1>5, <2>1, Single
  <2>3. more \in Buffers /\ BufferContents(more) = BufferContents(h) \o one
    BY <1>2, <2>2, Appended
  <2> QED BY <1>0, <1>2, <2>1, <2>3
<1>7. [b EXCEPT !.headers = BufferAppend(@, <<NUL>>)]
         = [headers |-> more, body |-> d, state |-> b.state]
  <2>1. [b EXCEPT !.headers = more] = [headers |-> more, body |-> b.body, state |-> b.state]
    BY KeptChanged
  <2> QED BY <1>0, <1>5, <2>1
<1>8. ASSUME NEW c, c \in Seq(Symbols)
      PROVE  LET u == [data |-> c, cursor |-> Len(c)] IN
             u \in Buffers /\ BufferContents(u) = c
  <2>1. PICK u : u = [data |-> c, cursor |-> Len(c)]
    OBVIOUS
  <2>2. u.data = c /\ u.cursor = Len(c) /\ Len(c) \in Nat
    BY <1>8, <2>1, LenProperties
  <2>3. u \in Buffers
    BY <1>8, <2>1, <2>2 DEF Buffers
  <2>4. BufferContents(u) = c
    BY <1>8, <2>2, SubSeqFull DEF BufferContents
  <2> QED BY <2>1, <2>3, <2>4
<1>9. PICK uh, ud : /\ uh = [data |-> pairs, cursor |-> Len(pairs)]
                    /\ ud = [data |-> x.body, cursor |-> Len(x.body)]
  OBVIOUS
<1>10. uh \in Buffers /\ BufferContents(uh) = pairs /\ BufferContents(ud) = x.body
  BY <1>3, <1>4, <1>8, <1>9 DEF Whole
<1>11. Pairs(more) = Pairs(uh)
  BY <1>4, <1>6, <1>10, SamePairs
<1>12. Unused(x) = [headers |-> uh, body |-> ud, state |-> x.field]
  BY <1>0, <1>9 DEF Unused
<1>13. ResponseOf(st, Unused(x))
          = [status |-> st, headers |-> Table(Pairs(uh)), body |-> x.body]
  <2>1. PICK u : u = Unused(x)
    OBVIOUS
  <2>2. u.headers = uh /\ u.body = ud
    BY <1>12, <2>1
  <2> QED BY <1>10, <2>1, <2>2 DEF ResponseOf
<1>14. ASSUME NEW u, u = [headers |-> more, body |-> d, state |-> b.state]
       PROVE  ResponseOf(st, u)
                 = [status |-> st, headers |-> Table(Pairs(uh)), body |-> x.body]
  <2>1. u.headers = more /\ u.body = d
    BY <1>14
  <2> QED BY <1>2, <1>11, <2>1 DEF ResponseOf
<1>15. b.headers.data # <<>>
  <2>1. h.cursor <= Len(h.data) /\ h.cursor \in Nat /\ Len(x.headers) = h.cursor
    BY <1>2, Appended DEF Buffers
  <2>2. Len(x.headers) # 0
    BY <1>1, <1>3, EmptySeq
  <2>3. Len(h.data) # 0
    BY <2>1, <2>2
  <2>4. Len(<<>>) = 0
    OBVIOUS
  <2> QED BY <1>0, <2>3, <2>4
<1> QED BY <1>0, <1>1, <1>7, <1>13, <1>14, <1>15

-----------------------------------------------------------------------------------
(* The text of a message, symbol by symbol.                                          *)

IsTexting(w, n, text) ==
    text = [i \in 0 .. n |->
              IF i = 0 THEN NoText ELSE TextAfter(Alone(w)[i - 1].state, text[i - 1], w[i])]

LEMMA TextsExist ==
    ASSUME NEW w, NEW n \in Nat
    PROVE  \E text : IsTexting(w, n, text)
<1> DEFINE missing == {m \in Nat : ~ \E text : IsTexting(w, m, text)}
<1>1. SUFFICES ASSUME missing # {} PROVE FALSE
  OBVIOUS
<1>2. PICK m \in missing : \A k \in missing : m <= k
  <2>1. missing \subseteq Nat
    OBVIOUS
  <2> HIDE DEF missing
  <2> QED BY <1>1, <2>1, Least
<1>3. CASE m = 0
  <2>1. IsTexting(w, 0, [i \in 0 .. 0 |-> NoText])
    BY DEF IsTexting
  <2> QED BY <1>2, <1>3, <2>1
<1>4. CASE m # 0
  <2>1. m - 1 \in Nat /\ m - 1 \notin missing
    BY <1>2, <1>4
  <2>2. PICK text : IsTexting(w, m - 1, text)
    BY <2>1
  <2> DEFINE next == [i \in 0 .. m |->
                        IF i = m THEN TextAfter(Alone(w)[m - 1].state, text[m - 1], w[m])
                        ELSE text[i]]
  <2>3. \A i \in 0 .. (m - 1) :
           text[i] = IF i = 0 THEN NoText
                     ELSE TextAfter(Alone(w)[i - 1].state, text[i - 1], w[i])
    BY <2>2 DEF IsTexting
  <2>4. \A i \in 0 .. m :
           next[i] = IF i = 0 THEN NoText
                     ELSE TextAfter(Alone(w)[i - 1].state, next[i - 1], w[i])
    BY <1>4, <2>1, <2>3
  <2>5. IsTexting(w, m, next)
    BY <2>4 DEF IsTexting
  <2> QED BY <1>2, <2>5
<1> QED BY <1>3, <1>4

LEMMA TextsSteps ==
    ASSUME NEW w, Len(w) \in Nat
    PROVE  /\ Texts(w)[0] = NoText
           /\ \A i \in 1 .. Len(w) :
                 Texts(w)[i] = TextAfter(Alone(w)[i - 1].state, Texts(w)[i - 1], w[i])
<1>1. \E text : IsTexting(w, Len(w), text)
  BY TextsExist
<1>2. IsTexting(w, Len(w), Texts(w))
  BY <1>1 DEF IsTexting, Texts
<1>3. \A i \in 0 .. Len(w) :
         Texts(w)[i] = IF i = 0 THEN NoText
                       ELSE TextAfter(Alone(w)[i - 1].state, Texts(w)[i - 1], w[i])
  BY <1>2 DEF IsTexting
<1> QED BY <1>3

\* The states in which a symbol may say something to a script.
Telling == {"header_field_start", "header_field", "header_value_discard_ws",
            "header_value_discard_lws", "header_value_start", "header_value",
            "header_value_lws", "body_identity", "body_identity_eof", "chunk_data"}

LEMMA TextCases ==
    ASSUME NEW x, NEW s
    PROVE  /\ \A state : state \notin Telling => TextAfter(state, x, s) = x
           /\ TextAfter("header_field_start", x, s) = LineText(x, s)
           /\ TextAfter("header_field", x, s) = LineText(x, s)
           /\ s \notin {" ", CR, LF} =>
                 TextAfter("header_value_discard_ws", x, s) = InValue(x, <<s>>)
           /\ s \in {" ", CR, LF} => TextAfter("header_value_discard_ws", x, s) = x
           /\ s # " " =>
                 TextAfter("header_value_discard_lws", x, s) = LineText(InValue(x, <<>>), s)
           /\ s = " " => TextAfter("header_value_discard_lws", x, s) = x
           /\ TextAfter("header_value_start", x, s) = InValue(x, <<s>>)
           /\ s \notin {CR, LF} => TextAfter("header_value", x, s) = InValue(x, <<s>>)
           /\ s \in {CR, LF} => TextAfter("header_value", x, s) = x
           /\ s = " " => TextAfter("header_value_lws", x, s) = InValue(x, <<s>>)
           /\ s # " " => TextAfter("header_value_lws", x, s) = LineText(x, s)
<1>1. ASSUME NEW state, state \notin Telling PROVE TextAfter(state, x, s) = x
  BY <1>1 DEF TextAfter, Telling
<1>2. TextAfter("header_field_start", x, s) = LineText(x, s)
  BY DEF TextAfter
<1>3. TextAfter("header_field", x, s) = LineText(x, s)
  BY DEF TextAfter, LineText
<1>4. s \notin {" ", CR, LF} =>
         TextAfter("header_value_discard_ws", x, s) = InValue(x, <<s>>)
  BY DEF TextAfter
<1>5. s \in {" ", CR, LF} => TextAfter("header_value_discard_ws", x, s) = x
  BY DEF TextAfter
<1>6. s # " " =>
         TextAfter("header_value_discard_lws", x, s) = LineText(InValue(x, <<>>), s)
  BY DEF TextAfter
<1>7. s = " " => TextAfter("header_value_discard_lws", x, s) = x
  BY DEF TextAfter
<1>8. TextAfter("header_value_start", x, s) = InValue(x, <<s>>)
  BY DEF TextAfter
<1>9. s \notin {CR, LF} => TextAfter("header_value", x, s) = InValue(x, <<s>>)
  BY DEF TextAfter
<1>10. s \in {CR, LF} => TextAfter("header_value", x, s) = x
  BY DEF TextAfter
<1>11. s = " " => TextAfter("header_value_lws", x, s) = InValue(x, <<s>>)
  BY DEF TextAfter
<1>12. s # " " => TextAfter("header_value_lws", x, s) = LineText(x, s)
  BY DEF TextAfter
<1> QED BY <1>1, <1>2, <1>3, <1>4, <1>5, <1>6, <1>7, <1>8, <1>9, <1>10, <1>11, <1>12

LEMMA TextOfBody ==
    ASSUME NEW x, NEW s, NEW state \in {"body_identity", "body_identity_eof", "chunk_data"}
    PROVE  TextAfter(state, x, s) = InContent(x, <<s>>)
  BY DEF TextAfter

-----------------------------------------------------------------------------------
(* What the callbacks have got and what the marks still hold for them.               *)

FlushedTo(b, ms, h) ==
    LET Field(c) == IF "header_field" \in ms THEN OnHeaderField(c, h) ELSE c
        Value(c) == IF "header_value" \in ms THEN OnHeaderValue(c, h) ELSE c
        Body(c)  == IF "body" \in ms THEN OnBody(c, h) ELSE c IN
    Body(Value(Field(b)))

ViewOf(b, ms, h) == Contents(FlushedTo(b, ms, h))

\* What response() would get, were it called now.
View == ViewOf(buf, marks, held)

LEMMA FlushedKept ==
    ASSUME NEW b \in Kept, NEW h \in Seq(Symbols), NEW ms
    PROVE  FlushedTo(b, ms, h) \in Kept /\ ViewOf(b, ms, h) \in TextsOf
<1>0. PICK c, d, e :
        /\ c = IF "header_field" \in ms THEN OnHeaderField(b, h) ELSE b
        /\ d = IF "header_value" \in ms THEN OnHeaderValue(c, h) ELSE c
        /\ e = IF "body" \in ms THEN OnBody(d, h) ELSE d
  OBVIOUS
<1>1. c \in Kept
  BY <1>0, CallbacksTell
<1>2. d \in Kept
  BY <1>0, <1>1, CallbacksTell
<1>3. e \in Kept
  BY <1>0, <1>2, CallbacksTell
<1>4. FlushedTo(b, ms, h) = e
  BY <1>0 DEF FlushedTo
<1> QED BY <1>3, <1>4, ContentsTyped DEF ViewOf

LEMMA ViewCases ==
    ASSUME NEW b \in Kept, NEW h \in Seq(Symbols)
    PROVE  /\ FlushedTo(b, {}, h) = b /\ ViewOf(b, {}, h) = Contents(b)
           /\ ViewOf(b, {"status"}, h) = Contents(b)
           /\ ViewOf(b, {"header_field"}, h) = InName(Contents(b), h)
           /\ ViewOf(b, {"header_value"}, h) = InValue(Contents(b), h)
           /\ ViewOf(b, {"body"}, h) = InContent(Contents(b), h)
<1>1. FlushedTo(b, {}, h) = b
  BY DEF FlushedTo
<1>2. FlushedTo(b, {"status"}, h) = b
  BY DEF FlushedTo
<1>3. FlushedTo(b, {"header_field"}, h) = OnHeaderField(b, h)
  BY DEF FlushedTo
<1>4. FlushedTo(b, {"header_value"}, h) = OnHeaderValue(b, h)
  BY DEF FlushedTo
<1>5. FlushedTo(b, {"body"}, h) = OnBody(b, h)
  BY DEF FlushedTo
<1> QED BY <1>1, <1>2, <1>3, <1>4, <1>5, CallbacksTell DEF ViewOf

\* Symbols that a mark holds, the first ones or more of them, are told.
Piece(m, x, s) ==
    CASE m = "header_field" -> InName(x, s)
      [] m = "header_value" -> InValue(x, s)
      [] m = "body"         -> InContent(x, s)
      [] OTHER              -> x

LEMMA PieceCases ==
    ASSUME NEW x, NEW s
    PROVE  /\ Piece("header_field", x, s) = InName(x, s)
           /\ Piece("header_value", x, s) = InValue(x, s)
           /\ Piece("body", x, s) = InContent(x, s)
           /\ Piece("status", x, s) = x
  BY DEF Piece

LEMMA PieceView ==
    ASSUME NEW b \in Kept, NEW h \in Seq(Symbols), NEW m \in Marks
    PROVE  ViewOf(b, {m}, h) = Piece(m, Contents(b), h) /\ ViewOf(b, {}, h) = Contents(b)
<1>1. m \in {"status", "header_field", "header_value", "body"}
  BY DEF Marks
<1>2. PICK x : x = Contents(b)
  OBVIOUS
<1>3. /\ ViewOf(b, {"status"}, h) = x /\ ViewOf(b, {"header_field"}, h) = InName(x, h)
      /\ ViewOf(b, {"header_value"}, h) = InValue(x, h)
      /\ ViewOf(b, {"body"}, h) = InContent(x, h) /\ ViewOf(b, {}, h) = x
  BY <1>2, ViewCases
<1>4. /\ Piece("header_field", x, h) = InName(x, h)
      /\ Piece("header_value", x, h) = InValue(x, h)
      /\ Piece("body", x, h) = InContent(x, h) /\ Piece("status", x, h) = x
  BY PieceCases
<1> QED BY <1>1, <1>2, <1>3, <1>4

LEMMA PiecesJoin ==
    ASSUME NEW x \in TextsOf, NEW s \in Seq(Symbols), NEW t \in Seq(Symbols), NEW m \in Marks
    PROVE  Piece(m, Piece(m, x, s), t) = Piece(m, x, s \o t)
<1>1. m \in {"status", "header_field", "header_value", "body"}
  BY DEF Marks
<1> QED BY <1>1, NamePieces, ValuePieces, ContentPieces, PieceCases

LEMMA PieceAdded ==
    ASSUME NEW b \in Kept, NEW h \in Seq(Symbols), NEW s \in Seq(Symbols), NEW m \in Marks,
           NEW ms, ms \subseteq {m}, ms = {} => h = <<>>
    PROVE  ViewOf(b, ms \cup {m}, h \o s) = Piece(m, ViewOf(b, ms, h), s)
<1>0. PICK x : x = Contents(b)
  OBVIOUS
<1>1. x \in TextsOf
  BY <1>0, ContentsTyped
<1>2. h \o s \in Seq(Symbols) /\ <<>> \o s = s
  BY Joined, ConcatEmptySeq
<1>3. ms \cup {m} = {m} /\ (ms = {} \/ ms = {m})
  OBVIOUS
<1>4. ViewOf(b, ms \cup {m}, h \o s) = Piece(m, x, h \o s)
  BY <1>0, <1>2, <1>3, PieceView
<1>5. CASE ms = {}
  BY <1>0, <1>2, <1>4, <1>5, PieceView
<1>6. CASE ms = {m}
  BY <1>0, <1>1, <1>4, <1>6, PieceView, PiecesJoin
<1> QED BY <1>3, <1>5, <1>6

\* The callback of a mark gets what it holds.
Called(m, b, s) ==
    CASE m = "header_field" -> OnHeaderField(b, s)
      [] m = "header_value" -> OnHeaderValue(b, s)
      [] m = "body"         -> OnBody(b, s)
      [] OTHER              -> b

LEMMA PieceCalled ==
    ASSUME NEW b \in Kept, NEW h \in Seq(Symbols), NEW m \in Marks
    PROVE  Called(m, b, h) \in Kept /\ Contents(Called(m, b, h)) = Piece(m, Contents(b), h)
<1>1. m \in {"status", "header_field", "header_value", "body"}
  BY DEF Marks
<1>2. /\ Called("header_field", b, h) = OnHeaderField(b, h)
      /\ Called("header_value", b, h) = OnHeaderValue(b, h)
      /\ Called("body", b, h) = OnBody(b, h) /\ Called("status", b, h) = b
  BY DEF Called
<1> QED BY <1>1, <1>2, CallbacksTell, PieceCases

-----------------------------------------------------------------------------------
(* What is gathered while the parser runs.                                           *)

\* A mark that is set holds something only in its state, in which it is set for certain
\* during a call; what was gathered last is of the kind the state says.
Buffered ==
    /\ buf \in Kept
    /\ marks = {} => held = <<>>
    /\ parsing /\ parser.state \in {"header_field", "header_value"} => marks = {parser.state}
    /\ parser.errno = "OK" /\ parser.state = "header_field" => View.field = "FIELD"
    /\ parser.errno = "OK" /\ parser.state = "header_value" => View.field = "VALUE"

\* The symbols on the way are symbols of buffers.
LEMMA HeldTyped ==
    ASSUME Ind, NEW n \in 0 .. Len(rest)
    PROVE  /\ held \in Seq(Symbols) /\ SubSeq(rest, 1, n) \in Seq(Symbols)
           /\ rest \in Seq(STRING) /\ Len(rest) \in Nat
           /\ held \o SubSeq(rest, 1, n) \in Seq(STRING)
<1>1. held \in Seq(STRING) /\ rest \in Seq(STRING) /\ Len(rest) \in Nat
  BY LenProperties DEF Ind, TypeOK
<1>2. SubSeq(rest, 1, n) \in Seq(STRING)
  BY <1>1, PartOfSeq
<1>3. held \o SubSeq(rest, 1, n) \in Seq(STRING)
  BY <1>1, <1>2, ConcatProperties
<1> QED BY <1>1, <1>2, <1>3, Single

LEMMA HeadIsFirst ==
    ASSUME Ind, rest # <<>>
    PROVE  /\ SubSeq(rest, 1, 1) = <<ch>> /\ ch \in STRING /\ ch \in Symbols
           /\ 1 \in 0 .. Len(rest) /\ rest[1] = ch
<1>1. rest \in Seq(STRING) /\ Len(rest) \in Nat
  BY LenProperties DEF Ind, TypeOK
<1>2. Len(rest) >= 1
  BY <1>1, EmptySeq
<1>3. rest[1] = ch /\ ch \in STRING
  <2>1. ch = rest[1]
    BY <1>1, <1>2 DEF ch
  <2>2. 1 \in 1 .. Len(rest)
    BY <1>1, <1>2
  <2>3. rest[1] \in STRING
    BY <1>1, <2>2, ElementOfSeq
  <2> QED BY <2>1, <2>3
<1>4. SubSeq(rest, 1, 1) = <<ch>>
  <2>1. 1 \in 1 .. Len(rest) /\ \A i \in 1 .. 1 : rest[i] \in STRING
    BY <1>1, <1>2, <1>3
  <2>2. SubSeq(rest, 1, 1) \in Seq(STRING) /\ Len(SubSeq(rest, 1, 1)) = 1
    BY <2>1, SubSeqProperties
  <2>3. \A i \in 1 .. 1 - 1 + 1 : SubSeq(rest, 1, 1)[i] = rest[1 + i - 1]
    BY <2>1, SubSeqProperties
  <2>6. SubSeq(rest, 1, 1)[1] = rest[1 + 1 - 1]
    <3>1. 1 \in 1 .. 1 - 1 + 1
      OBVIOUS
    <3> QED BY <2>3, <3>1
  <2>7. rest[1 + 1 - 1] = rest[1]
    OBVIOUS
  <2>4. SubSeq(rest, 1, 1)[1] = ch
    BY <1>3, <2>6, <2>7
  <2>5. ASSUME NEW S, NEW t \in Seq(S), Len(t) = 1 PROVE t = <<t[1]>>
    BY <2>5
  <2> QED BY <2>2, <2>4, <2>5
<1>5. ch \in Symbols
  BY <1>3 DEF Symbols
<1>6. 1 \in 0 .. Len(rest)
  BY <1>1, <1>2
<1> QED BY <1>3, <1>4, <1>5, <1>6

\* The mark holds the symbols that the turn consumes.
LEMMA MarkedTurn ==
    ASSUME Ind, Buffered, NEW m \in Marks, marks \subseteq {m}, NEW n \in 0 .. Len(rest),
           NEW ps, Turn(ps, n, marks \cup {m}), buf' = buf
    PROVE  /\ View' = Piece(m, View, SubSeq(rest, 1, n)) /\ View \in TextsOf
           /\ buf' \in Kept /\ marks' = {m} /\ parser' = ps
<1>1. buf \in Kept /\ (marks = {} => held = <<>>)
  BY DEF Buffered
<1>2. held \in Seq(Symbols) /\ SubSeq(rest, 1, n) \in Seq(Symbols)
  BY HeldTyped
<1>3. marks' = marks \cup {m} /\ held' = held \o SubSeq(rest, 1, n) /\ parser' = ps
  BY DEF Turn
<1>4. marks \cup {m} = {m}
  OBVIOUS
<1>5. ViewOf(buf, marks \cup {m}, held \o SubSeq(rest, 1, n))
         = Piece(m, ViewOf(buf, marks, held), SubSeq(rest, 1, n))
  <2>1. PICK b, ms, h, s :
          b = buf /\ ms = marks /\ h = held /\ s = SubSeq(rest, 1, n)
    OBVIOUS
  <2>2. /\ b \in Kept /\ h \in Seq(Symbols) /\ s \in Seq(Symbols)
        /\ ms \subseteq {m} /\ (ms = {} => h = <<>>)
    BY <1>1, <1>2, <2>1
  <2>3. ViewOf(b, ms \cup {m}, h \o s) = Piece(m, ViewOf(b, ms, h), s)
    BY <2>2, PieceAdded
  <2> QED BY <2>1, <2>3
<1>6. ViewOf(buf, marks, held) \in TextsOf
  BY <1>1, <1>2, FlushedKept
<1>7. View' = ViewOf(buf', marks', held') /\ View = ViewOf(buf, marks, held)
  BY DEF View
<1> QED BY <1>1, <1>3, <1>4, <1>5, <1>6, <1>7

\* No mark is set and none is after the turn.
LEMMA PlainTurn ==
    ASSUME Ind, Buffered, marks = {}, NEW n, NEW ps, Turn(ps, n, {}), buf' = buf
    PROVE  /\ View' = View /\ View = Contents(buf) /\ View \in TextsOf
           /\ buf' \in Kept /\ marks' = {} /\ held' = <<>> /\ parser' = ps
<1>1. buf \in Kept /\ held = <<>>
  BY DEF Buffered
<1>2. marks' = {} /\ held' = <<>> /\ parser' = ps
  BY DEF Turn
<1>3. View' = ViewOf(buf', marks', held') /\ View = ViewOf(buf, marks, held)
  BY DEF View
<1>4. ViewOf(buf, {}, <<>>) = Contents(buf) /\ ViewOf(buf, {}, <<>>) \in TextsOf
  BY <1>1, Single, ViewCases, FlushedKept
<1> QED BY <1>1, <1>2, <1>3, <1>4

\* The callback gets what the mark holds.
LEMMA CallbackTurn ==
    ASSUME Ind, Buffered, NEW m \in Marks, marks \subseteq {m}, NEW n, NEW ps,
           Callback(m, Called(m, buf, held), ps, n)
    PROVE  /\ View' = View /\ View' = Contents(buf') /\ View \in TextsOf
           /\ buf' \in Kept /\ marks' = {} /\ held' = <<>> /\ parser' = ps
<1>1. buf \in Kept /\ (marks = {} => held = <<>>)
  BY DEF Buffered
<1>2. marks \ {m} = {} /\ (marks = {} \/ marks = {m})
  OBVIOUS
<1>3. marks' = {} /\ held' = <<>> /\ parser' = ps
      /\ buf' = IF m \in marks THEN Called(m, buf, held) ELSE buf
  BY <1>2 DEF Callback, Turn
<1>4. View' = ViewOf(buf', marks', held') /\ View = ViewOf(buf, marks, held)
  BY DEF View
<1>5. held \in Seq(Symbols) /\ <<>> \in Seq(Symbols)
  <2>1. held \in Seq(STRING)
    BY DEF Ind, TypeOK
  <2> QED BY <2>1, Single
<1>6. buf' \in Kept
  BY <1>1, <1>3, <1>5, PieceCalled
<1>7. View' = Contents(buf') /\ View \in TextsOf
  BY <1>1, <1>3, <1>4, <1>5, <1>6, PieceView, FlushedKept
<1>8. CASE marks = {}
  BY <1>1, <1>3, <1>4, <1>5, <1>7, <1>8, ViewCases
<1>9. CASE marks = {m}
  <2>1. Contents(Called(m, buf, held)) = Piece(m, Contents(buf), held)
        /\ ViewOf(buf, {m}, held) = Piece(m, Contents(buf), held)
    BY <1>1, <1>5, PieceCalled, PieceView
  <2>2. m \in marks
    BY <1>9
  <2>3. buf' = Called(m, buf, held)
    BY <1>3, <2>2
  <2>4. View' = Contents(Called(m, buf, held))
    BY <1>7, <2>3
  <2>5. View = ViewOf(buf, {m}, held)
    BY <1>4, <1>9
  <2> QED BY <1>3, <1>6, <1>7, <2>1, <2>4, <2>5
<1> QED BY <1>2, <1>3, <1>6, <1>7, <1>8, <1>9

-----------------------------------------------------------------------------------
(* The turns tell what a reader alone would be told.                                 *)

TextMoves == Steps(1) /\ got' = got /\ View' = TextAfter(parser.state, View, ch)
TextWaits ==
    /\ Steps(0) /\ got' = got
    /\ TextAfter(parser'.state, View', ch) = TextAfter(parser.state, View, ch)
Finishes ==
    /\ completed' = completed + 1 /\ marks = {}
    /\ TextAfter(parser.state, View, ch) = View
Tells == (TextMoves \/ TextWaits \/ Fail \/ Finishes) /\ Buffered'

\* No name and no value is being gathered after the step.
LEMMA NotGathering ==
    ASSUME buf' \in Kept, marks' = {} => held' = <<>>,
           parser'.state \notin {"header_field", "header_value"}
    PROVE  Buffered'
  BY DEF Buffered

LEMMA SilentTells ==
    ASSUME Ind, Buffered, marks = {}, NEW ps,
           ps.state \notin {"header_field", "header_value"},
           \/ Consume(ps) /\ TextAfter(parser.state, View, ch) = View
           \/ /\ Reexecute(ps)
              /\ TextAfter(ps.state, View, ch) = TextAfter(parser.state, View, ch)
    PROVE  Tells
<1>1. (\E n : Turn(ps, n, {})) /\ buf' = buf /\ got' = got
  BY DEF Consume, Reexecute, Quietly, scriptVars
<1>2. View' = View /\ buf' \in Kept /\ marks' = {} /\ held' = <<>> /\ parser' = ps
  BY <1>1, PlainTurn
<1>3. Buffered'
  BY <1>2, NotGathering
<1>4. CASE Consume(ps) /\ TextAfter(parser.state, View, ch) = View
  BY <1>1, <1>2, <1>3, <1>4, Consumes DEF Tells, TextMoves
<1>5. CASE Reexecute(ps) /\ TextAfter(ps.state, View, ch) = TextAfter(parser.state, View, ch)
  BY <1>1, <1>2, <1>3, <1>5, Leaves DEF Tells, TextWaits
<1> QED BY <1>4, <1>5

LEMMA MarkTells ==
    ASSUME Ind, Buffered, rest # <<>>, NEW m \in Marks, marks \subseteq {m}, NEW ps,
           MarkAndConsume(m, ps) \/ (marks = {m} /\ Consume(ps)),
           TextAfter(parser.state, View, ch) = Piece(m, View, <<ch>>),
           ps.state = m \/ ps.state \notin {"header_field", "header_value"}
    PROVE  Tells
<1>1. Turn(ps, 1, marks \cup {m}) /\ buf' = buf /\ got' = got
  <2>1. CASE MarkAndConsume(m, ps)
    BY <2>1 DEF MarkAndConsume, Quietly, scriptVars
  <2>2. CASE marks = {m} /\ Consume(ps)
    <3>1. marks \cup {m} = marks
      BY <2>2
    <3> QED BY <2>2, <3>1 DEF Consume, Quietly, scriptVars
  <2> QED BY <2>1, <2>2
<1>2. SubSeq(rest, 1, 1) = <<ch>> /\ 1 \in 0 .. Len(rest) /\ ch \in Symbols
  BY HeadIsFirst
<1>3. /\ View' = Piece(m, View, <<ch>>) /\ View \in TextsOf
      /\ buf' \in Kept /\ marks' = {m} /\ parser' = ps
  BY <1>1, <1>2, MarkedTurn
<1>8. <<ch>> \in Seq(Symbols)
  BY <1>2, Single
<1>9. InName(View, <<ch>>).field = "FIELD" /\ InValue(View, <<ch>>).field = "VALUE"
  BY <1>3, <1>8, NamePieces, ValuePieces
<1>10. /\ Piece("header_field", View, <<ch>>) = InName(View, <<ch>>)
       /\ Piece("header_value", View, <<ch>>) = InValue(View, <<ch>>)
  BY PieceCases
<1>4. m = "header_field" => View'.field = "FIELD"
  BY <1>3, <1>9, <1>10
<1>5. m = "header_value" => View'.field = "VALUE"
  BY <1>3, <1>9, <1>10
<1>6. Buffered'
  BY <1>3, <1>4, <1>5 DEF Buffered
<1>7. Steps(1)
  BY Consumes
<1> QED BY <1>1, <1>3, <1>6, <1>7 DEF Tells, TextMoves

LEMMA CallTells ==
    ASSUME Ind, Buffered, NEW m \in Marks, marks \subseteq {m}, NEW ps, NEW n \in {0, 1},
           Callback(m, Called(m, buf, held), ps, n),
           ps.state \notin {"header_field", "header_value"},
           n = 1 => TextAfter(parser.state, View, ch) = View,
           n = 0 => TextAfter(ps.state, View, ch) = TextAfter(parser.state, View, ch)
    PROVE  Tells
<1>1. View' = View /\ buf' \in Kept /\ marks' = {} /\ held' = <<>> /\ parser' = ps
  BY CallbackTurn
<1>2. got' = got
  BY DEF Callback
<1>3. Buffered'
  BY <1>1, NotGathering
<1>4. CASE n = 1
  BY <1>1, <1>2, <1>3, <1>4, Consumes DEF Tells, TextMoves
<1>5. CASE n = 0
  BY <1>1, <1>2, <1>3, <1>5, Leaves DEF Tells, TextWaits
<1> QED BY <1>4, <1>5

LEMMA ErrorBuffered ==
    ASSUME Ind, Buffered, NEW ps, ReadError(ps),
           ps.errno # "OK" \/ (ps = parser /\ marks = {})
    PROVE  Buffered'
<1>1. /\ parser' = ps /\ marks' = {} /\ held' = <<>> /\ parsing' = FALSE /\ buf' = buf
  BY DEF ReadError, scriptVars
<1>2. buf' \in Kept
  BY <1>1 DEF Buffered
<1>3. CASE ps.errno # "OK"
  BY <1>1, <1>2, <1>3 DEF Buffered
<1>4. CASE ps = parser /\ marks = {}
  <2>1. held = <<>>
    BY <1>4 DEF Buffered
  <2>2. View' = View
    BY <1>1, <1>4, <2>1 DEF View
  <2> QED BY <1>1, <1>2, <1>4, <2>2 DEF Buffered
<1> QED BY <1>3, <1>4

LEMMA FailTells ==
    ASSUME Ind, Buffered, Fail
    PROVE  Tells
<1>1. PICK ps : ps = [parser EXCEPT !.errno = "error"]
  OBVIOUS
<1>2. ReadError(ps)
  BY <1>1 DEF Fail
<1>3. parser \in Parsers
  BY DEF Ind, TypeOK
<1>4. ps.errno = "error"
  BY <1>1, <1>3 DEF Parsers
<1>5. Buffered'
  BY <1>2, <1>4, ErrorBuffered
<1> QED BY <1>5 DEF Tells

\* What response_complete leaves in the buffers.
LEMMA ScriptKeeps ==
    ASSUME buf \in Kept, NEW ps, ScriptResponse(ps)
    PROVE  /\ buf' \in Kept
           /\ buf.headers.data # <<>> =>
                /\ Contents(buf') = NoText
                /\ got' = Append(got, ResponseOf(ps.status_code,
                              [buf EXCEPT !.headers = BufferAppend(@, <<NUL>>)]))
<1>1. CASE buf.headers.data = <<>>
  BY <1>1 DEF ScriptResponse
<1>2. CASE buf.headers.data # <<>>
  <2>1. PICK b : b = [buf EXCEPT !.headers = BufferAppend(@, <<NUL>>)]
    OBVIOUS
  <2>2. PICK more : more = BufferAppend(buf.headers, <<NUL>>)
    OBVIOUS
  <2>3. b = [headers |-> more, body |-> buf.body, state |-> buf.state]
    <3>1. [buf EXCEPT !.headers = more]
             = [headers |-> more, body |-> buf.body, state |-> buf.state]
      BY KeptChanged
    <3> QED BY <2>1, <2>2, <3>1
  <2>4. b.headers = more /\ b.body = buf.body
    BY <2>3
  <2>5. buf.headers \in Buffers /\ buf.body \in Buffers
    BY ContentsTyped
  <2>6. more \in Buffers
    BY <2>2, <2>5, Appended, Single
  <2>7. /\ got' = Append(got, ResponseOf(ps.status_code, b))
        /\ buf' = [headers |-> BufferReset(more), body |-> BufferReset(buf.body),
                   state |-> "FIELD"]
    BY <1>2, <2>1, <2>4 DEF ScriptResponse
  <2>8. /\ BufferReset(more) \in Buffers /\ BufferContents(BufferReset(more)) = <<>>
        /\ BufferReset(buf.body) \in Buffers
        /\ BufferContents(BufferReset(buf.body)) = <<>>
    BY <2>5, <2>6, Emptied
  <2>9. buf' \in Kept /\ Contents(buf') = [headers |-> <<>>, field |-> "FIELD", body |-> <<>>]
    BY <2>7, <2>8, KeptMade
  <2> QED BY <2>1, <2>7, <2>9 DEF NoText
<1> QED BY <1>1, <1>2

\* A call of response() ends what was gathered.
LEMMA CompleteBuffered ==
    ASSUME Buffered, marks = {}, NEW ps, ResponseComplete(ps),
           ps.state \notin {"header_field", "header_value"},
           marks' = {}, held' = <<>>
    PROVE  Buffered' /\ completed' = completed + 1
<1>1. buf' \in Kept
  BY ScriptKeeps DEF ResponseComplete, Buffered
<1>2. parser' = ps \/ parser' = HttpParserInit
  BY DEF ResponseComplete
<1>3. parser'.state \notin {"header_field", "header_value"}
  BY <1>2, InitialParser DEF StartState
<1>4. completed' = completed + 1
  BY DEF ResponseComplete
<1> QED BY <1>1, <1>3, <1>4, NotGathering

LEMMA EndTells ==
    ASSUME Ind, Buffered, marks = {}, parser.state \notin Telling, NEW ps \in Parsers,
           MessageComplete(ps) \/ UpgradeComplete(ps)
    PROVE  Tells
<1>1. PICK end : end = [ps EXCEPT !.state = NewMessage(ps)]
  OBVIOUS
<1>2. ResponseComplete(end) /\ marks' = {} /\ held' = <<>>
  BY <1>1 DEF MessageComplete, UpgradeComplete
<1>3. end.state \notin {"header_field", "header_value"}
  BY <1>1 DEF NewMessage, Parsers, StartState
<1>4. Buffered' /\ completed' = completed + 1
  BY <1>2, <1>3, CompleteBuffered
<1>5. TextAfter(parser.state, View, ch) = View
  BY TextCases
<1> QED BY <1>4, <1>5 DEF Tells, Finishes

-----------------------------------------------------------------------------------
(* The actions of the loop that see one symbol.                                      *)

Gathers == {"header_field", "header_value"}

LEMMA StateStays ==
    ASSUME NEW ps \in Parsers
    PROVE  /\ \A v : [ps EXCEPT !.version = v].state = ps.state
           /\ \A v : [ps EXCEPT !.status_code = v].state = ps.state
           /\ \A v : [ps EXCEPT !.content_length = v].state = ps.state
           /\ \A v : [ps EXCEPT !.flags = v].state = ps.state
           /\ \A v : [ps EXCEPT !.nread = v].state = ps.state
           /\ \A v : [ps EXCEPT !.header_state = v].state = ps.state
           /\ \A v : [ps EXCEPT !.state = v].state = v
  BY DEF Parsers

\* Symbols of the framing say nothing.
LEMMA QuietTells ==
    ASSUME Ind, Buffered, parser.state \notin Telling, marks = {},
           \/ Fail
           \/ \E ps : /\ ps.state \notin Gathers
                      /\ Consume(ps) \/ (Reexecute(ps) /\ ps.state \notin Telling)
    PROVE  Tells
<1>1. TextAfter(parser.state, View, ch) = View
  BY TextCases
<1>2. ASSUME NEW ps, ps.state \notin Gathers, Consume(ps) PROVE Tells
  BY <1>1, <1>2, SilentTells DEF Gathers
<1>3. ASSUME NEW ps, ps.state \notin Gathers, Reexecute(ps), ps.state \notin Telling
      PROVE  Tells
  <2>1. TextAfter(ps.state, View, ch) = View
    BY <1>3, TextCases
  <2> QED BY <1>1, <1>3, <2>1, SilentTells DEF Gathers
<1> QED BY <1>2, <1>3, FailTells

\* The states that have no mark.
LEMMA Markless ==
    ASSUME Ind, NEW state, In(state),
           state \notin {"res_status", "header_field", "header_value", "body_identity",
                        "body_identity_eof", "chunk_data", "chunk_data_almost_done"}
    PROVE  marks = {} /\ rest # <<>> /\ parsing /\ parser.state = state
<1>1. parser.state = state /\ rest # <<>> /\ parsing
  BY DEF In
<1>2. state \in HeaderStates \cup BodyStates
  BY <1>1 DEF Ind, TypeOK, Parsers, States
<1>3. MarksOf(state) = {}
  BY <1>2, NoMarks
<1> QED BY <1>1, <1>3 DEF Ind

LEMMA StatusLineTells ==
    ASSUME Ind, Buffered,
           StartRes \/ ResVersion \/ ResFirstStatusCode \/ ResStatusCode \/ ResLineAlmostDone
    PROVE  Tells
<1>0. parser \in Parsers
  BY DEF Ind, TypeOK
<1>1. /\ Counted \in Parsers /\ Counted.state = parser.state
      /\ \A state \in States : To(state) \in Parsers /\ To(state).state = state
  BY <1>0, CountedControl, ToControl
<1>2. {"res_version", "res_first_status_code", "res_status_code", "res_status_start",
       "res_line_almost_done", "header_field_start"} \subseteq States \ Gathers
  BY DEF States, HeaderStates, Gathers
<1>3. CASE StartRes
  <2>1. In("start_res")
    BY <1>3 DEF StartRes
  <2>2. marks = {} /\ parser.state = "start_res"
    BY <2>1, Markless
  <2>3. PICK ps : ps = [Counted EXCEPT !.flags = {}, !.content_length = UMax]
    OBVIOUS
  <2>4. ps \in Parsers /\ ps.state = "start_res"
    <3>1. PICK q : q = [Counted EXCEPT !.flags = {}]
      OBVIOUS
    <3>2. q \in Parsers /\ q.state = Counted.state
      BY <1>1, <3>1, StateStays DEF Parsers
    <3>3. ps = [q EXCEPT !.content_length = UMax]
      BY <2>3, <3>1
    <3>4. UMax \in 0 .. UMax
      BY DigitsAssumption
    <3>5. ps \in Parsers
      BY <3>2, <3>3, <3>4 DEF Parsers
    <3>6. ps.state = q.state
      BY <3>2, <3>3, StateStays
    <3> QED BY <1>1, <2>2, <3>2, <3>5, <3>6
  <2>5. [ps EXCEPT !.state = "res_version"].state = "res_version"
    BY <2>4, StateStays
  <2>6. Fail \/ Consume(ps) \/ Consume([ps EXCEPT !.state = "res_version"])
    BY <1>3, <2>3 DEF StartRes
  <2> QED BY <2>2, <2>4, <2>5, <2>6, QuietTells DEF Gathers, Telling
<1>4. CASE ResVersion
  <2>1. In("res_version")
    BY <1>4 DEF ResVersion
  <2>2. marks = {} /\ parser.state = "res_version"
    BY <2>1, Markless
  <2>3. Fail \/ \E v : Consume([To("res_first_status_code") EXCEPT !.version = v])
    BY <1>4 DEF ResVersion
  <2>4. \A v : [To("res_first_status_code") EXCEPT !.version = v].state \notin Gathers
    BY <1>1, <1>2, StateStays
  <2> QED BY <2>2, <2>3, <2>4, QuietTells DEF Telling
<1>5. CASE ResFirstStatusCode
  <2>1. In("res_first_status_code")
    BY <1>5 DEF ResFirstStatusCode
  <2>2. marks = {} /\ parser.state = "res_first_status_code"
    BY <2>1, Markless
  <2>3. \/ Fail \/ Consume(Counted)
        \/ \E v : Consume([To("res_status_code") EXCEPT !.status_code = v])
    BY <1>5 DEF ResFirstStatusCode
  <2>4. \A v : [To("res_status_code") EXCEPT !.status_code = v].state \notin Gathers
    BY <1>1, <1>2, StateStays
  <2>5. Counted.state \notin Gathers
    BY <1>1, <1>2, <2>2
  <2> QED BY <2>2, <2>3, <2>4, <2>5, QuietTells DEF Telling
<1>6. CASE ResStatusCode
  <2>1. In("res_status_code")
    BY <1>6 DEF ResStatusCode
  <2>2. marks = {} /\ parser.state = "res_status_code"
    BY <2>1, Markless
  <2>3. Fail \/ \E state \in States \ Gathers : Consume(To(state))
    BY <1>2, <1>6 DEF ResStatusCode
  <2> QED BY <1>1, <2>2, <2>3, QuietTells DEF Telling
<1>7. CASE ResLineAlmostDone
  <2>1. In("res_line_almost_done")
    BY <1>7 DEF ResLineAlmostDone, Strictly
  <2>2. marks = {} /\ parser.state = "res_line_almost_done"
    BY <2>1, Markless
  <2>3. Fail \/ Consume(To("header_field_start"))
    BY <1>7 DEF ResLineAlmostDone, Strictly
  <2> QED BY <1>1, <1>2, <2>2, <2>3, QuietTells DEF Telling
<1> QED BY <1>3, <1>4, <1>5, <1>6, <1>7

\* The status text is marked, but nobody is called with it.
LEMMA StatusTextTells ==
    ASSUME Ind, Buffered, ResStatusStart \/ ResStatus
    PROVE  Tells
<1>0. parser \in Parsers
  BY DEF Ind, TypeOK
<1>1. /\ Counted.state = parser.state
      /\ \A state \in States : To(state).state = state
  BY <1>0, CountedControl, ToControl
<1>2. {"res_status", "res_line_almost_done", "header_field_start"} \subseteq States \ Gathers
  BY DEF States, HeaderStates, Gathers
<1>3. "status" \in Marks /\ Called("status", buf, held) = buf
  BY DEF Marks, Called
<1>4. CASE ResStatusStart
  <2>1. In("res_status_start")
    BY <1>4 DEF ResStatusStart
  <2>2. marks = {} /\ parser.state = "res_status_start" /\ rest # <<>>
    BY <2>1, Markless
  <2>3. CASE \E state \in States \ Gathers : Consume(To(state))
    BY <1>1, <2>2, <2>3, QuietTells DEF Telling
  <2>4. CASE MarkAndConsume("status", To("res_status"))
    <3>1. TextAfter(parser.state, View, ch) = Piece("status", View, <<ch>>)
      <4>1. TextAfter("res_status_start", View, ch) = View
        BY TextCases DEF Telling
      <4>2. Piece("status", View, <<ch>>) = View
        BY PieceCases
      <4> QED BY <2>2, <4>1, <4>2
    <3>2. To("res_status").state \notin Gathers
      BY <1>1, <1>2
    <3> QED BY <1>3, <2>2, <2>4, <3>1, <3>2, MarkTells DEF Gathers
  <2> QED BY <1>2, <1>4, <2>3, <2>4 DEF ResStatusStart
<1>5. CASE ResStatus
  <2>1. parser.state = "res_status" /\ rest # <<>> /\ marks \subseteq {"status"}
    BY <1>5, NoMarks DEF ResStatus, In, Ind
  <2>2. TextAfter(parser.state, View, ch) = View /\ Piece("status", View, <<ch>>) = View
    BY <2>1, TextCases, PieceCases DEF Telling
  <2>3. ASSUME NEW state \in States \ Gathers, Callback("status", buf, To(state), 1)
        PROVE  Tells
    BY <1>1, <1>3, <2>1, <2>2, <2>3, CallTells DEF Gathers
  <2>4. CASE Consume(Counted)
    <3>1. Counted.state \notin Gathers
      BY <1>1, <1>2, <2>1
    <3>2. CASE marks = {}
      BY <2>2, <2>4, <3>1, <3>2, SilentTells DEF Gathers
    <3>3. CASE marks = {"status"}
      BY <1>3, <2>1, <2>2, <2>4, <3>1, <3>3, MarkTells DEF Gathers
    <3> QED BY <2>1, <3>2, <3>3
  <2> QED BY <1>2, <1>5, <2>3, <2>4 DEF ResStatus
<1> QED BY <1>4, <1>5

LEMMA TokenIsNo ==
    ASSUME NEW s
    PROVE  Token(s) => s \notin {CR, LF, " ", ":"}
  BY DEF Token, Separators

LEMMA NameTells ==
    ASSUME Ind, Buffered, HeaderFieldStart \/ HeaderField
    PROVE  Tells
<1>0. parser \in Parsers
  BY DEF Ind, TypeOK
<1>1. /\ Counted \in Parsers /\ Counted.state = parser.state
      /\ \A state \in States : To(state) \in Parsers /\ To(state).state = state
  BY <1>0, CountedControl, ToControl
<1>2. {"headers_almost_done", "header_field", "header_value_discard_ws"} \subseteq States
      /\ "headers_almost_done" \notin Gathers \cup Telling
      /\ "header_value_discard_ws" \notin Gathers
  BY DEF States, HeaderStates, Gathers, Telling
<1>3. "header_field" \in Marks /\ Called("header_field", buf, held) = OnHeaderField(buf, held)
  BY DEF Marks, Called
<1>4. LineText(View, ch) = IF Token(ch) THEN Piece("header_field", View, <<ch>>) ELSE View
  BY PieceCases DEF LineText
<1>5. CASE HeaderFieldStart
  <2>1. In("header_field_start")
    BY <1>5 DEF HeaderFieldStart
  <2>2. marks = {} /\ parser.state = "header_field_start" /\ rest # <<>>
    BY <2>1, Markless
  <2>3. TextAfter(parser.state, View, ch) = LineText(View, ch)
    <3>1. TextAfter("header_field_start", View, ch) = LineText(View, ch)
      BY TextCases
    <3> QED BY <2>2, <3>1
  <2>4. CASE ch = CR /\ Consume(To("headers_almost_done"))
    <3>1. ~Token(ch)
      BY <2>4, TokenIsNo
    <3> QED BY <1>1, <1>2, <1>4, <2>2, <2>3, <2>4, <3>1, SilentTells DEF Gathers
  <2>5. CASE ch = LF /\ Reexecute(To("headers_almost_done"))
    <3>1. ~Token(ch)
      BY <2>5, TokenIsNo
    <3>2. TextAfter(To("headers_almost_done").state, View, ch) = View
      BY <1>1, <1>2, TextCases
    <3> QED BY <1>1, <1>2, <1>4, <2>2, <2>3, <2>5, <3>1, <3>2, SilentTells DEF Gathers
  <2>6. CASE /\ Token(ch)
             /\ MarkAndConsume("header_field",
                    [To("header_field") EXCEPT !.header_state = NameState("", ch)])
    <3>1. PICK ps : ps = [To("header_field") EXCEPT !.header_state = NameState("", ch)]
      OBVIOUS
    <3>2. ps.state = "header_field"
      <4>1. To("header_field") \in Parsers /\ To("header_field").state = "header_field"
        BY <1>1, <1>2
      <4> QED BY <3>1, <4>1, StateStays
    <3>3. MarkAndConsume("header_field", ps)
      BY <2>6, <3>1
    <3> QED BY <1>3, <1>4, <2>2, <2>3, <2>6, <3>2, <3>3, MarkTells
  <2> QED BY <1>5, <2>4, <2>5, <2>6, FailTells DEF HeaderFieldStart
<1>6. CASE HeaderField
  <2>1. parser.state = "header_field" /\ rest # <<>> /\ marks = {"header_field"}
    BY <1>6 DEF HeaderField, In, Buffered
  <2>2. TextAfter(parser.state, View, ch) = LineText(View, ch)
    <3>1. TextAfter("header_field", View, ch) = LineText(View, ch)
      BY TextCases
    <3> QED BY <2>1, <3>1
  <2>3. CASE Token(ch) /\ Consume([Counted EXCEPT !.header_state = NameState(@, ch)])
    <3>1. PICK ps : ps = [Counted EXCEPT !.header_state = NameState(@, ch)]
      OBVIOUS
    <3>2. ps.state = "header_field"
      BY <1>1, <2>1, <3>1, StateStays
    <3>3. Consume(ps)
      BY <2>3, <3>1
    <3> QED BY <1>3, <1>4, <2>1, <2>2, <2>3, <3>2, <3>3, MarkTells
  <2>4. CASE ch = ":" /\ Callback("header_field", OnHeaderField(buf, held),
                                  To("header_value_discard_ws"), 1)
    <3>1. ~Token(ch)
      BY <2>4, TokenIsNo
    <3> QED BY <1>1, <1>2, <1>3, <1>4, <2>1, <2>2, <2>4, <3>1, CallTells DEF Gathers
  <2> QED BY <1>6, <2>3, <2>4, FailTells DEF HeaderField
<1> QED BY <1>5, <1>6

LEMMA BeginValueTells ==
    ASSUME Ind, Buffered, marks = {}, rest # <<>>, BeginValue,
           TextAfter(parser.state, View, ch) = InValue(View, <<ch>>)
    PROVE  Tells
<1>0. parser \in Parsers
  BY DEF Ind, TypeOK
<1>1. PICK ps : ps = [To("header_value") EXCEPT
                        !.header_state = ValueStart(parser.header_state, ch)]
  OBVIOUS
<1>2. ps \in Parsers /\ ps.state = "header_value"
  <2>1. To("header_value") \in Parsers /\ To("header_value").state = "header_value"
    BY <1>0, ToControl DEF States, HeaderStates
  <2>2. ValueStart(parser.header_state, ch) \in HeaderStatesOfValue
    BY ValueStatesClosed
  <2>3. ps \in Parsers
    BY <1>1, <2>1, <2>2 DEF Parsers
  <2> QED BY <1>1, <2>1, <2>3, StateStays
<1>3. \/ Fail
      \/ MarkAndConsume("header_value", [ps EXCEPT !.content_length = Digits[ch]])
      \/ MarkAndConsume("header_value", [ps EXCEPT !.flags =
             IF parser.header_state = "h_upgrade" THEN @ \cup {"UPGRADE"} ELSE @])
  BY <1>1 DEF BeginValue
<1>4. \/ Fail
      \/ \E qs : qs.state = "header_value" /\ MarkAndConsume("header_value", qs)
  <2>1. [ps EXCEPT !.content_length = Digits[ch]].state = "header_value"
    BY <1>2, StateStays
  <2>2. [ps EXCEPT !.flags = IF parser.header_state = "h_upgrade"
                             THEN @ \cup {"UPGRADE"} ELSE @].state = "header_value"
    BY <1>2, StateStays
  <2> QED BY <1>3, <2>1, <2>2
<1>5. "header_value" \in Marks
  BY DEF Marks
<1>6. Piece("header_value", View, <<ch>>) = InValue(View, <<ch>>)
  BY PieceCases
<1>7. ASSUME NEW qs, qs.state = "header_value", MarkAndConsume("header_value", qs)
      PROVE  Tells
  BY <1>5, <1>6, <1>7, MarkTells
<1> QED BY <1>4, <1>7, FailTells

LEMMA ValueSpaceTells ==
    ASSUME Ind, Buffered,
           \/ HeaderValueDiscardWs \/ HeaderValueStart \/ HeaderAlmostDone
           \/ HeaderValueDiscardWsAlmostDone
    PROVE  Tells
<1>0. parser \in Parsers
  BY DEF Ind, TypeOK
<1>1. /\ Counted.state = parser.state
      /\ \A state \in States : To(state).state = state
  BY <1>0, CountedControl, ToControl
<1>2. {"header_value_discard_ws_almost_done", "header_value_discard_lws",
       "header_value_lws"} \subseteq States \ Gathers
  BY DEF States, HeaderStates, Gathers
<1>3. CASE HeaderValueDiscardWs
  <2>1. In("header_value_discard_ws")
    BY <1>3 DEF HeaderValueDiscardWs
  <2>2. marks = {} /\ parser.state = "header_value_discard_ws" /\ rest # <<>>
    BY <2>1, Markless
  <2>3. CASE ch \notin {" ", CR, LF} /\ BeginValue
    <3>1. TextAfter("header_value_discard_ws", View, ch) = InValue(View, <<ch>>)
      BY <2>3, TextCases
    <3> QED BY <2>2, <2>3, <3>1, BeginValueTells
  <2>4. ASSUME ch \in {" ", CR, LF}, NEW ps, ps.state \notin Gathers, Consume(ps)
        PROVE  Tells
    <3>1. TextAfter("header_value_discard_ws", View, ch) = View
      BY <2>4, TextCases
    <3> QED BY <2>2, <2>4, <3>1, SilentTells DEF Gathers
  <2>5. Counted.state \notin Gathers
    BY <1>1, <2>2 DEF Gathers
  <2> QED BY <1>1, <1>2, <1>3, <2>3, <2>4, <2>5 DEF HeaderValueDiscardWs
<1>4. CASE HeaderValueStart
  <2>1. In("header_value_start") /\ BeginValue
    BY <1>4 DEF HeaderValueStart
  <2>2. marks = {} /\ parser.state = "header_value_start" /\ rest # <<>>
    BY <2>1, Markless
  <2>3. TextAfter("header_value_start", View, ch) = InValue(View, <<ch>>)
    BY TextCases
  <2> QED BY <2>1, <2>2, <2>3, BeginValueTells
<1>5. CASE HeaderAlmostDone
  <2>1. In("header_almost_done") /\ (Fail \/ Consume(To("header_value_lws")))
    BY <1>5 DEF HeaderAlmostDone, Strictly
  <2>2. marks = {} /\ parser.state = "header_almost_done"
    BY <2>1, Markless
  <2> QED BY <1>1, <1>2, <2>1, <2>2, QuietTells DEF Telling
<1>6. CASE HeaderValueDiscardWsAlmostDone
  <2>1. In("header_value_discard_ws_almost_done")
        /\ (Fail \/ Consume(To("header_value_discard_lws")))
    BY <1>6 DEF HeaderValueDiscardWsAlmostDone, Strictly
  <2>2. marks = {} /\ parser.state = "header_value_discard_ws_almost_done"
    BY <2>1, Markless
  <2> QED BY <1>1, <1>2, <2>1, <2>2, QuietTells DEF Telling
<1> QED BY <1>3, <1>4, <1>5, <1>6

\* A line that goes on, or a value that is over, be it an empty one.
LEMMA ValueLineTells ==
    ASSUME Ind, Buffered, HeaderValueLws \/ HeaderValueDiscardLws
    PROVE  Tells
<1>0. parser \in Parsers
  BY DEF Ind, TypeOK
<1>1. \A state \in States : To(state) \in Parsers /\ To(state).state = state
  BY <1>0, ToControl
<1>2. {"header_field_start", "header_value_start", "header_value_discard_ws"}
         \subseteq States \ Gathers
  BY DEF States, HeaderStates, Gathers
<1>3. PICK ps : ps = [To("header_field_start") EXCEPT
                        !.flags = @ \cup FlagOf(parser.header_state)]
  OBVIOUS
<1>4. ps.state = "header_field_start" /\ ps.state \notin Gathers
  <2>1. To("header_field_start") \in Parsers
        /\ To("header_field_start").state = "header_field_start"
    BY <1>1, <1>2
  <2> QED BY <1>3, <2>1, StateStays DEF Gathers
<1>5. CASE HeaderValueLws
  <2>1. In("header_value_lws")
    BY <1>5 DEF HeaderValueLws
  <2>2. marks = {} /\ parser.state = "header_value_lws"
    BY <2>1, Markless
  <2>3. CASE ch = " " /\ Reexecute(To("header_value_start"))
    <3>1. TextAfter("header_value_lws", View, ch) = InValue(View, <<ch>>)
      BY <2>3, TextCases
    <3>2. TextAfter("header_value_start", View, ch) = InValue(View, <<ch>>)
      BY TextCases
    <3>3. To("header_value_start").state = "header_value_start"
      BY <1>1, <1>2
    <3> QED BY <2>2, <2>3, <3>1, <3>2, <3>3, SilentTells
  <2>4. CASE ch # " " /\ Reexecute(ps)
    <3>1. TextAfter("header_value_lws", View, ch) = LineText(View, ch)
      BY <2>4, TextCases
    <3>2. TextAfter("header_field_start", View, ch) = LineText(View, ch)
      BY TextCases
    <3> QED BY <1>4, <2>2, <2>4, <3>1, <3>2, SilentTells
  <2> QED BY <1>3, <1>5, <2>3, <2>4 DEF HeaderValueLws
<1>6. CASE HeaderValueDiscardLws
  <2>1. In("header_value_discard_lws")
    BY <1>6 DEF HeaderValueDiscardLws
  <2>2. marks = {} /\ parser.state = "header_value_discard_lws"
    BY <2>1, Markless
  <2>3. CASE ch = " " /\ Consume(To("header_value_discard_ws"))
    <3>1. TextAfter("header_value_discard_lws", View, ch) = View
      BY <2>3, TextCases
    <3> QED BY <1>1, <1>2, <2>2, <2>3, <3>1, SilentTells DEF Gathers
  <2>4. CASE /\ ch # " " /\ Turn(ps, 0, marks)
             /\ buf' = OnHeaderValue(buf, <<>>)
             /\ UNCHANGED <<got, completed, clockVars, netVars>>
    <3>1. buf \in Kept /\ held = <<>> /\ <<>> \in Seq(Symbols)
      BY <2>2, Single DEF Buffered
    <3>2. View = Contents(buf)
      BY <2>2, <3>1, ViewCases DEF View
    <3>3. buf' \in Kept /\ Contents(buf') = InValue(View, <<>>)
      BY <2>4, <3>1, <3>2, CallbacksTell
    <3>4. marks' = {} /\ held' = <<>> /\ parser' = ps
      BY <2>2, <2>4 DEF Turn
    <3>5. View' = InValue(View, <<>>)
      <4>1. ViewOf(buf', {}, <<>>) = Contents(buf')
        BY <3>1, <3>3, ViewCases
      <4>2. View' = ViewOf(buf', marks', held')
        BY DEF View
      <4> QED BY <3>3, <3>4, <4>1, <4>2
    <3>6. TextAfter("header_value_discard_lws", View, ch) = LineText(InValue(View, <<>>), ch)
      BY <2>4, TextCases
    <3>7. TextAfter("header_field_start", InValue(View, <<>>), ch)
             = LineText(InValue(View, <<>>), ch)
      BY TextCases
    <3>8. TextAfter(parser'.state, View', ch) = TextAfter(parser.state, View, ch)
      BY <1>4, <2>2, <3>4, <3>5, <3>6, <3>7
    <3>9. Steps(0) /\ got' = got
      BY <2>4 DEF Turn, Steps
    <3>10. Buffered'
      BY <1>4, <3>3, <3>4, NotGathering DEF Gathers
    <3> QED BY <3>8, <3>9, <3>10 DEF Tells, TextWaits
  <2> QED BY <1>3, <1>6, <2>3, <2>4 DEF HeaderValueDiscardLws
<1> QED BY <1>5, <1>6

LEMMA HeaderValueTells ==
    ASSUME Ind, Buffered, HeaderValue
    PROVE  Tells
<1>0. parser \in Parsers
  BY DEF Ind, TypeOK
<1>1. /\ Counted \in Parsers /\ Counted.state = parser.state
      /\ \A state \in States : To(state).state = state
  BY <1>0, CountedControl, ToControl
<1>2. "header_almost_done" \in States \ (Gathers \cup Telling)
  BY DEF States, HeaderStates, Gathers, Telling
<1>3. "header_value" \in Marks /\ Called("header_value", buf, held) = OnHeaderValue(buf, held)
  BY DEF Marks, Called
<1>4. parser.state = "header_value" /\ rest # <<>> /\ marks = {"header_value"}
  BY DEF HeaderValue, In, Buffered
<1>5. Piece("header_value", View, <<ch>>) = InValue(View, <<ch>>)
  BY PieceCases
<1>6. ASSUME NEW n \in {0, 1}, ch \in {CR, LF},
             Callback("header_value", OnHeaderValue(buf, held), To("header_almost_done"), n)
      PROVE  Tells
  <2>1. TextAfter("header_value", View, ch) = View
    BY <1>6, TextCases
  <2>2. TextAfter("header_almost_done", View, ch) = View
    BY <1>2, TextCases
  <2> QED BY <1>1, <1>2, <1>3, <1>4, <1>6, <2>1, <2>2, CallTells DEF Gathers
<1>7. ASSUME ch \notin {CR, LF}, NEW ps, ps.state = "header_value", Consume(ps)
      PROVE  Tells
  <2>1. TextAfter("header_value", View, ch) = InValue(View, <<ch>>)
    BY <1>7, TextCases
  <2> QED BY <1>3, <1>4, <1>5, <1>7, <2>1, MarkTells
<1>8. ASSUME ch \notin {CR, LF}, ContentLengthDigit
      PROVE  Tells
  <2>1. PICK ps : ps = [Counted EXCEPT
                          !.content_length = AnotherDigit(parser.content_length, Dec)]
    OBVIOUS
  <2>2. ps.state = "header_value"
    BY <1>1, <1>4, <2>1, StateStays
  <2>3. Counted.content_length = parser.content_length
    BY <1>0, CountedControl
  <2>4. Fail \/ Consume(Counted) \/ Consume(ps)
    BY <1>8, <2>1, <2>3 DEF ContentLengthDigit
  <2> QED BY <1>1, <1>4, <1>7, <1>8, <2>2, <2>4, FailTells
<1>9. ASSUME NEW hs, ch \notin {CR, LF},
             Consume([Counted EXCEPT !.header_state = ValueNext(hs, ch),
                                     !.flags = @ \cup FlagOfListItem(hs, ch)])
      PROVE  Tells
  <2>1. PICK qs : qs = [Counted EXCEPT !.header_state = ValueNext(hs, ch)]
    OBVIOUS
  <2>2. qs \in Parsers /\ qs.state = "header_value"
    <3>1. ValueNext(hs, ch) \in HeaderStatesOfValue
      BY ValueStatesClosed
    <3>2. qs \in Parsers
      BY <1>1, <2>1, <3>1 DEF Parsers
    <3> QED BY <1>1, <1>4, <2>1, <3>2, StateStays
  <2>3. PICK ps : ps = [qs EXCEPT !.flags = @ \cup FlagOfListItem(hs, ch)]
    OBVIOUS
  <2>4. ps.state = "header_value"
    BY <2>2, <2>3, StateStays
  <2>5. ps = [Counted EXCEPT !.header_state = ValueNext(hs, ch),
                             !.flags = @ \cup FlagOfListItem(hs, ch)]
    BY <2>1, <2>3
  <2> QED BY <1>7, <1>9, <2>4, <2>5
<1> QED BY <1>6, <1>7, <1>8, <1>9 DEF HeaderValue

-----------------------------------------------------------------------------------
(* The end of the headers, the framing of the body.                                  *)

LEMMA HeadersTell ==
    ASSUME Ind, Buffered, HeadersAlmostDone \/ HeadersDone \/ MessageDone
    PROVE  Tells
<1>0. parser \in Parsers
  BY DEF Ind, TypeOK
<1>1. /\ Counted \in Parsers /\ Counted.state = parser.state
      /\ \A state \in States : To(state).state = state
  BY <1>0, CountedControl, ToControl
<1>2. /\ "headers_done" \in States \ (Gathers \cup Telling)
      /\ {"headers_almost_done", "message_done"} \cap Telling = {}
      /\ {"chunk_size_start", "body_identity", "body_identity_eof"} \cap Gathers = {}
  BY DEF States, HeaderStates, Gathers, Telling
<1>3. CASE HeadersAlmostDone
  <2>1. In("headers_almost_done")
        /\ (Fail \/ MessageComplete(Counted) \/ Reexecute(To("headers_done")))
    BY <1>3 DEF HeadersAlmostDone, Strictly
  <2>2. marks = {} /\ parser.state = "headers_almost_done"
    BY <2>1, Markless
  <2>3. CASE MessageComplete(Counted)
    BY <1>1, <1>2, <2>2, <2>3, EndTells
  <2>4. CASE Fail \/ Reexecute(To("headers_done"))
    BY <1>1, <1>2, <2>2, <2>4, QuietTells
  <2> QED BY <2>1, <2>3, <2>4
<1>4. CASE HeadersDone
  <2>1. In("headers_done")
    BY <1>4 DEF HeadersDone, Strictly
  <2>2. marks = {} /\ parser.state = "headers_done"
    BY <2>1, Markless
  <2>3. PICK ps : ps = HeadOver
    OBVIOUS
  <2>4. ps \in Parsers
    BY <1>1, <2>3 DEF HeadOver, Parsers
  <2>5. Fail \/ UpgradeComplete(ps) \/ BodyBegins(ps)
    BY <1>4, <2>3 DEF HeadersDone, Strictly
  <2>6. CASE UpgradeComplete(ps) \/ MessageComplete(ps)
    BY <1>2, <2>2, <2>4, <2>6, EndTells
  <2>7. ASSUME NEW state \in {"chunk_size_start", "body_identity", "body_identity_eof"},
               Consume([ps EXCEPT !.state = state])
        PROVE  Tells
    <3>1. [ps EXCEPT !.state = state].state \notin Gathers
      BY <1>2, <2>4, StateStays
    <3> QED BY <1>2, <2>2, <2>7, <3>1, QuietTells DEF Telling
  <2> QED BY <2>5, <2>6, <2>7, FailTells DEF BodyBegins
<1>5. CASE MessageDone
  <2>1. In("message_done") /\ MessageComplete(Counted)
    BY <1>5 DEF MessageDone
  <2>2. marks = {} /\ parser.state = "message_done"
    BY <2>1, Markless
  <2> QED BY <1>1, <1>2, <2>1, <2>2, EndTells
<1> QED BY <1>3, <1>4, <1>5

LEMMA ChunksTell ==
    ASSUME Ind, Buffered,
           \/ ChunkSizeStart \/ ChunkSize \/ ChunkParameters \/ ChunkSizeAlmostDone
           \/ ChunkDataDone
    PROVE  Tells
<1>0. parser \in Parsers
  BY DEF Ind, TypeOK
<1>1. /\ Counted \in Parsers /\ Counted.state = parser.state
      /\ \A state \in States : To(state) \in Parsers /\ To(state).state = state
      /\ Counted.content_length = parser.content_length
  BY <1>0, CountedControl, ToControl
<1>2. /\ {"chunk_size", "chunk_size_almost_done", "chunk_parameters", "chunk_size_start"}
            \subseteq States \ (Gathers \cup Telling)
      /\ {"header_field_start", "chunk_data"} \subseteq States \ Gathers
      /\ "chunk_data_done" \notin Gathers \cup Telling
  BY DEF States, HeaderStates, BodyStates, Gathers, Telling
<1>3. CASE ChunkSizeStart
  <2>1. In("chunk_size_start")
    BY <1>3 DEF ChunkSizeStart
  <2>2. marks = {} /\ parser.state = "chunk_size_start"
    BY <2>1, Markless
  <2>3. Fail \/ Consume([To("chunk_size") EXCEPT !.content_length = Digits[ch]])
    BY <1>3 DEF ChunkSizeStart
  <2>4. [To("chunk_size") EXCEPT !.content_length = Digits[ch]].state \notin Gathers
    BY <1>1, <1>2, StateStays
  <2> QED BY <1>2, <2>2, <2>3, <2>4, QuietTells
<1>4. CASE ChunkSize
  <2>1. In("chunk_size")
    BY <1>4 DEF ChunkSize
  <2>2. marks = {} /\ parser.state = "chunk_size"
    BY <2>1, Markless
  <2>3. PICK ps : ps = [Counted EXCEPT
                          !.content_length = AnotherDigit(parser.content_length, Hex)]
    OBVIOUS
  <2>4. \/ Fail \/ Consume(To("chunk_size_almost_done"))
        \/ Consume(To("chunk_parameters")) \/ Consume(ps)
    BY <1>1, <1>4, <2>3 DEF ChunkSize
  <2>5. ps.state \notin Gathers
    BY <1>1, <1>2, <2>2, <2>3, StateStays
  <2> QED BY <1>1, <1>2, <2>2, <2>4, <2>5, QuietTells
<1>5. CASE ChunkParameters
  <2>1. In("chunk_parameters")
        /\ (Consume(To("chunk_size_almost_done")) \/ Consume(Counted))
    BY <1>5 DEF ChunkParameters
  <2>2. marks = {} /\ parser.state = "chunk_parameters"
    BY <2>1, Markless
  <2> QED BY <1>1, <1>2, <2>1, <2>2, QuietTells
<1>6. CASE ChunkSizeAlmostDone
  <2>1. In("chunk_size_almost_done")
    BY <1>6 DEF ChunkSizeAlmostDone, Strictly
  <2>2. marks = {} /\ parser.state = "chunk_size_almost_done"
    BY <2>1, Markless
  <2>3. PICK ps : ps = [Counted EXCEPT !.nread = 0]
    OBVIOUS
  <2>4. ps \in Parsers
    BY <1>1, <2>3 DEF Parsers
  <2>5. \/ Fail \/ Consume([ps EXCEPT !.state = "chunk_data"])
        \/ Consume([ps EXCEPT !.state = "header_field_start",
                              !.flags = @ \cup {"TRAILING"}])
    BY <1>6, <2>3 DEF ChunkSizeAlmostDone, Strictly
  <2>6. [ps EXCEPT !.state = "chunk_data"].state \notin Gathers
    BY <1>2, <2>4, StateStays
  <2>7. [ps EXCEPT !.state = "header_field_start",
                   !.flags = @ \cup {"TRAILING"}].state \notin Gathers
    <3>1. PICK qs : qs = [ps EXCEPT !.state = "header_field_start"]
      OBVIOUS
    <3>2. qs \in Parsers
      BY <1>2, <2>4, <3>1 DEF Parsers
    <3>3. qs.state = "header_field_start"
      BY <2>4, <3>1, StateStays
    <3>4. [qs EXCEPT !.flags = @ \cup {"TRAILING"}].state = "header_field_start"
      BY <3>2, <3>3, StateStays
    <3> QED BY <1>2, <3>1, <3>4
  <2> QED BY <1>2, <2>2, <2>5, <2>6, <2>7, QuietTells
<1>7. CASE ChunkDataDone
  <2>1. In("chunk_data_done")
        /\ (Fail \/ Consume([To("chunk_size_start") EXCEPT !.nread = 0]))
    BY <1>7 DEF ChunkDataDone, Strictly
  <2>2. marks = {} /\ parser.state = "chunk_data_done"
    BY <2>1, Markless
  <2>3. [To("chunk_size_start") EXCEPT !.nread = 0].state \notin Gathers
    BY <1>1, <1>2, StateStays
  <2> QED BY <1>2, <2>1, <2>2, <2>3, QuietTells
<1> QED BY <1>3, <1>4, <1>5, <1>6, <1>7

LEMMA ChunkOverTells ==
    ASSUME Ind, Buffered, ChunkDataAlmostDone
    PROVE  Tells
<1>0. parser \in Parsers
  BY DEF Ind, TypeOK
<1>1. parser.state = "chunk_data_almost_done" /\ marks \subseteq {"body"}
  BY DEF ChunkDataAlmostDone, Strictly, In, Ind, MarksOf
<1>2. "chunk_data_done" \in States \ Gathers
  BY DEF States, BodyStates, Gathers
<1>3. To("chunk_data_done").state = "chunk_data_done"
  BY <1>0, <1>2, ToControl
<1>4. "body" \in Marks /\ Called("body", buf, held) = OnBody(buf, held)
  BY DEF Marks, Called
<1>5. Fail \/ Callback("body", OnBody(buf, held), To("chunk_data_done"), 1)
  BY DEF ChunkDataAlmostDone, Strictly
<1>6. TextAfter("chunk_data_almost_done", View, ch) = View
  BY TextCases DEF Telling
<1> QED BY <1>1, <1>2, <1>3, <1>4, <1>5, <1>6, CallTells, FailTells DEF Gathers

-----------------------------------------------------------------------------------
(* The turns that take as much of a body as there is.                                *)

LEMMA PrefixGrows ==
    ASSUME NEW s \in Seq(STRING), NEW j \in 1 .. Len(s)
    PROVE  SubSeq(s, 1, j) = SubSeq(s, 1, j - 1) \o <<s[j]>>
           /\ (j = 1 => SubSeq(s, 1, j) = <<s[1]>>)
<1>1. 1 \in 1 .. Len(s) /\ j \in Nat
  BY LenProperties
<1>2. SubSeq(s, 1, j) = SubSeq(s, 1, j - 1) \o <<s[j]>>
  BY <1>1, SubSeqRecursiveSecond
<1>3. ASSUME j = 1 PROVE SubSeq(s, 1, j) = <<s[1]>>
  <2>1. SubSeq(s, 1, j - 1) = <<>>
    BY <1>3, SubSeqEmpty
  <2>2. s[1] \in STRING
    BY <1>1, ElementOfSeq
  <2>3. <<s[1]>> \in Seq(Symbols)
    BY <2>2, Single DEF Symbols
  <2>4. <<>> \o <<s[1]>> = <<s[1]>>
    BY <2>3, ConcatEmptySeq
  <2> QED BY <1>2, <1>3, <2>1, <2>4
<1> QED BY <1>2, <1>3

Bodies == {"body_identity", "body_identity_eof", "chunk_data"}

\* The symbols r are those of w that follow the first p of them, within a body.
WithinBody(x, st, w, p, k, r) ==
    /\ x \in TextsOf /\ st \in Bodies /\ Len(w) \in Nat /\ p \in Nat
    /\ k \in 1 .. (Len(w) - p) /\ r \in Seq(STRING) /\ k <= Len(r)
    /\ \A i \in 1 .. k : r[i] = w[p + i]
    /\ Texts(w)[p + 1] = InContent(x, <<w[p + 1]>>)
    /\ \A j \in 1 .. (k - 1) : Alone(w)[p + j].state = st

\* What a reader alone is told within a body.
LEMMA BodyTexts ==
    ASSUME NEW x, NEW st, NEW w, NEW p, NEW k, NEW r, WithinBody(x, st, w, p, k, r)
    PROVE  Texts(w)[p + k] = InContent(x, SubSeq(r, 1, k))
<1>0. /\ x \in TextsOf /\ st \in Bodies /\ Len(w) \in Nat /\ p \in Nat
      /\ k \in 1 .. (Len(w) - p) /\ r \in Seq(STRING) /\ k <= Len(r)
      /\ \A i \in 1 .. k : r[i] = w[p + i]
      /\ Texts(w)[p + 1] = InContent(x, <<w[p + 1]>>)
      /\ \A j \in 1 .. (k - 1) : Alone(w)[p + j].state = st
  BY DEF WithinBody
<1> DEFINE missing == {j \in Nat : j \in 1 .. k
                          /\ Texts(w)[p + j] # InContent(x, SubSeq(r, 1, j))}
<1>1. SUFFICES ASSUME missing # {} PROVE FALSE
  <2>1. k \in Nat /\ k \in 1 .. k
    BY <1>0
  <2> QED BY <1>0, <2>1
<1>2. PICK m \in missing : \A j \in missing : m <= j
  <2>1. missing \subseteq Nat
    OBVIOUS
  <2> HIDE DEF missing
  <2> QED BY <1>1, <2>1, Least
<1>3. /\ m \in 1 .. k /\ m \in Nat /\ Texts(w)[p + m] # InContent(x, SubSeq(r, 1, m))
      /\ \A j \in 1 .. k : j < m => Texts(w)[p + j] = InContent(x, SubSeq(r, 1, j))
  BY <1>2
<1> HIDE DEF missing
<1>4. Len(r) \in Nat /\ k \in Nat /\ m \in 1 .. Len(r)
  BY <1>0, <1>3, LenProperties
<1>5. r[m] = w[p + m] /\ r[m] \in STRING /\ r[m] \in Symbols
  <2>1. r[m] = w[p + m]
    BY <1>0, <1>3
  <2>2. r[m] \in STRING
    BY <1>0, <1>4, ElementOfSeq
  <2> QED BY <2>1, <2>2 DEF Symbols
<1>6. CASE m = 1
  BY <1>0, <1>3, <1>4, <1>5, <1>6, PrefixGrows
<1>7. CASE m # 1
  <2>1. /\ m - 1 \in 1 .. k /\ m - 1 < m /\ m - 1 \in 1 .. (k - 1) /\ p + m \in 1 .. Len(w)
        /\ p + (m - 1) = (p + m) - 1
    BY <1>0, <1>3, <1>7
  <2>2. PICK s : s = SubSeq(r, 1, m - 1)
    OBVIOUS
  <2>3. Texts(w)[(p + m) - 1] = InContent(x, s)
    BY <1>3, <2>1, <2>2
  <2>4. Alone(w)[(p + m) - 1].state = st
    BY <1>0, <2>1
  <2>5. Texts(w)[p + m] = TextAfter(st, InContent(x, s), w[p + m])
    BY <1>0, <2>1, <2>3, <2>4, TextsSteps
  <2>6. TextAfter(st, InContent(x, s), w[p + m]) = InContent(InContent(x, s), <<w[p + m]>>)
    BY <1>0, TextOfBody DEF Bodies
  <2>7. s \in Seq(Symbols) /\ <<r[m]>> \in Seq(Symbols)
    <3>1. s \in Seq(STRING)
      BY <1>0, <1>4, <2>1, <2>2, PartOfSeq
    <3> QED BY <1>5, <3>1, Single
  <2>8. InContent(InContent(x, s), <<r[m]>>) = InContent(x, s \o <<r[m]>>)
    BY <1>0, <2>7, ContentPieces
  <2>9. SubSeq(r, 1, m) = s \o <<r[m]>>
    BY <1>0, <1>4, <2>2, PrefixGrows
  <2> QED BY <1>3, <1>5, <2>5, <2>6, <2>8, <2>9
<1> QED BY <1>6, <1>7

\* A turn within a message, whatever the message: the parser has told what a reader alone
\* is told of the n symbols it has read, or of one more, which the next turn will see.
TextFollows(n) ==
    /\ n \in 0 .. Len(rest) /\ Steps(n) /\ got' = got
    /\ \A w \in Seq(STRING), p \in Nat :
          /\ p < Len(w) /\ p + n <= Len(w) /\ \A i \in 1 .. n : rest[i] = w[p + i]
          /\ w[p + 1] = ch /\ After(Control(parser), ch) = Alone(w)[p + 1]
          /\ TextAfter(parser.state, View, ch) = Texts(w)[p + 1]
          => \/ View' = Texts(w)[p + n] /\ parser'.state = Alone(w)[p + n].state
             \/ /\ n < Len(rest)
                /\ p + n < Len(w) /\ rest[n + 1] = w[p + n + 1] =>
                      TextAfter(parser'.state, View', w[p + n + 1]) = Texts(w)[p + n + 1]

LEMMA OneTextFollows ==
    ASSUME Ind, rest # <<>>, (TextMoves /\ Moves) \/ TextWaits
    PROVE  \E n : TextFollows(n)
<1>1. rest \in Seq(STRING) /\ Len(rest) \in Nat \ {0} /\ rest[1] = ch
  BY HeadIsFirst, HeldTyped, EmptySeq
<1>2. CASE TextMoves /\ Moves
  <2>1. Control(parser').state = parser'.state
    BY DEF Control
  <2>2. Steps(1) /\ got' = got /\ Control(parser') = After(Control(parser), ch)
        /\ View' = TextAfter(parser.state, View, ch)
    BY <1>2 DEF TextMoves, Moves
  <2>3. TextFollows(1)
    BY <1>1, <2>1, <2>2 DEF TextFollows
  <2> QED BY <2>3
<1>3. CASE TextWaits
  <2>1. /\ Steps(0) /\ got' = got
        /\ TextAfter(parser'.state, View', ch) = TextAfter(parser.state, View, ch)
    BY <1>3 DEF TextWaits
  <2>2. ASSUME NEW w \in Seq(STRING), NEW p \in Nat, w[p + 1] = ch,
               TextAfter(parser.state, View, ch) = Texts(w)[p + 1]
        PROVE  TextAfter(parser'.state, View', w[p + 0 + 1]) = Texts(w)[p + 0 + 1]
    <3>1. p + 0 + 1 = p + 1
      OBVIOUS
    <3> QED BY <2>1, <2>2, <3>1
  <2>3. TextFollows(0)
    BY <1>1, <2>1, <2>2 DEF TextFollows
  <2> QED BY <2>3
<1> QED BY <1>2, <1>3

LEMMA BodyTextFollows ==
    ASSUME PhaseInv, Buffered, BodyIdentity \/ ChunkData
    PROVE  (\E n : TextFollows(n)) /\ Buffered'
<1> DEFINE c == Control(parser)
           length == parser.content_length
           ps == [Counted EXCEPT !.content_length = @ - ToRead]
<1>1. /\ parser \in Parsers /\ Good(parser) /\ Ind
      /\ parser.state \in {"body_identity", "chunk_data"} /\ In(parser.state)
  BY PhaseReady DEF BodyIdentity, ChunkData, In, PhaseInv
<1>2. /\ length # 0 /\ length \in Nat /\ ToRead \in 1 .. Len(rest) /\ ToRead \in Nat
      /\ Len(rest) \in Nat /\ length - ToRead \in 0 .. UMax
      /\ ToRead = IF length <= Len(rest) THEN length ELSE Len(rest)
  BY <1>1, ToReadSmall, LenProperties, DigitsAssumption
     DEF Good, Parsers, ToRead, Ind, TypeOK
<1>3. parser.state \in (BodyStates \cup ChunkStates) \cap States
  BY <1>1 DEF BodyStates, ChunkStates, States
<1>4. c \in Controls /\ c.state = parser.state /\ c.content_length = length
  BY <1>3, <1>1, BodyControl
<1>5. Counted = parser
  BY <1>1, CountedFields DEF BodyStates
<1>6. /\ ps \in Parsers /\ ps.state = parser.state /\ ps.content_length = length - ToRead
  BY <1>1, <1>2, <1>5 DEF Parsers
<1> HIDE DEF c, length, ps
<1>7. PICK k, st, took :
        k = ToRead /\ st = parser.state /\ took = SubSeq(rest, 1, ToRead)
  OBVIOUS
<1>8. /\ k \in 1 .. Len(rest) /\ k \in Nat /\ length \in Nat /\ k <= length
      /\ st \in {"body_identity", "chunk_data"} /\ rest \in Seq(STRING) /\ rest # <<>>
      /\ Len(rest) \in Nat
  BY <1>1, <1>2, <1>7 DEF In, Ind, TypeOK
<1>9. marks \subseteq {"body"} /\ "body" \in Marks
  BY <1>1 DEF Ind, MarksOf, Marks
<1>10. View \in TextsOf
  <2>1. 0 \in 0 .. Len(rest)
    BY <1>8
  <2> QED BY <1>1, <2>1, HeldTyped, FlushedKept DEF View, Buffered
<1>11. TextAfter(st, View, ch) = InContent(View, <<ch>>)
  BY <1>8, TextOfBody
\* What a reader alone has been told of the octets that the turn takes.
<1>12. ASSUME NEW w \in Seq(STRING), NEW p \in Nat, p < Len(w), p + k <= Len(w),
              \A i \in 1 .. k : rest[i] = w[p + i],
              w[p + 1] = ch, After(c, ch) = Alone(w)[p + 1],
              TextAfter(st, View, ch) = Texts(w)[p + 1]
       PROVE  /\ Texts(w)[p + k] = InContent(View, took)
              /\ k < length => Alone(w)[p + k].state = st
              /\ st = "chunk_data" /\ k = length =>
                    Alone(w)[p + k].state = "chunk_data_almost_done"
  <2>1. Len(w) \in Nat
    BY LenProperties
  <2>2. \A j \in 1 .. (Len(w) - p) :
           /\ j < length => Alone(w)[p + j] = Remaining(c, length - j)
           /\ j = length => Alone(w)[p + j] = BodyEnds(c)
    <3>1. After(c, w[p + 1]) = Alone(w)[p + 1] /\ c.content_length # 0
          /\ c.state \in {"body_identity", "chunk_data"}
      BY <1>1, <1>2, <1>4, <1>12
    <3>2. \A j \in 1 .. (Len(w) - p) :
             /\ j < c.content_length => Alone(w)[p + j] = Remaining(c, c.content_length - j)
             /\ j = c.content_length => Alone(w)[p + j] = BodyEnds(c)
      <4> PICK d : d = c
        OBVIOUS
      <4>1. d \in Controls /\ d.state \in {"body_identity", "chunk_data"}
        BY <1>4, <3>1
      <4>2. d.content_length # 0 /\ After(d, w[p + 1]) = Alone(w)[p + 1]
        BY <3>1
      <4>3. p \in Nat /\ p < Len(w)
        BY <1>12
      <4> HIDE DEF c
      <4>4. \A j \in 1 .. (Len(w) - p) :
               /\ j < d.content_length => Alone(w)[p + j] = Remaining(d, d.content_length - j)
               /\ j = d.content_length => Alone(w)[p + j] = BodyEnds(d)
        BY <2>1, <4>1, <4>2, <4>3, BodyRun
      <4> QED BY <4>4
    <3> QED BY <1>4, <3>2
  <2>3. \A n : Remaining(c, n).state = st
    BY <1>4, <1>7 DEF Remaining, Controls
  <2>4. k \in 1 .. (Len(w) - p)
    BY <1>8, <1>12, <2>1
  <2>5. \A j \in 1 .. (k - 1) : Alone(w)[p + j].state = st
    <3>1. ASSUME NEW j \in 1 .. (k - 1) PROVE j \in 1 .. (Len(w) - p) /\ j < length
      BY <1>8, <2>1, <2>4
    <3> QED BY <2>2, <2>3, <3>1
  <2>6. Texts(w)[p + 1] = InContent(View, <<w[p + 1]>>)
    BY <1>11, <1>12
  <2>7. Texts(w)[p + k] = InContent(View, SubSeq(rest, 1, k))
    <3>1. st \in Bodies /\ k <= Len(rest) /\ rest \in Seq(STRING) /\ View \in TextsOf
      BY <1>8, <1>10 DEF Bodies
    <3>2. p \in Nat /\ \A i \in 1 .. k : rest[i] = w[p + i]
      BY <1>12
    <3>3. WithinBody(View, st, w, p, k, rest)
      BY <2>1, <2>4, <2>5, <2>6, <3>1, <3>2 DEF WithinBody
    <3> QED BY <3>3, BodyTexts
  <2>8. k < length => Alone(w)[p + k].state = st
    BY <2>2, <2>3, <2>4
  <2>9. ASSUME st = "chunk_data", k = length
        PROVE  Alone(w)[p + k].state = "chunk_data_almost_done"
    <3>1. Alone(w)[p + k] = BodyEnds(c)
      BY <2>2, <2>4, <2>9
    <3>2. BodyEnds(c) = At(Remaining(c, 0), "chunk_data_almost_done")
      BY <1>4, <1>7, <2>9 DEF BodyEnds
    <3>3. At(Remaining(c, 0), "chunk_data_almost_done").state = "chunk_data_almost_done"
      BY <1>4 DEF At, Remaining, Controls
    <3> QED BY <3>1, <3>2, <3>3
  <2> QED BY <1>7, <2>7, <2>8, <2>9
<1>13. ASSUME NEW qs, Turn(qs, k, marks \cup {"body"}), Quietly,
              qs.state \notin Gathers,
              k < length => qs.state = st,
              k = length => st = "chunk_data" /\ qs.state = "chunk_data_almost_done"
       PROVE  (\E n : TextFollows(n)) /\ Buffered'
  <2>1. Steps(k) /\ got' = got /\ buf' = buf
    BY <1>13 DEF Turn, Quietly, Steps, scriptVars
  <2>2. k \in 0 .. Len(rest)
    BY <1>8
  <2>3. /\ View' = Piece("body", View, took) /\ buf' \in Kept /\ marks' = {"body"}
        /\ parser' = qs
    BY <1>1, <1>7, <1>9, <1>13, <2>1, <2>2, MarkedTurn
  <2>4. View' = InContent(View, took)
    BY <2>3, PieceCases
  <2>5. Buffered'
    BY <1>13, <2>3, NotGathering DEF Gathers
  <2>6. ASSUME NEW w \in Seq(STRING), NEW p \in Nat, p < Len(w), p + k <= Len(w),
               \A i \in 1 .. k : rest[i] = w[p + i],
               w[p + 1] = ch, After(c, ch) = Alone(w)[p + 1],
               TextAfter(st, View, ch) = Texts(w)[p + 1]
        PROVE  View' = Texts(w)[p + k] /\ parser'.state = Alone(w)[p + k].state
    <3>1. /\ Texts(w)[p + k] = InContent(View, took)
          /\ k < length => Alone(w)[p + k].state = st
          /\ st = "chunk_data" /\ k = length =>
                Alone(w)[p + k].state = "chunk_data_almost_done"
      BY <1>12, <2>6
    <3>2. k < length \/ k = length
      BY <1>8
    <3> QED BY <1>13, <2>3, <2>4, <3>1, <3>2
  <2>7. TextFollows(k)
    BY <1>7, <2>1, <2>2, <2>6 DEF TextFollows, c
  <2> QED BY <2>5, <2>7
<1>14. CASE BodyIdentity /\ ps.content_length # 0
             /\ Turn(ps, ToRead, marks \cup {"body"}) /\ Quietly
  <2>1. k < length /\ ps.state = st /\ st = "body_identity"
    BY <1>2, <1>6, <1>7, <1>8, <1>14 DEF BodyIdentity, In
  <2>2. k # length /\ ps.state \notin Gathers
    BY <1>8, <2>1 DEF Gathers
  <2>3. Turn(ps, k, marks \cup {"body"}) /\ Quietly
    BY <1>7, <1>14
  <2> QED BY <1>13, <2>1, <2>2, <2>3
<1>15. CASE ChunkData
  <2>1. st = "chunk_data"
    BY <1>7, <1>15 DEF ChunkData, In
  <2>2. PICK over : over = [ps EXCEPT !.state = "chunk_data_almost_done"]
    OBVIOUS
  <2>3. over.state = "chunk_data_almost_done"
    BY <1>6, <2>2, StateStays
  <2>4. Turn(IF ps.content_length = 0 THEN over ELSE ps, ToRead, marks \cup {"body"})
        /\ Quietly
    BY <1>15, <2>2 DEF ChunkData, ps
  <2>5. PICK qs : qs = IF ps.content_length = 0 THEN over ELSE ps
    OBVIOUS
  <2>6. (k < length => qs.state = st) /\ (k = length => qs.state = "chunk_data_almost_done")
    BY <1>2, <1>6, <1>7, <2>3, <2>5
  <2>7. qs.state \notin Gathers
    BY <1>6, <1>7, <2>1, <2>3, <2>5 DEF Gathers
  <2> QED BY <1>7, <1>13, <2>1, <2>4, <2>5, <2>6, <2>7
\* The last octet of the body is left to the next turn, which tells nothing more.
<1>16. CASE /\ BodyIdentity /\ ps.content_length = 0
            /\ parser' = [ps EXCEPT !.state = "message_done"]
            /\ rest' = SubSeq(rest, ToRead, Len(rest)) /\ held' = <<>>
            /\ marks' = marks \ {"body"}
            /\ buf' = OnBody(buf, held \o SubSeq(rest, 1, ToRead))
            /\ UNCHANGED <<parsing, full, got, completed, clockVars, netVars>>
  <2>1. parser'.state = "message_done" /\ st = "body_identity"
    BY <1>6, <1>7, <1>16, StateStays DEF BodyIdentity, In
  <2>2. k - 1 \in 0 .. Len(rest) /\ k - 1 < Len(rest) /\ (k - 1) + 1 = k
    BY <1>8
  <2>3. Steps(k - 1) /\ got' = got
    BY <1>7, <1>16, <2>2 DEF Steps
  <2>4. marks' = {} /\ held' = <<>> /\ buf' = OnBody(buf, held \o took)
    BY <1>7, <1>9, <1>16
  <2>5. /\ buf \in Kept /\ (marks = {} => held = <<>>) /\ held \in Seq(Symbols)
        /\ took \in Seq(Symbols)
    BY <1>1, <1>7, <1>8, HeldTyped DEF Buffered
  <2>6. held \o took \in Seq(Symbols) /\ <<>> \in Seq(Symbols)
    BY <2>5, Joined, Single
  <2>7. buf' \in Kept /\ Contents(buf') = InContent(Contents(buf), held \o took)
    BY <2>4, <2>5, <2>6, CallbacksTell
  <2>8. View' = Contents(buf')
    <3>1. ViewOf(buf', {}, <<>>) = Contents(buf')
      BY <2>6, <2>7, ViewCases
    <3>2. View' = ViewOf(buf', marks', held')
      BY DEF View
    <3> QED BY <2>4, <3>1, <3>2
  <2>9. View' = InContent(View, took)
    <3>1. ViewOf(buf, marks \cup {"body"}, held \o took)
             = Piece("body", ViewOf(buf, marks, held), took)
      <4>1. PICK b, ms, h, m : b = buf /\ ms = marks /\ h = held /\ m = "body"
        OBVIOUS
      <4>2. /\ b \in Kept /\ h \in Seq(Symbols) /\ took \in Seq(Symbols)
            /\ m \in Marks /\ ms \subseteq {m} /\ (ms = {} => h = <<>>)
        BY <1>9, <2>5, <4>1
      <4>3. ViewOf(b, ms \cup {m}, h \o took) = Piece(m, ViewOf(b, ms, h), took)
        BY <4>2, PieceAdded
      <4> QED BY <4>1, <4>3
    <3>2. marks \cup {"body"} = {"body"}
      BY <1>9
    <3>3. ViewOf(buf, {"body"}, held \o took) = InContent(Contents(buf), held \o took)
      BY <2>5, <2>6, ViewCases
    <3>4. Piece("body", View, took) = InContent(View, took)
      BY PieceCases
    <3> QED BY <2>7, <2>8, <3>1, <3>2, <3>3, <3>4 DEF View
  <2>10. Buffered'
    BY <2>1, <2>4, <2>7, NotGathering
  <2>11. ASSUME NEW w \in Seq(STRING), NEW p \in Nat, p < Len(w),
                \A i \in 1 .. (k - 1) : rest[i] = w[p + i],
                w[p + 1] = ch, After(c, ch) = Alone(w)[p + 1],
                TextAfter(st, View, ch) = Texts(w)[p + 1],
                p + (k - 1) < Len(w), rest[(k - 1) + 1] = w[p + (k - 1) + 1]
         PROVE  TextAfter(parser'.state, View', w[p + (k - 1) + 1]) = Texts(w)[p + (k - 1) + 1]
    <3>1. Len(w) \in Nat /\ p + (k - 1) + 1 = p + k
      BY <1>8, LenProperties
    <3>2. p + k <= Len(w) /\ rest[k] = w[p + k]
      BY <1>8, <2>2, <2>11, <3>1
    <3>3. \A i \in 1 .. k : rest[i] = w[p + i]
      <4>1. \A i \in 1 .. k : i = k \/ i \in 1 .. (k - 1)
        BY <1>8
      <4> QED BY <2>11, <3>2, <4>1
    <3>4. Texts(w)[p + k] = InContent(View, took)
      BY <1>12, <2>11, <3>2, <3>3
    <3>5. TextAfter("message_done", View', w[p + k]) = View'
      BY TextCases DEF Telling
    <3> QED BY <2>1, <2>9, <3>1, <3>4, <3>5
  <2>12. TextFollows(k - 1)
    BY <1>7, <2>2, <2>3, <2>11 DEF TextFollows, c
  <2> QED BY <2>10, <2>12
<1> QED BY <1>14, <1>15, <1>16 DEF BodyIdentity, ps

LEMMA EofTextFollows ==
    ASSUME PhaseInv, Buffered, BodyIdentityEof
    PROVE  (\E n : TextFollows(n)) /\ Buffered'
<1>0. Ind /\ parser \in Parsers
  BY PhaseReady DEF PhaseInv
<1>1. parser.state = "body_identity_eof" /\ rest # <<>> /\ parsing
  BY DEF BodyIdentityEof, In
<1>2. PICK n, took, c : n = Len(rest) /\ took = SubSeq(rest, 1, n) /\ c = Control(parser)
  OBVIOUS
<1>3. rest \in Seq(STRING) /\ n \in Nat \ {0} /\ n \in 0 .. Len(rest)
  <2>1. rest \in Seq(STRING)
    BY <1>0 DEF Ind, TypeOK
  <2>2. Len(rest) \in Nat \ {0}
    BY <1>1, <2>1, EmptySeq
  <2> QED BY <1>2, <2>1, <2>2
<1>4. marks \subseteq {"body"} /\ "body" \in Marks
  BY <1>0, <1>1 DEF Ind, MarksOf, Marks
<1>5. Turn(Counted, n, marks \cup {"body"}) /\ Quietly
  BY <1>2 DEF BodyIdentityEof
<1>6. Steps(n) /\ got' = got /\ buf' = buf
  BY <1>5 DEF Turn, Quietly, Steps, scriptVars
<1>7. /\ View' = Piece("body", View, took) /\ View \in TextsOf /\ buf' \in Kept
      /\ marks' = {"body"} /\ parser' = Counted
  BY <1>0, <1>2, <1>3, <1>4, <1>5, <1>6, MarkedTurn
<1>8. View' = InContent(View, took)
  BY <1>7, PieceCases
<1>9. parser'.state = "body_identity_eof"
  BY <1>0, <1>1, <1>7, CountedControl
<1>10. Buffered'
  BY <1>7, <1>9, NotGathering
<1>11. c.state = "body_identity_eof"
  BY <1>1, <1>2 DEF Control
<1>12. ASSUME NEW w \in Seq(STRING), NEW p \in Nat, p < Len(w), p + n <= Len(w),
              \A i \in 1 .. n : rest[i] = w[p + i],
              w[p + 1] = ch, After(c, ch) = Alone(w)[p + 1],
              TextAfter(parser.state, View, ch) = Texts(w)[p + 1]
       PROVE  View' = Texts(w)[p + n] /\ parser'.state = Alone(w)[p + n].state
  <2>1. Len(w) \in Nat
    BY LenProperties
  <2>2. \A j \in 1 .. (Len(w) - p) : Alone(w)[p + j] = c
    <3>1. Reads(c, w, p)
      BY <1>2, <1>12 DEF Reads
    <3> QED BY <1>11, <1>12, <2>1, <3>1, EofRun
  <2>3. n \in 1 .. (Len(w) - p)
    BY <1>3, <1>12, <2>1
  <2>4. \A j \in 1 .. (n - 1) : Alone(w)[p + j].state = "body_identity_eof"
    <3>1. \A j \in 1 .. (n - 1) : j \in 1 .. (Len(w) - p)
      BY <2>1, <2>3
    <3> QED BY <1>11, <2>2, <3>1
  <2>5. TextAfter("body_identity_eof", View, ch) = InContent(View, <<ch>>)
    BY TextOfBody
  <2>6. Texts(w)[p + 1] = InContent(View, <<w[p + 1]>>)
    BY <1>1, <1>12, <2>5
  <2>7. Texts(w)[p + n] = InContent(View, SubSeq(rest, 1, n))
    <3>1. /\ "body_identity_eof" \in Bodies /\ n <= Len(rest)
          /\ rest \in Seq(STRING) /\ View \in TextsOf
      BY <1>2, <1>3, <1>7 DEF Bodies
    <3>2. p \in Nat /\ \A i \in 1 .. n : rest[i] = w[p + i]
      BY <1>12
    <3>3. WithinBody(View, "body_identity_eof", w, p, n, rest)
      BY <2>1, <2>3, <2>4, <2>6, <3>1, <3>2 DEF WithinBody
    <3> QED BY <3>3, BodyTexts
  <2>8. Alone(w)[p + n] = c
    BY <2>2, <2>3
  <2> QED BY <1>2, <1>8, <1>9, <1>11, <2>7, <2>8
<1>13. TextFollows(n)
  BY <1>2, <1>3, <1>6, <1>12 DEF TextFollows
<1> QED BY <1>10, <1>13

LEMMA TurnTells ==
    ASSUME PhaseInv, Buffered, parsing, rest # <<>>, parser.state # "dead", Execute
    PROVE  ((\E n : TextFollows(n)) \/ Fail \/ Finishes) /\ Buffered'
<1>1. Ind /\ parser \in Parsers /\ completed \in Nat
  BY PhaseReady DEF PhaseInv
<1>2. ASSUME Sees, Tells
      PROVE  ((\E n : TextFollows(n)) \/ Fail \/ Finishes) /\ Buffered'
  <2>1. CASE TextMoves
    <3>1. ~Completes
      <4>1. completed' = completed
        BY <2>1 DEF TextMoves, Steps
      <4>2. Completes => completed' = completed + 1
        BY DEF Completes, Ends, ResponseComplete
      <4> QED BY <1>1, <4>1, <4>2
    <3>2. ~Waits
      <4>1. rest \in Seq(STRING) /\ Len(rest) \in Nat \ {0}
        BY <1>1, EmptySeq DEF Ind, TypeOK
      <4>2. TextMoves => rest' = SubSeq(rest, 2, Len(rest))
        BY DEF TextMoves, Steps
      <4>3. Waits => rest' = SubSeq(rest, 1, Len(rest))
        BY DEF Waits, Steps
      <4>4. SubSeq(rest, 1, Len(rest)) = rest
        BY <4>1, SubSeqFull
      <4>5. Tail(rest) = SubSeq(rest, 2, Len(rest)) /\ Len(Tail(rest)) = Len(rest) - 1
        BY <4>1, TailIsSubSeq, HeadTailProperties
      <4>6. Len(rest) # Len(rest) - 1
        BY <4>1
      <4> QED BY <2>1, <4>2, <4>3, <4>4, <4>5, <4>6
    <3> QED BY <1>1, <1>2, <2>1, <3>1, <3>2, OneTextFollows DEF Sees, Tells, Breaks
  <2>2. CASE TextWaits
    BY <1>1, <1>2, <2>2, OneTextFollows DEF Tells
  <2> QED BY <1>2, <2>1, <2>2 DEF Tells
<1>3. ~Dead /\ ~EndOfInput /\ ~Unparsed
  BY DEF Dead, In, EndOfInput, Unparsed
<1>4. CASE StartRes \/ ResVersion \/ ResFirstStatusCode \/ ResStatusCode \/ ResStatusStart
           \/ ResStatus \/ ResLineAlmostDone
  <2>1. Sees
    BY <1>1, <1>4, StartSees, VersionSees, FirstStatusCodeSees, StatusTextSees
  <2>2. Tells
    BY <1>1, <1>4, StatusLineTells, StatusTextTells
  <2> QED BY <1>2, <2>1, <2>2
<1>5. CASE HeaderFieldStart \/ HeaderField \/ HeaderValueDiscardWs \/ HeaderValueStart
           \/ HeaderValue \/ HeaderAlmostDone \/ HeaderValueLws
           \/ HeaderValueDiscardWsAlmostDone \/ HeaderValueDiscardLws
  <2>1. Sees
    BY <1>1, <1>5, FieldStartSees, FieldSees, ValueSpaceSees, HeaderValueSees
  <2>2. Tells
    BY <1>1, <1>5, NameTells, ValueSpaceTells, ValueLineTells, HeaderValueTells
  <2> QED BY <1>2, <2>1, <2>2
<1>6. CASE HeadersAlmostDone \/ HeadersDone \/ MessageDone
  <2>1. Sees
    BY <1>6, HeadersSee, MessageDoneSees
  <2>2. Tells
    BY <1>1, <1>6, HeadersTell
  <2> QED BY <1>2, <2>1, <2>2
<1>7. CASE ChunkSizeStart \/ ChunkSize \/ ChunkParameters \/ ChunkSizeAlmostDone
           \/ ChunkDataAlmostDone \/ ChunkDataDone
  <2>1. Sees
    BY <1>7, ChunkSizeSees, ChunkFramingSees
  <2>2. Tells
    BY <1>1, <1>7, ChunksTell, ChunkOverTells
  <2> QED BY <1>2, <2>1, <2>2
<1>8. CASE BodyIdentity \/ ChunkData \/ BodyIdentityEof
  BY <1>8, BodyTextFollows, EofTextFollows
<1> QED BY <1>3, <1>4, <1>5, <1>6, <1>7, <1>8 DEF Execute

-----------------------------------------------------------------------------------
(* The steps that see no symbol.                                                     *)

\* The call returns: the callbacks get what the marks still hold.
LEMMA FlushTells ==
    ASSUME Ind, Buffered, EndOfInput
    PROVE  Buffered' /\ View' = View
<1>1. buf' = Flushed /\ marks' = {} /\ held' = <<>> /\ parser' = parser /\ parsing' = FALSE
  BY DEF EndOfInput
<1>2. buf \in Kept /\ held \in Seq(Symbols) /\ <<>> \in Seq(Symbols)
  <2>1. held \in Seq(STRING)
    BY DEF Ind, TypeOK
  <2> QED BY <2>1, Single DEF Buffered
<1>3. Flushed = FlushedTo(buf, marks, held)
  BY DEF Flushed, FlushedTo
<1>4. buf' \in Kept /\ View = Contents(buf')
  BY <1>1, <1>2, <1>3, FlushedKept DEF View, ViewOf
<1>5. View' = Contents(buf')
  <2>1. ViewOf(buf', {}, <<>>) = Contents(buf')
    BY <1>2, <1>4, ViewCases
  <2>2. View' = ViewOf(buf', marks', held')
    BY DEF View
  <2> QED BY <1>1, <2>1, <2>2
<1>6. View' = View
  BY <1>4, <1>5
<1>7. Buffered'
  BY <1>1, <1>4, <1>6 DEF Buffered
<1> QED BY <1>6, <1>7

\* A call begins: the mark of its state is set again, and holds nothing.
LEMMA ReadTells ==
    ASSUME PhaseInv, Buffered, Read
    PROVE  Buffered' /\ View' = View
<1>1. /\ parser' = parser /\ marks' = MarksAtBegin /\ held' = <<>> /\ buf' = buf
      /\ parsing' = TRUE /\ ~parsing /\ link = "open" /\ marks = {}
  BY DEF Read, scriptVars, Returned, PhaseInv, Ind
<1>2. buf \in Kept /\ held = <<>> /\ <<>> \in Seq(Symbols) /\ parser.errno = "OK"
  BY <1>1, Single DEF Buffered, PhaseInv
<1>3. View = Contents(buf)
  BY <1>1, <1>2, ViewCases DEF View
<1>4. View' = ViewOf(buf, MarksAtBegin, <<>>)
  BY <1>1 DEF View
<1>5. View' = View
  <2>1. CASE parser.state = "header_field"
    <3>1. MarksAtBegin = {"header_field"}
      BY <2>1 DEF MarksAtBegin
    <3>2. Contents(buf) \in TextsOf /\ Contents(buf).field = "FIELD"
      BY <1>2, <1>3, <2>1, ContentsTyped DEF Buffered
    <3>3. InName(Contents(buf), <<>>) = Contents(buf)
      BY <1>2, <3>2, NamePieces
    <3>4. ViewOf(buf, {"header_field"}, <<>>) = InName(Contents(buf), <<>>)
      BY <1>2, ViewCases
    <3> QED BY <1>3, <1>4, <3>1, <3>3, <3>4
  <2>2. CASE parser.state = "header_value"
    <3>1. MarksAtBegin = {"header_value"}
      BY <2>2 DEF MarksAtBegin
    <3>2. Contents(buf) \in TextsOf /\ Contents(buf).field = "VALUE"
      BY <1>2, <1>3, <2>2, ContentsTyped DEF Buffered
    <3>3. InValue(Contents(buf), <<>>) = Contents(buf)
      BY <1>2, <3>2, ValuePieces
    <3>4. ViewOf(buf, {"header_value"}, <<>>) = InValue(Contents(buf), <<>>)
      BY <1>2, ViewCases
    <3> QED BY <1>3, <1>4, <3>1, <3>3, <3>4
  <2>3. CASE parser.state \notin {"header_field", "header_value"}
    <3>1. MarksAtBegin \in {{}, {"status"}}
      BY <2>3 DEF MarksAtBegin
    <3>2. ViewOf(buf, {}, <<>>) = Contents(buf) /\ ViewOf(buf, {"status"}, <<>>) = Contents(buf)
      BY <1>2, ViewCases
    <3> QED BY <1>3, <1>4, <3>1, <3>2
  <2> QED BY <2>1, <2>2, <2>3
<1>6. /\ parser.state = "header_field" => MarksAtBegin = {"header_field"}
      /\ parser.state = "header_value" => MarksAtBegin = {"header_value"}
  BY DEF MarksAtBegin
<1>7. Buffered'
  BY <1>1, <1>2, <1>5, <1>6 DEF Buffered
<1> QED BY <1>5, <1>7

-----------------------------------------------------------------------------------
(* What leaves no text behind, and what every other step does to what was gathered.   *)

LEMMA NoTextParts ==
    /\ NoText.headers = <<>> /\ NoText.field = "FIELD" /\ NoText.body = <<>>
  BY DEF NoText

\* Where something has been told, what is told next does not take it away.
LEMMA NothingInName ==
    ASSUME NEW x \in TextsOf, NEW s \in Seq(Symbols), InName(x, s) = NoText
    PROVE  x = NoText
<1>1. PICK y, h : y = InName(x, s) /\ h = x.headers \o NulAfter(x, "VALUE")
  OBVIOUS
<1>2. y.headers = h \o s /\ y.body = x.body
  BY <1>1 DEF InName
<1>3. h \o s = <<>> /\ x.body = <<>>
  BY <1>1, <1>2, NoTextParts
<1>4. /\ x.headers \in Seq(Symbols) /\ NulAfter(x, "VALUE") \in Seq(Symbols)
      /\ h \in Seq(Symbols) /\ x.field \in {"FIELD", "VALUE"}
      /\ x = [headers |-> x.headers, field |-> x.field, body |-> x.body]
  BY <1>1, TextTyped
<1>5. h = <<>>
  BY <1>3, <1>4, Joined
<1>6. x.headers = <<>> /\ NulAfter(x, "VALUE") = <<>>
  <2>1. x.headers \o NulAfter(x, "VALUE") = <<>>
    BY <1>1, <1>5
  <2> QED BY <1>4, <2>1, Joined
<1>7. x.field # "VALUE"
  BY <1>6, EmptySeq, Single DEF NulAfter
<1> QED BY <1>3, <1>4, <1>6, <1>7 DEF NoText

LEMMA NothingInContent ==
    ASSUME NEW x \in TextsOf, NEW s \in Seq(Symbols), InContent(x, s) = NoText
    PROVE  x = NoText
<1>1. PICK y : y = InContent(x, s)
  OBVIOUS
<1>2. y.headers = x.headers /\ y.field = x.field /\ y.body = x.body \o s
  BY <1>1 DEF InContent
<1>3. x.headers = <<>> /\ x.field = "FIELD" /\ x.body \o s = <<>>
  BY <1>1, <1>2, NoTextParts
<1>4. /\ x.body \in Seq(Symbols)
      /\ x = [headers |-> x.headers, field |-> x.field, body |-> x.body]
  BY TextTyped
<1>5. x.body = <<>>
  BY <1>3, <1>4, Joined
<1> QED BY <1>3, <1>4, <1>5 DEF NoText

LEMMA SomethingInValue ==
    ASSUME NEW x \in TextsOf, NEW s \in Seq(Symbols)
    PROVE  InValue(x, s) # NoText /\ InValue(x, s) \in TextsOf
  BY ValuePieces, Single, NoTextParts

LEMMA NothingInPiece ==
    ASSUME NEW x \in TextsOf, NEW s \in Seq(Symbols), NEW m \in Marks,
           Piece(m, x, s) = NoText
    PROVE  x = NoText
<1>1. m \in {"status", "header_field", "header_value", "body"}
  BY DEF Marks
<1> QED BY <1>1, PieceCases, NothingInName, NothingInContent, SomethingInValue

LEMMA NothingInSymbol ==
    ASSUME NEW x \in TextsOf, NEW s \in Symbols, NEW state, TextAfter(state, x, s) = NoText
    PROVE  x = NoText
<1>1. <<s>> \in Seq(Symbols) /\ <<>> \in Seq(Symbols)
  BY Single
<1>2. LineText(x, s) = NoText => x = NoText
  BY <1>1, NothingInName DEF LineText
<1>3. LineText(InValue(x, <<>>), s) # NoText
  <2>1. PICK y : y = InValue(x, <<>>)
    OBVIOUS
  <2>2. y # NoText /\ y \in TextsOf
    BY <1>1, <2>1, SomethingInValue
  <2>3. LineText(y, s) # NoText
    BY <1>1, <2>2, NothingInName DEF LineText
  <2> QED BY <2>1, <2>3
<1>4. InValue(x, <<s>>) # NoText
  BY <1>1, SomethingInValue
<1>5. CASE state \notin Telling
  BY <1>5, TextCases
<1>6. CASE state \in {"body_identity", "body_identity_eof", "chunk_data"}
  BY <1>1, <1>6, TextOfBody, NothingInContent
<1>7. CASE state \in {"header_field_start", "header_field"}
  <2>1. /\ TextAfter("header_field_start", x, s) = LineText(x, s)
        /\ TextAfter("header_field", x, s) = LineText(x, s)
    BY TextCases
  <2> QED BY <1>2, <1>7, <2>1
<1>8. CASE state = "header_value_discard_ws"
  BY <1>4, <1>8, TextCases
<1>9. CASE state = "header_value_discard_lws"
  BY <1>3, <1>9, TextCases
<1>10. CASE state \in {"header_value_start", "header_value"}
  <2>1. CASE state = "header_value_start"
    BY <1>4, <2>1, TextCases
  <2>2. CASE state = "header_value" /\ s \in {CR, LF}
    <3>1. TextAfter("header_value", x, s) = x
      BY <2>2, TextCases
    <3> QED BY <2>2, <3>1
  <2>3. CASE state = "header_value" /\ s \notin {CR, LF}
    <3>1. TextAfter("header_value", x, s) = InValue(x, <<s>>)
      BY <2>3, TextCases
    <3> QED BY <1>4, <2>3, <3>1
  <2> QED BY <1>10, <2>1, <2>2, <2>3
<1>11. CASE state = "header_value_lws"
  BY <1>2, <1>4, <1>11, TextCases
<1> QED BY <1>5, <1>6, <1>7, <1>8, <1>9, <1>10, <1>11 DEF Telling

LEMMA StartTellsNothing ==
    ASSUME NEW x, NEW s
    PROVE  TextAfter(StartState, x, s) = x
<1>1. StartState \notin Telling
  BY DEF StartState, Telling
<1> QED BY <1>1, TextCases

-----------------------------------------------------------------------------------
\* Without a mark the buffers hold all that was told.
LEMMA UnmarkedView ==
    ASSUME Buffered, marks = {}
    PROVE  View = Contents(buf) /\ buf \in Kept
<1>1. buf \in Kept /\ held = <<>>
  BY DEF Buffered
<1> QED BY <1>1, Single, ViewCases DEF View

LEMMA UnmarkedNext ==
    ASSUME buf' \in Kept, marks' = {}, held' = <<>>
    PROVE  View' = Contents(buf')
<1>1. ViewOf(buf', {}, <<>>) = Contents(buf')
  BY Single, ViewCases
<1>2. View' = ViewOf(buf', marks', held')
  BY DEF View
<1> QED BY <1>1, <1>2

\* An error takes away what the mark holds: where nothing was told, nothing was.
LEMMA ErrorTells ==
    ASSUME Ind, Buffered, NEW ps, ReadError(ps)
    PROVE  /\ View = NoText => View' = NoText
           /\ UNCHANGED <<got, completed, torn, sent>> /\ link' = "connecting"
           /\ rest' = <<>>
<1>1. /\ marks' = {} /\ held' = <<>> /\ buf' = buf /\ rest' = <<>>
      /\ UNCHANGED <<got, completed, torn, sent>> /\ link' = "connecting"
  BY DEF ReadError, scriptVars, Reconnect
<1>2. buf \in Kept /\ held \in Seq(Symbols)
  <2>1. held \in Seq(STRING)
    BY DEF Ind, TypeOK
  <2> QED BY <2>1, Single DEF Buffered
<1>3. View' = Contents(buf)
  BY <1>1, <1>2, UnmarkedNext
<1>4. Contents(buf) \in TextsOf
  BY <1>2, ContentsTyped
<1>5. PICK m \in Marks : marks = {} \/ marks = {m}
  BY MarksAreMarks DEF Ind
<1>6. View = Contents(buf) \/ View = Piece(m, Contents(buf), held)
  BY <1>2, <1>5, PieceView DEF View
<1>7. View = NoText => View' = NoText
  BY <1>2, <1>3, <1>4, <1>6, NothingInPiece
<1> QED BY <1>1, <1>7

LEMMA FailBuffered ==
    ASSUME Ind, Buffered, Fail
    PROVE  Buffered'
  BY FailTells DEF Tells

LEMMA QuietBuffered ==
    ASSUME Buffered, UNCHANGED <<parser, marks, held, buf, parsing>>
    PROVE  Buffered' /\ View' = View
<1>1. View' = View
  BY DEF View
<1> QED BY <1>1 DEF Buffered

LEMMA DeadTells ==
    ASSUME Ind, Buffered, Dead
    PROVE  /\ Buffered' /\ (View = NoText => View' = NoText)
           /\ UNCHANGED <<got, completed>>
<1>1. CASE Fail
  BY <1>1, FailBuffered, ErrorTells DEF Fail
<1>2. CASE Consume(Counted)
  <2>1. marks = {} /\ parser.state = "dead" /\ parser \in Parsers
    <3>1. In("dead")
      BY DEF Dead
    <3> QED BY <3>1, Markless DEF Ind, TypeOK
  <2>2. Turn(Counted, 1, {}) /\ buf' = buf /\ UNCHANGED <<got, completed>>
    BY <1>2, <2>1 DEF Consume, Quietly, scriptVars
  <2>3. View' = View /\ buf' \in Kept /\ marks' = {} /\ held' = <<>> /\ parser' = Counted
    BY <2>1, <2>2, PlainTurn
  <2>4. parser'.state = "dead"
    BY <2>1, <2>3, CountedControl
  <2>5. Buffered'
    BY <2>3, <2>4, NotGathering
  <2> QED BY <2>2, <2>3, <2>5
<1> QED BY <1>1, <1>2 DEF Dead

\* A reply whose text was told is given to response(), and nothing of it is left.
LEMMA ReplyTold ==
    ASSUME Buffered, marks = {}, NEW ps, ResponseComplete(ps), NEW r \in Replies, NEW n,
           n = Len(r.wire), View = Texts(r.wire)[n],
           ps.status_code = Alone(r.wire)[n].status_code,
           marks' = {}, held' = <<>>
    PROVE  /\ View' = NoText /\ got' = Append(got, Expected(r))
           /\ completed' = completed + 1
<1>1. Contents(buf) = Texts(r.wire)[n] /\ buf \in Kept
  BY UnmarkedView
<1>2. /\ buf.headers.data # <<>>
      /\ ResponseOf(Alone(r.wire)[n].status_code,
                    [buf EXCEPT !.headers = BufferAppend(@, <<NUL>>)]) = Expected(r)
  BY <1>1, Meant
<1>3. ScriptResponse(ps) /\ completed' = completed + 1
  BY DEF ResponseComplete
<1>4. /\ buf' \in Kept /\ Contents(buf') = NoText
      /\ got' = Append(got, ResponseOf(ps.status_code,
                            [buf EXCEPT !.headers = BufferAppend(@, <<NUL>>)]))
  BY <1>1, <1>2, <1>3, ScriptKeeps
<1>5. View' = NoText
  BY <1>4, UnmarkedNext
<1> QED BY <1>2, <1>3, <1>4, <1>5

-----------------------------------------------------------------------------------
LEMMA EofBuffered ==
    ASSUME PhaseInv, Buffered, ReadEof
    PROVE  Buffered' /\ marks = {}
<1>1. Ind /\ ~parsing /\ marks = {} /\ held = <<>>
  BY DEF PhaseInv, Ind, ReadEof, Returned, Buffered
<1>2. CASE parser.state = "body_identity_eof" /\ ResponseComplete(parser) /\ UNCHANGED callVars
  BY <1>1, <1>2, CompleteBuffered DEF callVars
<1>3. CASE UNCHANGED vars
  <2>1. UNCHANGED <<parser, marks, held, buf, parsing>>
    BY <1>3 DEF vars, callVars, scriptVars
  <2> QED BY <1>1, <2>1, QuietBuffered
<1>4. CASE Fail
  BY <1>1, <1>4, FailBuffered
<1> QED BY <1>1, <1>2, <1>3, <1>4 DEF ReadEof

LEMMA ConnectBuffered ==
    ASSUME PhaseInv, Buffered, SocketConnected
    PROVE  Buffered' /\ View' = View
<1>1. /\ parser' = HttpParserInit /\ UNCHANGED <<buf, marks, held>>
      /\ ~parsing /\ marks = {} /\ held = <<>> /\ buf \in Kept
  BY DEF SocketConnected, callVars, Returned, PhaseInv, Ind, Buffered
<1>2. parser'.state \notin {"header_field", "header_value"}
  BY <1>1, InitialParser DEF StartState
<1>3. View' = View
  BY <1>1 DEF View
<1> QED BY <1>1, <1>2, <1>3, NotGathering

LEMMA BufferedInit ==
    ASSUME Init
    PROVE  Buffered /\ View = NoText
<1>1. /\ parser = HttpParserInit /\ marks = {} /\ held = <<>> /\ parsing = FALSE
      /\ buf = [headers |-> EmptyBuffer, body |-> EmptyBuffer, state |-> "FIELD"]
  BY DEF Init
<1>2. PICK e : e = EmptyBuffer
  OBVIOUS
<1>3. e.data = <<>> /\ e.cursor = 0
  BY <1>2 DEF EmptyBuffer
<1>4. e \in Buffers
  <2>1. e \in [data : Seq(Symbols), cursor : Nat]
    BY <1>2, Single DEF EmptyBuffer
  <2>2. Len(<<>>) = 0
    OBVIOUS
  <2> QED BY <1>3, <2>1, <2>2 DEF Buffers
<1>5. BufferContents(e) = <<>>
  BY <1>3 DEF BufferContents
<1>6. buf \in Kept /\ Contents(buf) = [headers |-> <<>>, field |-> "FIELD", body |-> <<>>]
  <2>1. buf = [headers |-> e, body |-> e, state |-> "FIELD"]
    BY <1>1, <1>2
  <2> QED BY <1>4, <1>5, <2>1, KeptMade
<1>7. parser.state \notin {"header_field", "header_value"}
  BY <1>1, InitialParser DEF StartState
<1>8. Buffered
  BY <1>1, <1>6, <1>7 DEF Buffered
<1> QED BY <1>1, <1>6, <1>8, UnmarkedView DEF NoText

-----------------------------------------------------------------------------------
(* What the server sent on the present socket, word by word: each word is a reply, or *)
(* what came of one that was cut off (the last one then), or garbage.                 *)

\* text holds the words one after the other; ends says where.
Words(ws, ends, text) ==
    /\ ws \in Seq(Seq(STRING)) /\ text \in Seq(STRING)
    /\ ends \in [0 .. Len(ws) -> Nat]
    /\ ends[0] = 0 /\ ends[Len(ws)] = Len(text)
    /\ \A i \in 1 .. Len(ws) :
          /\ ws[i] # <<>> /\ ends[i] = ends[i - 1] + Len(ws[i])
          /\ ends[i] <= Len(text) /\ (i < Len(ws) => ends[i] < Len(text))
          /\ \A j \in 1 .. Len(ws[i]) : text[ends[i - 1] + j] = ws[i][j]

\* What the parser has not consumed of it, read or not.
Unread(text, pos) ==
    /\ pos \in 0 .. Len(text) /\ Len(rest) + Len(inq) = Len(text) - pos
    /\ \A i \in 1 .. Len(rest) : rest[i] = text[pos + i]
    /\ \A i \in 1 .. Len(inq) : inq[i] = text[pos + Len(rest) + i]

WordsSent(ws, cut) ==
    /\ cut \in BOOLEAN /\ Len(sent) <= Len(ws)
    /\ \A i \in 1 .. Len(sent) :
          /\ i < Len(sent) => sent[i].ends = "keep"
          /\ ~(cut /\ i = Len(sent)) => ws[i] = sent[i].wire
    /\ \A i \in 1 .. Len(ws) : i > Len(sent) => ws[i] \in Garbage
    /\ ~torn => \A i \in 1 .. Len(ws) : i > Len(sent) => Len(ws[i]) = 1
    /\ peer # "fin" => /\ ~cut /\ Len(ws) = Len(sent)
                       /\ \A i \in 1 .. Len(sent) : sent[i].ends = "keep"
    /\ peer = "rst" => inq = <<>>
    /\ cut => /\ torn /\ sent # <<>> /\ Len(ws) = Len(sent)
              /\ sent[Len(sent)] \in Torn
              /\ ws[Len(sent)] \in Remains(sent[Len(sent)])
    /\ Len(ws) > Len(sent) /\ sent # <<>> => sent[Len(sent)].ends # "eof"
    /\ Len(ws) > Len(sent) + 1 => sent # <<>> /\ sent[Len(sent)].ends = "close"

\* The parser is where a reader of the present word alone is.
Reading(ws, ends, pos) ==
    /\ completed <= Len(sent) /\ parser.state # "dead"
    /\ completed > 0 => sent[completed].ends = "keep"
    /\ ends[completed] <= pos
    /\ completed = Len(ws) => pos = ends[completed] /\ Control(parser) = Begin
    /\ completed < Len(ws) =>
         /\ pos <= ends[completed + 1]
         /\ parsing /\ rest # <<>> =>
              /\ pos < ends[completed + 1]
              /\ After(Control(parser), ch)
                    = Alone(ws[completed + 1])[(pos - ends[completed]) + 1]
         /\ ~(parsing /\ rest # <<>>) =>
              Control(parser) = Alone(ws[completed + 1])[pos - ends[completed]]

\* So is what was told to the script, if nothing was ever told that was not meant.
Told(ws, ends, pos) ==
    /\ completed = Len(ws) => View = NoText
    /\ completed < Len(ws) =>
         /\ parsing /\ rest # <<>> =>
              TextAfter(parser.state, View, ch)
                 = Texts(ws[completed + 1])[(pos - ends[completed]) + 1]
         /\ ~(parsing /\ rest # <<>>) =>
              View = Texts(ws[completed + 1])[pos - ends[completed]]

Heard(ws, ends, text, pos, cut) ==
    Words(ws, ends, text) /\ Unread(text, pos) /\ WordsSent(ws, cut)
    /\ Reading(ws, ends, pos) /\ (torn \/ Told(ws, ends, pos))

\* The last response is over, and the thread is about to stop.
Ended ==
    /\ completed = Len(sent) /\ completed > 0 /\ sent[completed].ends # "keep"
    /\ stopped /\ peer # "up"
    /\ \/ parser.state = "dead"
       \/ /\ parser.state = "body_identity_eof" /\ sent[completed].ends = "eof"
          /\ Returned /\ inq = <<>>

Dialing ==
    /\ inq = <<>> /\ peer = "up" /\ completed <= Len(sent)
    /\ ~failed /\ completed > 0 => sent[completed].ends # "keep"

Placed ==
    /\ link = "connecting" => Dialing
    /\ link = "open" =>
         Ended \/ \E ws, ends, text, pos, cut : Heard(ws, ends, text, pos, cut)

\* The calls of response() were those that were meant; nothing is told of a response that
\* will not be.
Answered ==
    /\ got \in Seq({Expected(r) : r \in Replies}) /\ ResponsesWhole
    /\ link = "connecting" \/ Ended \/ (~parsing /\ rest # <<>>) => View = NoText

Framing == PhaseInv /\ Buffered /\ Placed /\ (torn \/ Answered)

LEMMA StreamTypes ==
    ASSUME PhaseInv
    PROVE  /\ rest \in Seq(STRING) /\ Len(rest) \in Nat /\ (rest = <<>> <=> Len(rest) = 0)
           /\ inq \in Seq(STRING) /\ Len(inq) \in Nat /\ (inq = <<>> <=> Len(inq) = 0)
           /\ sent \in Seq(Replies) /\ Len(sent) \in Nat /\ (sent = <<>> <=> Len(sent) = 0)
           /\ \A i \in 1 .. Len(sent) : sent[i] \in Replies
           /\ completed \in Nat /\ parsing \in BOOLEAN /\ parser \in Parsers
           /\ Control(parser).state = parser.state /\ parser.state \in States
           /\ link \in {"connecting", "open"} /\ late \in BOOLEAN /\ peer \in {"up", "fin", "rst"}
<1>1. /\ rest \in Seq(STRING) /\ inq \in Seq(STRING) /\ sent \in Seq(Replies)
      /\ completed \in Nat /\ parsing \in BOOLEAN /\ parser \in Parsers
      /\ link \in {"connecting", "open"} /\ late \in BOOLEAN /\ peer \in {"up", "fin", "rst"}
  BY DEF PhaseInv, Ind, TypeOK
<1>2. parser.state \in States /\ Control(parser).state = parser.state
  BY <1>1, ControlFields DEF Parsers
<1> QED BY <1>1, <1>2, EmptySeq, LenProperties, ElementOfSeq

LEMMA WordFacts ==
    ASSUME NEW ws, NEW ends, NEW text, Words(ws, ends, text),
           NEW k \in Nat, k < Len(ws)
    PROVE  /\ Len(ws) \in Nat /\ Len(text) \in Nat
           /\ ws[k + 1] \in Seq(STRING) /\ Len(ws[k + 1]) \in Nat \ {0}
           /\ ends[k] \in Nat /\ ends[k + 1] = ends[k] + Len(ws[k + 1])
           /\ ends[k + 1] <= Len(text)
           /\ k + 1 < Len(ws) <=> ends[k + 1] < Len(text)
           /\ \A j \in 1 .. Len(ws[k + 1]) : text[ends[k] + j] = ws[k + 1][j]
<1>1. Len(ws) \in Nat /\ Len(text) \in Nat /\ k + 1 \in 1 .. Len(ws) /\ k \in 0 .. Len(ws)
  BY LenProperties DEF Words
<1>2. ws[k + 1] \in Seq(STRING) /\ ws[k + 1] # <<>>
  BY <1>1, ElementOfSeq DEF Words
<1>3. Len(ws[k + 1]) \in Nat \ {0}
  BY <1>2, EmptySeq, LenProperties
<1>4. ends[k] \in Nat /\ (k + 1) - 1 = k
  <2>1. ends \in [0 .. Len(ws) -> Nat]
    BY DEF Words
  <2> QED BY <1>1, <2>1
<1>5. /\ ends[k + 1] = ends[k] + Len(ws[k + 1]) /\ ends[k + 1] <= Len(text)
      /\ k + 1 < Len(ws) => ends[k + 1] < Len(text)
      /\ \A j \in 1 .. Len(ws[k + 1]) : text[ends[k] + j] = ws[k + 1][j]
  BY <1>1, <1>4 DEF Words
<1>6. k + 1 = Len(ws) => ends[k + 1] = Len(text)
  BY DEF Words
<1> QED BY <1>1, <1>2, <1>3, <1>4, <1>5, <1>6

LEMMA NoSuchStates == "over" \notin States /\ "error" \notin States
  BY DEF States, HeaderStates, BodyStates

\* The parser is in word w, of which it has consumed p symbols.
InWord(ws, ends, text, pos, w, p) ==
    /\ w \in Seq(STRING) /\ Len(w) \in Nat \ {0} /\ p \in 0 .. Len(w)
    /\ pos \in Nat /\ ends[completed] \in Nat /\ Len(ws) \in Nat /\ Len(text) \in Nat
    /\ pos = ends[completed] + p /\ ends[completed + 1] = ends[completed] + Len(w)
    /\ ends[completed + 1] <= Len(text)
    /\ (completed + 1 < Len(ws)) <=> (ends[completed + 1] < Len(text))
    /\ \A i \in 1 .. Len(rest) : i <= Len(w) - p => rest[i] = w[p + i]
    /\ rest # <<>> /\ p < Len(w) => ch = w[p + 1]
    /\ Len(rest) <= Len(text) - pos

LEMMA PresentWord ==
    ASSUME PhaseInv, NEW ws, NEW ends, NEW text, NEW pos, NEW cut,
           Heard(ws, ends, text, pos, cut), completed < Len(ws)
    PROVE  InWord(ws, ends, text, pos, ws[completed + 1], pos - ends[completed])
<1>0. PICK w, p : w = ws[completed + 1] /\ p = pos - ends[completed]
  OBVIOUS
<1>1. completed \in Nat /\ Len(rest) \in Nat /\ Len(inq) \in Nat /\ (rest = <<>> <=> Len(rest) = 0)
  BY StreamTypes
<1>2. /\ Len(ws) \in Nat /\ Len(text) \in Nat /\ w \in Seq(STRING) /\ Len(w) \in Nat \ {0}
      /\ ends[completed] \in Nat /\ ends[completed + 1] = ends[completed] + Len(w)
      /\ ends[completed + 1] <= Len(text)
      /\ completed + 1 < Len(ws) <=> ends[completed + 1] < Len(text)
      /\ \A j \in 1 .. Len(w) : text[ends[completed] + j] = w[j]
  <2>1. Words(ws, ends, text)
    BY DEF Heard
  <2>2. /\ Len(ws) \in Nat /\ Len(text) \in Nat
        /\ ws[completed + 1] \in Seq(STRING) /\ Len(ws[completed + 1]) \in Nat \ {0}
        /\ ends[completed] \in Nat
        /\ ends[completed + 1] = ends[completed] + Len(ws[completed + 1])
        /\ ends[completed + 1] <= Len(text)
        /\ completed + 1 < Len(ws) <=> ends[completed + 1] < Len(text)
        /\ \A j \in 1 .. Len(ws[completed + 1]) :
              text[ends[completed] + j] = ws[completed + 1][j]
    <3> HIDE <1>0
    <3> QED BY <1>1, <2>1, WordFacts
  <2> QED BY <1>0, <2>2
<1>3. /\ pos \in Nat /\ ends[completed] <= pos /\ pos <= ends[completed + 1]
      /\ Len(rest) + Len(inq) = Len(text) - pos
      /\ \A i \in 1 .. Len(rest) : rest[i] = text[pos + i]
  BY <1>2 DEF Heard, Unread, Reading
<1>4. /\ p \in 0 .. Len(w) /\ pos = ends[completed] + p /\ Len(rest) <= Len(text) - pos
  BY <1>0, <1>1, <1>2, <1>3
<1>5. ASSUME NEW i \in 1 .. Len(rest), i <= Len(w) - p
      PROVE  rest[i] = w[p + i]
  <2> DEFINE n == Len(w)  e == ends[completed]
  <2>1. n \in Nat /\ p \in Nat /\ e \in Nat /\ pos = e + p /\ pos \in Nat
    BY <1>2, <1>3, <1>4
  <2>4. i \in Nat /\ 1 <= i /\ i <= n - p
    BY <1>1, <1>5
  <2> HIDE DEF n, e
  <2>2. p + i \in 1 .. n /\ e + (p + i) = pos + i
    BY <2>1, <2>4
  <2>3. text[pos + i] = w[p + i]
    BY <1>2, <2>2 DEF n, e
  <2> QED BY <1>3, <2>3
<1>6. rest # <<>> /\ p < Len(w) => ch = w[p + 1]
  <2>1. rest # <<>> => ch = rest[1] /\ 1 \in 1 .. Len(rest)
    BY <1>1 DEF ch
  <2>2. p < Len(w) => 1 <= Len(w) - p
    BY <1>2, <1>4
  <2> QED BY <1>5, <2>1, <2>2
<1> QED BY <1>0, <1>2, <1>3, <1>4, <1>5, <1>6 DEF InWord

\* A word that another one follows is a whole message.
LEMMA WordOver ==
    ASSUME PhaseInv, NEW ws, NEW ends, NEW text, NEW pos, NEW cut,
           Heard(ws, ends, text, pos, cut), completed + 1 < Len(ws),
           NEW w, w = ws[completed + 1]
    PROVE  Alone(w)[Len(w)].state = "over"
<1> DEFINE k == completed
<1>1. k \in Nat /\ Len(ws) \in Nat /\ Len(sent) \in Nat /\ k <= Len(sent)
      /\ (sent = <<>> <=> Len(sent) = 0)
      /\ \A i \in 1 .. Len(sent) : sent[i] \in Replies
  BY StreamTypes, LenProperties DEF Heard, Words, Reading
<1>2. k + 1 <= Len(sent)
  <2>1. SUFFICES ASSUME k = Len(sent) PROVE FALSE
    BY <1>1
  <2>2. sent # <<>> /\ sent[Len(sent)].ends = "close"
    BY <1>1, <2>1 DEF Heard, WordsSent
  <2>3. sent[k].ends = "keep"
    BY <1>1, <2>1, <2>2 DEF Heard, Reading
  <2> QED BY <2>1, <2>2, <2>3
<1>3. ~cut \/ k + 1 < Len(sent)
  BY <1>1, <1>2 DEF Heard, WordsSent
<1>4. w = sent[k + 1].wire /\ sent[k + 1] \in Replies
  BY <1>1, <1>2, <1>3 DEF Heard, WordsSent
<1>5. sent[k + 1].ends # "eof"
  <2>1. CASE k + 1 < Len(sent)
    BY <1>1, <1>2, <2>1 DEF Heard, WordsSent
  <2>2. CASE k + 1 = Len(sent)
    BY <1>1, <2>2 DEF Heard, WordsSent
  <2> QED BY <1>1, <1>2, <2>1, <2>2
<1> QED BY <1>4, <1>5, MessagesAssumption DEF IsMessage

\* The word in which a message ends, with its last symbol.
LEMMA WordEnds ==
    ASSUME PhaseInv, NEW ws, NEW ends, NEW text, NEW pos, NEW cut,
           Heard(ws, ends, text, pos, cut), completed < Len(ws),
           NEW w, w = ws[completed + 1], NEW i \in 1 .. Len(w),
           \/ Alone(w)[i].state = "over"
           \/ i = Len(w) /\ Alone(w)[i].state = "body_identity_eof"
    PROVE  /\ completed + 1 <= Len(sent) /\ i = Len(w)
           /\ ~(cut /\ completed + 1 = Len(sent))
           /\ sent[completed + 1] \in Replies /\ w = sent[completed + 1].wire
           /\ (Alone(w)[i].state = "body_identity_eof") <=> (sent[completed + 1].ends = "eof")
           /\ Alone(w)[i].state = "over" =>
                 (HttpShouldKeepAlive(Alone(w)[i]) <=> sent[completed + 1].ends = "keep")
<1> DEFINE k == completed
<1>1. k \in Nat /\ Len(ws) \in Nat /\ Len(sent) \in Nat /\ k <= Len(sent)
      /\ (sent = <<>> <=> Len(sent) = 0)
      /\ \A n \in 1 .. Len(sent) : sent[n] \in Replies
  BY StreamTypes, LenProperties DEF Heard, Words, Reading
<1>2. Len(w) \in Nat
  BY <1>1, WordFacts DEF Heard
<1>3. ~NoMessage(w)
  BY <1>2 DEF NoMessage
<1>4. k + 1 <= Len(sent)
  <2>1. k + 1 > Len(sent) => w \in Garbage
    BY <1>1 DEF Heard, WordsSent
  <2> QED BY <1>1, <1>3, <2>1, MessagesAssumption
<1>5. ~(cut /\ k + 1 = Len(sent))
  <2>1. cut /\ k + 1 = Len(sent) =>
          sent[Len(sent)] \in Torn /\ w \in Remains(sent[Len(sent)])
    BY DEF Heard, WordsSent
  <2> QED BY <1>3, <2>1, MessagesAssumption
<1>6. w = sent[k + 1].wire /\ sent[k + 1] \in Replies
  BY <1>1, <1>4, <1>5 DEF Heard, WordsSent
<1>7. IsMessage(sent[k + 1])
  BY <1>6, MessagesAssumption
<1> DEFINE c == Alone(w)
<1>8. /\ \A n \in 0 .. (Len(w) - 1) : c[n].state \notin {"over", "error"}
      /\ sent[k + 1].ends = "eof" => c[Len(w)].state = "body_identity_eof"
      /\ sent[k + 1].ends # "eof" =>
           c[Len(w)].state = "over"
           /\ HttpShouldKeepAlive(c[Len(w)]) = (sent[k + 1].ends = "keep")
  BY <1>6, <1>7, SameLimits DEF IsMessage
<1>9. i = Len(w)
  BY <1>2, <1>8
<1> QED BY <1>4, <1>5, <1>6, <1>8, <1>9

\* The socket is being replaced.
LEMMA Redialled ==
    ASSUME NEW fail \in BOOLEAN, Reconnect(fail),
           completed' <= Len(sent), ~fail /\ completed' > 0 => sent[completed'].ends # "keep"
    PROVE  Placed' /\ torn' = torn
<1>1. Dialing'
  BY DEF Dialing, Reconnect
<1>2. link' = "connecting" /\ torn' = torn
  BY DEF Reconnect
<1> QED BY <1>1, <1>2 DEF Placed

LEMMA CompletedSent ==
    ASSUME Framing
    PROVE  completed <= Len(sent) /\ Len(sent) \in Nat /\ completed \in Nat
<1>1. PhaseInv /\ link \in {"connecting", "open"} /\ Len(sent) \in Nat /\ completed \in Nat
  BY StreamTypes DEF Framing
<1> QED BY <1>1 DEF Framing, Placed, Dialing, Ended, Heard, Reading

\* No response ends with the step.
LEMMA AnsweredKept ==
    ASSUME Framing, UNCHANGED <<got, completed>>, torn => torn',
           \/ sent' = sent \/ \E r \in Replies : sent' = Append(sent, r),
           torn' \/ View' = NoText
             \/ ~(link' = "connecting" \/ Ended' \/ (~parsing' /\ rest' # <<>>))
    PROVE  (torn \/ Answered)'
<1> SUFFICES ASSUME ~torn' PROVE Answered'
  OBVIOUS
<1>1. /\ got \in Seq({Expected(r) : r \in Replies}) /\ Len(got) = completed
      /\ \A i \in DOMAIN got : got[i] = Expected(sent[i])
  BY DEF Framing, Answered, ResponsesWhole
<1>2. sent \in Seq(Replies) /\ completed <= Len(sent) /\ Len(sent) \in Nat /\ completed \in Nat
  BY CompletedSent, StreamTypes DEF Framing
<1>3. DOMAIN got = 1 .. completed
  BY <1>1, LenProperties
<1>4. \A i \in 1 .. completed : sent'[i] = sent[i]
  <2>1. \A i \in 1 .. completed : i \in 1 .. Len(sent)
    BY <1>2
  <2> QED BY <1>2, <2>1, AppendProperties
<1>5. ResponsesWhole'
  <2>1. DOMAIN got' = 1 .. completed /\ Len(got') = completed'
    BY <1>1, <1>3
  <2>2. \A i \in 1 .. completed : got'[i] = Expected(sent'[i])
    BY <1>1, <1>3, <1>4
  <2>3. \A i \in DOMAIN got' : got'[i] = Expected(sent'[i])
    BY <2>1, <2>2
  <2>4. \A i : Expected(sent[i])' = Expected(sent'[i])
    BY DEF Expected
  <2> QED BY <2>1, <2>3, <2>4 DEF ResponsesWhole
<1> QED BY <1>1, <1>5 DEF Answered

LEMMA FailFramed ==
    ASSUME Framing, PhaseInv', Buffered', NEW ps, ReadError(ps), torn \/ View = NoText
    PROVE  Framing'
<1>1. Reconnect(TRUE) /\ UNCHANGED completed
  BY DEF ReadError, scriptVars
<1>2. Placed' /\ torn' = torn
  BY <1>1, CompletedSent, Redialled
<1>3. (torn \/ Answered)'
  <2>1. /\ View = NoText => View' = NoText
        /\ UNCHANGED <<got, completed, torn, sent>>
    BY ErrorTells DEF Framing, PhaseInv
  <2> QED BY <2>1, AnsweredKept
<1> QED BY <1>2, <1>3 DEF Framing

LEMMA StatesOfControl ==
    ASSUME PhaseInv'
    PROVE  Control(parser').state = parser'.state /\ parser'.state \in States
<1>1. parser' \in Parsers
  BY DEF PhaseInv, Ind, TypeOK
<1> QED BY <1>1, ControlFields DEF Parsers

LEMMA Consumed ==
    ASSUME NEW text \in Seq(STRING), NEW pos, Unread(text, pos), rest \in Seq(STRING),
           inq \in Seq(STRING), NEW n \in 0 .. Len(rest),
           rest' = SubSeq(rest, n + 1, Len(rest)), inq' = inq
    PROVE  /\ Unread(text, pos + n)'
           /\ rest' # <<>> => n < Len(rest) /\ Head(rest') = rest[n + 1]
<1> DEFINE l == Len(rest)  new == SubSeq(rest, n + 1, l)
<1>1. l \in Nat /\ n \in Nat /\ n <= l /\ Len(text) \in Nat /\ Len(inq) \in Nat
  BY LenProperties
<1>2. \A i \in (n + 1) .. l : rest[i] \in STRING
  BY <1>1, ElementOfSeq
<1>3. /\ new \in Seq(STRING)
      /\ Len(new) = IF n + 1 <= l THEN l - (n + 1) + 1 ELSE 0
      /\ \A i \in 1 .. l - (n + 1) + 1 : new[i] = rest[(n + 1) + i - 1]
  BY <1>1, <1>2, SubSeqProperties
<1>4. Len(new) = l - n
  BY <1>1, <1>3
<1>5. \A i \in 1 .. (l - n) : new[i] = rest[n + i]
  <2>1. l - (n + 1) + 1 = l - n /\ \A i \in 1 .. (l - n) : (n + 1) + i - 1 = n + i
    BY <1>1
  <2> QED BY <1>3, <2>1
<1>6. new # <<>> => n < l /\ new[1] = rest[n + 1]
  <2>1. new # <<>> => Len(new) # 0
    BY <1>3, EmptySeq
  <2>2. n < l => 1 \in 1 .. (l - n)
    BY <1>1
  <2> QED BY <1>1, <1>4, <1>5, <2>1, <2>2
<1> HIDE DEF new
<1>7. /\ pos \in 0 .. Len(text) /\ l + Len(inq) = Len(text) - pos
      /\ \A i \in 1 .. l : rest[i] = text[pos + i]
      /\ \A i \in 1 .. Len(inq) : inq[i] = text[pos + l + i]
  BY DEF Unread
<1> DEFINE q == Len(inq)  t == Len(text)
<1>8. pos \in Nat /\ t \in Nat /\ q \in Nat /\ l + q = t - pos /\ pos <= t
  BY <1>1, <1>7
<1> HIDE DEF l, q, t
<1>9. /\ pos + n \in 0 .. t /\ (l - n) + q = t - (pos + n)
      /\ \A i \in 1 .. (l - n) : n + i \in 1 .. l /\ pos + (n + i) = pos + n + i
      /\ \A i \in 1 .. q : pos + n + (l - n) + i = pos + l + i
  BY <1>1, <1>8
<1>10. /\ \A i \in 1 .. (l - n) : new[i] = text[pos + n + i]
       /\ \A i \in 1 .. q : inq[i] = text[pos + n + (l - n) + i]
  BY <1>5, <1>7, <1>9 DEF l, q
<1>11. rest' = new /\ inq' = inq
  BY DEF new, l
<1>12. Unread(text, pos + n)'
  BY <1>4, <1>9, <1>10, <1>11 DEF Unread, q, t
<1> QED BY <1>6, <1>11, <1>12 DEF l

\* A turn within a message.
LEMMA FollowFramed ==
    ASSUME Framing, PhaseInv', Buffered', Next, link = "open", parsing, rest # <<>>,
           parser.state # "dead", NEW n, Follows(n), NEW n2, TextFollows(n2)
    PROVE  Framing'
<1>1. PhaseInv /\ ~Ended
  BY DEF Framing, Ended, Returned
<1>2. PICK ws, ends, text, pos, cut : Heard(ws, ends, text, pos, cut)
  BY <1>1 DEF Framing, Placed
<1> DEFINE k == completed
<1>0. PICK w, p : w = ws[k + 1] /\ p = pos - ends[k]
  OBVIOUS
<1>3. /\ n \in 0 .. Len(rest) /\ rest' = SubSeq(rest, n + 1, Len(rest))
      /\ UNCHANGED <<parsing, completed, clockVars, netVars>>
  BY DEF Follows, Steps
<1>4. UNCHANGED <<link, inq, peer, sent, torn>>
  BY <1>3 DEF netVars
<1>5. parser'.state # "dead"
  BY <1>1, <1>3, <1>4, StaysAlive
<1>6. rest \in Seq(STRING) /\ inq \in Seq(STRING) /\ k \in Nat /\ Len(rest) \in Nat \ {0}
      /\ text \in Seq(STRING) /\ Len(ws) \in Nat /\ Len(sent) \in Nat
  BY <1>1, <1>2, StreamTypes, LenProperties DEF Heard, Words
<1>7. k < Len(ws)
  <2>1. SUFFICES ASSUME k = Len(ws) PROVE FALSE
    BY <1>2, <1>6 DEF Heard, Reading, WordsSent
  <2>2. pos = Len(text)
    BY <1>2, <2>1 DEF Heard, Reading, Words
  <2>3. Len(text) \in Nat /\ Len(inq) \in Nat
    BY <1>6, LenProperties
  <2> QED BY <1>2, <1>6, <2>2, <2>3 DEF Heard, Unread
<1>8. /\ w \in Seq(STRING) /\ Len(w) \in Nat \ {0} /\ p \in 0 .. Len(w)
      /\ pos \in Nat /\ ends[k] \in Nat /\ Len(ws) \in Nat /\ Len(text) \in Nat
      /\ pos = ends[k] + p /\ ends[k + 1] = ends[k] + Len(w)
      /\ ends[k + 1] <= Len(text)
      /\ k + 1 < Len(ws) <=> ends[k + 1] < Len(text)
      /\ \A i \in 1 .. Len(rest) : i <= Len(w) - p => rest[i] = w[p + i]
      /\ rest # <<>> /\ p < Len(w) => ch = w[p + 1]
      /\ Len(rest) <= Len(text) - pos
  <2>1. InWord(ws, ends, text, pos, w, p)
    BY <1>0, <1>1, <1>2, <1>7, PresentWord
  <2> QED BY <2>1 DEF InWord
<1>21. PICK e, f, l, t, r, m : /\ e = ends[k] /\ f = ends[k + 1] /\ l = Len(w)
                               /\ t = Len(text) /\ r = Len(rest) /\ m = Len(ws)
  OBVIOUS
<1>22. /\ e \in Nat /\ l \in Nat \ {0} /\ t \in Nat /\ r \in Nat \ {0} /\ m \in Nat
       /\ p \in 0 .. l /\ n \in 0 .. r /\ pos = e + p /\ f = e + l /\ f <= t /\ r <= t - pos
       /\ k \in Nat /\ (k + 1 < m <=> f < t)
  BY <1>3, <1>6, <1>8, <1>21
<1>23. r > l - p => k + 1 < m
  <2> HIDE DEF k
  <2> QED BY <1>22
<1>9. p < Len(w) /\ After(Control(parser), ch) = Alone(w)[p + 1]
  BY <1>0, <1>2, <1>7, <1>8 DEF Heard, Reading
<1>10. k + 1 < Len(ws) => Alone(w)[Len(w)].state = "over"
  BY <1>0, <1>1, <1>2, WordOver
<1>11. \/ p + n <= Len(w) /\ Control(parser') = Alone(w)[p + n]
       \/ /\ n < Len(rest) /\ p + n < Len(w)
          /\ After(Control(parser'), w[p + n + 1]) = Alone(w)[p + n + 1]
  <2>1. ~(Len(rest) > Len(w) - p /\ Alone(w)[Len(w)].state \in BodyStates)
    <3>1. Len(rest) > Len(w) - p => k + 1 < Len(ws)
      BY <1>21, <1>23
    <3>2. "over" \notin BodyStates
      BY DEF BodyStates
    <3> QED BY <1>10, <3>1, <3>2
  <2>2. p \in Nat
    BY <1>8
  <2> QED BY <1>8, <1>9, <2>1, <2>2 DEF Follows
<1>12. /\ Unread(text, pos + n)'
       /\ rest' # <<>> => n < Len(rest) /\ Head(rest') = rest[n + 1]
  BY <1>2, <1>3, <1>4, <1>6, Consumed DEF Heard
<1>13. p + n <= Len(w)
  BY <1>11, <1>21, <1>22
<1>14. (pos + n) - ends[k] = p + n /\ pos + n <= ends[k + 1] /\ ends[k] <= pos + n
  <2>1. p + n <= l
    BY <1>13, <1>21
  <2>2. (pos + n) - e = p + n /\ pos + n <= f /\ e <= pos + n
    BY <1>22, <2>1
  <2> QED BY <1>21, <2>2
<1>15. rest' # <<>> => /\ pos + n < ends[k + 1] /\ p + n < Len(w) /\ Head(rest') = w[p + n + 1]
                       /\ After(Control(parser'), Head(rest')) = Alone(w)[p + n + 1]
  <2> SUFFICES ASSUME rest' # <<>>
               PROVE  /\ pos + n < ends[k + 1] /\ p + n < Len(w) /\ Head(rest') = w[p + n + 1]
                      /\ After(Control(parser'), Head(rest')) = Alone(w)[p + n + 1]
    OBVIOUS
  <2>1. n \in Nat /\ n < Len(rest) /\ p \in Nat
    BY <1>3, <1>8, <1>12
  <2>2. p + n < Len(w)
    <3>1. SUFFICES ASSUME p + n = Len(w) PROVE FALSE
      BY <1>8, <1>13, <2>1
    <3>2. Len(rest) > Len(w) - p /\ ~(p + n < Len(w))
      <4>1. n < r /\ p + n = l
        BY <1>21, <2>1, <3>1
      <4>2. r > l - p /\ ~(p + n < l)
        BY <1>22, <4>1
      <4> QED BY <1>21, <4>2
    <3>3. k + 1 < Len(ws)
      BY <1>21, <1>23, <3>2
    <3>4. Control(parser').state = "over"
      BY <1>10, <1>11, <3>1, <3>2, <3>3
    <3>5. Control(parser').state \in States
      BY StatesOfControl
    <3> QED BY <3>4, <3>5, NoSuchStates
  <2>3. n + 1 \in 1 .. Len(rest) /\ n + 1 <= Len(w) - p /\ p + (n + 1) = p + n + 1
        /\ p + n + 1 \in 1 .. Len(w) /\ (p + n + 1) - 1 = p + n
    <3>1. n < r /\ p + n < l
      BY <1>21, <2>1, <2>2
    <3>2. n + 1 \in 1 .. r /\ n + 1 <= l - p /\ p + (n + 1) = p + n + 1
          /\ p + n + 1 \in 1 .. l /\ (p + n + 1) - 1 = p + n
      BY <1>22, <3>1
    <3> QED BY <1>21, <3>2
  <2>4. Head(rest') = w[p + n + 1]
    BY <1>8, <1>12, <2>3
  <2>5. Alone(w)[p + n + 1] = After(Alone(w)[p + n], w[p + n + 1])
    BY <1>8, <2>3, AloneSteps
  <2>6. pos + n < ends[k + 1]
    <3>1. p + n < l
      BY <1>21, <2>2
    <3>2. pos + n < f
      BY <1>22, <3>1
    <3> QED BY <1>21, <3>2
  <2> QED BY <1>11, <2>2, <2>4, <2>5, <2>6
<1>16. rest' = <<>> => Control(parser') = Alone(w)[p + n]
  <2>1. SUFFICES ASSUME rest' = <<>>, n < Len(rest) PROVE FALSE
    BY <1>11
  <2>2. Unread(text, pos + n)' /\ Len(rest') = 0
    BY <1>12, <2>1, EmptySeq
  <2>3. Len(inq) + Len(rest) = Len(text) - pos /\ Len(inq) = Len(text) - (pos + n)
    BY <1>2, <1>4, <2>2, <1>6, LenProperties DEF Unread, Heard
  <2>4. Len(inq) \in Nat
    BY <1>6, LenProperties
  <2>5. n \in Nat /\ n < Len(rest) /\ Len(rest) \in Nat /\ pos \in Nat /\ Len(text) \in Nat
    BY <1>3, <1>6, <1>8, <2>1
  <2> HIDE DEF k
  <2> QED BY <2>3, <2>4, <2>5
<1>17. Reading(ws, ends, pos + n)'
  <2>1. /\ k <= Len(sent) /\ (k > 0 => sent[k].ends = "keep")
    BY <1>2 DEF Heard, Reading
  <2>2. UNCHANGED <<completed, sent, parsing>> /\ k # Len(ws) /\ ch' = Head(rest')
    BY <1>3, <1>4, <1>6, <1>7 DEF ch
  <2>3. ((pos + n) - ends[k]) + 1 = p + n + 1
    BY <1>14
  <2> QED BY <1>0, <1>5, <1>14, <1>15, <1>16, <2>1, <2>2, <2>3 DEF Reading
<1>18. WordsSent(ws, cut)'
  BY <1>2, <1>4 DEF Heard, WordsSent
<1>24. n2 = n /\ got' = got
  <2>1. n2 \in 0 .. Len(rest) /\ rest' = SubSeq(rest, n2 + 1, Len(rest)) /\ got' = got
    BY DEF TextFollows, Steps
  <2>2. /\ Unread(text, pos + n)' /\ Unread(text, pos + n2)'
    BY <1>2, <1>4, <1>6, <1>12, <2>1, Consumed DEF Heard
  <2>3. /\ Len(rest') + Len(inq') = Len(text) - (pos + n)
        /\ Len(rest') + Len(inq') = Len(text) - (pos + n2)
    BY <2>2 DEF Unread
  <2>4. Len(text) \in Nat /\ pos \in Nat /\ n \in Nat /\ n2 \in Nat
    BY <1>3, <1>6, <1>8, <2>1
  <2>5. Len(text) - (pos + n) = Len(text) - (pos + n2)
    BY <2>3
  <2>6. n = n2
    BY <2>4, <2>5
  <2> QED BY <2>1, <2>6
<1>25. (torn \/ Told(ws, ends, pos + n))'
  <2> SUFFICES ASSUME ~torn PROVE Told(ws, ends, pos + n)'
    BY <1>4
  <2>1. TextAfter(parser.state, View, ch) = Texts(w)[p + 1]
    BY <1>0, <1>2, <1>7, <1>8 DEF Heard, Told
  <2>2. \A i \in 1 .. n : rest[i] = w[p + i]
    <3>1. \A i \in 1 .. n : i \in 1 .. r /\ i <= l - p
      <4>1. p + n <= l
        BY <1>13, <1>21
      <4>2. l \in Nat /\ r \in Nat /\ p \in Nat /\ n \in Nat /\ n <= r
        BY <1>22
      <4> QED BY <4>1, <4>2
    <3> QED BY <1>8, <1>21, <3>1
  <2>3. p \in Nat /\ w[p + 1] = ch
    BY <1>8, <1>9
  <2>4. \/ View' = Texts(w)[p + n] /\ parser'.state = Alone(w)[p + n].state
        \/ /\ n < Len(rest)
           /\ p + n < Len(w) /\ rest[n + 1] = w[p + n + 1] =>
                 TextAfter(parser'.state, View', w[p + n + 1]) = Texts(w)[p + n + 1]
    <3>1. TextFollows(n)
      BY <1>24
    <3> QED BY <1>8, <1>9, <1>13, <2>1, <2>2, <2>3, <3>1 DEF TextFollows
  <2>5. rest' = <<>> => View' = Texts(w)[p + n]
    <3>1. n < Len(rest) => rest' # <<>>
      <4>1. n < r => Len(SubSeq(rest, n + 1, r)) = r - n /\ r - n \in Nat \ {0}
        <5>1. \A i \in (n + 1) .. r : rest[i] \in STRING
          BY <1>6, <1>21, <1>22, ElementOfSeq
        <5>2. Len(SubSeq(rest, n + 1, r)) = IF n + 1 <= r THEN r - (n + 1) + 1 ELSE 0
          BY <1>22, <5>1, SubSeqProperties
        <5> QED BY <1>22, <5>2
      <4>2. Len(<<>>) = 0
        OBVIOUS
      <4> QED BY <1>3, <1>21, <4>1, <4>2
    <3> QED BY <2>4, <3>1
  <2>6. rest' # <<>> =>
          TextAfter(parser'.state, View', Head(rest')) = Texts(w)[p + n + 1]
    <3> SUFFICES ASSUME rest' # <<>>
                 PROVE  TextAfter(parser'.state, View', Head(rest')) = Texts(w)[p + n + 1]
      OBVIOUS
    <3>1. n < Len(rest) /\ Head(rest') = rest[n + 1] /\ p + n < Len(w)
          /\ Head(rest') = w[p + n + 1]
      BY <1>12, <1>15
    <3>2. CASE View' = Texts(w)[p + n] /\ parser'.state = Alone(w)[p + n].state
      <4>1. p + n + 1 \in 1 .. Len(w) /\ (p + n + 1) - 1 = p + n /\ Len(w) \in Nat
        <5>1. p + n < l
          BY <1>21, <3>1
        <5>2. p + n + 1 \in 1 .. l /\ (p + n + 1) - 1 = p + n
          BY <1>22, <5>1
        <5> QED BY <1>21, <1>22, <5>2
      <4>2. Texts(w)[p + n + 1]
               = TextAfter(Alone(w)[p + n].state, Texts(w)[p + n], w[p + n + 1])
        BY <4>1, TextsSteps
      <4> QED BY <3>1, <3>2, <4>2
    <3> QED BY <2>4, <3>1, <3>2
  <2>7. UNCHANGED <<completed, parsing>> /\ k # Len(ws) /\ ch' = Head(rest')
    BY <1>3, <1>6, <1>7 DEF ch
  <2>8. ((pos + n) - ends[k]) + 1 = p + n + 1
    BY <1>14
  <2> QED BY <1>0, <1>14, <2>5, <2>6, <2>7, <2>8 DEF Told
<1>19. Heard(ws, ends, text, pos + n, cut)'
  BY <1>2, <1>12, <1>17, <1>18, <1>25 DEF Heard, Words
<1>20. link' = "open" /\ parsing'
  BY <1>3, <1>4
<1>26. (torn \/ Answered)'
  <2>1. ~Ended'
    BY <1>5, <1>20 DEF Ended, Returned
  <2> QED BY <1>3, <1>4, <1>20, <1>24, <2>1, AnsweredKept
<1> QED BY <1>19, <1>20, <1>26 DEF Framing, Placed

\* One response ends with the step.
LEMMA AnsweredMore ==
    ASSUME Framing, completed + 1 \in 1 .. Len(sent), completed' = completed + 1,
           UNCHANGED <<torn, sent>>,
           torn \/ (View' = NoText /\ got' = Append(got, Expected(sent[completed + 1])))
    PROVE  (torn \/ Answered)'
<1> SUFFICES ASSUME ~torn' PROVE Answered'
  OBVIOUS
<1> DEFINE k == completed  R == {Expected(r) : r \in Replies}
<1>1. /\ got \in Seq(R) /\ Len(got) = k
      /\ \A i \in DOMAIN got : got[i] = Expected(sent[i])
      /\ View' = NoText /\ got' = Append(got, Expected(sent[k + 1]))
  BY DEF Framing, Answered, ResponsesWhole
<1>2. sent[k + 1] \in Replies /\ k \in Nat
  BY StreamTypes DEF Framing
<1>3. PICK x : x = Expected(sent[k + 1])
  OBVIOUS
<1>4. x \in R
  BY <1>2, <1>3
<1> HIDE DEF R, k
<1>5. /\ got' \in Seq(R) /\ Len(got') = k + 1 /\ got'[k + 1] = x
      /\ \A i \in 1 .. k : got'[i] = got[i]
  BY <1>1, <1>3, <1>4, AppendProperties
<1>6. DOMAIN got = 1 .. k /\ DOMAIN got' = 1 .. (k + 1)
  BY <1>1, <1>5, LenProperties
<1>7. \A i \in 1 .. (k + 1) : got'[i] = Expected(sent[i])
  <2>1. \A i \in 1 .. (k + 1) : i = k + 1 \/ i \in 1 .. k
    BY <1>2
  <2> QED BY <1>1, <1>3, <1>5, <1>6, <2>1
<1>8. ResponsesWhole'
  <2>1. \A i : Expected(sent[i])' = Expected(sent[i])
    BY DEF Expected
  <2> QED BY <1>5, <1>6, <1>7, <2>1 DEF ResponsesWhole, k
<1> QED BY <1>1, <1>5, <1>8 DEF Answered, R

LEMMA NewStateKept ==
    ASSUME NEW ps \in Parsers, NEW state \in States
    PROVE  [ps EXCEPT !.state = state].status_code = ps.status_code
  BY DEF Parsers

\* A turn that ends a message.
LEMMA CompleteFramed ==
    ASSUME Framing, PhaseInv', Buffered', link = "open", parsing, rest # <<>>,
           parser.state # "dead", Completes, Finishes
    PROVE  Framing'
<1>1. PhaseInv /\ Buffered /\ ~Ended
  BY DEF Framing, Ended, Returned
<1>2. PICK ws, ends, text, pos, cut : Heard(ws, ends, text, pos, cut)
  BY <1>1 DEF Framing, Placed
<1> DEFINE k == completed
<1>3. PICK w, p : w = ws[k + 1] /\ p = pos - ends[k]
  OBVIOUS
<1>4. /\ rest \in Seq(STRING) /\ inq \in Seq(STRING) /\ k \in Nat
      /\ Len(rest) \in Nat \ {0} /\ Len(inq) \in Nat
      /\ text \in Seq(STRING) /\ Len(text) \in Nat /\ Len(ws) \in Nat /\ Len(sent) \in Nat
      /\ (rest = <<>> <=> Len(rest) = 0) /\ late \in BOOLEAN /\ k <= Len(sent)
      /\ Len(sent) <= Len(ws)
  BY <1>1, <1>2, StreamTypes, LenProperties DEF Heard, Words, Reading, WordsSent
<1>5. k < Len(ws)
  <2>1. SUFFICES ASSUME k = Len(ws) PROVE FALSE
    BY <1>4
  <2>2. pos = Len(text)
    BY <1>2, <2>1 DEF Heard, Reading, Words
  <2> QED BY <1>2, <1>4, <2>2 DEF Heard, Unread
<1>6. InWord(ws, ends, text, pos, w, p)
  BY <1>1, <1>2, <1>3, <1>5, PresentWord
<1>7. p < Len(w) /\ After(Control(parser), ch) = Alone(w)[p + 1] /\ p + 1 \in 1 .. Len(w)
  <2>1. pos < ends[k + 1]
    BY <1>2, <1>5 DEF Heard, Reading
  <2>2. p < Len(w) /\ p + 1 \in 1 .. Len(w)
    BY <1>6, <2>1 DEF InWord
  <2> QED BY <1>2, <1>3, <1>5, <2>2 DEF Heard, Reading
<1>8. PICK ps : /\ Ends(ps) /\ rest' = Tail(rest)
                /\ Alone(w)[p + 1].state = "over"
                /\ Alone(w)[p + 1].status_code = ps.status_code
                /\ HttpShouldKeepAlive(Alone(w)[p + 1]) <=> HttpShouldKeepAlive(ps)
  BY <1>7 DEF Completes
<1>9. /\ k + 1 <= Len(sent) /\ p + 1 = Len(w) /\ k + 1 \in 1 .. Len(sent)
      /\ sent[k + 1] \in Replies /\ w = sent[k + 1].wire
      /\ HttpShouldKeepAlive(ps) <=> sent[k + 1].ends = "keep"
  <2>1. /\ k + 1 <= Len(sent) /\ p + 1 = Len(w)
        /\ sent[k + 1] \in Replies /\ w = sent[k + 1].wire
        /\ HttpShouldKeepAlive(ps) <=> sent[k + 1].ends = "keep"
    BY <1>1, <1>2, <1>3, <1>5, <1>7, <1>8, WordEnds
  <2> QED BY <1>4, <2>1
<1> DEFINE end == [ps EXCEPT !.state = NewMessage(ps)]
<1>10. NewMessage(ps) = (IF HttpShouldKeepAlive(ps) THEN StartState ELSE "dead")
       /\ NewMessage(ps) \in States
  BY DEF NewMessage, StartState, States, HeaderStates
<1>11. /\ HttpShouldKeepAlive(end) = HttpShouldKeepAlive(ps)
       /\ end.state = NewMessage(ps)
  BY <1>8, <1>10, KeepsAlive DEF Ends
<1>12. /\ completed' = k + 1 /\ stopped' = (stopped \/ late)
       /\ \/ late /\ parser' = end /\ UNCHANGED netVars
          \/ ~late /\ HttpShouldKeepAlive(end) /\ parser' = HttpParserInit /\ UNCHANGED netVars
          \/ ~late /\ ~HttpShouldKeepAlive(end) /\ parser' = end /\ Reconnect(FALSE)
  BY <1>8 DEF Ends, ResponseComplete
<1>16. torn' = torn /\ sent' = sent
  BY <1>12 DEF netVars, Reconnect
<1>17. torn \/ (View' = NoText /\ got' = Append(got, Expected(sent[k + 1])))
  <2> SUFFICES ASSUME ~torn
               PROVE  View' = NoText /\ got' = Append(got, Expected(sent[k + 1]))
    OBVIOUS
  <2>1. TextAfter(parser.state, View, ch) = Texts(w)[p + 1] /\ marks = {}
    BY <1>2, <1>3, <1>5 DEF Heard, Told, Finishes
  <2>2. View = Texts(sent[k + 1].wire)[Len(sent[k + 1].wire)]
    BY <1>9, <2>1 DEF Finishes
  <2>3. ResponseComplete(end) /\ end.status_code = ps.status_code
    BY <1>8, <1>10, NewStateKept DEF Ends
  <2>4. marks' = {} /\ held' = <<>>
    <3>1. parser'.state \in {StartState, "dead"}
      <4>1. HttpParserInit.state = StartState
        BY DEF HttpParserInit
      <4>2. end.state \in {StartState, "dead"}
        BY <1>10, <1>11
      <4>3. parser' = end \/ parser' = HttpParserInit
        BY <1>12
      <4> HIDE DEF end
      <4> QED BY <4>1, <4>2, <4>3
    <3>2. marks' \subseteq MarksOf(parser'.state)
      BY DEF PhaseInv, Ind
    <3>3. MarksOf(StartState) = {} /\ MarksOf("dead") = {}
      BY DEF MarksOf, StartState
    <3> QED BY <3>1, <3>2, <3>3 DEF Buffered
  <2>5. Alone(sent[k + 1].wire)[Len(sent[k + 1].wire)].status_code = end.status_code
    BY <1>8, <1>9, <2>3
  <2> HIDE DEF end, k
  <2> QED BY <1>1, <1>9, <2>1, <2>2, <2>3, <2>4, <2>5, ReplyTold
<1>18. (torn \/ Answered)'
  BY <1>9, <1>12, <1>16, <1>17, AnsweredMore
<1> HIDE DEF end
<1>13. CASE sent[k + 1].ends = "keep"
  <2>1. parser'.state = StartState /\ UNCHANGED netVars
    BY <1>9, <1>10, <1>11, <1>12, <1>13 DEF HttpParserInit
  <2>2. Control(parser') = Begin /\ parser'.state # "dead"
    BY <2>1 DEF Control, Begin, Named, StartState
  <2>3. UNCHANGED <<link, inq, peer, sent, torn>>
    BY <2>1 DEF netVars
  <2>4. rest' = SubSeq(rest, 1 + 1, Len(rest)) /\ 1 \in 0 .. Len(rest)
    BY <1>4, <1>8, TailIsSubSeq
  <2>5. Unread(text, pos + 1)'
    BY <1>2, <1>4, <2>3, <2>4, Consumed DEF Heard
  <2>6. pos + 1 = ends[k + 1] /\ ends[k + 1] \in Nat
    <3>1. /\ pos = ends[k] + p /\ ends[k + 1] = ends[k] + Len(w)
          /\ ends[k] \in Nat /\ p \in Nat /\ Len(w) \in Nat
      BY <1>6 DEF InWord
    <3> QED BY <1>9, <3>1
  <2>7. k + 1 < Len(ws) =>
           /\ pos + 1 < ends[(k + 1) + 1] /\ (pos + 1) - ends[k + 1] = 0
           /\ Alone(ws[(k + 1) + 1])[0] = Begin
           /\ rest' # <<>> =>
                After(Begin, Head(rest')) = Alone(ws[(k + 1) + 1])[0 + 1]
    <3> SUFFICES ASSUME k + 1 < Len(ws)
                 PROVE  /\ pos + 1 < ends[(k + 1) + 1] /\ (pos + 1) - ends[k + 1] = 0
                        /\ Alone(ws[(k + 1) + 1])[0] = Begin
                        /\ rest' # <<>> =>
                             After(Begin, Head(rest')) = Alone(ws[(k + 1) + 1])[0 + 1]
      OBVIOUS
    <3> DEFINE next == ws[(k + 1) + 1]
    <3>1. k + 1 \in Nat
      BY <1>4
    <3>2. /\ next \in Seq(STRING) /\ Len(next) \in Nat \ {0}
          /\ ends[(k + 1) + 1] = ends[k + 1] + Len(next)
          /\ \A j \in 1 .. Len(next) : text[ends[k + 1] + j] = next[j]
      BY <1>2, <3>1, WordFacts DEF Heard
    <3> HIDE DEF next
    <3>3. Alone(next)[0] = Begin /\ Alone(next)[1] = After(Alone(next)[0], next[1])
      <4>1. 1 \in 1 .. Len(next) /\ Len(next) \in Nat
        BY <3>2
      <4> QED BY <4>1, AloneSteps
    <3>4. rest' # <<>> => Head(rest') = next[1]
      <4>1. rest' # <<>> => 1 < Len(rest) /\ Head(rest') = rest[1 + 1]
        BY <1>2, <1>4, <2>3, <2>4, Consumed DEF Heard
      <4>2. rest' # <<>> => rest[2] = text[pos + 2]
        BY <1>2, <1>4, <4>1 DEF Heard, Unread
      <4>3. text[ends[k + 1] + 1] = next[1] /\ pos + 2 = ends[k + 1] + 1
        <5>1. 1 \in 1 .. Len(next)
          BY <3>2
        <5>2. pos \in Nat
          BY <1>6 DEF InWord
        <5> QED BY <2>6, <3>2, <5>1, <5>2
      <4> QED BY <4>1, <4>2, <4>3
    <3>5. pos + 1 < ends[(k + 1) + 1] /\ (pos + 1) - ends[k + 1] = 0 /\ 0 + 1 = 1
      BY <2>6, <3>2
    <3> QED BY <3>3, <3>4, <3>5 DEF next
  <2>8. Reading(ws, ends, pos + 1)'
    <3>1. completed' = k + 1 /\ sent' = sent /\ sent'[completed'].ends = "keep"
          /\ completed' <= Len(sent') /\ ch' = Head(rest')
      BY <1>9, <1>12, <1>13, <2>3 DEF ch
    <3>2. k + 1 < Len(ws) => pos + 1 <= ends[(k + 1) + 1] /\ ends[k + 1] <= pos + 1
      <4>1. pos + 1 \in Nat
        BY <2>6
      <4>2. k + 1 < Len(ws) => ends[(k + 1) + 1] \in Nat
        <5>1. k + 1 \in Nat
          BY <1>4
        <5>2. SUFFICES ASSUME k + 1 < Len(ws) PROVE ends[(k + 1) + 1] \in Nat
          OBVIOUS
        <5>3. /\ ends[k + 1] \in Nat /\ Len(ws[(k + 1) + 1]) \in Nat \ {0}
              /\ ends[(k + 1) + 1] = ends[k + 1] + Len(ws[(k + 1) + 1])
          BY <1>2, <5>1, <5>2, WordFacts DEF Heard
        <5> QED BY <5>3
      <4> QED BY <2>6, <2>7, <4>1, <4>2
    <3>3. ends[k + 1] <= pos + 1
      BY <2>6
    <3> QED BY <2>2, <2>6, <2>7, <3>1, <3>2, <3>3 DEF Reading
  <2>9. WordsSent(ws, cut)'
    BY <1>2, <2>3 DEF Heard, WordsSent
  <2>11. (torn \/ Told(ws, ends, pos + 1))'
    <3> SUFFICES ASSUME ~torn PROVE Told(ws, ends, pos + 1)'
      BY <1>16
    <3>1. View' = NoText /\ completed' = k + 1
      BY <1>12, <1>17
    <3>2. ASSUME k + 1 < Len(ws)
          PROVE  /\ Texts(ws[(k + 1) + 1])[0] = NoText /\ (pos + 1) - ends[k + 1] = 0
                 /\ \A s : TextAfter(parser'.state, NoText, s) = NoText
                 /\ Texts(ws[(k + 1) + 1])[1] = NoText
      <4>1. k + 1 \in Nat
        BY <1>4
      <4>2. Len(ws[(k + 1) + 1]) \in Nat \ {0} /\ Alone(ws[(k + 1) + 1])[0] = Begin
        BY <1>2, <2>7, <3>2, <4>1, WordFacts DEF Heard
      <4>3. \A s : TextAfter(StartState, NoText, s) = NoText
        BY StartTellsNothing
      <4>4. PICK next : next = ws[(k + 1) + 1]
        OBVIOUS
      <4>5. Len(next) \in Nat /\ 1 \in 1 .. Len(next) /\ 1 - 1 = 0
        BY <4>2, <4>4
      <4>6. /\ Texts(next)[0] = NoText
            /\ Texts(next)[1] = TextAfter(Alone(next)[0].state, Texts(next)[0], next[1])
        BY <4>5, TextsSteps
      <4>7. Alone(next)[0].state = StartState
        BY <4>2, <4>4 DEF Begin
      <4> QED BY <2>1, <2>7, <3>2, <4>3, <4>4, <4>6, <4>7
    <3> QED BY <3>1, <3>2 DEF Told
  <2>10. Heard(ws, ends, text, pos + 1, cut)'
    BY <1>2, <2>5, <2>8, <2>9, <2>11 DEF Heard, Words
  <2> QED BY <1>18, <2>3, <2>10 DEF Framing, Placed
<1>14. CASE sent[k + 1].ends # "keep" /\ late
  <2>1. parser'.state = "dead" /\ UNCHANGED netVars /\ stopped'
    BY <1>9, <1>10, <1>11, <1>12, <1>14
  <2>2. UNCHANGED <<link, peer, sent>>
    BY <2>1 DEF netVars
  <2>3. k + 1 = Len(sent) /\ peer # "up"
    BY <1>2, <1>4, <1>9, <1>14 DEF Heard, WordsSent
  <2>4. Ended'
    BY <1>4, <1>12, <1>14, <2>1, <2>2, <2>3 DEF Ended
  <2> QED BY <1>18, <2>2, <2>4 DEF Framing, Placed
<1>15. CASE sent[k + 1].ends # "keep" /\ ~late
  <2>1. Reconnect(FALSE)
    BY <1>9, <1>11, <1>12, <1>15
  <2>2. Placed'
    BY <1>9, <1>12, <1>15, <2>1, Redialled
  <2> QED BY <1>18, <2>2 DEF Framing
<1> QED BY <1>4, <1>13, <1>14, <1>15

\* Nothing changes but the call returns, or the thread is told to stop.
LEMMA QuietFramed ==
    ASSUME Framing, PhaseInv', Buffered', UNCHANGED <<parser, rest, completed, got, netVars>>,
           stopped => stopped', (parsing /\ rest # <<>>) <=> (parsing' /\ rest # <<>>),
           parsing' => parsing, View' = View
    PROVE  Framing'
<1>1. UNCHANGED <<link, failed, inq, peer, sent, torn, ch>>
  BY DEF netVars, ch
<1>2. Dialing => Dialing'
  BY <1>1 DEF Dialing
<1>3. Ended => Ended'
  BY <1>1 DEF Ended, Returned
<1>4. ASSUME NEW ws, NEW ends, NEW text, NEW pos, NEW cut, Heard(ws, ends, text, pos, cut)
      PROVE  Heard(ws, ends, text, pos, cut)'
  <2>1. Unread(text, pos)'
    BY <1>1, <1>4 DEF Heard, Unread
  <2>2. WordsSent(ws, cut)'
    BY <1>1, <1>4 DEF Heard, WordsSent
  <2>3. Reading(ws, ends, pos)'
    BY <1>1, <1>4 DEF Heard, Reading
  <2>4. (torn \/ Told(ws, ends, pos))'
    BY <1>1, <1>4 DEF Heard, Told
  <2> QED BY <1>4, <2>1, <2>2, <2>3, <2>4 DEF Heard, Words
<1>5. link' = link
  BY <1>1
<1>6. Placed'
  BY <1>2, <1>3, <1>4, <1>5 DEF Framing, Placed
<1>7. torn \/ View = NoText
        \/ ~(link' = "connecting" \/ Ended' \/ (~parsing' /\ rest' # <<>>))
  <2>1. ASSUME ~torn, Ended'
        PROVE  View = NoText
    <3>1. completed > 0 /\ sent[completed].ends # "keep"
      BY <1>1, <2>1 DEF Ended
    <3>2. ~\E ws, ends, text, pos, cut : Heard(ws, ends, text, pos, cut)
      BY <3>1 DEF Heard, Reading
    <3>3. link = "connecting" \/ Ended
      BY <3>2, StreamTypes DEF Framing, Placed
    <3> QED BY <2>1, <3>3 DEF Framing, Answered
  <2> QED BY <1>1, <2>1 DEF Framing, Answered
<1>8. (torn \/ Answered)'
  BY <1>1, <1>7, AnsweredKept
<1> QED BY <1>6, <1>8 DEF Framing

\* Only three actions of the loop do not see a symbol of a message.
LEMMA OtherTurns ==
    ASSUME Execute, ~(parsing /\ rest # <<>> /\ parser.state # "dead")
    PROVE  Dead \/ EndOfInput \/ Unparsed
<1>1. \A state : In(state) => state = "dead"
  BY DEF In
<1>2. ~(StartRes \/ ResVersion \/ ResFirstStatusCode \/ ResStatusCode \/ ResStatusStart
        \/ ResStatus \/ ResLineAlmostDone)
  BY <1>1 DEF StartRes, ResVersion, ResFirstStatusCode, ResStatusCode, ResStatusStart,
              ResStatus, ResLineAlmostDone, Strictly
<1>3. ~(HeaderFieldStart \/ HeaderField \/ HeaderValueDiscardWs \/ HeaderValueStart
        \/ HeaderValue \/ HeaderAlmostDone \/ HeaderValueLws
        \/ HeaderValueDiscardWsAlmostDone \/ HeaderValueDiscardLws)
  BY <1>1 DEF HeaderFieldStart, HeaderField, HeaderValueDiscardWs, HeaderValueStart,
              HeaderValue, HeaderAlmostDone, HeaderValueLws,
              HeaderValueDiscardWsAlmostDone, HeaderValueDiscardLws, Strictly
<1>4. ~(HeadersAlmostDone \/ HeadersDone \/ BodyIdentity \/ BodyIdentityEof \/ MessageDone)
  BY <1>1 DEF HeadersAlmostDone, HeadersDone, BodyIdentity, BodyIdentityEof, MessageDone,
              Strictly
<1>5. ~(ChunkSizeStart \/ ChunkSize \/ ChunkParameters \/ ChunkSizeAlmostDone
        \/ ChunkData \/ ChunkDataAlmostDone \/ ChunkDataDone)
  BY <1>1 DEF ChunkSizeStart, ChunkSize, ChunkParameters, ChunkSizeAlmostDone,
              ChunkData, ChunkDataAlmostDone, ChunkDataDone, Strictly
<1> QED BY <1>2, <1>3, <1>4, <1>5 DEF Execute

LEMMA DeadFramed ==
    ASSUME Framing, PhaseInv', Dead
    PROVE  Framing'
<1>3. /\ Buffered' /\ (View = NoText => View' = NoText)
      /\ UNCHANGED <<got, completed>> /\ parser.state = "dead"
  BY DeadTells DEF Framing, PhaseInv, Dead, In
<1>4. torn \/ View = NoText
  <2>1. ~\E ws, ends, text, pos, cut : Heard(ws, ends, text, pos, cut)
    BY <1>3 DEF Heard, Reading
  <2>2. link = "connecting" \/ Ended
    BY <2>1, StreamTypes DEF Framing, Placed
  <2> QED BY <2>2 DEF Framing, Answered
<1>1. CASE Fail
  BY <1>1, <1>3, <1>4, FailFramed DEF Fail
<1>2. CASE Consume(Counted)
  <2>1. parser' = Counted /\ parser.state = "dead" /\ parser \in Parsers /\ parsing
    BY <1>2 DEF Dead, In, Consume, Turn, Framing, PhaseInv, Ind, TypeOK
  <2>2. parser'.state = "dead"
    BY <2>1, CountedControl
  <2>3. UNCHANGED <<completed, stopped, link, failed, inq, peer, sent>>
    BY <1>2 DEF Consume, Quietly, scriptVars, clockVars, netVars
  <2>4. ASSUME link = "connecting" PROVE Placed'
    <3>1. Dialing'
      BY <2>3, <2>4 DEF Framing, Placed, Dialing
    <3> QED BY <2>3, <2>4, <3>1 DEF Placed
  <2>5. ASSUME link = "open" PROVE Placed'
    <3>1. Ended
      BY <2>1, <2>5 DEF Framing, Placed, Heard, Reading
    <3>2. Ended'
      BY <2>2, <2>3, <3>1 DEF Ended
    <3> QED BY <2>3, <2>5, <3>2 DEF Placed
  <2>6. Placed'
    BY <2>4, <2>5, StreamTypes DEF Framing
  <2>7. torn' = torn /\ sent' = sent
    BY <1>2 DEF Consume, Quietly, netVars
  <2>8. (torn \/ Answered)'
    BY <1>3, <1>4, <2>7, AnsweredKept
  <2> QED BY <1>3, <2>6, <2>8 DEF Framing
<1> QED BY <1>1, <1>2 DEF Dead

\* An error of the parser is one of symbols that were never meant as a response: nothing
\* was told of them.
LEMMA BrokenUntold ==
    ASSUME Framing, link = "open", parsing, rest # <<>>, parser.state # "dead", Breaks
    PROVE  torn \/ View = NoText
<1> SUFFICES ASSUME ~torn PROVE View = NoText
  OBVIOUS
<1>1. PhaseInv /\ Buffered /\ ~Ended
  BY DEF Framing, Ended, Returned
<1>2. PICK ws, ends, text, pos, cut : Heard(ws, ends, text, pos, cut)
  BY <1>1 DEF Framing, Placed
<1> DEFINE k == completed
<1>3. PICK w, p : w = ws[k + 1] /\ p = pos - ends[k]
  OBVIOUS
<1>4. k \in Nat /\ Len(ws) \in Nat /\ Len(sent) \in Nat /\ k <= Len(sent) /\ Len(sent) <= Len(ws)
      /\ \A i \in 1 .. Len(sent) : sent[i] \in Replies
  BY <1>1, <1>2, StreamTypes, LenProperties DEF Heard, Words, Reading, WordsSent
<1>5. CASE k = Len(ws)
  BY <1>2, <1>5 DEF Heard, Told
<1>6. CASE k < Len(ws)
  <2>1. InWord(ws, ends, text, pos, w, p)
    BY <1>1, <1>2, <1>3, <1>6, PresentWord
  <2>2. p < Len(w) /\ After(Control(parser), ch) = Alone(w)[p + 1] /\ p + 1 \in 1 .. Len(w)
        /\ p \in Nat /\ Len(w) \in Nat
    <3>1. pos < ends[k + 1]
      BY <1>2, <1>6 DEF Heard, Reading
    <3>2. p < Len(w) /\ p + 1 \in 1 .. Len(w) /\ p \in Nat /\ Len(w) \in Nat
      BY <2>1, <3>1 DEF InWord
    <3> QED BY <1>2, <1>3, <1>6, <3>2 DEF Heard, Reading
  <2>3. Alone(w)[p + 1].state = "error"
    BY <2>2 DEF Breaks
  <2>4. k + 1 > Len(sent)
    <3>1. SUFFICES ASSUME k + 1 <= Len(sent) PROVE FALSE
      BY <1>4
    <3>2. w = sent[k + 1].wire /\ sent[k + 1] \in Replies
      BY <1>2, <1>3, <1>4, <3>1 DEF Heard, WordsSent
    <3>3. IsMessage(sent[k + 1])
      BY <3>2, MessagesAssumption
    <3>4. p + 1 = Len(w)
      BY <2>2, <2>3, <3>2, <3>3 DEF IsMessage
    <3> QED BY <2>3, <3>2, <3>3, <3>4 DEF IsMessage
  <2>5. Len(w) = 1
    BY <1>2, <1>3, <1>4, <1>6, <2>4 DEF Heard, WordsSent
  <2>6. p = 0 /\ p + 1 = 1
    BY <2>2, <2>5
  <2>7. TextAfter(parser.state, View, ch) = Texts(w)[1]
    BY <1>2, <1>3, <1>6, <2>6 DEF Heard, Told
  <2>8. Texts(w)[1] = NoText
    <3>1. /\ Texts(w)[0] = NoText /\ Alone(w)[0] = Begin
          /\ Texts(w)[1] = TextAfter(Alone(w)[0].state, Texts(w)[0], w[1])
      <4>1. 1 \in 1 .. Len(w) /\ 1 - 1 = 0 /\ Len(w) \in Nat
        BY <2>5
      <4> QED BY <4>1, TextsSteps, AloneSteps
    <3>2. Begin.state = StartState
      BY DEF Begin
    <3> QED BY <3>1, <3>2, StartTellsNothing
  <2>9. View \in TextsOf /\ ch \in Symbols
    <3>1. Ind /\ held \in Seq(STRING) /\ buf \in Kept
      BY <1>1 DEF PhaseInv, Ind, TypeOK, Buffered
    <3> QED BY <3>1, Single, FlushedKept, HeadIsFirst DEF View
  <2> QED BY <2>7, <2>8, <2>9, NothingInSymbol
<1> QED BY <1>4, <1>5, <1>6

LEMMA ExecuteFramed ==
    ASSUME Framing, PhaseInv', Next, Execute
    PROVE  Framing'
<1>1. CASE parsing /\ rest # <<>> /\ parser.state # "dead"
  <2>1. link = "open" /\ PhaseInv
    BY <1>1, PhaseReady DEF Framing
  <2>5. ((\E n : TextFollows(n)) \/ Fail \/ Finishes) /\ Buffered'
    BY <1>1, <2>1, TurnTells DEF Framing
  <2>6. completed \in Nat
    BY <2>1, PhaseReady
  <2>7. Fail => ~parsing' /\ completed' = completed
    BY DEF Fail, ReadError, scriptVars
  <2>8. Completes => completed' = completed + 1
    BY DEF Completes, Ends, ResponseComplete
  <2>9. (\E n : TextFollows(n)) => completed' = completed
    BY DEF TextFollows, Steps
  <2>10. Finishes => completed' = completed + 1
    BY DEF Finishes
  <2>2. CASE \E n : Follows(n)
    <3>1. parsing' = parsing /\ completed' = completed
      BY <2>2 DEF Follows, Steps
    <3>2. \E n : TextFollows(n)
      BY <1>1, <2>5, <2>6, <2>7, <2>10, <3>1
    <3> QED BY <1>1, <2>1, <2>2, <2>5, <3>2, FollowFramed
  <2>3. CASE Breaks
    <3>1. torn \/ View = NoText
      BY <1>1, <2>1, <2>3, BrokenUntold
    <3> QED BY <2>3, <2>5, <3>1, FailFramed DEF Breaks, Fail
  <2>4. CASE Completes
    <3>1. Finishes
      BY <2>4, <2>5, <2>6, <2>7, <2>8, <2>9
    <3> QED BY <1>1, <2>1, <2>4, <2>5, <3>1, CompleteFramed
  <2> QED BY <1>1, <2>1, <2>2, <2>3, <2>4, TurnFollows
<1>2. CASE Dead
  BY <1>2, DeadFramed
<1>3. CASE EndOfInput
  <2>1. UNCHANGED <<parser, rest, completed, got, netVars>> /\ UNCHANGED clockVars
        /\ rest = <<>> /\ ~parsing'
    BY <1>3 DEF EndOfInput
  <2>2. Buffered' /\ View' = View
    BY <1>3, FlushTells DEF Framing, PhaseInv
  <2> QED BY <2>1, <2>2, QuietFramed DEF clockVars
<1>4. CASE Unparsed
  <2>1. ReadError(parser) /\ ~parsing /\ rest # <<>>
    BY <1>4 DEF Unparsed
  <2>2. Ind /\ Buffered /\ marks = {} /\ (torn \/ View = NoText)
    BY <2>1 DEF Framing, PhaseInv, Ind, Answered
  <2>3. Buffered'
    BY <2>1, <2>2, ErrorBuffered
  <2> QED BY <2>1, <2>2, <2>3, FailFramed
<1> QED BY <1>1, <1>2, <1>3, <1>4, OtherTurns

LEMMA TookIn ==
    ASSUME NEW text \in Seq(STRING), NEW pos, Unread(text, pos), rest = <<>>,
           inq \in Seq(STRING), NEW n \in 1 .. Len(inq),
           rest' = SubSeq(inq, 1, n), inq' = SubSeq(inq, n + 1, Len(inq))
    PROVE  Unread(text, pos)' /\ rest' # <<>> /\ Head(rest') = inq[1]
<1> DEFINE q == Len(inq)  a == SubSeq(inq, 1, n)  b == SubSeq(inq, n + 1, q)  t == Len(text)
<1>1. q \in Nat /\ n \in Nat \ {0} /\ n <= q /\ t \in Nat /\ Len(rest) = 0
  BY LenProperties, EmptySeq
<1>2. (\A i \in 1 .. n : inq[i] \in STRING) /\ (\A i \in (n + 1) .. q : inq[i] \in STRING)
  BY <1>1, ElementOfSeq
<1>3. /\ a \in Seq(STRING)
      /\ Len(a) = IF 1 <= n THEN n - 1 + 1 ELSE 0
      /\ \A i \in 1 .. n - 1 + 1 : a[i] = inq[1 + i - 1]
  BY <1>1, <1>2, SubSeqProperties
<1>4. /\ b \in Seq(STRING)
      /\ Len(b) = IF n + 1 <= q THEN q - (n + 1) + 1 ELSE 0
      /\ \A i \in 1 .. q - (n + 1) + 1 : b[i] = inq[(n + 1) + i - 1]
  BY <1>1, <1>2, SubSeqProperties
<1>5. Len(a) = n /\ Len(b) = q - n /\ a # <<>>
  BY <1>1, <1>3, <1>4, EmptySeq
<1>6. \A i \in 1 .. n : a[i] = inq[i]
  <2>1. n - 1 + 1 = n /\ \A i \in 1 .. n : 1 + i - 1 = i
    BY <1>1
  <2> QED BY <1>3, <2>1
<1>7. \A i \in 1 .. (q - n) : b[i] = inq[n + i]
  <2>1. q - (n + 1) + 1 = q - n /\ \A i \in 1 .. (q - n) : (n + 1) + i - 1 = n + i
    BY <1>1
  <2> QED BY <1>4, <2>1
<1>8. /\ pos \in Nat /\ pos <= t /\ 0 + q = t - pos
      /\ \A i \in 1 .. q : inq[i] = text[pos + 0 + i]
  BY <1>1 DEF Unread
<1> HIDE DEF a, b, q, t
<1>9. /\ n + (q - n) = t - pos
      /\ \A i \in 1 .. n : i \in 1 .. q /\ pos + 0 + i = pos + i
      /\ \A i \in 1 .. (q - n) : n + i \in 1 .. q /\ pos + 0 + (n + i) = pos + n + i
  BY <1>1, <1>8
<1>10. /\ \A i \in 1 .. n : a[i] = text[pos + i]
       /\ \A i \in 1 .. (q - n) : b[i] = text[pos + n + i]
  BY <1>6, <1>7, <1>8, <1>9
<1>11. rest' = a /\ inq' = b /\ pos \in 0 .. t
  BY <1>1, <1>8 DEF a, b, q
<1>12. Unread(text, pos)'
  BY <1>5, <1>9, <1>10, <1>11 DEF Unread, t
<1>13. Head(a) = a[1] /\ 1 \in 1 .. n
  BY <1>1, <1>3, <1>5 DEF a
<1> QED BY <1>5, <1>6, <1>11, <1>12, <1>13

LEMMA ReadFramed ==
    ASSUME Framing, PhaseInv', Read
    PROVE  Framing'
<1>1. /\ link = "open" /\ ~parsing /\ rest = <<>> /\ inq # <<>> /\ PhaseInv
      /\ parsing' /\ UNCHANGED <<parser, completed, got, stopped, link, peer, sent, torn>>
  BY DEF Read, Returned, Framing, scriptVars, clockVars
<1>5. Buffered' /\ View' = View
  BY ReadTells DEF Framing
<1>2. PICK n \in 1 .. RecvBuf :
        n <= Len(inq) /\ rest' = SubSeq(inq, 1, n) /\ inq' = SubSeq(inq, n + 1, Len(inq))
  BY DEF Read
<1>3. ASSUME Ended
      PROVE  Placed' /\ (torn \/ Answered)'
  <2>1. Ended'
    BY <1>1, <1>3 DEF Ended
  <2>2. torn \/ View' = NoText
    BY <1>3, <1>5 DEF Framing, Answered
  <2>3. (torn \/ Answered)'
    BY <1>1, <2>2, AnsweredKept
  <2> QED BY <1>1, <2>1, <2>3 DEF Placed
<1>4. ASSUME NEW ws, NEW ends, NEW text, NEW pos, NEW cut, Heard(ws, ends, text, pos, cut)
      PROVE  Heard(ws, ends, text, pos, cut)' /\ ~Ended'
  <2> DEFINE k == completed
  <2>1. PICK w, p : w = ws[k + 1] /\ p = pos - ends[k]
    OBVIOUS
  <2>2. /\ inq \in Seq(STRING) /\ k \in Nat /\ Len(inq) \in Nat \ {0} /\ Len(rest) = 0
        /\ text \in Seq(STRING) /\ Len(text) \in Nat /\ Len(ws) \in Nat
        /\ k <= Len(sent) /\ Len(sent) <= Len(ws) /\ Len(sent) \in Nat
    BY <1>1, <1>4, StreamTypes, LenProperties DEF Heard, Words, Reading, WordsSent
  <2>3. n \in 1 .. Len(inq)
    BY <1>2, <2>2, RepliesAssumption
  <2>4. Unread(text, pos)' /\ rest' # <<>> /\ Head(rest') = inq[1]
    BY <1>1, <1>2, <1>4, <2>2, <2>3, TookIn DEF Heard
  <2>5. k < Len(ws)
    <3>1. SUFFICES ASSUME k = Len(ws) PROVE FALSE
      BY <2>2
    <3>2. pos = Len(text)
      BY <1>4, <3>1 DEF Heard, Reading, Words
    <3> QED BY <1>4, <2>2, <3>2 DEF Heard, Unread
  <2>6. InWord(ws, ends, text, pos, w, p)
    BY <1>1, <1>4, <2>1, <2>5, PresentWord
  <2>7. Control(parser) = Alone(w)[p]
    BY <1>1, <1>4, <2>1, <2>5 DEF Heard, Reading
  <2>8. pos + Len(inq) = Len(text) /\ pos \in Nat
    <3>1. pos \in Nat
      BY <2>6 DEF InWord
    <3>2. Len(rest) + Len(inq) = Len(text) - pos
      BY <1>4 DEF Heard, Unread
    <3> QED BY <2>2, <3>1, <3>2
  <2>9. p < Len(w)
    <3>1. SUFFICES ASSUME p = Len(w) PROVE FALSE
      BY <2>6 DEF InWord
    <3>2. ends[k + 1] < Len(text)
      BY <2>2, <2>6, <2>8, <3>1 DEF InWord
    <3>3. k + 1 < Len(ws)
      BY <2>6, <3>2 DEF InWord
    <3>4. Alone(w)[p].state = "over"
      BY <1>1, <1>4, <2>1, <3>1, <3>3, WordOver
    <3>5. Control(parser).state \in States
      BY <1>1, StreamTypes
    <3> QED BY <2>7, <3>4, <3>5, NoSuchStates
  <2>10. /\ w \in Seq(STRING) /\ Len(w) \in Nat /\ p \in Nat /\ p + 1 \in 1 .. Len(w)
         /\ (p + 1) - 1 = p /\ pos = ends[k] + p /\ ends[k] \in Nat
         /\ ends[k + 1] = ends[k] + Len(w)
    BY <2>6, <2>9 DEF InWord
  <2>11. inq[1] = w[p + 1]
    <3>1. inq[1] = text[pos + Len(rest) + 1]
      BY <1>4, <2>2 DEF Heard, Unread
    <3>2. text[ends[k] + (p + 1)] = w[p + 1]
      <4>1. \A j \in 1 .. Len(ws[k + 1]) : text[ends[k] + j] = ws[k + 1][j]
        BY <1>4, <2>2, <2>5, WordFacts DEF Heard
      <4> QED BY <2>1, <2>10, <4>1
    <3>3. pos + Len(rest) + 1 = ends[k] + (p + 1)
      <4>1. PICK e : e = ends[k]
        OBVIOUS
      <4>2. e \in Nat /\ p \in Nat /\ pos = e + p
        BY <2>10, <4>1
      <4>3. pos + 0 + 1 = e + (p + 1)
        BY <4>2
      <4> QED BY <2>2, <4>1, <4>3
    <3> QED BY <3>1, <3>2, <3>3
  <2>12. Alone(w)[p + 1] = After(Alone(w)[p], w[p + 1])
    BY <2>10, AloneSteps
  <2>13. After(Control(parser), Head(rest')) = Alone(w)[p + 1]
    BY <2>4, <2>7, <2>11, <2>12
  <2>14. pos < ends[k + 1] /\ (pos - ends[k]) + 1 = p + 1
    BY <2>9, <2>10
  <2>15. Reading(ws, ends, pos)'
    <3>1. /\ k <= Len(sent) /\ parser.state # "dead" /\ (k > 0 => sent[k].ends = "keep")
          /\ ends[k] <= pos
      BY <1>4 DEF Heard, Reading
    <3>2. ch' = Head(rest') /\ k # Len(ws) /\ pos <= ends[k + 1]
      BY <2>2, <2>5, <2>10, <2>14 DEF ch
    <3> QED BY <1>1, <2>1, <2>4, <2>13, <2>14, <3>1, <3>2 DEF Reading
  <2>16. WordsSent(ws, cut)'
    BY <1>1, <1>4 DEF Heard, WordsSent
  <2>17. (torn \/ Told(ws, ends, pos))'
    <3> SUFFICES ASSUME ~torn PROVE Told(ws, ends, pos)'
      BY <1>1
    <3>1. View = Texts(w)[p]
      BY <1>1, <1>4, <2>1, <2>5 DEF Heard, Told
    <3>2. Texts(w)[p + 1] = TextAfter(Alone(w)[p].state, Texts(w)[p], w[p + 1])
      <4>1. Texts(w)[p + 1] = TextAfter(Alone(w)[(p + 1) - 1].state,
                                        Texts(w)[(p + 1) - 1], w[p + 1])
        BY <2>10, TextsSteps
      <4> QED BY <2>10, <4>1
    <3>3. Alone(w)[p].state = parser.state
      BY <1>1, <2>7, StreamTypes
    <3>4. TextAfter(parser'.state, View', Head(rest')) = Texts(w)[p + 1]
      BY <1>1, <1>5, <2>4, <2>11, <3>1, <3>2, <3>3
    <3>5. ch' = Head(rest') /\ k # Len(ws) /\ completed' = k
      BY <1>1, <2>2, <2>5 DEF ch
    <3> QED BY <1>1, <2>1, <2>4, <2>14, <3>4, <3>5 DEF Told
  <2>18. ~Ended'
    BY <2>15 DEF Ended, Reading
  <2> QED BY <1>4, <2>4, <2>15, <2>16, <2>17, <2>18 DEF Heard, Words
<1>6. CASE ~Ended
  <2>1. PICK ws, ends, text, pos, cut : Heard(ws, ends, text, pos, cut)
    BY <1>1, <1>6 DEF Framing, Placed
  <2>2. Heard(ws, ends, text, pos, cut)' /\ ~Ended'
    BY <1>4, <2>1
  <2>3. (torn \/ Answered)'
    BY <1>1, <2>2, AnsweredKept
  <2> QED BY <1>1, <1>5, <2>2, <2>3 DEF Framing, Placed
<1> QED BY <1>3, <1>5, <1>6 DEF Framing

\* A connection that has read all that was sent, and is not within a body that the end
\* of the stream ends, was told nothing but of responses that are over.
LEMMA WaitingUntold ==
    ASSUME Framing, link = "open", ~parsing, rest = <<>>, inq = <<>>, ~Ended,
           parser.state # "body_identity_eof"
    PROVE  torn \/ View = NoText
<1> SUFFICES ASSUME ~torn PROVE View = NoText
  OBVIOUS
<1>1. PhaseInv
  BY DEF Framing
<1>2. PICK ws, ends, text, pos, cut : Heard(ws, ends, text, pos, cut)
  BY DEF Framing, Placed
<1> DEFINE k == completed
<1>3. PICK w, p : w = ws[k + 1] /\ p = pos - ends[k]
  OBVIOUS
<1>4. /\ k \in Nat /\ Len(ws) \in Nat /\ Len(sent) \in Nat /\ k <= Len(sent)
      /\ Len(sent) <= Len(ws) /\ Len(inq) = 0 /\ Len(rest) = 0 /\ Len(text) \in Nat
      /\ \A i \in 1 .. Len(sent) : sent[i] \in Replies
  BY <1>1, <1>2, StreamTypes, LenProperties DEF Heard, Words, Reading, WordsSent
<1>5. CASE k = Len(ws)
  BY <1>2, <1>5 DEF Heard, Told
<1>6. CASE k < Len(ws)
  <2>1. InWord(ws, ends, text, pos, w, p)
    BY <1>1, <1>2, <1>3, <1>6, PresentWord
  <2>2. Control(parser) = Alone(w)[p] /\ View = Texts(w)[p]
    BY <1>2, <1>3, <1>6 DEF Heard, Reading, Told
  <2>3. pos = Len(text)
    <3>1. pos \in Nat
      BY <2>1 DEF InWord
    <3>2. Len(rest) + Len(inq) = Len(text) - pos
      BY <1>2 DEF Heard, Unread
    <3> QED BY <1>4, <3>1, <3>2
  <2>4. p = Len(w) /\ Len(w) \in Nat \ {0}
    <3>1. /\ pos = ends[k] + p /\ ends[k + 1] = ends[k] + Len(w) /\ ends[k + 1] <= Len(text)
          /\ p \in 0 .. Len(w) /\ Len(w) \in Nat \ {0} /\ ends[k] \in Nat
      BY <2>1 DEF InWord
    <3> QED BY <2>3, <3>1
  <2>5. Alone(w)[p].state = parser.state /\ parser.state \in States
    BY <1>1, <2>2, StreamTypes
  <2>6. k + 1 > Len(sent)
    <3>1. SUFFICES ASSUME k + 1 <= Len(sent) PROVE FALSE
      BY <1>4
    <3>2. w = sent[k + 1].wire /\ sent[k + 1] \in Replies
      BY <1>2, <1>3, <1>4, <3>1 DEF Heard, WordsSent
    <3>3. IsMessage(sent[k + 1])
      BY <3>2, MessagesAssumption
    <3> QED BY <2>4, <2>5, <3>2, <3>3, NoSuchStates DEF IsMessage
  <2>7. Len(w) = 1
    BY <1>2, <1>3, <1>4, <1>6, <2>6 DEF Heard, WordsSent
  <2>8. /\ Texts(w)[0] = NoText /\ Alone(w)[0] = Begin
        /\ Texts(w)[1] = TextAfter(Alone(w)[0].state, Texts(w)[0], w[1])
    <3>1. 1 \in 1 .. Len(w) /\ 1 - 1 = 0 /\ Len(w) \in Nat
      BY <2>7
    <3> QED BY <3>1, TextsSteps, AloneSteps
  <2>9. Begin.state = StartState
    BY DEF Begin
  <2> QED BY <2>2, <2>4, <2>7, <2>8, <2>9, StartTellsNothing
<1> QED BY <1>4, <1>5, <1>6

\* The end of the stream ends a message only if that message says so.
LEMMA EofFramed ==
    ASSUME Framing, PhaseInv', ReadEof
    PROVE  Framing'
<1>1. /\ link = "open" /\ ~parsing /\ rest = <<>> /\ inq = <<>> /\ PhaseInv /\ Buffered
      /\ ~stopped /\ peer = "fin"
  BY DEF ReadEof, Returned, Framing
<1>5. Buffered' /\ marks = {}
  BY <1>1, EofBuffered
<1>2. CASE parser.state \notin EofIgnored \cup {"body_identity_eof"} /\ Fail
  <2>1. torn \/ View = NoText
    BY <1>1, <1>2, WaitingUntold DEF Ended
  <2> QED BY <1>2, <1>5, <2>1, FailFramed DEF Fail
<1>3. CASE UNCHANGED vars
  <2>1. UNCHANGED <<parser, rest, parsing, completed, got, stopped, netVars>>
        /\ UNCHANGED <<buf, marks, held>>
    BY <1>3 DEF vars, callVars, scriptVars, clockVars
  <2>2. View' = View
    BY <2>1 DEF View
  <2> QED BY <1>5, <2>1, <2>2, QuietFramed
<1>4. CASE parser.state = "body_identity_eof" /\ ResponseComplete(parser) /\ UNCHANGED callVars
  <2>1. PICK ws, ends, text, pos, cut : Heard(ws, ends, text, pos, cut)
    BY <1>1 DEF Framing, Placed, Ended
  <2> DEFINE k == completed
  <2>2. PICK w, p : w = ws[k + 1] /\ p = pos - ends[k]
    OBVIOUS
  <2>3. /\ k \in Nat /\ Len(inq) = 0 /\ Len(rest) = 0 /\ late \in BOOLEAN
        /\ text \in Seq(STRING) /\ Len(text) \in Nat /\ Len(ws) \in Nat
        /\ k <= Len(sent) /\ Len(sent) <= Len(ws) /\ Len(sent) \in Nat
    BY <1>1, <2>1, StreamTypes, LenProperties DEF Heard, Words, Reading, WordsSent
  <2>4. Control(parser).state = "body_identity_eof"
    BY <1>1, <1>4, StreamTypes
  <2>5. k < Len(ws)
    <3>1. SUFFICES ASSUME k = Len(ws) PROVE FALSE
      BY <2>3
    <3> QED BY <2>1, <2>4, <3>1 DEF Heard, Reading, Begin, StartState
  <2>6. InWord(ws, ends, text, pos, w, p)
    BY <1>1, <2>1, <2>2, <2>5, PresentWord
  <2>7. Control(parser) = Alone(w)[p]
    BY <1>1, <2>1, <2>2, <2>5 DEF Heard, Reading
  <2>8. pos = Len(text)
    <3>1. pos \in Nat
      BY <2>6 DEF InWord
    <3>2. Len(rest) + Len(inq) = Len(text) - pos
      BY <2>1 DEF Heard, Unread
    <3> QED BY <2>3, <3>1, <3>2
  <2>9. p = Len(w) /\ p \in 1 .. Len(w) /\ ~(k + 1 < Len(ws))
    <3>1. /\ pos = ends[k] + p /\ ends[k + 1] = ends[k] + Len(w) /\ ends[k + 1] <= Len(text)
          /\ p \in 0 .. Len(w) /\ Len(w) \in Nat \ {0} /\ ends[k] \in Nat
          /\ (k + 1 < Len(ws)) <=> (ends[k + 1] < Len(text))
      BY <2>6 DEF InWord
    <3> QED BY <2>8, <3>1
  <2>10. /\ k + 1 <= Len(sent) /\ sent[k + 1].ends = "eof"
         /\ sent[k + 1] \in Replies /\ w = sent[k + 1].wire
    BY <1>1, <2>1, <2>2, <2>4, <2>5, <2>7, <2>9, WordEnds
  <2>11. k + 1 = Len(sent)
    BY <2>3, <2>9, <2>10
  <2>12. ~HttpShouldKeepAlive(parser)
    BY <1>1, <1>4 DEF PhaseInv, HttpShouldKeepAlive
  <2>13. /\ completed' = k + 1 /\ stopped' = (stopped \/ late)
         /\ \/ late /\ parser' = parser /\ UNCHANGED netVars
            \/ ~late /\ Reconnect(FALSE)
    BY <1>4, <2>12 DEF ResponseComplete
  <2>16. torn' = torn /\ sent' = sent /\ completed' = k + 1 /\ k + 1 \in 1 .. Len(sent)
    BY <2>3, <2>10, <2>13 DEF netVars, Reconnect
  <2>17. torn \/ (View' = NoText /\ got' = Append(got, Expected(sent[k + 1])))
    <3> SUFFICES ASSUME ~torn
                 PROVE  View' = NoText /\ got' = Append(got, Expected(sent[k + 1]))
      OBVIOUS
    <3>1. View = Texts(sent[k + 1].wire)[Len(sent[k + 1].wire)]
      BY <1>1, <2>1, <2>2, <2>5, <2>9, <2>10 DEF Heard, Told
    <3>2. parser.status_code = Alone(sent[k + 1].wire)[Len(sent[k + 1].wire)].status_code
      <4>1. parser \in Parsers /\ "body_identity_eof" \in Settled
        BY <1>1, StreamTypes, StatesListed
      <4>2. Control(parser).status_code = parser.status_code
        BY <1>4, <4>1, ControlFields
      <4> QED BY <2>7, <2>9, <2>10, <4>2
    <3>3. marks' = {} /\ held' = <<>> /\ ResponseComplete(parser)
      BY <1>1, <1>4, <1>5 DEF callVars, Buffered
    <3> HIDE DEF k
    <3> QED BY <1>1, <1>5, <2>10, <3>1, <3>2, <3>3, ReplyTold DEF k
  <2>18. (torn \/ Answered)'
    BY <2>16, <2>17, AnsweredMore
  <2>14. CASE late
    <3>1. UNCHANGED <<link, inq, peer, sent, rest, parsing>> /\ parser' = parser
      BY <1>4, <2>13, <2>14 DEF netVars, callVars
    <3>2. /\ completed' = Len(sent') /\ completed' > 0 /\ sent'[completed'].ends = "eof"
          /\ peer' # "up" /\ parser'.state = "body_identity_eof" /\ inq' = <<>>
      BY <1>1, <1>4, <2>3, <2>10, <2>11, <2>13, <3>1
    <3>3. Returned' /\ stopped'
      BY <1>1, <2>13, <2>14, <3>1 DEF Returned
    <3>4. Ended'
      BY <3>2, <3>3 DEF Ended
    <3> QED BY <1>1, <1>5, <2>18, <3>1, <3>4 DEF Framing, Placed
  <2>15. CASE ~late
    <3>1. Placed'
      BY <2>10, <2>13, <2>15, Redialled
    <3> QED BY <1>5, <2>18, <3>1 DEF Framing
  <2> QED BY <2>3, <2>14, <2>15
<1> QED BY <1>2, <1>3, <1>4 DEF ReadEof

-----------------------------------------------------------------------------------
(* The server sends another word.                                                    *)

Longer(ws, ends, text, word) ==
    [i \in 0 .. (Len(ws) + 1) |-> IF i <= Len(ws) THEN ends[i] ELSE Len(text) + Len(word)]

LEMMA WordsGrow ==
    ASSUME NEW ws, NEW ends, NEW text, Words(ws, ends, text),
           NEW word \in Seq(STRING), word # <<>>
    PROVE  Words(Append(ws, word), Longer(ws, ends, text, word), text \o word)
<1> DEFINE m == Len(ws)  t == Len(text)  l == Len(word)
           ws2 == Append(ws, word)  ends2 == Longer(ws, ends, text, word)
           text2 == text \o word
<1>1. m \in Nat /\ t \in Nat /\ l \in Nat \ {0}
  BY LenProperties, EmptySeq DEF Words
<1>2. /\ ws2 \in Seq(Seq(STRING)) /\ Len(ws2) = m + 1 /\ ws2[m + 1] = word
      /\ \A i \in 1 .. m : ws2[i] = ws[i]
  BY AppendProperties DEF Words
<1>3. /\ text2 \in Seq(STRING) /\ Len(text2) = t + l
      /\ \A i \in 1 .. t + l : text2[i] = IF i <= t THEN text[i] ELSE word[i - t]
  BY ConcatProperties DEF Words
<1>4. /\ ends2 = [i \in 0 .. (m + 1) |-> IF i <= m THEN ends[i] ELSE t + l]
      /\ ends \in [0 .. m -> Nat] /\ ends[0] = 0 /\ ends[m] = t
  BY DEF Longer, Words
<1>5. \A i \in 1 .. m : /\ ws[i] # <<>> /\ ends[i] = ends[i - 1] + Len(ws[i])
                        /\ ends[i] <= t
                        /\ \A j \in 1 .. Len(ws[i]) : text[ends[i - 1] + j] = ws[i][j]
  BY DEF Words
<1>6. \A i \in 1 .. m : Len(ws[i]) \in Nat
  BY ElementOfSeq, LenProperties DEF Words
<1> HIDE DEF m, t, l, ws2, ends2, text2
<1>7. /\ ends2 \in [0 .. (m + 1) -> Nat] /\ ends2[m + 1] = t + l
      /\ \A i \in 0 .. m : ends2[i] = ends[i] /\ ends[i] \in Nat
  BY <1>1, <1>4
<1>8. ends2[0] = 0 /\ ends2[m] = t
  BY <1>1, <1>4, <1>7
<1>9. ASSUME NEW i \in 1 .. (m + 1)
      PROVE  /\ ws2[i] # <<>> /\ ends2[i] = ends2[i - 1] + Len(ws2[i])
             /\ ends2[i] <= t + l /\ (i < m + 1 => ends2[i] < t + l)
             /\ \A j \in 1 .. Len(ws2[i]) : text2[ends2[i - 1] + j] = ws2[i][j]
  <2>1. CASE i = m + 1
    <3>1. ws2[i] = word /\ i - 1 = m /\ ends2[i - 1] = t /\ ends2[i] = t + l
          /\ Len(ws2[i]) = l
      BY <1>1, <1>2, <1>7, <1>8, <2>1 DEF l
    <3>2. \A j \in 1 .. l : t + j \in 1 .. t + l /\ ~(t + j <= t) /\ (t + j) - t = j
      BY <1>1
    <3>3. \A j \in 1 .. l : text2[t + j] = word[j]
      BY <1>3, <3>2
    <3> QED BY <1>1, <2>1, <3>1, <3>3
  <2>2. CASE i # m + 1
    <3>1. i \in 1 .. m /\ i \in 0 .. m /\ i - 1 \in 0 .. m
      BY <1>1, <2>2
    <3>2. ws2[i] = ws[i] /\ ends2[i] = ends[i] /\ ends2[i - 1] = ends[i - 1]
          /\ ends[i] \in Nat /\ ends[i - 1] \in Nat /\ Len(ws[i]) \in Nat
      BY <1>2, <1>6, <1>7, <3>1
    <3>3. /\ ws[i] # <<>> /\ ends[i] = ends[i - 1] + Len(ws[i]) /\ ends[i] <= t
          /\ \A j \in 1 .. Len(ws[i]) : text[ends[i - 1] + j] = ws[i][j]
      BY <1>5, <3>1
    <3>4. ends[i] < t + l /\ ends[i] <= t + l
      BY <1>1, <3>2, <3>3
    <3>5. ASSUME NEW j \in 1 .. Len(ws[i])
          PROVE  text2[ends[i - 1] + j] = ws[i][j]
      <4> DEFINE e == ends[i - 1]  d == Len(ws[i])
      <4>1. e \in Nat /\ d \in Nat /\ j \in 1 .. d /\ e + d <= t
        BY <3>2, <3>3
      <4> HIDE DEF e, d
      <4>2. e + j \in 1 .. t + l /\ e + j <= t
        BY <1>1, <4>1
      <4>3. text2[e + j] = text[e + j]
        BY <1>3, <4>2
      <4> QED BY <3>3, <4>3 DEF e
    <3> QED BY <3>2, <3>3, <3>4, <3>5
  <2> QED BY <2>1, <2>2
<1>10. Words(ws2, ends2, text2)
  BY <1>2, <1>3, <1>7, <1>8, <1>9 DEF Words
<1> QED BY <1>10 DEF ws2, ends2, text2

LEMMA UnreadGrows ==
    ASSUME NEW text \in Seq(STRING), NEW pos, Unread(text, pos), rest \in Seq(STRING),
           inq \in Seq(STRING), NEW word \in Seq(STRING), rest' = rest, inq' = inq \o word
    PROVE  Unread(text \o word, pos)'
<1> DEFINE t == Len(text)  l == Len(word)  q == Len(inq)  r == Len(rest)
           text2 == text \o word  inq2 == inq \o word
<1>1. t \in Nat /\ l \in Nat /\ q \in Nat /\ r \in Nat
  BY LenProperties
<1>2. /\ Len(text2) = t + l
      /\ \A i \in 1 .. t + l : text2[i] = IF i <= t THEN text[i] ELSE word[i - t]
  BY ConcatProperties
<1>3. /\ Len(inq2) = q + l
      /\ \A i \in 1 .. q + l : inq2[i] = IF i <= q THEN inq[i] ELSE word[i - q]
  BY ConcatProperties
<1>4. /\ pos \in 0 .. t /\ r + q = t - pos
      /\ \A i \in 1 .. r : rest[i] = text[pos + i]
      /\ \A i \in 1 .. q : inq[i] = text[pos + r + i]
  BY DEF Unread
<1> HIDE DEF t, l, q, r, text2, inq2
<1>5. pos \in Nat /\ pos + r + q = t /\ pos \in 0 .. t + l /\ r + (q + l) = (t + l) - pos
  <2>1. pos \in Nat /\ pos <= t /\ r + q = t - pos
    BY <1>1, <1>4
  <2> QED BY <1>1, <2>1
<1>6. ASSUME NEW i \in 1 .. r PROVE rest[i] = text2[pos + i]
  <2>1. pos + i \in 1 .. t + l /\ pos + i <= t
    BY <1>1, <1>5
  <2> QED BY <1>2, <1>4, <2>1
<1>7. ASSUME NEW i \in 1 .. q + l PROVE inq2[i] = text2[pos + r + i]
  <2>1. pos + r + i \in 1 .. t + l
    BY <1>1, <1>5
  <2>2. CASE i <= q
    <3>1. i \in 1 .. q /\ pos + r + i <= t
      BY <1>1, <1>5, <2>2
    <3> QED BY <1>2, <1>3, <1>4, <2>1, <2>2, <3>1
  <2>3. CASE ~(i <= q)
    <3>1. ~(pos + r + i <= t) /\ (pos + r + i) - t = i - q
      BY <1>1, <1>5, <2>3
    <3> QED BY <1>2, <1>3, <2>1, <2>3, <3>1
  <2> QED BY <2>2, <2>3
<1>8. rest' = rest /\ inq' = inq2
  BY DEF inq2
<1>9. Unread(text2, pos)'
  BY <1>2, <1>3, <1>5, <1>6, <1>7, <1>8 DEF Unread, r
<1> QED BY <1>9 DEF text2

\* For the parser it changes nothing but that there is something to come.
LEMMA HeardGrows ==
    ASSUME PhaseInv, NEW ws, NEW ends, NEW text, NEW pos, NEW cut, NEW cut2,
           Heard(ws, ends, text, pos, cut), NEW word \in Seq(STRING), word # <<>>,
           UNCHANGED <<parser, rest, parsing, completed>>, inq' = inq \o word,
           View' = View, torn => torn',
           \/ sent' = sent \/ \E r \in Replies : sent' = Append(sent, r),
           WordsSent(Append(ws, word), cut2)'
    PROVE  \E ws2, ends2, text2, pos2, cut3 : Heard(ws2, ends2, text2, pos2, cut3)'
<1> DEFINE k == completed  m == Len(ws)
           ws2 == Append(ws, word)  ends2 == Longer(ws, ends, text, word)
           text2 == text \o word
<1>1. /\ rest \in Seq(STRING) /\ inq \in Seq(STRING) /\ Len(rest) \in Nat
      /\ (rest = <<>> <=> Len(rest) = 0) /\ k \in Nat /\ m \in Nat
      /\ text \in Seq(STRING) /\ Len(text) \in Nat /\ Len(inq) \in Nat
      /\ sent \in Seq(Replies) /\ Len(sent) \in Nat
  BY StreamTypes, LenProperties DEF Heard, Words
<1>2. Words(ws2, ends2, text2) /\ Unread(text2, pos)'
  BY <1>1, WordsGrow, UnreadGrows DEF Heard
<1>3. /\ Len(ws2) = m + 1 /\ ws2[m + 1] = word /\ \A i \in 1 .. m : ws2[i] = ws[i]
  BY AppendProperties DEF Heard, Words
<1>4. \A i \in 0 .. m : ends2[i] = ends[i]
  BY <1>1 DEF Longer
<1>5. Len(sent') \in Nat /\ Len(sent) <= Len(sent') /\ \A i \in 1 .. Len(sent) : sent'[i] = sent[i]
  <2>1. CASE sent' = sent
    BY <1>1, <2>1
  <2>2. ASSUME NEW r \in Replies, sent' = Append(sent, r)
        PROVE  /\ Len(sent') = Len(sent) + 1
               /\ \A i \in 1 .. Len(sent) : sent'[i] = sent[i]
    BY <1>1, <2>2, AppendProperties
  <2> QED BY <1>1, <2>1, <2>2
<1> HIDE DEF ws2, ends2, text2
<1>6. /\ k <= Len(sent) /\ parser.state # "dead" /\ (k > 0 => sent[k].ends = "keep")
      /\ ends[k] <= pos /\ Len(sent) <= m /\ k <= m
  BY <1>1 DEF Heard, Reading, WordsSent
<1>7. k <= Len(sent') /\ (k > 0 => sent'[k].ends = "keep") /\ ends2[k] = ends[k]
  <2>1. k \in 0 .. m /\ k <= Len(sent') /\ (k > 0 => k \in 1 .. Len(sent))
    BY <1>1, <1>5, <1>6
  <2> QED BY <1>4, <1>5, <1>6, <2>1
<1>8. k < Len(ws2) /\ ch' = ch
  BY <1>1, <1>3, <1>6 DEF ch
<1>9. CASE k < m
  <2>1. ws2[k + 1] = ws[k + 1] /\ ends2[k + 1] = ends[k + 1]
    <3>1. k + 1 \in 1 .. m /\ k + 1 \in 0 .. m
      BY <1>1, <1>9
    <3> QED BY <1>3, <1>4, <3>1
  <2>2. Reading(ws2, ends2, pos)'
    BY <1>6, <1>7, <1>8, <1>9, <2>1 DEF Heard, Reading
  <2>3. (torn \/ Told(ws2, ends2, pos))'
    <3>1. k # m /\ k # Len(ws2)
      BY <1>1, <1>3, <1>9
    <3> QED BY <1>7, <1>8, <1>9, <2>1, <3>1 DEF Heard, Told
  <2> QED BY <1>2, <2>2, <2>3 DEF Heard, Words, ws2
<1>10. CASE k = m
  <2>1. pos = ends[k] /\ Control(parser) = Begin /\ pos = Len(text) /\ pos \in Nat
    BY <1>1, <1>10 DEF Heard, Reading, Words
  <2>2. rest = <<>>
    <3>1. Len(rest) + Len(inq) = Len(text) - pos
      BY DEF Heard, Unread
    <3> QED BY <1>1, <2>1, <3>1
  <2>3. ws2[k + 1] = word /\ Len(word) \in Nat
    BY <1>3, <1>10, LenProperties
  <2>4. Alone(word)[0] = Begin /\ pos - ends2[k] = 0
    BY <1>7, <2>1, <2>3, AloneSteps
  <2>5. ends2[k + 1] = Len(text) + Len(word) /\ pos <= ends2[k + 1]
    BY <1>1, <1>10, <2>1, <2>3 DEF Longer, ends2
  <2>6. Reading(ws2, ends2, pos)'
    BY <1>6, <1>7, <1>8, <2>1, <2>2, <2>3, <2>4, <2>5 DEF Reading
  <2>7. (torn \/ Told(ws2, ends2, pos))'
    <3>1. torn' \/ View' = NoText
      BY <1>10 DEF Heard, Told
    <3>2. Texts(word)[0] = NoText
      BY <2>3, TextsSteps
    <3>3. k # Len(ws2)
      BY <1>1, <1>3, <1>10
    <3> QED BY <1>7, <1>8, <2>2, <2>3, <2>4, <3>1, <3>2, <3>3 DEF Told
  <2> QED BY <1>2, <2>6, <2>7 DEF Heard, Words, ws2
<1> QED BY <1>1, <1>6, <1>9, <1>10

LEMMA WordsAdded ==
    ASSUME PhaseInv, NEW ws, NEW cut, ws \in Seq(Seq(STRING)), WordsSent(ws, cut),
           NEW word \in Seq(STRING),
           \/ \E r \in Replies : /\ peer = "up" /\ word = r.wire /\ sent' = Append(sent, r)
                                 /\ peer' = "fin" \/ (peer' = "up" /\ r.ends = "keep")
           \/ \E r \in Torn : /\ peer = "up" /\ word \in Remains(r) /\ sent' = Append(sent, r)
                              /\ torn' /\ peer' = "fin"
           \/ /\ peer = "up" \/ (sent # <<>> /\ sent[Len(sent)].ends = "close")
              /\ "junk" \in FaultKinds /\ word \in Garbage /\ sent' = sent
              /\ torn' = (torn \/ Len(word) > 1) /\ word # <<>> /\ peer' = "fin"
    PROVE  \E cut2 : WordsSent(Append(ws, word), cut2)'
<1> DEFINE ws2 == Append(ws, word)  m == Len(ws)  n == Len(sent)
<1>1. /\ sent \in Seq(Replies) /\ n \in Nat /\ m \in Nat
      /\ (sent = <<>> <=> n = 0) /\ \A i \in 1 .. n : sent[i] \in Replies
  BY StreamTypes, LenProperties
<1>2. Len(ws2) = m + 1 /\ ws2[m + 1] = word /\ \A i \in 1 .. m : ws2[i] = ws[i]
  BY AppendProperties
<1> HIDE DEF ws2
<1>3. /\ n <= m
      /\ \A i \in 1 .. n : /\ i < n => sent[i].ends = "keep"
                           /\ ~(cut /\ i = n) => ws[i] = sent[i].wire
      /\ \A i \in 1 .. m : i > n => ws[i] \in Garbage
  BY DEF WordsSent
<1>4. peer = "up" => /\ ~cut /\ m = n /\ \A i \in 1 .. n : sent[i].ends = "keep"
  BY DEF WordsSent
<1>9. ~torn => \A i \in 1 .. m : i > n => Len(ws[i]) = 1
  BY DEF WordsSent
<1>5. ASSUME peer = "up", NEW r \in Replies, sent' = Append(sent, r)
      PROVE  /\ Len(sent') = n + 1 /\ sent' # <<>> /\ Len(ws2) = Len(sent')
             /\ sent'[n + 1] = r /\ Len(sent') \in Nat
             /\ \A i \in 1 .. Len(sent') :
                   /\ i < Len(sent') => sent'[i].ends = "keep" /\ ws2[i] = sent'[i].wire
                   /\ i = Len(sent') => sent'[i] = r /\ ws2[i] = word
  <2>1. /\ Len(sent') = n + 1 /\ sent' # <<>> /\ sent'[n + 1] = r
        /\ \A i \in 1 .. n : sent'[i] = sent[i]
    <3> DEFINE more == Append(sent, r)
    <3>1. /\ Len(more) = n + 1 /\ more # <<>> /\ more[n + 1] = r
          /\ \A i \in 1 .. n : more[i] = sent[i]
      BY <1>1, AppendProperties
    <3>2. sent' = more
      BY <1>5
    <3> HIDE DEF more, n
    <3> QED BY <3>1, <3>2
  <2>2. ASSUME NEW i \in 1 .. n + 1, i < n + 1
        PROVE  sent'[i].ends = "keep" /\ ws2[i] = sent'[i].wire
    <3>1. i \in 1 .. n /\ i \in 1 .. m
      BY <1>1, <1>4, <1>5, <2>2
    <3> QED BY <1>2, <1>3, <1>4, <1>5, <2>1, <3>1
  <2> QED BY <1>1, <1>2, <1>4, <1>5, <2>1, <2>2
<1>6. ASSUME NEW r \in Replies, peer = "up", word = r.wire, sent' = Append(sent, r),
             peer' = "fin" \/ (peer' = "up" /\ r.ends = "keep")
      PROVE  WordsSent(ws2, FALSE)'
  BY <1>5, <1>6 DEF WordsSent
<1>7. ASSUME NEW r \in Torn, peer = "up", word \in Remains(r), sent' = Append(sent, r),
             torn', peer' = "fin"
      PROVE  WordsSent(ws2, TRUE)'
  <2>1. r \in Replies
    BY RepliesAssumption
  <2>2. /\ Len(sent') = n + 1 /\ sent' # <<>> /\ Len(ws2) = Len(sent')
        /\ Len(sent') \in Nat
        /\ \A i \in 1 .. Len(sent') :
              /\ i < Len(sent') => sent'[i].ends = "keep" /\ ws2[i] = sent'[i].wire
              /\ i = Len(sent') => sent'[i] = r /\ ws2[i] = word
    BY <1>5, <1>7, <2>1
  <2>3. Len(sent') \in 1 .. Len(sent')
    BY <1>1, <2>2
  <2>4. /\ Len(sent') <= Len(ws2) /\ ~(Len(ws2) > Len(sent'))
        /\ \A i \in 1 .. Len(ws2) : ~(i > Len(sent'))
        /\ ~(Len(ws2) > Len(sent') + 1)
    BY <2>2
  <2>5. /\ sent'[Len(sent')] \in Torn /\ ws2[Len(sent')] \in Remains(sent'[Len(sent')])
    BY <1>7, <2>2, <2>3
  <2>6. ASSUME NEW i \in 1 .. Len(sent')
        PROVE  /\ i < Len(sent') => sent'[i].ends = "keep"
               /\ ~(TRUE /\ i = Len(sent')) => ws2[i] = sent'[i].wire
    <3>1. i < Len(sent') \/ i = Len(sent')
      BY <2>2
    <3> QED BY <2>2, <3>1
  <2>7. /\ TRUE \in BOOLEAN /\ peer' # "rst" /\ ~(peer' # "fin")
    BY <1>7
  <2>8. /\ \A i \in 1 .. Len(ws2) : i > Len(sent') => ws2[i] \in Garbage
        /\ ~torn' => \A i \in 1 .. Len(ws2) : i > Len(sent') => Len(ws2[i]) = 1
    BY <2>4
  <2>9. /\ torn' /\ sent' # <<>> /\ Len(ws2) = Len(sent')
    BY <1>7, <2>2
  <2> HIDE DEF n
  <2> QED BY <2>4, <2>5, <2>6, <2>7, <2>8, <2>9 DEF WordsSent
<1>8. ASSUME peer = "up" \/ (sent # <<>> /\ sent[n].ends = "close"),
             "junk" \in FaultKinds, word \in Garbage, sent' = sent, peer' = "fin",
             torn' = (torn \/ Len(word) > 1), word # <<>>
      PROVE  WordsSent(ws2, FALSE)'
  <2>1. ~cut
    <3>1. CASE peer = "up"
      BY <1>4, <3>1
    <3>2. CASE sent # <<>> /\ sent[n].ends = "close" /\ cut
      <4>1. sent[n] \in Torn
        BY <3>2 DEF WordsSent
      <4> QED BY <1>8, <3>2, <4>1, MessagesAssumption
    <3> QED BY <1>8, <3>1, <3>2
  <2>2. \A i \in 1 .. n : ws2[i] = sent[i].wire
    <3>1. \A i \in 1 .. n : i \in 1 .. m
      BY <1>1, <1>3
    <3>2. \A i \in 1 .. n : ws[i] = sent[i].wire
      BY <1>3, <2>1
    <3> QED BY <1>2, <3>1, <3>2
  <2>3. ASSUME NEW i \in 1 .. m + 1, i > n
        PROVE  ws2[i] \in Garbage
    <3>1. CASE i = m + 1
      BY <1>2, <1>8, <3>1
    <3>2. CASE i # m + 1
      <4>1. i \in 1 .. m
        BY <1>1, <3>2
      <4> QED BY <1>2, <1>3, <2>3, <4>1
    <3> QED BY <3>1, <3>2
  <2>4. sent # <<>> => sent[n].ends # "eof"
    <3>1. n # 0 => n \in 1 .. n
      BY <1>1
    <3> QED BY <1>1, <1>4, <1>8, <3>1
  <2>5. m + 1 > n + 1 => sent # <<>> /\ sent[n].ends = "close"
    BY <1>1, <1>4, <1>8
  <2>6. n <= m + 1
    BY <1>1, <1>3
  <2>7. ASSUME ~torn', NEW i \in 1 .. m + 1, i > n
        PROVE  Len(ws2[i]) = 1
    <3>1. ~torn /\ ~(Len(word) > 1)
      BY <1>8, <2>7
    <3>2. CASE i = m + 1
      <4> PICK d : d = Len(word)
        OBVIOUS
      <4>1. d \in Nat \ {0}
        BY <1>8, EmptySeq
      <4>3. ~(d > 1)
        BY <3>1
      <4>4. d = 1
        BY <4>1, <4>3
      <4>2. Len(word) = 1
        BY <4>4
      <4> QED BY <1>2, <3>2, <4>2
    <3>3. CASE i # m + 1
      <4>1. i \in 1 .. m
        BY <1>1, <3>3
      <4> QED BY <1>2, <1>9, <2>7, <3>1, <4>1
    <3> QED BY <3>2, <3>3
  <2> QED BY <1>2, <1>3, <1>8, <2>2, <2>3, <2>4, <2>5, <2>6, <2>7 DEF WordsSent
<1> QED BY <1>6, <1>7, <1>8 DEF ws2

LEMMA ThreeParts ==
    ASSUME NEW a \in Seq(STRING), NEW b \in Seq(STRING), NEW c \in Seq(STRING)
    PROVE  (a \o b) \o c = a \o (b \o c)
  BY ConcatAssociative

LEMMA ServerWord ==
    ASSUME PhaseInv, Send \/ SendCut \/ SendGarbage, NEW ws, NEW cut,
           ws \in Seq(Seq(STRING)), WordsSent(ws, cut)
    PROVE  \E word \in Seq(STRING) : \E cut2 :
             /\ word # <<>> /\ inq' = inq \o word
             /\ sent' = sent \/ \E r \in Replies : sent' = Append(sent, r)
             /\ torn => torn'
             /\ WordsSent(Append(ws, word), cut2)'
<1>1. CASE Send
  <2>1. PICK r \in Replies : /\ peer = "up" /\ inq' = inq \o r.wire /\ sent' = Append(sent, r)
                             /\ peer' = IF r.ends = "keep" THEN "up" ELSE "fin"
                             /\ torn' = torn
    BY <1>1 DEF Send, Up
  <2>2. /\ r.wire \in Seq(STRING) /\ r.wire # <<>>
        /\ peer' = "fin" \/ (peer' = "up" /\ r.ends = "keep")
    BY <2>1, RepliesAssumption
  <2>3. \E cut2 : WordsSent(Append(ws, r.wire), cut2)'
    BY <2>1, <2>2, WordsAdded
  <2> QED BY <2>1, <2>2, <2>3
<1>2. CASE SendCut
  <2>1. PICK r \in Torn, tail \in Spoilt :
           /\ \E n \in 1 .. (Len(r.wire) - 1) : inq' = inq \o SubSeq(r.wire, 1, n) \o tail
           /\ peer = "up" /\ sent' = Append(sent, r) /\ torn' = TRUE /\ peer' = "fin"
    BY <1>2 DEF SendCut, Up
  <2>9. PICK n \in 1 .. (Len(r.wire) - 1) : inq' = inq \o SubSeq(r.wire, 1, n) \o tail
    BY <2>1
  <2> DEFINE begun == SubSeq(r.wire, 1, n)  word == begun \o tail
  <2>2. r \in Replies /\ r.wire \in Seq(STRING) /\ tail \in Seq(STRING)
    BY RepliesAssumption
  <2>3. Len(r.wire) \in Nat /\ n \in Nat /\ 1 <= n /\ n <= Len(r.wire)
    BY <2>2, LenProperties
  <2>4. \A i \in 1 .. n : r.wire[i] \in STRING
    BY <2>2, <2>3, ElementOfSeq
  <2>5. begun \in Seq(STRING) /\ Len(begun) = n
    BY <2>3, <2>4, SubSeqProperties
  <2>6. inq' = inq \o word /\ word \in Seq(STRING) /\ word # <<>>
    <3>1. inq \in Seq(STRING)
      BY StreamTypes
    <3>2. word \in Seq(STRING) /\ Len(word) = n + Len(tail) /\ Len(tail) \in Nat
      BY <2>2, <2>5, ConcatProperties, LenProperties
    <3>3. word # <<>>
      BY <2>3, <3>2, EmptySeq
    <3>4. inq' = (inq \o begun) \o tail
      BY <2>9
    <3> HIDE DEF begun
    <3>5. (inq \o begun) \o tail = inq \o (begun \o tail)
      <4>1. begun \in Seq(STRING) /\ tail \in Seq(STRING) /\ inq \in Seq(STRING)
        BY <2>2, <2>5, <3>1
      <4> QED BY <4>1, ThreeParts
    <3> QED BY <3>2, <3>3, <3>4, <3>5
  <2>7. word \in Remains(r)
    BY DEF Remains
  <2> HIDE DEF word
  <2>8. \E cut2 : WordsSent(Append(ws, word), cut2)'
    BY <2>1, <2>6, <2>7, WordsAdded
  <2> QED BY <2>1, <2>2, <2>6, <2>8
<1>3. CASE SendGarbage
  <2>1. PICK g \in Garbage :
           /\ "junk" \in FaultKinds /\ inq' = inq \o g /\ sent' = sent
           /\ peer = "up" \/ (sent # <<>> /\ Last(sent).ends = "close")
           /\ peer' = "fin" /\ torn' = (torn \/ Len(g) > 1)
    BY <1>3 DEF SendGarbage, Fault
  <2>2. g \in Seq(STRING) /\ g # <<>>
    BY RepliesAssumption
  <2>3. peer = "up" \/ (sent # <<>> /\ sent[Len(sent)].ends = "close")
    BY <2>1 DEF Last
  <2>4. torn => torn'
    BY <2>1
  <2>5. \E cut2 : WordsSent(Append(ws, g), cut2)'
    BY <2>1, <2>2, <2>3, <2>4, WordsAdded
  <2> QED BY <2>1, <2>2, <2>5
<1> QED BY <1>1, <1>2, <1>3

LEMMA ServerFramed ==
    ASSUME Framing, PhaseInv', Server
    PROVE  Framing'
<1>1. /\ link = "open" /\ PhaseInv /\ Buffered
      /\ UNCHANGED <<parser, rest, parsing, completed, got, stopped, link>>
      /\ UNCHANGED <<marks, held, buf>>
  BY DEF Server, Send, SendCut, HangUp, SendGarbage, Up, Client, callVars, scriptVars,
         clockVars, Framing
<1>4. Buffered' /\ View' = View
  BY <1>1, QuietBuffered
<1>5. torn => torn'
  BY DEF Server, Send, SendCut, HangUp, SendGarbage
<1>6. sent' = sent \/ \E r \in Replies : sent' = Append(sent, r)
  BY RepliesAssumption DEF Server, Send, SendCut, HangUp, SendGarbage
<1>7. torn' \/ View' = NoText
        \/ ~(link' = "connecting" \/ Ended \/ (~parsing' /\ rest' # <<>>))
  BY <1>1, <1>4, <1>5 DEF Framing, Answered
<1>2. CASE Ended
  <2>1. SendGarbage
    BY <1>2 DEF Server, Ended, Send, SendCut, HangUp, Up
  <2>2. UNCHANGED sent /\ peer' # "up" /\ (peer = "up" \/ sent[Len(sent)].ends = "close")
    BY <2>1 DEF SendGarbage, Last
  <2>3. parser.state = "dead"
    BY <1>2, <2>2 DEF Ended
  <2>4. Ended'
    BY <1>1, <1>2, <2>2, <2>3 DEF Ended
  <2>5. (torn \/ Answered)'
    BY <1>1, <1>2, <1>5, <1>6, <1>7, AnsweredKept
  <2> QED BY <1>1, <1>4, <2>4, <2>5 DEF Framing, Placed
<1>3. ASSUME NEW ws, NEW ends, NEW text, NEW pos, NEW cut, Heard(ws, ends, text, pos, cut)
      PROVE  \E ws2, ends2, text2, pos2, cut2 : Heard(ws2, ends2, text2, pos2, cut2)'
  <2>1. CASE HangUp
    <3>1. UNCHANGED <<inq, sent, torn>> /\ peer = "up" /\ peer' \in {"fin", "rst"}
          /\ inq = <<>>
      BY <2>1 DEF HangUp, Up
    <3>2. Unread(text, pos)'
      BY <1>1, <1>3, <3>1 DEF Heard, Unread
    <3>3. WordsSent(ws, cut)'
      BY <1>3, <3>1 DEF Heard, WordsSent
    <3>4. Reading(ws, ends, pos)'
      BY <1>1, <1>3, <3>1 DEF Heard, Reading, ch
    <3>5. (torn \/ Told(ws, ends, pos))'
      BY <1>1, <1>3, <1>4, <3>1 DEF Heard, Told, ch
    <3> QED BY <1>3, <3>2, <3>3, <3>4, <3>5 DEF Heard, Words
  <2>2. CASE Send \/ SendCut \/ SendGarbage
    <3>1. PICK word \in Seq(STRING) : \E cut2 :
             /\ word # <<>> /\ inq' = inq \o word
             /\ sent' = sent \/ \E r \in Replies : sent' = Append(sent, r)
             /\ torn => torn'
             /\ WordsSent(Append(ws, word), cut2)'
      BY <1>1, <1>3, <2>2, ServerWord DEF Heard, Words
    <3> QED BY <1>1, <1>3, <1>4, <3>1, HeardGrows
  <2> QED BY <2>1, <2>2 DEF Server
<1>8. CASE ~Ended
  <2>1. \E ws, ends, text, pos, cut : Heard(ws, ends, text, pos, cut)
    BY <1>1, <1>8 DEF Framing, Placed
  <2>2. PICK ws, ends, text, pos, cut : Heard(ws, ends, text, pos, cut)'
    BY <1>3, <2>1
  <2>3. ~Ended'
    BY <2>2 DEF Heard, Reading, Ended
  <2>4. (torn \/ Answered)'
    BY <1>1, <1>5, <1>6, <1>7, <2>3, AnsweredKept
  <2> QED BY <1>1, <1>4, <2>2, <2>4 DEF Framing, Placed
<1> QED BY <1>2, <1>8

-----------------------------------------------------------------------------------
(* Every step.                                                                       *)

LEMMA ConnectFramed ==
    ASSUME Framing, PhaseInv', SocketConnected
    PROVE  Framing'
<1> DEFINE none == [i \in {0} |-> 0]
<1>1. /\ link = "connecting" /\ ~parsing /\ rest = <<>> /\ inq = <<>> /\ peer = "up"
      /\ parser' = HttpParserInit /\ link' = "open" /\ sent' = <<>> /\ completed' = 0
      /\ got' = <<>> /\ UNCHANGED <<rest, parsing, inq, peer, torn>>
  BY DEF SocketConnected, Framing, Placed, Dialing, Returned, callVars
<1>10. Buffered' /\ (torn \/ View' = NoText)
  BY <1>1, ConnectBuffered DEF Framing, Answered
<1>2. /\ <<>> \in Seq(Seq(STRING)) /\ <<>> \in Seq(STRING) /\ Len(<<>>) = 0
      /\ 0 .. 0 = {0} /\ 1 .. 0 = {}
  BY EmptySeq
<1>3. Words(<<>>, none, <<>>)
  BY <1>2 DEF Words
<1>4. Unread(<<>>, 0)'
  BY <1>1, <1>2 DEF Unread
<1>5. WordsSent(<<>>, FALSE)'
  BY <1>1, <1>2 DEF WordsSent
<1>6. parser'.state = StartState /\ parser'.state # "dead"
  BY <1>1 DEF HttpParserInit, StartState
<1>7. Control(parser') = Begin
  BY <1>6 DEF Control, Begin, Named, StartState
<1>8. Reading(<<>>, none, 0)'
  BY <1>1, <1>2, <1>6, <1>7 DEF Reading
<1>11. (torn \/ Told(<<>>, none, 0))'
  BY <1>1, <1>2, <1>10 DEF Told
<1>9. Heard(<<>>, none, <<>>, 0, FALSE)'
  BY <1>3, <1>4, <1>5, <1>8, <1>11 DEF Heard, Words
<1>12. (torn \/ Answered)'
  <2>1. DOMAIN <<>> = {} /\ <<>> \in Seq({Expected(r) : r \in Replies})
    BY EmptySeq
  <2>2. ResponsesWhole'
    BY <1>1, <1>2, <2>1 DEF ResponsesWhole
  <2>3. {Expected(r) : r \in Replies}' = {Expected(r) : r \in Replies}
    BY DEF Expected
  <2> QED BY <1>1, <1>10, <2>1, <2>2, <2>3 DEF Answered
<1> QED BY <1>1, <1>9, <1>10, <1>12 DEF Framing, Placed

LEMMA FramingInit ==
    ASSUME Init
    PROVE  Framing
<1>1. PhaseInv
  BY PhaseInit
<1>2. link = "connecting" /\ inq = <<>> /\ peer = "up" /\ completed = 0 /\ sent = <<>>
      /\ got = <<>>
  BY DEF Init
<1>3. completed <= Len(sent) /\ Len(got) = completed
  BY <1>2, EmptySeq
<1>4. Buffered /\ View = NoText
  BY BufferedInit
<1>5. Answered
  <2>1. DOMAIN <<>> = {} /\ <<>> \in Seq({Expected(r) : r \in Replies})
    BY EmptySeq
  <2> QED BY <1>2, <1>3, <1>4, <2>1 DEF Answered, ResponsesWhole
<1> QED BY <1>1, <1>2, <1>3, <1>4, <1>5 DEF Framing, Placed, Dialing

\* What was sent before the server reset the connection was read before it did.
LEMMA ResetUntold ==
    ASSUME Framing, link = "open", ~parsing, rest = <<>>, ~stopped, peer = "rst"
    PROVE  torn \/ View = NoText
<1>1. PhaseInv /\ ~Ended
  BY DEF Framing, Ended
<1>2. PICK ws, ends, text, pos, cut : Heard(ws, ends, text, pos, cut)
  BY <1>1 DEF Framing, Placed
<1>3. inq = <<>>
  BY <1>2 DEF Heard, WordsSent
<1>4. CASE parser.state # "body_identity_eof"
  BY <1>1, <1>3, <1>4, WaitingUntold
<1>5. CASE parser.state = "body_identity_eof"
  <2> DEFINE k == completed
  <2>1. PICK w, p : w = ws[k + 1] /\ p = pos - ends[k]
    OBVIOUS
  <2>2. /\ k \in Nat /\ Len(ws) \in Nat /\ Len(sent) \in Nat /\ k <= Len(sent)
        /\ Len(ws) = Len(sent) /\ Len(inq) = 0 /\ Len(rest) = 0 /\ Len(text) \in Nat
        /\ \A i \in 1 .. Len(sent) : sent[i].ends = "keep"
    BY <1>1, <1>2, <1>3, StreamTypes, LenProperties DEF Heard, Words, Reading, WordsSent
  <2>3. Control(parser).state = "body_identity_eof"
    BY <1>1, <1>5, StreamTypes
  <2>4. k < Len(ws)
    <3>1. SUFFICES ASSUME k = Len(ws) PROVE FALSE
      BY <2>2
    <3> QED BY <1>2, <2>3, <3>1 DEF Heard, Reading, Begin, StartState
  <2>5. InWord(ws, ends, text, pos, w, p)
    BY <1>1, <1>2, <2>1, <2>4, PresentWord
  <2>6. Control(parser) = Alone(w)[p]
    BY <1>2, <2>1, <2>4 DEF Heard, Reading
  <2>7. pos = Len(text)
    <3>1. pos \in Nat
      BY <2>5 DEF InWord
    <3>2. Len(rest) + Len(inq) = Len(text) - pos
      BY <1>2 DEF Heard, Unread
    <3> QED BY <2>2, <3>1, <3>2
  <2>8. p = Len(w) /\ p \in 1 .. Len(w)
    <3>1. /\ pos = ends[k] + p /\ ends[k + 1] = ends[k] + Len(w) /\ ends[k + 1] <= Len(text)
          /\ p \in 0 .. Len(w) /\ Len(w) \in Nat \ {0} /\ ends[k] \in Nat
      BY <2>5 DEF InWord
    <3> QED BY <2>7, <3>1
  <2>9. k + 1 <= Len(sent) /\ sent[k + 1].ends = "eof"
    BY <1>1, <1>2, <2>1, <2>3, <2>4, <2>6, <2>8, WordEnds
  <2>10. k + 1 \in 1 .. Len(sent)
    BY <2>2, <2>9
  <2> QED BY <2>2, <2>9, <2>10
<1> QED BY <1>4, <1>5

LEMMA FramingNext ==
    ASSUME Framing, [Next]_vars
    PROVE  Framing'
<1>1. PhaseInv'
  BY PhaseNext DEF Framing, AbstractStep
<1>2. CASE Next /\ Execute
  BY <1>1, <1>2, ExecuteFramed
<1>3. CASE Read \/ ReadEof
  BY <1>1, <1>3, ReadFramed, EofFramed
<1>4. CASE ReadReset
  <2>1. /\ ReadError(parser) /\ link = "open" /\ ~parsing /\ rest = <<>> /\ ~stopped
        /\ peer = "rst"
    BY <1>4 DEF ReadReset, Returned
  <2>2. Ind /\ Buffered /\ marks = {}
    BY <2>1 DEF Framing, PhaseInv, Ind
  <2>3. Buffered'
    BY <2>1, <2>2, ErrorBuffered
  <2>4. torn \/ View = NoText
    BY <2>1, ResetUntold
  <2> QED BY <1>1, <2>1, <2>3, <2>4, FailFramed
<1>5. CASE SocketConnected \/ Server
  BY <1>1, <1>5, ConnectFramed, ServerFramed
<1>6. CASE TimeIsUp \/ TimerStops \/ Idle \/ UNCHANGED vars
  <2>1. /\ UNCHANGED <<parser, rest, parsing, completed, got, netVars>>
        /\ stopped => stopped'
        /\ UNCHANGED <<marks, held, buf>>
    BY <1>6 DEF TimeIsUp, TimerStops, Idle, vars, callVars, scriptVars, clockVars
  <2>2. Buffered' /\ View' = View
    BY <2>1, QuietBuffered DEF Framing
  <2> QED BY <1>1, <2>1, <2>2, QuietFramed
<1> QED BY <1>2, <1>3, <1>4, <1>5, <1>6 DEF Next, SocketReadable

LEMMA Framed == Spec => []Framing
  BY FramingInit, FramingNext, PTL DEF Spec

\* However the reads cut what the server sends, and whatever goes wrong: a connection
\* that waits for the server has counted every response that was begun on its socket.
\* One more whole response would have been counted, one cut off would be an error.
THEOREM NothingAwaited == Spec => []NoResponseAwaited
<1>1. ASSUME Framing PROVE NoResponseAwaited
  <2> SUFFICES ASSUME link = "open", Returned, inq = <<>>,
                      peer = "up" \/ (peer = "fin" /\ parser.state \in EofIgnored),
                      ~stopped
               PROVE  completed = Len(sent)
    BY DEF NoResponseAwaited
  <2>1. PhaseInv /\ ~Ended
    BY <1>1 DEF Framing, Ended
  <2>2. PICK ws, ends, text, pos, cut : Heard(ws, ends, text, pos, cut)
    BY <1>1, <2>1 DEF Framing, Placed
  <2> DEFINE k == completed
  <2>3. PICK w, p : w = ws[k + 1] /\ p = pos - ends[k]
    OBVIOUS
  <2>4. /\ k \in Nat /\ Len(inq) = 0 /\ Len(rest) = 0
        /\ Len(text) \in Nat /\ Len(ws) \in Nat
        /\ k <= Len(sent) /\ Len(sent) <= Len(ws) /\ Len(sent) \in Nat
        /\ (sent = <<>> <=> Len(sent) = 0)
    BY <2>1, <2>2, StreamTypes, LenProperties DEF Heard, Words, Reading, WordsSent, Returned
  <2> SUFFICES ASSUME k # Len(sent) PROVE FALSE
    OBVIOUS
  <2>5. k < Len(ws) /\ k + 1 <= Len(sent)
    BY <2>4
  <2>6. InWord(ws, ends, text, pos, w, p)
    BY <2>1, <2>2, <2>3, <2>5, PresentWord
  <2>7. pos = Len(text)
    <3>1. pos \in Nat
      BY <2>6 DEF InWord
    <3>2. Len(rest) + Len(inq) = Len(text) - pos
      BY <2>2 DEF Heard, Unread
    <3> QED BY <2>4, <3>1, <3>2
  <2>8. p = Len(w) /\ p \in 1 .. Len(w) /\ ~(k + 1 < Len(ws))
    <3>1. /\ pos = ends[k] + p /\ ends[k + 1] = ends[k] + Len(w) /\ ends[k + 1] <= Len(text)
          /\ p \in 0 .. Len(w) /\ Len(w) \in Nat \ {0} /\ ends[k] \in Nat
          /\ (k + 1 < Len(ws)) <=> (ends[k + 1] < Len(text))
      BY <2>6 DEF InWord
    <3> QED BY <2>7, <3>1
  <2>9. k + 1 = Len(sent) /\ Len(ws) = Len(sent)
    BY <2>4, <2>5, <2>8
  <2>10. Control(parser) = Alone(w)[p]
    BY <2>2, <2>3, <2>5 DEF Heard, Reading, Returned
  <2>11. Alone(w)[Len(w)].state = parser.state /\ parser.state \in States
    BY <2>1, <2>8, <2>10, StreamTypes
  <2>12. CASE cut
    <3>1. peer = "fin" /\ parser.state \in EofIgnored
      BY <2>2, <2>12 DEF Heard, WordsSent
    <3>2. sent[Len(sent)] \in Torn /\ w \in Remains(sent[Len(sent)])
      BY <2>2, <2>3, <2>9, <2>12 DEF Heard, WordsSent
    <3> QED BY <2>11, <3>1, <3>2, MessagesAssumption DEF EofIgnored
  <2>13. CASE ~cut
    <3>1. k + 1 \in 1 .. Len(sent)
      BY <2>4, <2>5
    <3>2. w = sent[k + 1].wire /\ sent[k + 1] \in Replies
      BY <2>1, <2>2, <2>3, <2>13, <3>1, StreamTypes DEF Heard, WordsSent
    <3>3. IsMessage(sent[k + 1])
      BY <3>2, MessagesAssumption
    <3>4. sent[k + 1].ends = "eof" /\ parser.state = "body_identity_eof"
      BY <2>11, <3>2, <3>3, NoSuchStates DEF IsMessage
    <3>5. peer # "up"
      BY <2>2, <3>1, <3>4 DEF Heard, WordsSent
    <3> QED BY <3>4, <3>5 DEF EofIgnored, StartState
  <2> QED BY <2>2, <2>12, <2>13 DEF Heard, WordsSent
<1> QED BY <1>1, Framed, PTL

\* However the reads cut what the server sends, and whatever an earlier response left in
\* the buffers: response() is called once for each response, in order, with the status,
\* the headers and the body that this response alone would have made, as long as none
\* was cut off.
THEOREM AnsweredAsSent == Spec => []ResponsesAsSent
<1>1. Framing => ResponsesAsSent
  BY DEF Framing, Answered, ResponsesAsSent
<1> QED BY <1>1, Framed, PTL

\* The connection is replaced without an error only after a response with which the
\* server ends it, and always after one, unless the thread is about to stop: what
\* http_should_keep_alive makes of the symbols is what the server meant by them.
THEOREM RedialledAsAnnounced == Spec => []RedialsAsAnnounced
<1>1. ASSUME Framing PROVE RedialsAsAnnounced
  <2>1. link = "connecting" /\ ~failed /\ completed > 0 => sent[completed].ends # "keep"
    BY <1>1 DEF Framing, Placed, Dialing
  <2>2. link = "open" /\ completed > 0 /\ sent[completed].ends # "keep" => stopped
    BY <1>1 DEF Framing, Placed, Ended, Heard, Reading
  <2> QED BY <2>1, <2>2 DEF RedialsAsAnnounced
<1> QED BY <1>1, Framed, PTL

===================================================================================
