-------------------------------- MODULE CycleProofs -------------------------------
(***********************************************************************************)
(* Proofs, for every value of the constants, about a thread whose server answers   *)
(* every request once: each connection goes round one cycle (dial, wait for its    *)
(* time, write, wait for the answers), and so follows the plan of OpenLoop and     *)
(* measures from it.  The last section is about servers and networks of any kind.  *)
(***********************************************************************************)
EXTENDS WrkThreadProofs, SequenceTheorems

\* What the proofs assume of the server and the network: nothing goes wrong but TLS
\* handshakes, which are dialled again, and the user may interrupt the program; a
\* connection with more than one request out is not closed by an answer.  (It would be
\* dialled again with c->has_pending set, and the next batch would not count as begun.)
Reliable ==
    /\ FaultKinds \subseteq {"sigint", "handshake"}
    /\ Pipeline = 1 \/ Answers \cap {"close", "until_eof"} = {}

Closing == {"close", "until_eof"}

Entry(c) == events[conn[c].fd]
Wire(c)  == sock[conn[c].fd]

\* The descriptor of connection c is open and its handlers are called for c.
Registered(c, mask) ==
    conn[c].fd \in Fds /\ Entry(c).data = c /\ Entry(c).mask = mask

\* No request is out.
AtRest(c) ==
    /\ conn[c].pending = 0 /\ ~conn[c].has_pending /\ conn[c].written = 0
    /\ handed[c] = 0

Silent(c) ==
    /\ Wire(c).inq = <<>> /\ Wire(c).peer = "up"
    /\ Wire(c).got = conn[c].written /\ Wire(c).owed = 0 /\ ~Wire(c).mid

-----------------------------------------------------------------------------------
(* The stages of a connection.                                                      *)

Undialled(c) == conn[c].fd = NoFd /\ AtRest(c) /\ delays[c] = <<>>

Dialling(c) ==
    /\ Registered(c, RW) /\ AtRest(c) /\ Silent(c) /\ delays[c] = <<>>
    /\ Entry(c).rproc = "socket_connected" /\ Entry(c).wproc = "socket_connected"
    /\ Wire(c).st \in {"connecting", "open"}

Established(c) ==
    Wire(c).st = "open" /\ Entry(c).rproc = "socket_readable"

\* Exactly one of the two wakeups is there.
Idle(c) ==
    /\ Established(c) /\ AtRest(c) /\ Silent(c) /\ conn[c].parser = "start"
    /\ \/ /\ Registered(c, RW) /\ Entry(c).wproc = "socket_writeable"
          /\ delays[c] = <<>>
       \/ Registered(c, {AE_READABLE}) /\ Len(delays[c]) = 1

HandedFor(n) == IF Dynamic THEN n ELSE 0

Writing(c) ==
    /\ Established(c) /\ Registered(c, RW) /\ Entry(c).wproc = "socket_writeable"
    /\ Silent(c) /\ conn[c].parser = "start" /\ delays[c] = <<>>
    /\ conn[c].written \in 1 .. (ReqLen - 1)
    /\ conn[c].has_pending /\ conn[c].pending = Pipeline
    /\ handed[c] = HandedFor(Pipeline)

\* The string is written and not all of its answers are read.
Out(c) ==
    /\ Established(c) /\ Registered(c, {AE_READABLE}) /\ delays[c] = <<>>
    /\ conn[c].written = 0 /\ Wire(c).got = 0
    /\ conn[c].has_pending /\ conn[c].pending \in 1 .. Pipeline

\* What is on the wire: answers only, the one that ends the connection last; after it
\* the server has closed its end.
Answering(s, phase) ==
    /\ s.owed \in Nat /\ s.inq \in Seq(Answers)
    /\ s.mid => s.owed > 0
    /\ s.inq # <<>> /\ s.inq[Len(s.inq)] = "part" => s.mid
    /\ \A i \in 1 .. (Len(s.inq) - 1) : s.inq[i] \notin Closing
    /\ \/ /\ s.peer = "up" /\ phase \in {"start", "body"}
          /\ s.inq # <<>> => s.inq[Len(s.inq)] \notin Closing
       \/ /\ s.peer = "fin" /\ s.owed = 0 /\ phase \in {"start", "body"}
          /\ s.inq # <<>> /\ s.inq[Len(s.inq)] \in Closing
       \/ s.peer = "fin" /\ s.owed = 0 /\ phase = "eof_body" /\ s.inq = <<>>

Awaiting(c) ==
    /\ Out(c) /\ Answering(Wire(c), conn[c].parser)
    /\ conn[c].pending = OnTheWire(Wire(c)) + (IF conn[c].parser = "eof_body" THEN 1 ELSE 0)
    /\ handed[c] = HandedFor(conn[c].pending)

\* A response came after stop_at and was not counted.  The event of the descriptor is
\* not served again; if it is being served, the rest of the input is parsed.
Stopped(c) ==
    /\ Out(c) /\ handed[c] \in 0 .. Pipeline
    /\ stopping /\ now >= StopAt /\ conn[c].fd \notin rest
    /\ turn.step # "poll" /\ turn.c = c =>
         /\ Answers \cap Closing = {}
         /\ Wire(c).owed \in Nat /\ Wire(c).inq \in Seq(Answers)
         /\ conn[c].parser \in {"start", "body"}
         /\ Dynamic => handed[c] = OnTheWire(Wire(c))

Stage(c) ==
    Undialled(c) \/ Dialling(c) \/ Idle(c) \/ Writing(c) \/ Awaiting(c) \/ Stopped(c)

\* The counts of a connection: every batch is complete before the next begins.
Counts(cn) ==
    \/ cn.complete + cn.pending = cn.complete_at_last_batch_start + Pipeline
    \/ cn.complete = 0 /\ cn.complete_at_last_batch_start = 0 /\ cn.pending = 0

\* The last batch that was begun while catching up was due at the catch-up rate.
CaughtUpInTime(cn) ==
    LET since == cn.complete_at_last_batch_start - cn.complete_at_catch_up_start IN
    (~cn.caught_up /\ since >= 0) => cn.catch_up_start_time + CatchUpOffset(since) <= now

Pace(cn) ==
    Counts(cn) /\ CaughtUpInTime(cn) /\ (cn.has_pending => cn.actual_latency_start # 0)

\* The loop is inside an event only to read on from a connection that waits.
Reading ==
    turn.step # "poll" =>
        /\ turn.step = "read" /\ ~turn.w
        /\ turn.fd = conn[turn.c].fd /\ turn.fd \in Fds /\ sock[turn.fd].inq # <<>>

CycleInv ==
    /\ OwnerInv /\ Reading /\ RecordedSound
    /\ \A c \in Conns : Stage(c) /\ Pace(conn[c])

-----------------------------------------------------------------------------------
(* The responses that are on their way.                                             *)

LEMMA UnreadFinite ==
    ASSUME NEW q \in Seq(Pieces)
    PROVE  /\ IsFiniteSet(Unread(q)) /\ Cardinality(Unread(q)) \in Nat
           /\ Unread(q) \subseteq 1 .. Len(q)
<1>1. Unread(q) \subseteq 1 .. Len(q)
  BY DEF Unread
<1>2. IsFiniteSet(1 .. Len(q))
  BY FS_Interval
<1>3. IsFiniteSet(Unread(q))
  BY <1>1, <1>2, FS_Subset
<1> QED BY <1>1, <1>3, FS_CardinalityType

LEMMA UnreadNone ==
    Cardinality(Unread(<<>>)) = 0
<1>1. Unread(<<>>) = {}
  BY DEF Unread
<1> QED BY <1>1, FS_EmptySet

\* The server sends one more piece.
LEMMA UnreadAppend ==
    ASSUME NEW q \in Seq(Pieces), NEW p \in Pieces
    PROVE  Cardinality(Unread(Append(q, p)))
             = Cardinality(Unread(q)) + (IF p \in {"part", "junk"} THEN 0 ELSE 1)
<1>1. /\ Len(Append(q, p)) = Len(q) + 1 /\ Append(q, p)[Len(q) + 1] = p
      /\ \A i \in 1 .. Len(q) : Append(q, p)[i] = q[i]
      /\ DOMAIN Append(q, p) = 1 .. (Len(q) + 1) /\ DOMAIN q = 1 .. Len(q)
      /\ Len(q) \in Nat
  BY AppendProperties
<1> DEFINE r == Append(q, p)
<1> HIDE DEF r
<1>2. CASE p \in {"part", "junk"}
  <2>1. Unread(r) = Unread(q)
    BY <1>1, <1>2, SMT DEF Unread, r
  <2> QED BY <1>2, <2>1, UnreadFinite DEF r
<1>3. CASE p \notin {"part", "junk"}
  <2>1. Unread(r) = Unread(q) \cup {Len(q) + 1}
    BY <1>1, <1>3, SMT DEF Unread, r
  <2>2. Len(q) + 1 \notin Unread(q)
    BY <1>1, SMT DEF Unread
  <2>3. IsFiniteSet(Unread(q))
    BY UnreadFinite
  <2>4. Cardinality(Unread(q) \cup {Len(q) + 1}) = Cardinality(Unread(q)) + 1
    BY <2>2, <2>3, FS_AddElement
  <2> QED BY <1>3, <2>1, <2>4 DEF r
<1> QED BY <1>2, <1>3

\* socket_readable takes the first piece.
LEMMA UnreadTail ==
    ASSUME NEW q \in Seq(Pieces), q # <<>>
    PROVE  Cardinality(Unread(Tail(q)))
             = Cardinality(Unread(q)) - (IF Head(q) \in {"part", "junk"} THEN 0 ELSE 1)
<1>1. /\ Len(Tail(q)) = Len(q) - 1 /\ Tail(q) \in Seq(Pieces) /\ Len(q) \in Nat \ {0}
      /\ \A i \in 1 .. (Len(q) - 1) : Tail(q)[i] = q[i + 1]
      /\ DOMAIN Tail(q) = 1 .. (Len(q) - 1) /\ DOMAIN q = 1 .. Len(q)
      /\ Head(q) = q[1]
  BY HeadTailProperties
<1> DEFINE t == Tail(q)
           S == Unread(t)
           T == Unread(q) \ {1}
           g == [i \in S |-> i + 1]
<1> HIDE DEF t
<1>2. \A i : i \in S <=> i \in 1 .. (Len(q) - 1) /\ q[i + 1] \notin {"part", "junk"}
  BY <1>1 DEF Unread, t
<1>3. \A i : i \in T <=> i \in 2 .. Len(q) /\ q[i] \notin {"part", "junk"}
  BY <1>1, SMT DEF Unread
<1>4. IsFiniteSet(S) /\ IsFiniteSet(Unread(q))
  BY <1>1, UnreadFinite DEF t
<1>5. (1 \in Unread(q)) <=> Head(q) \notin {"part", "junk"}
  BY <1>1 DEF Unread
<1> HIDE DEF S, T
<1>6. g \in Bijection(S, T)
  <2>1. \A i \in S : i \in Int /\ i + 1 \in T
    BY <1>1, <1>2, <1>3, SMT
  <2>2. \A j \in T : j - 1 \in S /\ (j - 1) + 1 = j
    BY <1>1, <1>2, <1>3, SMT
  <2>3. g \in [S -> T]
    BY <2>1
  <2>4. \A i, j \in S : g[i] = g[j] => i = j
    BY <2>1, SMT
  <2>5. \A j \in T : \E i \in S : g[i] = j
    BY <2>2
  <2> QED BY <2>3, <2>4, <2>5 DEF Bijection, Injection, Surjection, IsInjective
<1>7. Cardinality(T) = Cardinality(S)
  BY <1>4, <1>6, FS_Bijection DEF ExistsBijection
<1>8. Cardinality(T) = IF 1 \in Unread(q) THEN Cardinality(Unread(q)) - 1
                       ELSE Cardinality(Unread(q))
  BY <1>4, FS_RemoveElement DEF T
<1>9. Cardinality(Unread(q)) \in Nat
  BY UnreadFinite
<1> QED BY <1>5, <1>7, <1>8, <1>9 DEF S, t

LEMMA AnswersArePieces ==
    /\ Answers \subseteq {"ok", "fail", "close", "part", "until_eof"}
    /\ Answers \subseteq Pieces
    /\ \A q \in Seq(Answers) : q \in Seq(Pieces)
<1>1. Answers \subseteq {"ok", "fail", "close", "part", "until_eof"}
  BY ThreadAssumption DEF Endings
<1>2. Answers \subseteq Pieces
  BY <1>1 DEF Pieces, Endings
<1> QED BY <1>1, <1>2, SeqMonotonic

LEMMA WireNat ==
    ASSUME NEW s, NEW phase, Answering(s, phase)
    PROVE  /\ s.inq \in Seq(Pieces) /\ s.owed \in Nat
           /\ Cardinality(Unread(s.inq)) \in Nat /\ OnTheWire(s) \in Nat
<1>1. s.inq \in Seq(Pieces) /\ s.owed \in Nat
  BY AnswersArePieces DEF Answering
<1>2. Cardinality(Unread(s.inq)) \in Nat
  BY <1>1, UnreadFinite
<1> QED BY <1>1, <1>2 DEF OnTheWire

\* A connection that gets nothing more has nothing to read.
LEMMA NothingLeft ==
    ASSUME NEW s, NEW phase \in {"start", "body"}, Answering(s, phase), OnTheWire(s) = 0
    PROVE  s.inq = <<>> /\ s.owed = 0 /\ ~s.mid /\ s.peer = "up"
<1>1. s.owed = 0 /\ Cardinality(Unread(s.inq)) = 0
  BY WireNat, SMT DEF OnTheWire
<1>2. Unread(s.inq) = {}
  BY <1>1, WireNat, UnreadFinite, FS_EmptySet
<1>3. ~s.mid
  BY <1>1 DEF Answering
<1>4. s.inq = <<>>
  <2> SUFFICES ASSUME s.inq # <<>> PROVE FALSE
    OBVIOUS
  <2> DEFINE last == s.inq[Len(s.inq)]
  <2>1. s.inq \in Seq(Answers) /\ Len(s.inq) \in 1 .. Len(s.inq)
    BY LenProperties, EmptySeq DEF Answering
  <2>2. last \in Answers /\ last # "part"
    BY <1>3, <2>1, ElementOfSeq DEF Answering
  <2>3. last # "junk"
    BY <2>2, AnswersArePieces
  <2>4. Len(s.inq) \in Unread(s.inq)
    BY <2>1, <2>2, <2>3 DEF Unread
  <2> QED BY <1>2, <2>4
<1> QED BY <1>1, <1>3, <1>4 DEF Answering

\* The server answers a request.
LEMMA AnswerSent ==
    ASSUME NEW s, NEW t, NEW phase, Answering(s, phase), s.peer = "up", s.owed > 0,
           Answers \cap Closing = {} \/ OnTheWire(s) <= 1,
           NEW piece \in Answers \ {"part"},
           t.inq = Append(s.inq, piece), t.owed = s.owed - 1, t.mid = FALSE,
           t.peer = IF piece \in {"close", "until_eof"} THEN "fin" ELSE "up"
    PROVE  Answering(t, phase) /\ OnTheWire(t) = OnTheWire(s)
<1>1. /\ s.inq \in Seq(Answers) /\ s.owed \in Nat /\ Len(s.inq) \in Nat
      /\ phase \in {"start", "body"}
      /\ \A i \in 1 .. Len(s.inq) : s.inq[i] \notin Closing
  <2>1. s.inq \in Seq(Answers) /\ s.owed \in Nat /\ phase \in {"start", "body"}
    BY DEF Answering
  <2>2. Len(s.inq) \in Nat /\ (s.inq = <<>> => Len(s.inq) = 0)
    BY <2>1, LenProperties
  <2>3. ASSUME NEW i \in 1 .. Len(s.inq) PROVE s.inq[i] \notin Closing
    <3>1. i \in 1 .. (Len(s.inq) - 1) \/ (i = Len(s.inq) /\ s.inq # <<>>)
      BY <2>2, SMT
    <3> QED BY <3>1 DEF Answering
  <2> QED BY <2>1, <2>2, <2>3
<1>2. /\ t.inq \in Seq(Answers) /\ t.inq # <<>> /\ Len(t.inq) = Len(s.inq) + 1
      /\ \A i \in 1 .. Len(s.inq) : t.inq[i] = s.inq[i]
      /\ t.inq[Len(t.inq)] = piece
  BY <1>1, AppendProperties
<1>3. OnTheWire(t) = OnTheWire(s)
  <2>1. piece \in Pieces /\ piece \notin {"part", "junk"}
    BY AnswersArePieces
  <2>2. Cardinality(Unread(t.inq)) = Cardinality(Unread(s.inq)) + 1
    BY <2>1, WireNat, UnreadAppend
  <2> QED BY <1>1, <2>2, WireNat, SMT DEF OnTheWire
<1>4. piece \in Closing => t.owed = 0
  <2>1. ASSUME piece \in Closing PROVE s.owed <= 1
    BY <2>1, WireNat, SMT DEF OnTheWire
  <2> QED BY <1>1, <2>1, SMT
<1>5. \A i \in 1 .. (Len(t.inq) - 1) : t.inq[i] \notin Closing
  <2>1. Len(t.inq) - 1 = Len(s.inq)
    BY <1>1, <1>2, SMT
  <2> QED BY <1>1, <1>2, <2>1
<1>6. t.owed \in Nat
  BY <1>1, SMT
<1> QED BY <1>1, <1>2, <1>3, <1>4, <1>5, <1>6 DEF Answering, Closing

LEMMA PartSent ==
    ASSUME NEW s, NEW t, NEW phase, Answering(s, phase), s.peer = "up", s.owed > 0,
           "part" \in Answers,
           t.inq = Append(s.inq, "part"), t.owed = s.owed, t.mid = TRUE, t.peer = s.peer
    PROVE  Answering(t, phase) /\ OnTheWire(t) = OnTheWire(s)
<1>1. /\ s.inq \in Seq(Answers) /\ s.owed \in Nat /\ Len(s.inq) \in Nat
      /\ phase \in {"start", "body"}
      /\ \A i \in 1 .. Len(s.inq) : s.inq[i] \notin Closing
  <2>1. s.inq \in Seq(Answers) /\ s.owed \in Nat /\ phase \in {"start", "body"}
    BY DEF Answering
  <2>2. Len(s.inq) \in Nat /\ (s.inq = <<>> => Len(s.inq) = 0)
    BY <2>1, LenProperties
  <2>3. ASSUME NEW i \in 1 .. Len(s.inq) PROVE s.inq[i] \notin Closing
    <3>1. i \in 1 .. (Len(s.inq) - 1) \/ (i = Len(s.inq) /\ s.inq # <<>>)
      BY <2>2, SMT
    <3> QED BY <3>1 DEF Answering
  <2> QED BY <2>1, <2>2, <2>3
<1>2. /\ t.inq \in Seq(Answers) /\ t.inq # <<>> /\ Len(t.inq) = Len(s.inq) + 1
      /\ \A i \in 1 .. Len(s.inq) : t.inq[i] = s.inq[i]
      /\ t.inq[Len(t.inq)] = "part"
  BY <1>1, AppendProperties
<1>3. OnTheWire(t) = OnTheWire(s)
  <2>1. Cardinality(Unread(t.inq)) = Cardinality(Unread(s.inq))
    <3>1. "part" \in Pieces
      BY AnswersArePieces
    <3>2. Cardinality(Unread(t.inq)) = Cardinality(Unread(s.inq)) + 0
      BY <3>1, WireNat, UnreadAppend
    <3> QED BY <3>2, WireNat, SMT
  <2> QED BY <2>1 DEF OnTheWire
<1>4. \A i \in 1 .. (Len(t.inq) - 1) : t.inq[i] \notin Closing
  <2>1. Len(t.inq) - 1 = Len(s.inq)
    BY <1>1, <1>2, SMT
  <2> QED BY <1>1, <1>2, <2>1
<1> QED BY <1>1, <1>2, <1>3, <1>4 DEF Answering, Closing

\* What the parser makes of an answer.
LEMMA FeedAnswer ==
    ASSUME NEW phase \in {"start", "body"}, NEW piece \in Answers
    PROVE  /\ ~ParseError(phase, piece)
           /\ EndsMessage(phase, piece) <=> piece \in {"ok", "fail", "close"}
           /\ piece \in {"ok", "fail"} => Feed(phase, piece) = "start"
           /\ piece = "close" => Feed(phase, piece) = "dead"
           /\ piece = "part" => Feed(phase, piece) = "body"
           /\ piece = "until_eof" => Feed(phase, piece) = "eof_body"
<1>1. piece \in {"ok", "fail", "close", "part", "until_eof"}
  BY AnswersArePieces
<1>2. phase # "eof_body" /\ phase # "dead"
  OBVIOUS
<1> QED BY <1>1, <1>2 DEF ParseError, EndsMessage, Feed, Endings

\* socket_readable takes a piece from the wire of a connection that waits.
LEMMA PieceTaken ==
    ASSUME NEW s, NEW t, NEW phase, Answering(s, phase), s.inq # <<>>,
           NEW piece, piece = Head(s.inq),
           t.inq = Tail(s.inq), t.owed = s.owed, t.mid = s.mid, t.peer = s.peer
    PROVE  /\ phase \in {"start", "body"} /\ piece \in Answers
           /\ piece = "part" =>
                Answering(t, "body") /\ OnTheWire(t) = OnTheWire(s)
           /\ piece \in {"ok", "fail"} =>
                Answering(t, "start") /\ OnTheWire(t) = OnTheWire(s) - 1
           /\ piece = "until_eof" =>
                Answering(t, "eof_body") /\ OnTheWire(t) = OnTheWire(s) - 1
           /\ piece \in Closing => t.inq = <<>>
<1>1. /\ phase \in {"start", "body"} /\ s.inq \in Seq(Answers) /\ s.inq \in Seq(Pieces)
  BY WireNat DEF Answering
<1>2. piece \in Answers /\ piece = s.inq[1] /\ Len(s.inq) \in Nat \ {0}
  BY <1>1, HeadTailProperties, LenProperties, EmptySeq
<1>3. /\ t.inq \in Seq(Answers) /\ Len(t.inq) = Len(s.inq) - 1
      /\ \A i \in 1 .. Len(t.inq) : t.inq[i] = s.inq[i + 1]
  BY <1>1, HeadTailProperties
<1>4. piece # "junk"
  BY <1>2, AnswersArePieces
<1>5. OnTheWire(t) = OnTheWire(s) - (IF piece = "part" THEN 0 ELSE 1)
  <2>1. Cardinality(Unread(t.inq)) = Cardinality(Unread(s.inq))
                                       - (IF piece \in {"part", "junk"} THEN 0 ELSE 1)
    BY <1>1, UnreadTail
  <2>2. s.owed \in Nat /\ Cardinality(Unread(s.inq)) \in Nat
    BY WireNat
  <2> HIDE DEF Unread
  <2>3. CASE piece = "part"
    <3>1. Cardinality(Unread(t.inq)) = Cardinality(Unread(s.inq)) - 0
      BY <2>1, <2>3, Zenon
    <3> QED BY <2>2, <2>3, <3>1, SMT DEF OnTheWire
  <2>4. CASE piece # "part"
    <3>1. Cardinality(Unread(t.inq)) = Cardinality(Unread(s.inq)) - 1
      BY <1>4, <2>1, <2>4, Zenon
    <3> QED BY <2>2, <2>4, <3>1, SMT DEF OnTheWire
  <2> QED BY <2>3, <2>4
<1>6. piece \in Closing => t.inq = <<>>
  <2> SUFFICES ASSUME piece \in Closing PROVE t.inq = <<>>
    OBVIOUS
  <2>1. CASE Len(s.inq) > 1
    <3>1. 1 \in 1 .. (Len(s.inq) - 1)
      BY <1>2, <2>1, SMT
    <3>2. s.inq[1] \notin Closing
      BY <3>1 DEF Answering
    <3> QED BY <1>2, <3>2
  <2>2. CASE Len(s.inq) = 1
    <3>1. Len(t.inq) = 0
      BY <1>3, <2>2, SMT
    <3> QED BY <1>3, <3>1, EmptySeq
  <2> QED BY <1>2, <2>1, <2>2, SMT
<1>7. t.inq # <<>> => t.inq[Len(t.inq)] = s.inq[Len(s.inq)]
  <2> SUFFICES ASSUME t.inq # <<>> PROVE t.inq[Len(t.inq)] = s.inq[Len(s.inq)]
    OBVIOUS
  <2>1. Len(t.inq) \in 1 .. Len(t.inq) /\ Len(t.inq) + 1 = Len(s.inq)
    BY <1>2, <1>3, LenProperties, EmptySeq
  <2> QED BY <1>3, <2>1
<1>8. \A i \in 1 .. (Len(t.inq) - 1) : t.inq[i] \notin Closing
  <2> TAKE i \in 1 .. (Len(t.inq) - 1)
  <2>1. i \in 1 .. Len(t.inq) /\ i + 1 \in 1 .. (Len(s.inq) - 1)
    BY <1>2, <1>3, SMT
  <2> QED BY <1>3, <2>1 DEF Answering
<1>9. t.inq # <<>> /\ t.inq[Len(t.inq)] = "part" => t.mid
  BY <1>7 DEF Answering
<1>10. t.inq = <<>> => s.inq[Len(s.inq)] = piece
  <2> SUFFICES ASSUME t.inq = <<>> PROVE s.inq[Len(s.inq)] = piece
    OBVIOUS
  <2>1. Len(t.inq) = 0
    BY <1>3, EmptySeq
  <2>2. Len(s.inq) = 1
    BY <1>2, <1>3, <2>1, SMT
  <2> QED BY <1>2, <2>2
<1>11. piece \notin Closing => \A p \in {"start", "body"} : Answering(t, p)
  <2> SUFFICES ASSUME piece \notin Closing, NEW p \in {"start", "body"}
               PROVE  Answering(t, p)
    OBVIOUS
  <2>1. CASE s.peer = "up"
    BY <1>1, <1>3, <1>7, <1>8, <1>9, <2>1 DEF Answering
  <2>2. CASE s.peer = "fin"
    BY <1>1, <1>3, <1>7, <1>8, <1>9, <1>10, <2>2 DEF Answering
  <2> QED BY <2>1, <2>2 DEF Answering
<1>12. piece = "until_eof" => Answering(t, "eof_body")
  <2> SUFFICES ASSUME piece = "until_eof" PROVE Answering(t, "eof_body")
    OBVIOUS
  <2>1. piece \in Closing
    BY DEF Closing
  <2>2. s.inq[Len(s.inq)] = piece
    BY <1>6, <1>10, <2>1
  <2>3. s.peer = "fin" /\ s.owed = 0
    BY <1>1, <2>1, <2>2 DEF Answering
  <2> QED BY <1>3, <1>6, <1>8, <1>9, <2>1, <2>3 DEF Answering
<1>13. /\ piece = "part" => OnTheWire(t) = OnTheWire(s)
       /\ piece # "part" => OnTheWire(t) = OnTheWire(s) - 1
  BY <1>5, WireNat, SMT
<1> QED BY <1>1, <1>2, <1>6, <1>11, <1>12, <1>13 DEF Closing

-----------------------------------------------------------------------------------
\* More requests take more time at the catch-up rate.
LEMMA QuotientMonotonic ==
    ASSUME NEW x \in Nat, NEW y \in Nat, NEW d \in Nat \ {0}, x <= y
    PROVE  x \div d <= y \div d
<1> DEFINE q == x \div d
           p == y \div d
<1>1. q \in Int /\ p \in Int
  BY Quotient
<1>2. q * d <= x /\ y < (p + 1) * d
  BY SMT
<1> HIDE DEF q, p
<1>3. q * d < (p + 1) * d
  <2>1. q * d \in Int /\ (p + 1) * d \in Int
    BY <1>1, SMT
  <2> QED BY <1>2, <2>1, SMT
<1>4. CASE q >= p + 1
  <2>1. q * d >= (p + 1) * d
    BY <1>1, <1>4, SMT
  <2>2. q * d \in Int /\ (p + 1) * d \in Int
    BY <1>1, SMT
  <2> QED BY <1>3, <2>1, <2>2, SMT
<1>5. CASE q < p + 1
  BY <1>1, <1>5, SMT DEF q, p
<1> QED BY <1>1, <1>4, <1>5, SMT

LEMMA CatchUpMonotonic ==
    ASSUME NEW a \in Nat, NEW b \in Nat, a <= b
    PROVE  CatchUpOffset(a) <= CatchUpOffset(b)
<1>1. a * RateDen \in Nat /\ b * RateDen \in Nat /\ 2 * RateNum \in Nat \ {0}
  BY PacingAssumption, SMT
<1>2. a * RateDen <= b * RateDen
  BY PacingAssumption, SMT
<1> QED BY <1>1, <1>2, QuotientMonotonic DEF CatchUpOffset

LEMMA CatchUpOffsetZero == CatchUpOffset(0) = 0
<1>1. 0 * RateDen = 0 /\ 2 * RateNum \in Nat \ {0}
  BY PacingAssumption, SMT
<1> QED BY <1>1, Quotient DEF CatchUpOffset

-----------------------------------------------------------------------------------
(* A connection that a step leaves alone keeps its stage and its pace.              *)

\* Nothing of connection d changes.
SameConn(d) ==
    /\ conn'[d] = conn[d] /\ delays'[d] = delays[d] /\ handed'[d] = handed[d]
    /\ conn[d].fd \in Fds =>
         events'[conn[d].fd] = events[conn[d].fd] /\ sock'[conn[d].fd] = sock[conn[d].fd]

\* Time goes on, the loop comes nearer to its end, and no turn of d begins.
Onward(d) ==
    /\ now \in Nat /\ now' \in Nat /\ now <= now'
    /\ stopping => stopping'
    /\ rest' \subseteq rest
    /\ turn'.step # "poll" /\ turn'.c = d => turn.step # "poll" /\ turn.c = d

LEMMA PaceKept ==
    ASSUME NEW cn \in ConnType, Pace(cn), now \in Nat, now' \in Nat, now <= now'
    PROVE  Pace(cn)'
<1> DEFINE since == cn.complete_at_last_batch_start - cn.complete_at_catch_up_start
           t == cn.catch_up_start_time + CatchUpOffset(since)
<1>1. t \in Int
  <2>1. since \in Int /\ cn.catch_up_start_time \in Int
    BY SMT DEF ConnType
  <2> HIDE DEF since
  <2> QED BY <2>1, CatchUpOffsetInt
<1>2. t <= now => t <= now'
  BY <1>1, SMT
<1> QED BY <1>2 DEF Pace, Counts, CaughtUpInTime

LEMMA StageKept ==
    ASSUME NEW d \in Conns, Stage(d), SameConn(d), Onward(d)
    PROVE  Stage(d)'
<1>1. CASE Undialled(d)
  BY <1>1 DEF Undialled, AtRest, SameConn, Stage
<1>2. CASE Dialling(d)
  BY <1>2 DEF Dialling, AtRest, Silent, Registered, Entry, Wire, SameConn, Stage
<1>3. CASE Idle(d)
  BY <1>3 DEF Idle, Established, AtRest, Silent, Registered, Entry, Wire, SameConn, Stage
<1>4. CASE Writing(d)
  BY <1>4 DEF Writing, Established, Silent, Registered, Entry, Wire, SameConn, Stage
<1>5. CASE Awaiting(d)
  BY <1>5 DEF Awaiting, Out, Established, Registered, Entry, Wire, SameConn, Stage
<1>6. CASE Stopped(d)
  <2>1. Out(d)'
    BY <1>6 DEF Stopped, Out, Established, Registered, Entry, Wire, SameConn
  <2>2. now' >= StopAt
    BY <1>6, ThreadAssumption, SMT DEF Onward, Stopped
  <2> QED BY <1>6, <2>1, <2>2 DEF Stopped, Out, Registered, Entry, Wire, SameConn, Onward, Stage
<1> QED BY <1>1, <1>2, <1>3, <1>4, <1>5, <1>6 DEF Stage

-----------------------------------------------------------------------------------
\* Different connections have different descriptors: each is registered for its own.
LEMMA OneOwner ==
    ASSUME NEW c \in Conns, NEW d \in Conns, Stage(c), Stage(d), conn[c].fd \in Fds,
           conn[d].fd = conn[c].fd
    PROVE  c = d
<1>1. NoFd \notin Fds
  BY ThreadAssumption
<1>2. Entry(c).data = c
  BY <1>1 DEF Stage, Undialled, Dialling, Idle, Writing, Awaiting, Stopped, Out, Registered
<1>3. Entry(d).data = d
  BY <1>1 DEF Stage, Undialled, Dialling, Idle, Writing, Awaiting, Stopped, Out, Registered
<1> QED BY <1>2, <1>3 DEF Entry

\* A connection is dialled or has no descriptor; the socket of a descriptor is open.
LEMMA StageFd ==
    ASSUME NEW c \in Conns, Stage(c)
    PROVE  /\ conn[c].fd = NoFd => Undialled(c)
           /\ conn[c].fd # NoFd => /\ conn[c].fd \in Fds /\ Entry(c).data = c
                                   /\ Wire(c).st # "free"
<1>1. NoFd \notin Fds
  BY ThreadAssumption
<1> QED BY <1>1 DEF Stage, Undialled, Dialling, Idle, Writing, Awaiting, Stopped, Out,
                    Registered, Established

-----------------------------------------------------------------------------------
(* What the handlers do to the record of a connection.                              *)

\* The fields a connection is paced and measured by are the same.
SamePace(x, y) ==
    /\ y.thread_start = x.thread_start /\ y.complete = x.complete
    /\ y.pending = x.pending /\ y.has_pending = x.has_pending
    /\ y.complete_at_last_batch_start = x.complete_at_last_batch_start
    /\ y.actual_latency_start = x.actual_latency_start
    /\ y.caught_up = x.caught_up /\ y.catch_up_start_time = x.catch_up_start_time
    /\ y.complete_at_catch_up_start = x.complete_at_catch_up_start

LEMMA SamePaceKept ==
    ASSUME NEW x, NEW y, SamePace(x, y), Pace(x)
    PROVE  Pace(y)
  BY DEF SamePace, Pace, Counts, CaughtUpInTime

LEMMA OtherFields ==
    ASSUME NEW cn \in ConnType
    PROVE  /\ \A f : /\ SamePace(cn, WithFd(cn, f)) /\ WithFd(cn, f).fd = f
                     /\ WithFd(cn, f).parser = cn.parser
                     /\ WithFd(cn, f).written = cn.written
           /\ \A p : LET y == [cn EXCEPT !.parser = p] IN
                     /\ SamePace(cn, y) /\ y.parser = p /\ y.fd = cn.fd
                     /\ y.written = cn.written
           /\ \A n : LET y == [cn EXCEPT !.written = n] IN
                     /\ SamePace(cn, y) /\ y.written = n /\ y.fd = cn.fd
                     /\ y.parser = cn.parser
  BY SMT DEF ConnType, SamePace, WithFd

LEMMA ConnFields ==
    ASSUME NEW cn \in ConnType
    PROVE  /\ cn.complete \in Nat /\ cn.pending \in Nat /\ cn.has_pending \in BOOLEAN
           /\ cn.complete_at_last_batch_start \in Nat
           /\ cn.complete_at_catch_up_start \in Nat /\ cn.catch_up_start_time \in Nat
           /\ cn.caught_up \in BOOLEAN /\ cn.thread_start \in Nat
           /\ cn.actual_latency_start \in Nat /\ cn.written \in Nat
  BY SMT DEF ConnType

\* usec_to_next_send, called for a connection at rest: a catch-up period begins with
\* no batch in it.
LEMMA PacedAtRest ==
    ASSUME NEW cn \in ConnType, now \in Nat, Pace(cn), cn.pending = 0
    PROVE  LET p == Paced(cn, now) IN
           /\ p \in ConnType /\ Pace(p)
           /\ p.thread_start = cn.thread_start /\ p.complete = cn.complete
           /\ p.pending = cn.pending /\ p.has_pending = cn.has_pending
           /\ p.complete_at_last_batch_start = cn.complete_at_last_batch_start
           /\ p.actual_latency_start = cn.actual_latency_start
           /\ p.fd = cn.fd /\ p.parser = cn.parser /\ p.written = cn.written
<1> DEFINE p == Paced(cn, now)
<1>0. p \in ConnType
  BY PacedProps
<1>1. CASE OnPace(cn, now)
  <2>1. p = [cn EXCEPT !.caught_up = TRUE]
    BY <1>1 DEF Paced
  <2>2. /\ p.thread_start = cn.thread_start /\ p.complete = cn.complete
        /\ p.pending = cn.pending /\ p.has_pending = cn.has_pending
        /\ p.complete_at_last_batch_start = cn.complete_at_last_batch_start
        /\ p.actual_latency_start = cn.actual_latency_start
        /\ p.fd = cn.fd /\ p.parser = cn.parser /\ p.written = cn.written
        /\ p.caught_up = TRUE
    BY <2>1, SMT DEF ConnType
  <2> HIDE DEF p
  <2>3. Pace(p)
    BY <2>2 DEF Pace, Counts, CaughtUpInTime
  <2> QED BY <1>0, <2>2, <2>3 DEF p
<1>2. CASE ~OnPace(cn, now) /\ cn.caught_up
  <2>1. p = [cn EXCEPT !.caught_up = FALSE, !.catch_up_start_time = now,
                       !.complete_at_catch_up_start = cn.complete]
    BY <1>2 DEF Paced
  <2>2. /\ p.thread_start = cn.thread_start /\ p.complete = cn.complete
        /\ p.pending = cn.pending /\ p.has_pending = cn.has_pending
        /\ p.complete_at_last_batch_start = cn.complete_at_last_batch_start
        /\ p.actual_latency_start = cn.actual_latency_start
        /\ p.fd = cn.fd /\ p.parser = cn.parser /\ p.written = cn.written
        /\ p.catch_up_start_time = now /\ p.complete_at_catch_up_start = cn.complete
    BY <2>1, SMT DEF ConnType
  <2> HIDE DEF p
  <2>3. Counts(p)
    BY <2>2 DEF Pace, Counts
  <2>4. CaughtUpInTime(p)
    <3> DEFINE since == p.complete_at_last_batch_start - p.complete_at_catch_up_start
    <3>1. since >= 0 => since = 0
      BY <2>2, ConnFields, ThreadAssumption, SMT DEF Pace, Counts
    <3>2. now + 0 <= now
      BY SMT
    <3> HIDE DEF since
    <3>3. since >= 0 => p.catch_up_start_time + CatchUpOffset(since) <= now
      BY <2>2, <3>1, <3>2, CatchUpOffsetZero
    <3> QED BY <3>3 DEF CaughtUpInTime, since
  <2> QED BY <1>0, <2>2, <2>3, <2>4 DEF p, Pace
<1>3. CASE ~OnPace(cn, now) /\ ~cn.caught_up
  BY <1>3 DEF Paced
<1> QED BY <1>1, <1>2, <1>3

\* The beginning of a batch: it is due by the plan, and at the catch-up rate.
LEMMA BeginAtRest ==
    ASSUME NEW cn \in ConnType, now \in Nat, now # 0, Pace(cn), cn.pending = 0,
           ~cn.has_pending, UsecToNextSend(cn, now) = 0
    PROVE  LET b == BeginBatch(Paced(cn, now)) IN
           /\ b \in ConnType /\ Pace(b)
           /\ b.thread_start = cn.thread_start /\ b.complete = cn.complete
           /\ b.pending = Pipeline /\ b.has_pending
           /\ b.complete_at_last_batch_start = cn.complete
           /\ b.actual_latency_start = now
           /\ b.fd = cn.fd /\ b.parser = cn.parser /\ b.written = cn.written
<1> DEFINE p == Paced(cn, now)
           b == [p EXCEPT !.start = now, !.pending = Pipeline,
                          !.actual_latency_start = now,
                          !.complete_at_last_batch_start = p.complete,
                          !.has_pending = TRUE]
<1>1. /\ p \in ConnType
      /\ p.thread_start = cn.thread_start /\ p.complete = cn.complete
      /\ p.has_pending = cn.has_pending
      /\ p.fd = cn.fd /\ p.parser = cn.parser /\ p.written = cn.written
  BY PacedAtRest
<1>2. ~p.caught_up => CatchUpStart(p) <= now
  <2> SUFFICES ASSUME ~p.caught_up PROVE CatchUpStart(p) <= now
    OBVIOUS
  <2>1. ~OnPace(cn, now)
    <3> SUFFICES ASSUME OnPace(cn, now) PROVE FALSE
      OBVIOUS
    <3>1. p = [cn EXCEPT !.caught_up = TRUE]
      BY DEF Paced
    <3>2. p.caught_up = TRUE
      BY <3>1, SMT DEF ConnType
    <3> QED BY <3>2
  <2>2. NextStart(cn, now) = CatchUpStart(p)
    BY <2>1 DEF NextStart
  <2>3. CatchUpStart(p) \in Int
    <3> HIDE DEF p
    <3> QED BY <1>1, CatchUpOffsetInt, SMT DEF CatchUpStart, ConnType
  <2> QED BY <2>2, <2>3, SMT DEF UsecToNextSend
<1>3. BeginBatch(p) = b
  BY <1>1 DEF BeginBatch
<1> HIDE DEF p
<1>4. b \in ConnType
  <2>1. Pipeline \in 0 .. (CounterMod - 1) /\ p.complete \in Nat
    BY <1>1, ThreadAssumption, ConnFields, SMT
  <2> QED BY <1>1, <2>1, Zenon DEF ConnType
<1>5. /\ b.thread_start = p.thread_start /\ b.complete = p.complete
      /\ b.pending = Pipeline /\ b.has_pending = TRUE
      /\ b.complete_at_last_batch_start = p.complete
      /\ b.actual_latency_start = now
      /\ b.fd = p.fd /\ b.parser = p.parser /\ b.written = p.written
      /\ b.caught_up = p.caught_up /\ b.catch_up_start_time = p.catch_up_start_time
      /\ b.complete_at_catch_up_start = p.complete_at_catch_up_start
  BY <1>1, SMT DEF ConnType
<1> HIDE DEF b
<1>6. Counts(b)
  BY <1>5 DEF Counts
<1>7. CaughtUpInTime(b)
  BY <1>2, <1>5 DEF CaughtUpInTime, CatchUpStart
<1>8. Pace(b)
  BY <1>5, <1>6, <1>7 DEF Pace
<1> QED BY <1>1, <1>3, <1>4, <1>5, <1>8 DEF p

\* What response_complete makes of the connection.
Completed(cn) ==
    [cn EXCEPT !.complete = @ + 1, !.pending = PendingLeft(cn),
               !.has_pending = IF PendingLeft(cn) = 0 THEN FALSE ELSE @]

\* response_complete: one response less is waited for.
LEMMA OneDone ==
    ASSUME NEW cn \in ConnType, Pace(cn), cn.pending \in 1 .. Pipeline, cn.has_pending,
           NEW done, done = Completed(cn)
    PROVE  /\ PendingLeft(cn) = cn.pending - 1
           /\ done \in ConnType /\ Pace(done)
           /\ done.thread_start = cn.thread_start /\ done.complete = cn.complete + 1
           /\ done.pending = cn.pending - 1 /\ done.has_pending = (cn.pending # 1)
           /\ done.complete_at_last_batch_start = cn.complete_at_last_batch_start
           /\ done.actual_latency_start = cn.actual_latency_start
           /\ done.fd = cn.fd /\ done.parser = cn.parser /\ done.written = cn.written
<1> DEFINE left == PendingLeft(cn)
           k == cn.complete + 1
           h == IF left = 0 THEN FALSE ELSE cn.has_pending
<1>1. left = cn.pending - 1
  <2>1. cn.pending - 1 \in 0 .. (CounterMod - 1) /\ CounterMod \in Nat \ {0}
    BY ThreadAssumption, SMT
  <2>2. \A a \in 0 .. (CounterMod - 1) : a % CounterMod = a
    BY <2>1, SMT
  <2> QED BY <2>1, <2>2 DEF PendingLeft
<1>2. h = (cn.pending # 1)
  <2>1. (cn.pending - 1 = 0) <=> (cn.pending = 1)
    BY SMT
  <2> QED BY <1>1, <2>1
<1>3. done = [cn EXCEPT !.complete = k, !.pending = left, !.has_pending = h]
  BY DEF Completed
<1>4. done \in ConnType /\ done.fd = cn.fd
  <2>1. done = [cn EXCEPT !.complete = @ + 1, !.pending = PendingLeft(cn),
                          !.has_pending = IF PendingLeft(cn) = 0 THEN FALSE ELSE @]
    BY DEF Completed
  <2> QED BY <2>1, DoneType
<1> HIDE DEF left, k, h
<1>5. /\ done.thread_start = cn.thread_start /\ done.complete = k
      /\ done.pending = left /\ done.has_pending = h
      /\ done.complete_at_last_batch_start = cn.complete_at_last_batch_start
      /\ done.actual_latency_start = cn.actual_latency_start
      /\ done.parser = cn.parser /\ done.written = cn.written
      /\ done.caught_up = cn.caught_up
      /\ done.catch_up_start_time = cn.catch_up_start_time
      /\ done.complete_at_catch_up_start = cn.complete_at_catch_up_start
  BY <1>3, Zenon DEF ConnType
<1>6. Counts(done)
  <2>1. cn.complete + cn.pending = cn.complete_at_last_batch_start + Pipeline
    BY DEF Pace, Counts
  <2>2. (cn.complete + 1) + (cn.pending - 1) = cn.complete + cn.pending
    BY ConnFields, SMT
  <2> QED BY <1>1, <1>5, <2>1, <2>2 DEF Counts, k
<1>7. CaughtUpInTime(done)
  BY <1>5 DEF Pace, CaughtUpInTime
<1>8. Pace(done)
  BY <1>2, <1>5, <1>6, <1>7 DEF Pace
<1> QED BY <1>1, <1>2, <1>4, <1>5, <1>8 DEF k, left

-----------------------------------------------------------------------------------
(* What a handler of connection c leaves alone, and what it does to the plan of c.  *)

OthersAlone(c) ==
    /\ \A d \in Conns : d # c =>
         conn'[d] = conn[d] /\ delays'[d] = delays[d] /\ handed'[d] = handed[d]
    /\ \A f \in Fds : f # conn[c].fd /\ sock[f].st # "free" =>
         events'[f] = events[f] /\ sock'[f] = sock[f]

OnlyTouches(c) ==
    /\ OthersAlone(c)
    /\ now' = now
    /\ stopping => stopping'
    /\ rest' \subseteq rest
    /\ turn'.step # "poll" => turn'.c = c

SamePlan(x, y) ==
    /\ y.thread_start = x.thread_start /\ y.complete = x.complete
    /\ y.pending = x.pending
    /\ y.complete_at_last_batch_start = x.complete_at_last_batch_start
    /\ y.actual_latency_start = x.actual_latency_start
    /\ recorded' = recorded

Opens(x, y) ==
    /\ x.thread_start = 0 /\ y.thread_start = now
    /\ y.complete = x.complete /\ y.pending = x.pending
    /\ y.complete_at_last_batch_start = x.complete_at_last_batch_start
    /\ y.actual_latency_start = x.actual_latency_start
    /\ recorded' = recorded

Begins(x, y) ==
    /\ x.thread_start # 0 /\ x.pending = 0 /\ PlannedStart(x) <= now
    /\ y.thread_start = x.thread_start /\ y.complete = x.complete
    /\ y.pending = Pipeline /\ y.complete_at_last_batch_start = x.complete
    /\ y.actual_latency_start = now
    /\ recorded' = recorded

Responds(x, y) ==
    /\ x.pending > 0 /\ x.has_pending
    /\ y.thread_start = x.thread_start /\ y.complete = x.complete + 1
    /\ y.pending = x.pending - 1
    /\ y.complete_at_last_batch_start = x.complete_at_last_batch_start
    /\ y.actual_latency_start = x.actual_latency_start
    /\ recorded' = Latencies(x) \/ (x.pending > 1 /\ recorded' = recorded)

PlanMove(x, y) == SamePlan(x, y) \/ Opens(x, y) \/ Begins(x, y) \/ Responds(x, y)

CycleStep(c) ==
    /\ OnlyTouches(c) /\ Reading' /\ Stage(c)' /\ Pace(conn'[c])
    /\ PlanMove(conn[c], conn'[c])

LEMMA CycleReady ==
    ASSUME CycleInv
    PROVE  /\ Tables /\ Ready /\ now \in Nat /\ now # 0
           /\ delays \in [Conns -> Seq(Nat)] /\ turn \in TurnType
           /\ handed \in [Conns -> Int] /\ rest \subseteq Fds /\ stopping \in BOOLEAN
           /\ \A c \in Conns : delays[c] # <<>> => Dialled(conn[c])
           /\ recorded \in [corrected : Int, uncorrected : Int]
  BY OwnerTables, InvReady DEF CycleInv, OwnerInv, IInv, TypeOK

LEMMA OthersSame ==
    ASSUME CycleInv, NEW c \in Conns, NEW d \in Conns, d # c, OnlyTouches(c)
    PROVE  SameConn(d) /\ Onward(d)
<1>1. Stage(c) /\ Stage(d)
  BY DEF CycleInv
<1>2. conn[d].fd \in Fds => conn[d].fd # conn[c].fd /\ sock[conn[d].fd].st # "free"
  <2>1. NoFd \notin Fds
    BY ThreadAssumption
  <2> QED BY <1>1, <2>1, OneOwner, StageFd DEF Wire
<1>3. SameConn(d)
  BY <1>2 DEF OnlyTouches, OthersAlone, SameConn
<1>4. now <= now
  BY CycleReady, SMT
<1> QED BY <1>3, <1>4, CycleReady DEF OnlyTouches, Onward

\* The latencies of a response to a batch that was planned before it was begun.
LEMMA SoundLatencies ==
    ASSUME NEW cn \in ConnType, now \in Nat, PlannedFirst(cn), cn.actual_latency_start # 0
    PROVE  /\ 0 <= Latencies(cn).uncorrected
           /\ Latencies(cn).uncorrected <= Latencies(cn).corrected
<1>1. ExpectedLatencyStart(cn) \in Int /\ cn.actual_latency_start \in Int
  BY PlannedOffsetNat, SMT DEF ExpectedLatencyStart, ConnType
<1> QED BY <1>1, SMT DEF PlannedFirst, Latencies

LEMMA StepKeeps ==
    ASSUME CycleInv, OwnerInv', NEW c \in Conns, CycleStep(c)
    PROVE  CycleInv'
<1>1. Reading' /\ now' = now
  BY DEF CycleStep, OnlyTouches
<1>2. ASSUME NEW d \in Conns PROVE Stage(d)' /\ Pace(conn[d])'
  <2>1. CASE d = c
    BY <1>1, <2>1 DEF CycleStep, Pace, CaughtUpInTime
  <2>2. CASE d # c
    <3>1. SameConn(d) /\ Onward(d) /\ Stage(d) /\ Pace(conn[d]) /\ conn[d] \in ConnType
      BY <2>2, OthersSame, CycleReady DEF CycleStep, CycleInv, Tables
    <3>2. Stage(d)'
      BY <3>1, StageKept
    <3>3. Pace(conn[d])'
      BY <1>1, <3>1 DEF Pace, CaughtUpInTime, SameConn
    <3> QED BY <3>2, <3>3
  <2> QED BY <2>1, <2>2
<1>3. RecordedSound'
  <2>1. RecordedSound
    BY DEF CycleInv
  <2>2. CASE recorded' = recorded
    BY <2>1, <2>2 DEF RecordedSound
  <2>3. CASE recorded' = Latencies(conn[c]) /\ conn[c].has_pending
    <3>1. conn[c] \in ConnType /\ PlannedFirst(conn[c]) /\ now \in Nat
      BY CycleReady DEF Ready, GoodConn
    <3>2. conn[c].actual_latency_start # 0
      BY <2>3 DEF CycleInv, Pace
    <3> QED BY <2>3, <3>1, <3>2, SoundLatencies DEF RecordedSound
  <2> QED BY <2>2, <2>3 DEF CycleStep, PlanMove, SamePlan, Opens, Begins, Responds
<1> QED BY <1>1, <1>2, <1>3 DEF CycleInv

-----------------------------------------------------------------------------------
(* The event table and the sockets after the calls that change them.                *)

LEMMA CreatedEntry ==
    ASSUME NEW evs \in [Fds -> EntryType], NEW f \in Fds, NEW m, NEW proc, NEW d
    PROVE  LET e == CreateFileEvent(evs, f, m, proc, d) IN
           /\ e[f].mask = evs[f].mask \cup m /\ e[f].data = d
           /\ e[f].rproc = IF AE_READABLE \in m THEN proc ELSE evs[f].rproc
           /\ e[f].wproc = IF AE_WRITABLE \in m THEN proc ELSE evs[f].wproc
           /\ \A g \in Fds : g # f => e[g] = evs[g]
<1> DEFINE new == [mask  |-> evs[f].mask \cup m,
                   rproc |-> IF AE_READABLE \in m THEN proc ELSE evs[f].rproc,
                   wproc |-> IF AE_WRITABLE \in m THEN proc ELSE evs[f].wproc,
                   data  |-> d]
           e == [evs EXCEPT ![f] = new]
<1>1. CreateFileEvent(evs, f, m, proc, d) = e
  BY DEF CreateFileEvent
<1>2. /\ new.mask = evs[f].mask \cup m /\ new.data = d
      /\ new.rproc = IF AE_READABLE \in m THEN proc ELSE evs[f].rproc
      /\ new.wproc = IF AE_WRITABLE \in m THEN proc ELSE evs[f].wproc
  OBVIOUS
<1> HIDE DEF new
<1>3. e[f] = new /\ \A g \in Fds : g # f => e[g] = evs[g]
  BY Zenon
<1> HIDE DEF e
<1> QED BY <1>1, <1>2, <1>3

\* What makes a connection wait for its socket to be writable.
LEMMA WritableAwaited ==
    ASSUME events \in [Fds -> EntryType], NEW f \in Fds, NEW c \in Conns,
           events' = CreateFileEvent(events, f, {AE_WRITABLE}, "socket_writeable", c)
    PROVE  /\ events'[f].mask = events[f].mask \cup {AE_WRITABLE}
           /\ events'[f].data = c /\ events'[f].wproc = "socket_writeable"
           /\ events'[f].rproc = events[f].rproc
           /\ \A g \in Fds : g # f => events'[g] = events[g]
<1> DEFINE e == CreateFileEvent(events, f, {AE_WRITABLE}, "socket_writeable", c)
<1>1. AE_READABLE \notin {AE_WRITABLE} /\ AE_WRITABLE \in {AE_WRITABLE}
  BY DEF AE_READABLE, AE_WRITABLE
<1>2. /\ e[f].mask = events[f].mask \cup {AE_WRITABLE} /\ e[f].data = c
      /\ e[f].rproc = IF AE_READABLE \in {AE_WRITABLE} THEN "socket_writeable"
                      ELSE events[f].rproc
      /\ e[f].wproc = IF AE_WRITABLE \in {AE_WRITABLE} THEN "socket_writeable"
                      ELSE events[f].wproc
      /\ \A g \in Fds : g # f => e[g] = events[g]
  BY CreatedEntry
<1>3. events' = e
  OBVIOUS
<1> HIDE DEF e
<1> QED BY <1>1, <1>2, <1>3

LEMMA DeletedEntry ==
    ASSUME NEW evs \in [Fds -> EntryType], NEW f \in Fds, NEW m
    PROVE  LET e == DeleteFileEvent(evs, f, m) IN
           /\ e[f].mask = evs[f].mask \ m /\ e[f].data = evs[f].data
           /\ e[f].rproc = evs[f].rproc /\ e[f].wproc = evs[f].wproc
           /\ \A g \in Fds : g # f => e[g] = evs[g]
<1> DEFINE new == [evs[f] EXCEPT !.mask = @ \ m]
           e == [evs EXCEPT ![f] = new]
<1>1. DeleteFileEvent(evs, f, m) = e
  BY DEF DeleteFileEvent
<1>2. evs[f] \in EntryType
  OBVIOUS
<1>3. /\ new.mask = evs[f].mask \ m /\ new.data = evs[f].data
      /\ new.rproc = evs[f].rproc /\ new.wproc = evs[f].wproc
  BY <1>2, SMT DEF EntryType
<1> HIDE DEF new
<1>4. e[f] = new /\ \A g \in Fds : g # f => e[g] = evs[g]
  BY Zenon
<1> HIDE DEF e
<1> QED BY <1>1, <1>3, <1>4

LEMMA SocketFields ==
    ASSUME NEW st
    PROVE  /\ Socket(st).st = st /\ Socket(st).inq = <<>> /\ Socket(st).peer = "up"
           /\ Socket(st).got = 0 /\ Socket(st).owed = 0 /\ Socket(st).mid = FALSE
  BY DEF Socket

\* connect_socket, in a network where every host can be reached: the connection gets a
\* descriptor if there is a free one.
LEMMA NewSocket ==
    ASSUME "unreachable" \notin FaultKinds, conn \in [Conns -> ConnType],
           NEW c \in Conns, NEW cn \in ConnType,
           NEW evs \in [Fds -> EntryType], NEW sks \in [Fds -> SocketType],
           NEW errs, NEW flts, ConnectSocket(c, cn, evs, sks, errs, flts)
    PROVE  /\ \A d \in Conns : d # c => conn'[d] = conn[d]
           /\ \/ \E f \in Fds :
                   /\ sks[f].st = "free" /\ conn'[c] = WithFd(cn, f)
                   /\ events'[f].mask = RW /\ events'[f].data = c
                   /\ events'[f].rproc = "socket_connected"
                   /\ events'[f].wproc = "socket_connected"
                   /\ sock'[f] = Socket("connecting")
                   /\ \A g \in Fds : g # f => events'[g] = evs[g] /\ sock'[g] = sks[g]
              \/ /\ \A f \in Fds : sks[f].st # "free"
                 /\ conn'[c] = cn /\ sock' = sks /\ events' = evs
<1>1. \/ \E f \in Fds : /\ sks[f].st = "free"
                         /\ conn' = [conn EXCEPT ![c] = WithFd(cn, f)]
                         /\ sock' = [sks EXCEPT ![f] = Socket("connecting")]
                         /\ events' = CreateFileEvent(evs, f, RW, "socket_connected", c)
      \/ /\ \A f \in Fds : sks[f].st # "free"
         /\ conn' = [conn EXCEPT ![c] = cn] /\ sock' = sks /\ events' = evs
  BY Zenon DEF ConnectSocket
<1>2. ASSUME NEW f \in Fds, sks[f].st = "free",
             conn' = [conn EXCEPT ![c] = WithFd(cn, f)],
             sock' = [sks EXCEPT ![f] = Socket("connecting")],
             events' = CreateFileEvent(evs, f, RW, "socket_connected", c)
      PROVE  /\ \A d \in Conns : d # c => conn'[d] = conn[d]
             /\ sks[f].st = "free" /\ conn'[c] = WithFd(cn, f)
             /\ events'[f].mask = RW /\ events'[f].data = c
             /\ events'[f].rproc = "socket_connected"
             /\ events'[f].wproc = "socket_connected"
             /\ sock'[f] = Socket("connecting")
             /\ \A g \in Fds : g # f => events'[g] = evs[g] /\ sock'[g] = sks[g]
  <2>1. conn'[c] = WithFd(cn, f) /\ \A d \in Conns : d # c => conn'[d] = conn[d]
    BY <1>2, Zenon
  <2>2. sock'[f] = Socket("connecting") /\ \A g \in Fds : g # f => sock'[g] = sks[g]
    BY <1>2, Zenon
  <2>3. AE_READABLE \in RW /\ AE_WRITABLE \in RW /\ evs[f].mask \cup RW = RW
    <3>1. evs[f].mask \subseteq RW
      BY SMT DEF EntryType, Masks, RW
    <3> QED BY <3>1 DEF RW
  <2>4. /\ events'[f].mask = RW /\ events'[f].data = c
        /\ events'[f].rproc = "socket_connected"
        /\ events'[f].wproc = "socket_connected"
        /\ \A g \in Fds : g # f => events'[g] = evs[g]
    <3> DEFINE e == CreateFileEvent(evs, f, RW, "socket_connected", c)
    <3>1. /\ e[f].mask = evs[f].mask \cup RW /\ e[f].data = c
          /\ e[f].rproc = IF AE_READABLE \in RW THEN "socket_connected" ELSE evs[f].rproc
          /\ e[f].wproc = IF AE_WRITABLE \in RW THEN "socket_connected" ELSE evs[f].wproc
          /\ \A g \in Fds : g # f => e[g] = evs[g]
      BY CreatedEntry
    <3>2. events' = e
      BY <1>2
    <3> HIDE DEF e
    <3> QED BY <2>3, <3>1, <3>2
  <2> QED BY <1>2, <2>1, <2>2, <2>4
<1>3. ASSUME \A f \in Fds : sks[f].st # "free",
             conn' = [conn EXCEPT ![c] = cn], sock' = sks, events' = evs
      PROVE  /\ \A d \in Conns : d # c => conn'[d] = conn[d]
             /\ conn'[c] = cn /\ sock' = sks /\ events' = evs
  BY <1>3, Zenon
<1> QED BY <1>1, <1>2, <1>3, Zenon

\* A connection at rest on a new socket is being dialled.
LEMMA StartsDialling ==
    ASSUME NEW c \in Conns, NEW cn \in ConnType, NEW f \in Fds,
           cn.pending = 0, ~cn.has_pending, cn.written = 0, handed'[c] = 0,
           delays'[c] = <<>>, conn'[c] = WithFd(cn, f),
           events'[f].mask = RW, events'[f].data = c,
           events'[f].rproc = "socket_connected", events'[f].wproc = "socket_connected",
           sock'[f] = Socket("connecting")
    PROVE  Dialling(c)'
<1> DEFINE x == WithFd(cn, f)
<1>1. x.fd = f /\ x.pending = 0 /\ ~x.has_pending /\ x.written = 0
  BY OtherFields DEF SamePace
<1> HIDE DEF x
<1>2. conn'[c] = x
  BY DEF x
<1>3. Registered(c, RW)' /\ Entry(c)' = events'[f] /\ Wire(c)' = sock'[f]
  BY <1>1, <1>2 DEF Registered, Entry, Wire
<1>4. AtRest(c)'
  BY <1>1, <1>2 DEF AtRest
<1>5. Silent(c)' /\ Wire(c)'.st = "connecting"
  <2> DEFINE s == Socket("connecting")
  <2>1. /\ s.st = "connecting" /\ s.inq = <<>> /\ s.peer = "up"
        /\ s.got = 0 /\ s.owed = 0 /\ s.mid = FALSE
    BY SocketFields
  <2> HIDE DEF s
  <2>2. Wire(c)' = s
    BY <1>3 DEF s
  <2> QED BY <1>1, <1>2, <2>1, <2>2 DEF Silent
<1> QED BY <1>3, <1>4, <1>5 DEF Dialling

\* reconnect_socket: the old socket is closed, so there is a descriptor for the new one.
LEMMA Redialled ==
    ASSUME CycleInv, Reliable, NEW c \in Conns, NEW cn \in ConnType,
           cn.fd = conn[c].fd, cn.fd \in Fds, cn.pending = 0, ~cn.has_pending,
           cn.written = 0, handed'[c] = 0, delays'[c] = <<>>,
           NEW errs, NEW flts, ReconnectSocket(c, cn, errs, flts)
    PROVE  /\ Dialling(c)'
           /\ \E f \in Fds : conn'[c] = WithFd(cn, f)
           /\ \A d \in Conns : d # c => conn'[d] = conn[d]
           /\ \A f \in Fds : f # conn[c].fd /\ sock[f].st # "free" =>
                events'[f] = events[f] /\ sock'[f] = sock[f]
<1> DEFINE evs == DeleteFileEvent(events, cn.fd, RW)
           sks == [sock EXCEPT ![cn.fd] = Free]
<1>1. Tables
  BY CycleReady
<1>2. evs \in [Fds -> EntryType] /\ \A g \in Fds : g # cn.fd => evs[g] = events[g]
  BY <1>1, DeletedEntry, DeleteFileEventProps DEF Tables
<1>3. /\ sks \in [Fds -> SocketType] /\ sks[cn.fd] = Free
      /\ \A g \in Fds : g # cn.fd => sks[g] = sock[g]
  BY <1>1, UpdateProps, SocketInType DEF Tables, Free
<1>4. ConnectSocket(c, cn, evs, sks, errs, flts)
  BY DEF ReconnectSocket
<1> HIDE DEF evs, sks
<1>5. sks[cn.fd].st = "free"
  BY <1>3, SocketFields DEF Free
<1>6. /\ \A d \in Conns : d # c => conn'[d] = conn[d]
      /\ \E f \in Fds :
           /\ sks[f].st = "free" /\ conn'[c] = WithFd(cn, f)
           /\ events'[f].mask = RW /\ events'[f].data = c
           /\ events'[f].rproc = "socket_connected"
           /\ events'[f].wproc = "socket_connected"
           /\ sock'[f] = Socket("connecting")
           /\ \A g \in Fds : g # f => events'[g] = evs[g] /\ sock'[g] = sks[g]
  BY <1>1, <1>2, <1>3, <1>4, <1>5, NewSocket DEF Tables, Reliable
<1>7. PICK f \in Fds :
           /\ sks[f].st = "free" /\ conn'[c] = WithFd(cn, f)
           /\ events'[f].mask = RW /\ events'[f].data = c
           /\ events'[f].rproc = "socket_connected"
           /\ events'[f].wproc = "socket_connected"
           /\ sock'[f] = Socket("connecting")
           /\ \A g \in Fds : g # f => events'[g] = evs[g] /\ sock'[g] = sks[g]
  BY <1>6
<1>8. Dialling(c)'
  BY <1>7, StartsDialling
<1>9. \A g \in Fds : g # conn[c].fd /\ sock[g].st # "free" =>
                events'[g] = events[g] /\ sock'[g] = sock[g]
  <2> SUFFICES ASSUME NEW g \in Fds, g # conn[c].fd, sock[g].st # "free"
               PROVE  events'[g] = events[g] /\ sock'[g] = sock[g]
    OBVIOUS
  <2>1. g # f
    BY <1>3, <1>7
  <2> QED BY <1>2, <1>3, <1>7, <2>1
<1> QED BY <1>6, <1>7, <1>8, <1>9

-----------------------------------------------------------------------------------
(* The handlers.                                                                    *)

\* What a handler of connection c has to show.
Goes(c) ==
    /\ OthersAlone(c) /\ Stage(c)' /\ Pace(conn'[c])
    /\ PlanMove(conn[c], conn'[c])

\* A move that leaves the plan fields alone.
LEMMA SamePaceMove ==
    ASSUME NEW x \in ConnType, NEW y, SamePace(x, y), Pace(x), recorded' = recorded
    PROVE  Pace(y) /\ PlanMove(x, y)
<1>1. Pace(y)
  BY SamePaceKept
<1> QED BY <1>1 DEF SamePace, PlanMove, SamePlan

LEMMA ConnectedGoes ==
    ASSUME CycleInv, Reliable, NEW c \in Conns, NEW f \in Fds, f = conn[c].fd,
           Dialling(c), WriteReady(sock[f]), SocketConnected(f, c)
    PROVE  Goes(c)
<1>0. /\ conn \in [Conns -> ConnType] /\ events \in [Fds -> EntryType]
      /\ conn[c] \in ConnType /\ Pace(conn[c])
  BY CycleReady DEF Tables, CycleInv
<1>1. delays' = delays /\ handed' = handed /\ recorded' = recorded
  BY DEF SocketConnected, NothingRecorded
<1>2. CASE /\ conn' = [conn EXCEPT ![c].parser = "start", ![c].written = 0]
           /\ events' = CreateFileEvent(
                          CreateFileEvent(events, f, {AE_READABLE}, "socket_readable", c),
                          f, {AE_WRITABLE}, "socket_writeable", c)
           /\ UNCHANGED <<sock, errors, faults>>
  <2> DEFINE cn == [conn[c] EXCEPT !.parser = "start", !.written = 0]
             evs == CreateFileEvent(events, f, {AE_READABLE}, "socket_readable", c)
             e == CreateFileEvent(evs, f, {AE_WRITABLE}, "socket_writeable", c)
  <2>1. SamePace(conn[c], cn) /\ cn.fd = f /\ cn.parser = "start" /\ cn.written = 0
    BY <1>0, SMT DEF SamePace, ConnType
  <2>2. evs \in [Fds -> EntryType]
    BY <1>0, CreateFileEventProps DEF Masks, AE_READABLE, AE_WRITABLE
  <2>3. /\ evs[f].mask = events[f].mask \cup {AE_READABLE}
        /\ evs[f].rproc = "socket_readable"
        /\ \A g \in Fds : g # f => evs[g] = events[g]
    BY <1>0, CreatedEntry
  <2> HIDE DEF evs
  <2>4. /\ e[f].mask = evs[f].mask \cup {AE_WRITABLE} /\ e[f].data = c
        /\ e[f].wproc = "socket_writeable"
        /\ \A g \in Fds : g # f => e[g] = evs[g]
    BY <2>2, CreatedEntry
  <2>5. e[f].rproc = evs[f].rproc
    <3>1. AE_READABLE \notin {AE_WRITABLE}
      BY DEF AE_READABLE, AE_WRITABLE
    <3> QED BY <2>2, <3>1, CreatedEntry
  <2>6. events' = e
    BY <1>2 DEF evs
  <2>7. conn'[c] = cn /\ \A d \in Conns : d # c => conn'[d] = conn[d]
    BY <1>0, <1>2, Zenon
  <2> HIDE DEF e, cn
  <2>8. events'[f].mask = RW
    BY <2>3, <2>4, <2>6 DEF Dialling, Registered, Entry, RW
  <2>9. Registered(c, RW)' /\ Entry(c)' = events'[f] /\ Wire(c)' = sock[f]
    BY <1>2, <2>1, <2>4, <2>6, <2>7, <2>8 DEF Registered, Entry, Wire
  <2>10. sock[f].st = "open"
    BY DEF Dialling, Wire, WriteReady
  <2>11. AtRest(c)' /\ Silent(c)'
    BY <1>1, <2>1, <2>7, <2>9 DEF Dialling, AtRest, Silent, Wire, SamePace
  <2>12. Idle(c)'
    BY <1>1, <2>1, <2>3, <2>4, <2>5, <2>6, <2>7, <2>9, <2>10, <2>11
       DEF Idle, Established, Dialling
  <2>13. OthersAlone(c)
    BY <1>1, <1>2, <2>3, <2>4, <2>6, <2>7 DEF OthersAlone
  <2>14. Pace(conn'[c]) /\ PlanMove(conn[c], conn'[c])
    BY <1>0, <1>1, <2>1, <2>7, SamePaceMove
  <2> QED BY <2>12, <2>13, <2>14 DEF Goes, Stage
<1>3. CASE ReconnectSocket(c, conn[c], [errors EXCEPT !.connect = @ + 1], faults - 1)
  <2>1. /\ conn[c].pending = 0 /\ ~conn[c].has_pending /\ conn[c].written = 0
        /\ handed'[c] = 0 /\ delays'[c] = <<>>
    BY <1>1 DEF Dialling, AtRest
  <2>2. /\ Dialling(c)'
        /\ \E g \in Fds : conn'[c] = WithFd(conn[c], g)
        /\ \A d \in Conns : d # c => conn'[d] = conn[d]
        /\ \A g \in Fds : g # conn[c].fd /\ sock[g].st # "free" =>
             events'[g] = events[g] /\ sock'[g] = sock[g]
    BY <1>0, <1>3, <2>1, Redialled
  <2>3. SamePace(conn[c], conn'[c])
    BY <1>0, <2>2, OtherFields
  <2> QED BY <1>0, <1>1, <2>2, <2>3, SamePaceMove DEF Goes, OthersAlone, Stage
<1> QED BY <1>2, <1>3 DEF SocketConnected

LEMMA WaitGoes ==
    ASSUME CycleInv, NEW c \in Conns, NEW f \in Fds, f = conn[c].fd,
           Idle(c) \/ Writing(c), Registered(c, RW), WaitToSend(f, c)
    PROVE  Goes(c)
<1>0. /\ conn \in [Conns -> ConnType] /\ events \in [Fds -> EntryType]
      /\ conn[c] \in ConnType /\ Pace(conn[c]) /\ now \in Nat
      /\ delays \in [Conns -> Seq(Nat)]
  BY CycleReady DEF Tables, CycleInv
<1>1. /\ conn' = [conn EXCEPT ![c] = Paced(conn[c], now)] /\ conn[c].written = 0
      /\ events' = DeleteFileEvent(events, f, {AE_WRITABLE})
      /\ delays' = DelayTimer(c) /\ sock' = sock
      /\ handed' = handed /\ recorded' = recorded
  BY DEF WaitToSend, WaitUnwritable, NothingRecorded
<1>2. Idle(c) /\ delays[c] = <<>>
  <2>1. Idle(c)
    BY <1>1, SMT DEF Writing
  <2>2. RW # {AE_READABLE}
    BY DEF RW, AE_READABLE, AE_WRITABLE
  <2> QED BY <2>1, <2>2 DEF Idle, Registered
<1>3. /\ conn'[c] = Paced(conn[c], now)
      /\ \A d \in Conns : d # c => conn'[d] = conn[d]
  BY <1>0, <1>1, Zenon
<1>4. /\ conn'[c] \in ConnType /\ Pace(conn'[c]) /\ SamePlan(conn[c], conn'[c])
      /\ conn'[c].has_pending = conn[c].has_pending
      /\ conn'[c].fd = f /\ conn'[c].parser = conn[c].parser
      /\ conn'[c].written = conn[c].written
  BY <1>0, <1>1, <1>2, <1>3, PacedAtRest DEF Idle, AtRest, SamePlan
<1>5. Len(delays'[c]) = 1 /\ \A d \in Conns : d # c => delays'[d] = delays[d]
  <2> DEFINE t == MsNow(now) + DelayMs(UsecToNextSend(conn[c], now))
  <2>1. delays' = [delays EXCEPT ![c] = <<t>> \o delays[c]]
    BY <1>1 DEF DelayTimer
  <2>2. t \in Nat
    BY <1>0, WaitNat
  <2> HIDE DEF t
  <2>3. <<t>> \o delays[c] = <<t>> /\ Len(<<t>>) = 1
    BY <1>2, <2>2, ConcatEmptySeq
  <2> QED BY <1>0, <2>1, <2>3
<1>6. /\ events'[f].mask = events[f].mask \ {AE_WRITABLE}
      /\ events'[f].data = events[f].data /\ events'[f].rproc = events[f].rproc
      /\ \A g \in Fds : g # f => events'[g] = events[g]
  BY <1>0, <1>1, DeletedEntry
<1>7. events'[f].mask = {AE_READABLE}
  BY <1>6 DEF Registered, Entry, RW, AE_READABLE, AE_WRITABLE
<1>8. Registered(c, {AE_READABLE})' /\ Entry(c)' = events'[f] /\ Wire(c)' = sock[f]
  <2>1. Entry(c)' = events'[f] /\ Wire(c)' = sock[f]
    BY <1>1, <1>4 DEF Entry, Wire
  <2>2. events'[f].data = c
    BY <1>6 DEF Registered, Entry
  <2> QED BY <1>4, <1>7, <2>1, <2>2 DEF Registered
<1>9. Idle(c)'
  <2>1. Established(c)'
    BY <1>2, <1>6, <1>8 DEF Idle, Established, Entry, Wire
  <2>2. AtRest(c)'
    BY <1>1, <1>2, <1>4 DEF Idle, AtRest, SamePlan
  <2>3. Silent(c)'
    BY <1>2, <1>4, <1>8 DEF Idle, Silent, Wire
  <2>4. conn'[c].parser = "start"
    BY <1>2, <1>4 DEF Idle
  <2> QED BY <1>5, <1>8, <2>1, <2>2, <2>3, <2>4 DEF Idle
<1>10. OthersAlone(c)
  BY <1>1, <1>3, <1>5, <1>6 DEF OthersAlone
<1> QED BY <1>4, <1>9, <1>10 DEF Goes, Stage, PlanMove

\* A write of n units to a server that has read all there was.
LEMMA Delivered ==
    ASSUME NEW s \in SocketType, s.peer = "up", s.inq = <<>>, s.owed = 0, ~s.mid,
           s.got \in 0 .. (ReqLen - 1), NEW n \in 1 .. (ReqLen - s.got)
    PROVE  LET t == Deliver(s, n) IN
           /\ t.st = s.st /\ t.peer = "up" /\ t.inq = <<>> /\ ~t.mid
           /\ s.got + n = ReqLen => t.got = 0 /\ t.owed = Pipeline
           /\ s.got + n # ReqLen => t.got = s.got + n /\ t.owed = 0
<1> DEFINE all == s.got + n
           t == [s EXCEPT !.got = all % ReqLen, !.owed = @ + Pipeline * (all \div ReqLen)]
<1>1. Deliver(s, n) = t
  BY DEF Deliver
<1>2. /\ t.st = s.st /\ t.peer = "up" /\ t.inq = <<>> /\ t.mid = s.mid
      /\ t.got = all % ReqLen /\ t.owed = 0 + Pipeline * (all \div ReqLen)
  BY SMT DEF SocketType
<1> HIDE DEF t
<1>3. ReqLen \in Nat \ {0} /\ Pipeline \in Nat \ {0} /\ all \in 1 .. ReqLen
  BY ThreadAssumption, SMT
<1> HIDE DEF all
<1>4. CASE all = ReqLen
  <2>1. ReqLen % ReqLen = 0 /\ ReqLen \div ReqLen = 1
    BY <1>3, SMT
  <2>2. 0 + Pipeline * 1 = Pipeline
    BY <1>3, SMT
  <2>3. t.got = 0 /\ t.owed = Pipeline
    BY <1>2, <1>4, <2>1, <2>2
  <2> QED BY <1>1, <1>2, <1>4, <2>3 DEF all
<1>5. CASE all # ReqLen
  <2>1. all % ReqLen = all /\ all \div ReqLen = 0
    BY <1>3, <1>5, SMT
  <2>2. 0 + Pipeline * 0 = 0
    BY <1>3, SMT
  <2>3. t.got = all /\ t.owed = 0
    BY <1>2, <2>1, <2>2
  <2> QED BY <1>1, <1>2, <1>5, <2>3 DEF all
<1> QED BY <1>4, <1>5

\* The connection as socket_writeable has it before it writes: a batch that is due
\* begins, or the write of one goes on.
LEMMA SendBegins ==
    ASSUME CycleInv, NEW c \in Conns, NEW f \in Fds, f = conn[c].fd,
           Idle(c) \/ Writing(c), Registered(c, RW),
           conn[c].written = 0 => UsecToNextSend(conn[c], now) = 0,
           NEW cn,
           cn = IF conn[c].written = 0 THEN BeginBatch(Paced(conn[c], now)) ELSE conn[c],
           handed' = IF conn[c].written = 0 /\ Dynamic
                     THEN [handed EXCEPT ![c] = @ + Pipeline] ELSE handed,
           recorded' = recorded
    PROVE  /\ cn \in ConnType /\ Pace(cn) /\ cn.fd = f /\ cn.parser = "start"
           /\ cn.written = conn[c].written /\ cn.written \in 0 .. (ReqLen - 1)
           /\ cn.has_pending /\ cn.pending = Pipeline
           /\ PlanMove(conn[c], cn)
           /\ handed'[c] = HandedFor(Pipeline)
           /\ \A d \in Conns : d # c => handed'[d] = handed[d]
           /\ Silent(c) /\ Established(c) /\ delays[c] = <<>>
           /\ Entry(c).wproc = "socket_writeable"
<1>0. /\ conn[c] \in ConnType /\ Pace(conn[c]) /\ now \in Nat /\ now # 0
      /\ handed \in [Conns -> Int] /\ Pipeline \in Nat \ {0} /\ ReqLen \in Nat \ {0}
  BY CycleReady, ThreadAssumption DEF Tables, CycleInv
<1>1. CASE conn[c].written = 0
  <2>1. Idle(c)
    BY <1>1, SMT DEF Writing
  <2>2. RW # {AE_READABLE}
    BY DEF RW, AE_READABLE, AE_WRITABLE
  <2>3. /\ Established(c) /\ AtRest(c) /\ Silent(c) /\ conn[c].parser = "start"
        /\ delays[c] = <<>> /\ Entry(c).wproc = "socket_writeable"
    BY <2>1, <2>2 DEF Idle, Registered
  <2>4. /\ cn \in ConnType /\ Pace(cn) /\ cn.fd = f /\ cn.parser = "start"
        /\ cn.written = 0 /\ cn.has_pending /\ cn.pending = Pipeline
        /\ cn.thread_start = conn[c].thread_start /\ cn.complete = conn[c].complete
        /\ cn.complete_at_last_batch_start = conn[c].complete
        /\ cn.actual_latency_start = now
    BY <1>0, <1>1, <2>3, BeginAtRest DEF AtRest
  <2>5. conn[c].thread_start # 0
    <3>1. events[f].mask # {}
      BY DEF Registered, Entry, RW
    <3> QED BY <3>1, RegisteredOwner DEF Registered, Entry, CycleInv, Dialled
  <2>6. PlannedStart(conn[c]) <= now
    BY <1>0, <1>1, SendIsDue
  <2>7. PlanMove(conn[c], cn)
    BY <2>3, <2>4, <2>5, <2>6 DEF PlanMove, Begins, AtRest
  <2>8. /\ handed'[c] = HandedFor(Pipeline)
        /\ \A d \in Conns : d # c => handed'[d] = handed[d]
    <3>1. handed[c] = 0
      BY <2>3 DEF AtRest
    <3>2. CASE Dynamic
      <4>1. handed' = [handed EXCEPT ![c] = handed[c] + Pipeline]
        BY <1>1, <3>2
      <4>2. handed[c] + Pipeline = Pipeline
        BY <1>0, <3>1, SMT
      <4> QED BY <1>0, <3>2, <4>1, <4>2, Zenon DEF HandedFor
    <3>3. CASE ~Dynamic
      BY <1>1, <3>1, <3>3, Zenon DEF HandedFor
    <3> QED BY <3>2, <3>3
  <2>9. cn.written \in 0 .. (ReqLen - 1)
    BY <1>0, <2>4, SMT
  <2> QED BY <1>1, <2>3, <2>4, <2>7, <2>8, <2>9
<1>2. CASE conn[c].written # 0
  <2>1. Writing(c) /\ cn = conn[c] /\ handed' = handed
    BY <1>2, Zenon DEF Idle, AtRest
  <2>2. cn.written \in 0 .. (ReqLen - 1)
    BY <1>0, <2>1, SMT DEF Writing
  <2>3. PlanMove(conn[c], cn)
    BY <2>1 DEF PlanMove, SamePlan
  <2> QED BY <1>0, <2>1, <2>2, <2>3 DEF Writing
<1> QED BY <1>1, <1>2

LEMMA SendGoes ==
    ASSUME CycleInv, Reliable, NEW c \in Conns, NEW f \in Fds, f = conn[c].fd,
           Idle(c) \/ Writing(c), Registered(c, RW), Send(f, c)
    PROVE  Goes(c)
<1> DEFINE cn == IF conn[c].written = 0 THEN BeginBatch(Paced(conn[c], now)) ELSE conn[c]
<1>0. /\ conn \in [Conns -> ConnType] /\ events \in [Fds -> EntryType]
      /\ sock \in [Fds -> SocketType] /\ ReqLen \in Nat \ {0} /\ Pipeline \in Nat \ {0}
  BY CycleReady, ThreadAssumption DEF Tables
<1>1. /\ conn[c].written = 0 => UsecToNextSend(conn[c], now) = 0
      /\ handed' = IF conn[c].written = 0 /\ Dynamic
                   THEN [handed EXCEPT ![c] = @ + Pipeline] ELSE handed
      /\ recorded' = recorded /\ delays' = delays
  BY DEF Send
<1>2. /\ cn \in ConnType /\ Pace(cn) /\ cn.fd = f /\ cn.parser = "start"
      /\ cn.written = conn[c].written /\ cn.written \in 0 .. (ReqLen - 1)
      /\ cn.has_pending /\ cn.pending = Pipeline
      /\ PlanMove(conn[c], cn)
      /\ handed'[c] = HandedFor(Pipeline)
      /\ \A d \in Conns : d # c => handed'[d] = handed[d]
      /\ Silent(c) /\ Established(c) /\ delays[c] = <<>>
      /\ Entry(c).wproc = "socket_writeable"
  BY <1>1, SendBegins
<1>3. /\ sock[f] \in SocketType /\ sock[f].st = "open" /\ sock[f].peer = "up"
      /\ sock[f].inq = <<>> /\ sock[f].owed = 0 /\ ~sock[f].mid
      /\ sock[f].got = cn.written
  BY <1>0, <1>2 DEF Silent, Established, Wire
<1>4. \E n \in 1 .. (ReqLen - cn.written) :
         /\ conn' = [conn EXCEPT ![c] = [cn EXCEPT !.written =
                        IF cn.written + n = ReqLen THEN 0 ELSE @ + n]]
         /\ sock' = [sock EXCEPT ![cn.fd] = Deliver(@, n)]
         /\ events' = IF cn.written + n = ReqLen THEN WrittenUnwritable(f) ELSE events
  <2>1. "again" \notin FaultKinds
    BY DEF Reliable
  <2>2. ~(sock[cn.fd].st # "open" \/ sock[cn.fd].peer = "rst")
    BY <1>2, <1>3
  <2> HIDE DEF cn
  <2> QED BY <2>1, <2>2, Zenon DEF Send, Fault, cn
<1> HIDE DEF cn
<1>5. PICK n \in 1 .. (ReqLen - cn.written) :
         /\ conn' = [conn EXCEPT ![c] = [cn EXCEPT !.written =
                        IF cn.written + n = ReqLen THEN 0 ELSE @ + n]]
         /\ sock' = [sock EXCEPT ![cn.fd] = Deliver(@, n)]
         /\ events' = IF cn.written + n = ReqLen THEN WrittenUnwritable(f) ELSE events
  BY <1>4
<1> DEFINE m == IF cn.written + n = ReqLen THEN 0 ELSE cn.written + n
           x == [cn EXCEPT !.written = m]
           t == Deliver(sock[f], n)
<1>6. /\ conn'[c] = x /\ \A d \in Conns : d # c => conn'[d] = conn[d]
  BY <1>0, <1>5, Zenon
<1>7. /\ sock'[f] = t /\ \A g \in Fds : g # f => sock'[g] = sock[g]
  BY <1>0, <1>2, <1>5, Zenon
<1>8. /\ t.st = "open" /\ t.peer = "up" /\ t.inq = <<>> /\ ~t.mid
      /\ cn.written + n = ReqLen => t.got = 0 /\ t.owed = Pipeline
      /\ cn.written + n # ReqLen => t.got = cn.written + n /\ t.owed = 0
  <2>1. sock[f].got \in 0 .. (ReqLen - 1) /\ n \in 1 .. (ReqLen - sock[f].got)
    BY <1>2, <1>3
  <2> QED BY <1>3, <2>1, Delivered
<1> HIDE DEF t, m
<1>9. SamePace(cn, x) /\ x.written = m /\ x.fd = f /\ x.parser = "start"
  BY <1>2, OtherFields
<1> HIDE DEF x
<1>10. Pace(conn'[c]) /\ PlanMove(conn[c], conn'[c])
  <2>1. Pace(x)
    BY <1>2, <1>9, SamePaceKept
  <2>2. PlanMove(conn[c], x)
    BY <1>2, <1>9 DEF PlanMove, SamePlan, Opens, Begins, Responds, SamePace
  <2> QED BY <1>6, <2>1, <2>2
<1>11. CASE cn.written + n = ReqLen
  <2>1. /\ events'[f].mask = events[f].mask \ {AE_WRITABLE}
        /\ events'[f].data = events[f].data /\ events'[f].rproc = events[f].rproc
        /\ \A g \in Fds : g # f => events'[g] = events[g]
    BY <1>0, <1>5, <1>11, DeletedEntry DEF WrittenUnwritable
  <2>2. events'[f].mask = {AE_READABLE}
    BY <2>1 DEF Registered, Entry, RW, AE_READABLE, AE_WRITABLE
  <2>3. Registered(c, {AE_READABLE})' /\ Entry(c)' = events'[f] /\ Wire(c)' = t
    BY <1>6, <1>7, <1>9, <2>1, <2>2 DEF Registered, Entry, Wire
  <2>4. /\ conn'[c].written = 0 /\ conn'[c].parser = "start"
        /\ conn'[c].has_pending /\ conn'[c].pending = Pipeline
    BY <1>2, <1>6, <1>9, <1>11 DEF m, SamePace
  <2>5. Pipeline \in 1 .. Pipeline
    BY <1>0, SMT
  <2>6. Out(c)'
    BY <1>1, <1>2, <1>8, <1>11, <2>1, <2>3, <2>4, <2>5 DEF Out, Established, Entry
  <2>7. Answering(t, "start")
    <3>1. <<>> \in Seq(Answers) /\ \A i \in 1 .. (Len(<<>>) - 1) : <<>>[i] \notin Closing
      BY EmptySeq, SMT
    <3>2. t.owed \in Nat
      BY <1>0, <1>8, <1>11
    <3> QED BY <1>8, <3>1, <3>2 DEF Answering
  <2>8. OnTheWire(t) = Pipeline
    <3>1. Pipeline + 0 = Pipeline
      BY <1>0, SMT
    <3> QED BY <1>8, <1>11, <3>1, UnreadNone DEF OnTheWire
  <2>9. Awaiting(c)'
    <3>1. Pipeline = Pipeline + 0
      BY <1>0, SMT
    <3> QED BY <1>2, <2>3, <2>4, <2>6, <2>7, <2>8, <3>1 DEF Awaiting
  <2>10. OthersAlone(c)
    BY <1>1, <1>2, <1>6, <1>7, <2>1 DEF OthersAlone
  <2> QED BY <1>10, <2>9, <2>10 DEF Goes, Stage
<1>12. CASE cn.written + n # ReqLen
  <2>1. events' = events
    BY <1>5, <1>12
  <2>2. Registered(c, RW)' /\ Entry(c)' = events[f] /\ Wire(c)' = t
    BY <1>6, <1>7, <1>9, <2>1 DEF Registered, Entry, Wire
  <2>3. /\ conn'[c].written = cn.written + n /\ conn'[c].parser = "start"
        /\ conn'[c].has_pending /\ conn'[c].pending = Pipeline
    BY <1>2, <1>6, <1>9, <1>12 DEF m, SamePace
  <2>4. cn.written + n \in 1 .. (ReqLen - 1)
    BY <1>0, <1>2, <1>12, SMT
  <2>5. Silent(c)' /\ Established(c)' /\ Entry(c)'.wproc = "socket_writeable"
    BY <1>2, <1>8, <1>12, <2>2, <2>3 DEF Silent, Established, Entry
  <2>6. Writing(c)'
    BY <1>1, <1>2, <2>2, <2>3, <2>4, <2>5 DEF Writing
  <2>7. OthersAlone(c)
    BY <1>1, <1>2, <1>6, <1>7, <2>1 DEF OthersAlone
  <2> QED BY <1>10, <2>6, <2>7 DEF Goes, Stage
<1> QED BY <1>11, <1>12

\* The descriptor of an event that fires is one of a connection that waits for it.
LEMMA FiresFor ==
    ASSUME CycleInv, NEW f \in Fds, events[f].mask # {}
    PROVE  /\ events[f].data \in Conns /\ conn[events[f].data].fd = f
           /\ Stage(events[f].data) /\ Pace(conn[events[f].data])
           /\ Entry(events[f].data) = events[f] /\ Wire(events[f].data) = sock[f]
           /\ ~Undialled(events[f].data)
<1>1. events[f].data \in Conns /\ conn[events[f].data].fd = f
  BY RegisteredOwner DEF CycleInv
<1>2. NoFd \notin Fds
  BY ThreadAssumption
<1> QED BY <1>1, <1>2 DEF CycleInv, Entry, Wire, Undialled

LEMMA FireWriteableCycle ==
    ASSUME CycleInv, Reliable, NEW f \in Fds, FireWriteable(f)
    PROVE  \E c \in Conns : CycleStep(c)
<1>1. AE_WRITABLE \in events[f].mask /\ WriteReady(sock[f]) /\ turn.step = "poll"
  BY DEF FireWriteable, AtPoll
<1>2. events[f].mask # {}
  BY <1>1
<1> PICK c \in Conns : c = events[f].data
  BY <1>2, FiresFor
<1>3. /\ conn[c].fd = f /\ Stage(c) /\ ~Undialled(c)
      /\ Entry(c) = events[f] /\ Wire(c) = sock[f]
  BY <1>2, FiresFor
<1>4. /\ \/ Entry(c).wproc = "socket_connected" /\ SocketConnected(f, c)
         \/ Entry(c).wproc = "socket_writeable" /\ SocketWriteable(f, c)
      /\ turn' = Polling /\ FileEvent(f) /\ LoopOnly
  BY <1>3 DEF FireWriteable, CallWriteProc
<1>5. Entry(c).mask # {AE_READABLE}
  BY <1>1, <1>3 DEF AE_READABLE, AE_WRITABLE
<1>6. \/ Dialling(c) /\ Entry(c).wproc = "socket_connected"
      \/ /\ Idle(c) \/ Writing(c)
         /\ Registered(c, RW) /\ Entry(c).wproc = "socket_writeable"
  BY <1>3, <1>5 DEF Stage, Dialling, Idle, Writing, Awaiting, Stopped, Out, Registered
<1>7. Goes(c)
  <2>1. CASE Dialling(c) /\ Entry(c).wproc = "socket_connected"
    BY <1>1, <1>3, <1>4, <2>1, ConnectedGoes
  <2>2. CASE /\ Idle(c) \/ Writing(c)
             /\ Registered(c, RW) /\ Entry(c).wproc = "socket_writeable"
    BY <1>3, <1>4, <2>2, WaitGoes, SendGoes DEF SocketWriteable
  <2> QED BY <1>6, <2>1, <2>2
<1>8. stopping' = stopping
  BY <1>4 DEF SocketConnected, SocketWriteable, WaitToSend, Send, NothingRecorded
<1>9. OnlyTouches(c) /\ Reading'
  BY <1>4, <1>7, <1>8 DEF Goes, OnlyTouches, FileEvent, LoopOnly, Polling, Reading
<1> QED BY <1>3, <1>7, <1>9 DEF CycleStep, Goes

\* The one timer of an idle connection fires.
LEMMA DelayRequestCycle ==
    ASSUME CycleInv, NEW c \in Conns, DelayRequest(c)
    PROVE  CycleStep(c)
<1>0. /\ conn \in [Conns -> ConnType] /\ events \in [Fds -> EntryType]
      /\ conn[c] \in ConnType /\ Pace(conn[c]) /\ now \in Nat /\ Stage(c)
      /\ delays \in [Conns -> Seq(Nat)]
  BY CycleReady DEF Tables, CycleInv
<1>1. PICK i \in DOMAIN delays[c] :
        LET wait == UsecToNextSend(conn[c], now)
            f    == conn[c].fd IN
        /\ conn' = [conn EXCEPT ![c] = Paced(@, now)]
        /\ \/ wait > 0 /\ delays' = TimerReturns(c, i, DelayMs(wait)) /\ UNCHANGED events
           \/ /\ wait = 0 /\ delays' = TimerReturns(c, i, AE_NOMORE)
              /\ events' = IF sock[f].st # "free"
                           THEN CreateFileEvent(events, f, {AE_WRITABLE},
                                                "socket_writeable", c)
                           ELSE events
        /\ NothingRecorded /\ TimeEvent /\ LoopOnly
        /\ UNCHANGED <<sock, errors, faults, turn>>
        /\ AtPoll
  BY DEF DelayRequest
<1> DEFINE wait == UsecToNextSend(conn[c], now)
<1>2. delays[c] \in Seq(Nat) /\ delays[c] # <<>> /\ i \in 1 .. Len(delays[c])
  BY <1>0, <1>1
<1>3. Idle(c) /\ Registered(c, {AE_READABLE}) /\ Len(delays[c]) = 1
  BY <1>0, <1>2 DEF Stage, Undialled, Dialling, Idle, Writing, Awaiting, Stopped, Out
<1> PICK f \in Fds : f = conn[c].fd
  BY <1>3 DEF Registered
<1>4. i = 1
  BY <1>2, <1>3, SMT
<1>5. /\ conn'[c] = Paced(conn[c], now)
      /\ \A d \in Conns : d # c => conn'[d] = conn[d]
  BY <1>0, <1>1, Zenon
<1>6. /\ conn'[c] \in ConnType /\ Pace(conn'[c]) /\ SamePlan(conn[c], conn'[c])
      /\ conn'[c].has_pending = conn[c].has_pending
      /\ conn'[c].fd = f /\ conn'[c].parser = conn[c].parser
      /\ conn'[c].written = conn[c].written
  BY <1>0, <1>1, <1>3, <1>5, PacedAtRest DEF Idle, AtRest, SamePlan, NothingRecorded
<1>7. sock[f].st = "open" /\ Entry(c) = events[f] /\ Wire(c) = sock[f]
  BY <1>3 DEF Idle, Established, Wire, Registered, Entry
<1>8. /\ sock' = sock /\ handed' = handed /\ now' = now /\ stopping' = stopping
      /\ turn' = turn /\ turn.step = "poll" /\ rest' \subseteq rest /\ recorded' = recorded
  BY <1>1 DEF NothingRecorded, TimeEvent, LoopOnly, AtPoll
<1>9. Wire(c)' = Wire(c)
  BY <1>6, <1>7, <1>8 DEF Wire
<1>10. CASE delays' = TimerReturns(c, i, DelayMs(wait)) /\ UNCHANGED events /\ wait > 0
  <2> DEFINE t == MsNow(now) + DelayMs(wait)
             s == [delays[c] EXCEPT ![i] = t]
  <2>1. t \in Nat /\ DelayMs(wait) # AE_NOMORE
    <3>1. t \in Nat /\ wait \in Nat
      BY <1>0, WaitNat
    <3> HIDE DEF wait
    <3>2. DelayMs(wait) \in Nat
      BY <3>1, Quotient, PacingAssumption, SMT DEF DelayMs
    <3> QED BY <3>1, <3>2, SMT DEF AE_NOMORE
  <2>2. delays' = [delays EXCEPT ![c] = s]
    BY <1>10, <2>1 DEF TimerReturns
  <2> HIDE DEF t
  <2>3. Len(s) = 1
    BY <1>2, <1>3, <2>1
  <2> HIDE DEF s
  <2>4. Len(delays'[c]) = 1 /\ \A d \in Conns : d # c => delays'[d] = delays[d]
    BY <1>0, <2>2, <2>3, Zenon
  <2>5. Registered(c, {AE_READABLE})' /\ Entry(c)' = Entry(c)
    BY <1>3, <1>6, <1>10 DEF Registered, Entry
  <2>6. Idle(c)'
    BY <1>3, <1>6, <1>8, <1>9, <2>4, <2>5
       DEF Idle, Established, AtRest, Silent, SamePlan
  <2>7. OthersAlone(c)
    BY <1>5, <1>8, <1>10, <2>4 DEF OthersAlone
  <2>8. OnlyTouches(c) /\ Reading'
    BY <1>8, <2>7 DEF OnlyTouches, Reading
  <2> QED BY <1>6, <2>6, <2>8 DEF CycleStep, Stage, PlanMove
<1>11. CASE /\ delays' = TimerReturns(c, i, AE_NOMORE)
            /\ events' = IF sock[f].st # "free"
                         THEN CreateFileEvent(events, f, {AE_WRITABLE},
                                              "socket_writeable", c)
                         ELSE events
  <2> DEFINE s == RemoveAt(delays[c], i)
  <2>1. s = <<>>
    <3>1. s = SubSeq(delays[c], 1, 0) \o SubSeq(delays[c], 2, 1)
      BY <1>3, <1>4, SMT DEF RemoveAt
    <3>2. SubSeq(delays[c], 1, 0) = <<>> /\ SubSeq(delays[c], 2, 1) = <<>>
      BY SubSeqEmpty
    <3>3. <<>> \o <<>> = <<>>
      BY ConcatEmptySeq, EmptySeq
    <3> QED BY <3>1, <3>2, <3>3
  <2>2. delays' = [delays EXCEPT ![c] = s]
    BY <1>11 DEF TimerReturns
  <2> HIDE DEF s
  <2>3. delays'[c] = <<>> /\ \A d \in Conns : d # c => delays'[d] = delays[d]
    BY <1>0, <2>1, <2>2, Zenon
  <2>4. events' = CreateFileEvent(events, f, {AE_WRITABLE}, "socket_writeable", c)
    BY <1>7, <1>11
  <2>6. /\ events'[f].mask = events[f].mask \cup {AE_WRITABLE}
        /\ events'[f].data = c /\ events'[f].wproc = "socket_writeable"
        /\ events'[f].rproc = events[f].rproc
        /\ \A g \in Fds : g # f => events'[g] = events[g]
    BY <1>0, <2>4, WritableAwaited
  <2>7. events'[f].mask = RW
    BY <1>3, <1>7, <2>6 DEF Registered, RW
  <2>8. Registered(c, RW)' /\ Entry(c)' = events'[f]
    BY <1>6, <1>7, <2>6, <2>7 DEF Registered, Entry
  <2>9. Idle(c)'
    BY <1>3, <1>6, <1>7, <1>8, <1>9, <2>3, <2>4, <2>6, <2>8
       DEF Idle, Established, AtRest, Silent, SamePlan
  <2>10. OthersAlone(c)
    BY <1>5, <1>8, <2>3, <2>4, <2>6 DEF OthersAlone
  <2>11. OnlyTouches(c) /\ Reading'
    BY <1>8, <2>10 DEF OnlyTouches, Reading
  <2> QED BY <1>6, <2>9, <2>11 DEF CycleStep, Stage, PlanMove
<1> QED BY <1>1, <1>10, <1>11

\* delayed_initial_connect: a connection without a free descriptor stays undialled.
LEMMA DelayedInitialConnectCycle ==
    ASSUME CycleInv, Reliable, NEW c \in Conns, DelayedInitialConnect(c)
    PROVE  CycleStep(c)
<1> DEFINE cn == [conn[c] EXCEPT !.thread_start = now]
<1>0. /\ conn \in [Conns -> ConnType] /\ events \in [Fds -> EntryType]
      /\ sock \in [Fds -> SocketType]
      /\ conn[c] \in ConnType /\ Pace(conn[c]) /\ now \in Nat /\ Stage(c)
  BY CycleReady DEF Tables, CycleInv
<1>1. /\ conn[c].thread_start = 0 /\ delays' = delays /\ handed' = handed
      /\ now' = now /\ stopping' = stopping /\ turn' = turn /\ turn.step = "poll"
      /\ rest' \subseteq rest /\ recorded' = recorded
      /\ ConnectSocket(c, cn, events, sock, errors, faults)
  BY DEF DelayedInitialConnect, NothingRecorded, TimeEvent, LoopOnly, AtPoll
<1>2. Undialled(c)
  <2>1. \A f \in Fds : events[f].mask # {} => events[f].data # c
    BY <1>1, RegisteredOwner DEF Dialled, CycleInv
  <2>2. RW # {} /\ {AE_READABLE} # {}
    BY DEF RW
  <2> QED BY <1>0, <2>1, <2>2 DEF Stage, Dialling, Idle, Writing, Awaiting, Stopped, Out,
                                  Registered, Entry
<1>3. cn \in ConnType
  BY <1>0, Zenon DEF ConnType
<1>4. /\ cn.thread_start = now /\ cn.complete = conn[c].complete
      /\ cn.pending = conn[c].pending /\ cn.has_pending = conn[c].has_pending
      /\ cn.complete_at_last_batch_start = conn[c].complete_at_last_batch_start
      /\ cn.actual_latency_start = conn[c].actual_latency_start
      /\ cn.caught_up = conn[c].caught_up
      /\ cn.catch_up_start_time = conn[c].catch_up_start_time
      /\ cn.complete_at_catch_up_start = conn[c].complete_at_catch_up_start
      /\ cn.fd = conn[c].fd /\ cn.written = conn[c].written
  BY <1>0, SMT DEF ConnType
<1> HIDE DEF cn
<1>5. /\ cn.pending = 0 /\ ~cn.has_pending /\ cn.written = 0 /\ handed'[c] = 0
      /\ delays'[c] = <<>> /\ cn.fd = NoFd
  BY <1>1, <1>2, <1>4 DEF Undialled, AtRest
<1>6. Pace(cn) /\ Opens(conn[c], cn)
  BY <1>0, <1>1, <1>4 DEF Pace, Counts, CaughtUpInTime, Opens
<1>7. /\ \A d \in Conns : d # c => conn'[d] = conn[d]
      /\ \/ \E f \in Fds :
              /\ sock[f].st = "free" /\ conn'[c] = WithFd(cn, f)
              /\ events'[f].mask = RW /\ events'[f].data = c
              /\ events'[f].rproc = "socket_connected"
              /\ events'[f].wproc = "socket_connected"
              /\ sock'[f] = Socket("connecting")
              /\ \A g \in Fds : g # f => events'[g] = events[g] /\ sock'[g] = sock[g]
         \/ conn'[c] = cn /\ sock' = sock /\ events' = events
  BY <1>0, <1>1, <1>3, NewSocket DEF Reliable
<1>8. /\ Stage(c)' /\ OthersAlone(c) /\ Pace(conn'[c]) /\ Opens(conn[c], conn'[c])
  <2>1. ASSUME NEW f \in Fds,
               sock[f].st = "free", conn'[c] = WithFd(cn, f),
               events'[f].mask = RW, events'[f].data = c,
               events'[f].rproc = "socket_connected",
               events'[f].wproc = "socket_connected",
               sock'[f] = Socket("connecting"),
               \A g \in Fds : g # f => events'[g] = events[g] /\ sock'[g] = sock[g]
        PROVE  /\ Stage(c)' /\ OthersAlone(c) /\ Pace(conn'[c]) /\ Opens(conn[c], conn'[c])
    <3>1. Dialling(c)'
      BY <1>3, <1>5, <2>1, StartsDialling
    <3>2. OthersAlone(c)
      BY <1>1, <1>7, <2>1 DEF OthersAlone
    <3>3. SamePace(cn, conn'[c])
      BY <1>3, <2>1, OtherFields
    <3>4. Pace(conn'[c])
      BY <1>6, <3>3, SamePaceKept
    <3>5. Opens(conn[c], conn'[c])
      BY <1>6, <3>3 DEF Opens, SamePace
    <3> QED BY <3>1, <3>2, <3>4, <3>5 DEF Stage
  <2>2. CASE conn'[c] = cn /\ sock' = sock /\ events' = events
    BY <1>1, <1>5, <1>6, <1>7, <2>2 DEF OthersAlone, Stage, Undialled, AtRest
  <2> QED BY <1>7, <2>1, <2>2
<1>9. OnlyTouches(c) /\ Reading'
  BY <1>1, <1>8 DEF OnlyTouches, Reading
<1> QED BY <1>8, <1>9 DEF CycleStep, PlanMove

-----------------------------------------------------------------------------------
(* socket_readable.                                                                 *)

\* The connections it runs for: those that wait for answers, and those that go on
\* reading in the turn in which they found that the time is over.
MayRead(c) == Awaiting(c) \/ (Stopped(c) /\ turn.step # "poll" /\ turn.c = c)

LEMMA WireTaken ==
    ASSUME NEW s, NEW t, s.inq \in Seq(Answers), s.inq # <<>>, s.owed \in Nat,
           t.inq = Tail(s.inq), t.owed = s.owed, NEW piece, piece = Head(s.inq)
    PROVE  /\ piece \in Answers /\ t.inq \in Seq(Answers)
           /\ OnTheWire(s) \in Nat /\ OnTheWire(t) \in Nat
           /\ piece = "part" => OnTheWire(t) = OnTheWire(s)
           /\ piece # "part" => OnTheWire(t) = OnTheWire(s) - 1
<1>1. /\ s.inq \in Seq(Pieces) /\ t.inq \in Seq(Answers) /\ t.inq \in Seq(Pieces)
      /\ piece \in Answers /\ piece # "junk"
  <2>1. t.inq \in Seq(Answers)
    BY HeadTailProperties
  <2>2. piece \in Answers
    BY HeadTailProperties, ElementOfSeq, EmptySeq
  <2> QED BY <2>1, <2>2, AnswersArePieces
<1>2. Cardinality(Unread(s.inq)) \in Nat /\ Cardinality(Unread(t.inq)) \in Nat
  BY <1>1, UnreadFinite
<1>3. Cardinality(Unread(t.inq)) = Cardinality(Unread(s.inq))
                                     - (IF piece \in {"part", "junk"} THEN 0 ELSE 1)
  BY <1>1, UnreadTail
<1> HIDE DEF Unread
<1>4. CASE piece = "part"
  <2>1. Cardinality(Unread(t.inq)) = Cardinality(Unread(s.inq)) - 0
    BY <1>3, <1>4, Zenon
  <2> QED BY <1>1, <1>2, <1>4, <2>1, SMT DEF OnTheWire
<1>5. CASE piece # "part"
  <2>1. Cardinality(Unread(t.inq)) = Cardinality(Unread(s.inq)) - 1
    BY <1>1, <1>3, <1>5, Zenon
  <2> QED BY <1>1, <1>2, <1>5, <2>1, SMT DEF OnTheWire
<1> QED BY <1>4, <1>5

\* t is the socket s after its first piece is read.
Taken(s, t) ==
    /\ t.inq = Tail(s.inq) /\ t.owed = s.owed /\ t.mid = s.mid /\ t.peer = s.peer
    /\ t.st = s.st /\ t.got = s.got

\* What the next piece of input can be.  A connection is closed by an answer only if
\* that is the last one, and nothing follows what closes it.
PieceRead(c, s, t, piece) ==
    /\ conn[c].parser \in {"start", "body"} /\ piece \in Answers
    /\ t.owed \in Nat /\ t.inq \in Seq(Answers)
    /\ Dynamic => handed[c] = OnTheWire(s)
    /\ OnTheWire(s) \in Nat /\ OnTheWire(t) \in Nat
    /\ piece = "part" => OnTheWire(t) = OnTheWire(s)
    /\ piece # "part" => OnTheWire(t) = OnTheWire(s) - 1
    /\ piece \in Closing => Awaiting(c) /\ conn[c].pending = 1 /\ t.inq = <<>>
    /\ piece # "part" /\ t.inq # <<>> => Answers \cap Closing = {}

LEMMA NextPiece ==
    ASSUME CycleInv, Reliable, NEW c \in Conns, MayRead(c),
           NEW s, s = Wire(c), s.inq # <<>>, NEW t, Taken(s, t),
           NEW piece, piece = Head(s.inq)
    PROVE  PieceRead(c, s, t, piece)
<1>0. t.inq = Tail(s.inq) /\ t.owed = s.owed /\ t.mid = s.mid /\ t.peer = s.peer
  BY DEF Taken
<1>1. CASE Awaiting(c)
  <2>1. Answering(s, conn[c].parser)
    BY <1>1 DEF Awaiting
  <2>2. /\ conn[c].parser \in {"start", "body"} /\ piece \in Answers
        /\ piece = "part" =>
             Answering(t, "body") /\ OnTheWire(t) = OnTheWire(s)
        /\ piece \in {"ok", "fail"} =>
             Answering(t, "start") /\ OnTheWire(t) = OnTheWire(s) - 1
        /\ piece \in Closing => t.inq = <<>>
    BY <1>0, <2>1, PieceTaken
  <2>3. s.inq \in Seq(Answers) /\ s.owed \in Nat
    BY <2>1 DEF Answering
  <2>4. /\ t.inq \in Seq(Answers) /\ OnTheWire(s) \in Nat /\ OnTheWire(t) \in Nat
        /\ piece # "part" => OnTheWire(t) = OnTheWire(s) - 1
    BY <1>0, <2>3, WireTaken
  <2>5. conn[c].pending = OnTheWire(s) /\ conn[c].pending \in 1 .. Pipeline
    <3>1. conn[c].parser # "eof_body"
      BY <2>2
    <3>2. conn[c].pending = OnTheWire(s) + 0
      BY <1>1, <3>1, Zenon DEF Awaiting
    <3> QED BY <1>1, <2>4, <3>2, SMT DEF Awaiting, Out
  <2>6. Dynamic => handed[c] = OnTheWire(s)
    BY <1>1, <2>5 DEF Awaiting, HandedFor
  <2>7. Pipeline = 1 => conn[c].pending = 1
    BY <2>5, SMT
  <2>8. piece \in Closing => Pipeline = 1
    BY <2>2 DEF Reliable, Closing
  <2>9. ASSUME piece # "part", t.inq # <<>> PROVE Answers \cap Closing = {}
    <3>1. piece \in {"ok", "fail"}
      BY <2>2, <2>9, AnswersArePieces DEF Closing
    <3>2. ASSUME Pipeline = 1 PROVE FALSE
      <4>1. OnTheWire(t) = 0
        BY <2>4, <2>5, <2>7, <2>9, <3>2, SMT
      <4> QED BY <2>2, <2>9, <3>1, <4>1, NothingLeft
    <3> QED BY <3>2 DEF Reliable, Closing
  <2>10. piece \in Closing => Awaiting(c) /\ conn[c].pending = 1 /\ t.inq = <<>>
    BY <1>1, <2>2, <2>7, <2>8
  <2> QED BY <1>0, <2>2, <2>3, <2>4, <2>6, <2>9, <2>10, Zenon DEF PieceRead
<1>2. CASE Stopped(c) /\ turn.step # "poll" /\ turn.c = c
  <2>1. /\ Answers \cap Closing = {} /\ s.owed \in Nat /\ s.inq \in Seq(Answers)
        /\ conn[c].parser \in {"start", "body"}
        /\ Dynamic => handed[c] = OnTheWire(s)
    BY <1>2 DEF Stopped
  <2>2. /\ piece \in Answers /\ t.inq \in Seq(Answers)
        /\ OnTheWire(s) \in Nat /\ OnTheWire(t) \in Nat
        /\ piece = "part" => OnTheWire(t) = OnTheWire(s)
        /\ piece # "part" => OnTheWire(t) = OnTheWire(s) - 1
    BY <1>0, <2>1, WireTaken
  <2>3. piece \notin Closing
    BY <2>1, <2>2
  <2> QED BY <1>0, <2>1, <2>2, <2>3, Zenon DEF PieceRead
<1> QED BY <1>1, <1>2 DEF MayRead

\* The wire after the first piece is taken off it.
LEMMA PieceOff ==
    ASSUME sock \in [Fds -> SocketType], NEW f \in Fds, NEW sks,
           sks = [sock EXCEPT ![f].inq = Tail(@)]
    PROVE  /\ sks[f].inq = Tail(sock[f].inq) /\ sks[f].owed = sock[f].owed
           /\ sks[f].mid = sock[f].mid /\ sks[f].peer = sock[f].peer
           /\ sks[f].st = sock[f].st /\ sks[f].got = sock[f].got
           /\ \A g \in Fds : g # f => sks[g] = sock[g]
<1> DEFINE q == Tail(sock[f].inq)
           t == [sock[f] EXCEPT !.inq = q]
<1>1. sks = [sock EXCEPT ![f] = t]
  OBVIOUS
<1> HIDE DEF q
<1>2. /\ t.inq = q /\ t.owed = sock[f].owed /\ t.mid = sock[f].mid
      /\ t.peer = sock[f].peer /\ t.st = sock[f].st /\ t.got = sock[f].got
  BY SMT DEF SocketType
<1> HIDE DEF t
<1>3. sks[f] = t /\ \A g \in Fds : g # f => sks[g] = sock[g]
  BY <1>1, Zenon
<1> QED BY <1>2, <1>3 DEF q

\* What socket_readable relies on for the connections it runs for.
LEMMA Waits ==
    ASSUME CycleInv, NEW c \in Conns, MayRead(c)
    PROVE  /\ conn[c] \in ConnType /\ Pace(conn[c]) /\ conn[c].fd \in Fds
           /\ events[conn[c].fd].mask = {AE_READABLE} /\ events[conn[c].fd].data = c
           /\ events[conn[c].fd].rproc = "socket_readable"
           /\ delays[c] = <<>> /\ conn[c].written = 0
           /\ sock[conn[c].fd].st = "open" /\ sock[conn[c].fd].got = 0
           /\ conn[c].has_pending /\ conn[c].pending \in 1 .. Pipeline
           /\ handed[c] \in 0 .. Pipeline
<1>1. Out(c)
  BY DEF MayRead, Awaiting, Stopped
<1>2. conn[c] \in ConnType /\ Pace(conn[c])
  BY CycleReady DEF CycleInv, Tables
<1>3. handed[c] \in 0 .. Pipeline
  <2>1. CASE Awaiting(c)
    <3>1. HandedFor(conn[c].pending) \in 0 .. Pipeline
      BY <1>1, ThreadAssumption, SMT DEF Out, HandedFor
    <3> QED BY <2>1, <3>1 DEF Awaiting
  <2> QED BY <2>1 DEF MayRead, Stopped
<1> QED BY <1>1, <1>2, <1>3 DEF Out, Established, Registered, Entry, Wire

\* The record, the socket and the entry of connection c in the next state.
Now(c, f, cn, s, e) ==
    conn'[c] = cn /\ cn.fd = f /\ sock'[f] = s /\ events'[f] = e /\ delays'[c] = <<>>

LEMMA StillAwaiting ==
    ASSUME NEW c \in Conns, NEW f \in Fds, NEW cn, NEW s, NEW e, Now(c, f, cn, s, e),
           e.mask = {AE_READABLE}, e.data = c, e.rproc = "socket_readable",
           s.st = "open", s.got = 0, cn.written = 0, cn.has_pending,
           cn.pending \in 1 .. Pipeline, Answering(s, cn.parser),
           cn.pending = OnTheWire(s) + (IF cn.parser = "eof_body" THEN 1 ELSE 0),
           handed'[c] = HandedFor(cn.pending)
    PROVE  Awaiting(c)'
<1>1. Entry(c)' = e /\ Wire(c)' = s /\ conn'[c] = cn /\ conn'[c].fd = f
  BY DEF Now, Entry, Wire
<1>2. Out(c)'
  BY <1>1 DEF Now, Out, Established, Registered
<1>3. Answering(Wire(c), conn[c].parser)'
  BY <1>1 DEF Answering
<1> QED BY <1>1, <1>2, <1>3 DEF Awaiting, HandedFor, OnTheWire

\* The last response of a batch brings the writable event back.
LEMMA BackToIdle ==
    ASSUME NEW c \in Conns, NEW f \in Fds, NEW cn, NEW s, NEW e, Now(c, f, cn, s, e),
           e.mask = RW, e.data = c, e.rproc = "socket_readable",
           e.wproc = "socket_writeable",
           s.st = "open", s.got = 0, cn.written = 0, cn.pending = 0, ~cn.has_pending,
           cn.parser = "start", Answering(s, "start"), OnTheWire(s) = 0, handed'[c] = 0
    PROVE  Idle(c)'
<1>1. Entry(c)' = e /\ Wire(c)' = s /\ conn'[c] = cn /\ conn'[c].fd = f
  BY DEF Now, Entry, Wire
<1>2. s.inq = <<>> /\ s.owed = 0 /\ ~s.mid /\ s.peer = "up"
  BY NothingLeft
<1>3. Registered(c, RW)' /\ AtRest(c)' /\ Silent(c)' /\ Established(c)'
  BY <1>1, <1>2 DEF Registered, AtRest, Silent, Established
<1> QED BY <1>1, <1>3 DEF Now, Idle

\* The time is over: response_complete stops the loop and counts nothing, and what is
\* read of the connection afterwards changes nothing either.
LEMMA StopsThere ==
    ASSUME CycleInv, NEW c \in Conns, MayRead(c), NEW f \in Fds, f = conn[c].fd,
           NEW cn, NEW s, Now(c, f, cn, s, events[f]), OthersAlone(c),
           SamePace(conn[c], cn), cn.written = 0, s.st = "open", s.got = 0,
           now' = now, now >= StopAt, stopping' = TRUE, rest' = rest \ {f},
           recorded' = recorded, handed'[c] \in 0 .. Pipeline,
           turn'.step # "poll" =>
             /\ Answers \cap Closing = {} /\ s.owed \in Nat /\ s.inq \in Seq(Answers)
             /\ cn.parser \in {"start", "body"}
             /\ Dynamic => handed'[c] = OnTheWire(s)
    PROVE  Goes(c)
<1>1. Entry(c)' = events[f] /\ Wire(c)' = s /\ conn'[c] = cn /\ conn'[c].fd = f
  BY DEF Now, Entry, Wire
<1>2. Out(c)'
  BY <1>1, Waits DEF Now, Out, Established, Registered, SamePace
<1>3. Stopped(c)'
  BY <1>1, <1>2 DEF Stopped, OnTheWire
<1>4. Pace(cn) /\ PlanMove(conn[c], cn)
  BY Waits, SamePaceMove
<1> QED BY <1>1, <1>3, <1>4 DEF Goes, Stage

\* What response_complete counts before stop_at.
ResponseCounted(c, cn) ==
    /\ recorded' = IF ToRecord(Completed(cn)) THEN Latencies(cn) ELSE recorded
    /\ handed' = IF Dynamic THEN [handed EXCEPT ![c] = @ - 1] ELSE handed

Rearmed(c, f, left) ==
    events' = IF left = 0
              THEN CreateFileEvent(events, f, {AE_WRITABLE}, "socket_writeable", c)
              ELSE events

LEMMA CompletedFields ==
    ASSUME NEW cn \in ConnType, Pace(cn), cn.pending \in 1 .. Pipeline, cn.has_pending
    PROVE  /\ PendingLeft(cn) = cn.pending - 1
           /\ Completed(cn) \in ConnType /\ Pace(Completed(cn))
           /\ Completed(cn).thread_start = cn.thread_start
           /\ Completed(cn).complete = cn.complete + 1
           /\ Completed(cn).pending = cn.pending - 1
           /\ Completed(cn).has_pending = (cn.pending # 1)
           /\ Completed(cn).complete_at_last_batch_start = cn.complete_at_last_batch_start
           /\ Completed(cn).actual_latency_start = cn.actual_latency_start
           /\ Completed(cn).fd = cn.fd /\ Completed(cn).written = cn.written
<1>1. PICK done : done = Completed(cn)
  OBVIOUS
<1>2. /\ PendingLeft(cn) = cn.pending - 1
      /\ done \in ConnType /\ Pace(done)
      /\ done.thread_start = cn.thread_start /\ done.complete = cn.complete + 1
      /\ done.pending = cn.pending - 1 /\ done.has_pending = (cn.pending # 1)
      /\ done.complete_at_last_batch_start = cn.complete_at_last_batch_start
      /\ done.actual_latency_start = cn.actual_latency_start
      /\ done.fd = cn.fd /\ done.written = cn.written
  BY <1>1, OneDone
<1> QED BY <1>1, <1>2

\* response_complete before stop_at, as a step of the plan; x is the connection as the
\* parser had it, y as the handler leaves it.
LEMMA DoneResponds ==
    ASSUME NEW x \in ConnType, NEW cn \in ConnType, SamePace(x, cn), Pace(x),
           x.pending \in 1 .. Pipeline, x.has_pending,
           NEW c, ResponseCounted(c, cn), NEW y, SamePace(Completed(cn), y)
    PROVE  Pace(y) /\ Responds(x, y)
<1> DEFINE done == Completed(cn)
<1>1. Pace(cn) /\ cn.pending = x.pending /\ cn.has_pending
  BY SamePaceKept DEF SamePace
<1>2. /\ done \in ConnType /\ Pace(done)
      /\ done.thread_start = cn.thread_start /\ done.complete = cn.complete + 1
      /\ done.pending = cn.pending - 1 /\ done.has_pending = (cn.pending # 1)
      /\ done.complete_at_last_batch_start = cn.complete_at_last_batch_start
      /\ done.actual_latency_start = cn.actual_latency_start
  BY <1>1, CompletedFields
<1> HIDE DEF done
<1>3. Latencies(cn) = Latencies(x)
  BY DEF SamePace, Latencies, ExpectedLatencyStart
<1>4. recorded' = Latencies(x) \/ (x.pending > 1 /\ recorded' = recorded)
  <2>0. recorded' = IF ToRecord(done) THEN Latencies(cn) ELSE recorded
    BY DEF ResponseCounted, done
  <2>1. CASE ToRecord(done)
    BY <1>3, <2>0, <2>1, Zenon
  <2>2. CASE ~ToRecord(done)
    <3>1. recorded' = recorded
      BY <2>0, <2>2, Zenon
    <3>2. x.pending # 1
      BY <1>1, <1>2, <2>2 DEF ToRecord
    <3>3. x.pending > 1
      BY <3>2, SMT
    <3> QED BY <3>1, <3>3
  <2> QED BY <2>1, <2>2
<1>5. x.pending > 0
  BY SMT
<1>6. Responds(x, y)
  BY <1>2, <1>4, <1>5 DEF Responds, SamePace, done
<1> QED BY <1>2, <1>6, SamePaceKept DEF done

\* A message that ends the connection: it is the only one that was waited for.
LEMMA CompleteClosing ==
    ASSUME CycleInv, Reliable, NEW c \in Conns, Awaiting(c), conn[c].pending = 1,
           NEW cn \in ConnType, SamePace(conn[c], cn), cn.fd = conn[c].fd, cn.written = 0,
           ResponseCounted(c, cn), delays' = delays,
           NEW errs, NEW flts, ReconnectSocket(c, Completed(cn), errs, flts)
    PROVE  Goes(c)
<1> DEFINE done == Completed(cn)
<1>1. /\ conn[c] \in ConnType /\ Pace(conn[c]) /\ conn[c].has_pending
      /\ conn[c].fd \in Fds /\ delays[c] = <<>> /\ conn[c].pending \in 1 .. Pipeline
  BY Waits DEF MayRead
<1>2. Pace(cn) /\ cn.pending = 1 /\ cn.has_pending /\ cn.pending \in 1 .. Pipeline
  BY <1>1, SamePaceKept DEF SamePace
<1>3. /\ done \in ConnType /\ done.pending = cn.pending - 1
      /\ done.has_pending = (cn.pending # 1)
      /\ done.fd = cn.fd /\ done.written = cn.written
  BY <1>2, CompletedFields
<1> HIDE DEF done
<1>4. /\ done.pending = 0 /\ ~done.has_pending /\ done.written = 0
      /\ done.fd = conn[c].fd /\ done.fd \in Fds /\ delays'[c] = <<>>
  <2>1. cn.pending - 1 = 0
    BY <1>2, SMT
  <2>2. cn.fd = conn[c].fd /\ cn.written = 0 /\ delays' = delays
    OBVIOUS
  <2> QED BY <1>1, <1>2, <1>3, <2>1, <2>2, Zenon
<1>5. handed'[c] = 0 /\ \A d \in Conns : d # c => handed'[d] = handed[d]
  <2>1. handed[c] = HandedFor(1) /\ handed \in [Conns -> Int]
    BY CycleReady DEF Awaiting
  <2>2. CASE Dynamic
    BY <2>1, <2>2 DEF HandedFor, ResponseCounted
  <2>3. CASE ~Dynamic
    BY <2>1, <2>3 DEF HandedFor, ResponseCounted
  <2> QED BY <2>2, <2>3
<1>6. /\ Dialling(c)'
      /\ \E g \in Fds : conn'[c] = WithFd(done, g)
      /\ \A d \in Conns : d # c => conn'[d] = conn[d]
      /\ \A g \in Fds : g # conn[c].fd /\ sock[g].st # "free" =>
           events'[g] = events[g] /\ sock'[g] = sock[g]
  BY <1>1, <1>3, <1>4, <1>5, Redialled DEF done
<1>7. SamePace(done, conn'[c])
  BY <1>3, <1>6, OtherFields
<1>8. Pace(conn'[c]) /\ Responds(conn[c], conn'[c])
  BY <1>1, <1>7, DoneResponds DEF done
<1>9. OthersAlone(c)
  BY <1>5, <1>6 DEF OthersAlone
<1> QED BY <1>6, <1>8, <1>9 DEF Goes, Stage, PlanMove

\* A message of a connection that is kept.
LEMMA CompleteKeeping ==
    ASSUME CycleInv, Reliable, NEW c \in Conns, Awaiting(c), NEW f \in Fds, f = conn[c].fd,
           NEW cn \in ConnType, SamePace(conn[c], cn), cn.fd = f, cn.written = 0,
           ResponseCounted(c, cn), delays' = delays,
           conn' = [conn EXCEPT ![c] = [Completed(cn) EXCEPT !.parser = "start"]],
           Rearmed(c, f, PendingLeft(cn)),
           sock'[f].st = "open", sock'[f].got = 0,
           \A g \in Fds : g # f => sock'[g] = sock[g],
           Answering(sock'[f], "start"), OnTheWire(sock'[f]) = conn[c].pending - 1
    PROVE  Goes(c)
<1> DEFINE done == Completed(cn)
           y == [done EXCEPT !.parser = "start"]
<1>1. /\ conn[c] \in ConnType /\ Pace(conn[c]) /\ conn[c].has_pending
      /\ conn[c].fd \in Fds /\ delays[c] = <<>> /\ conn[c].pending \in 1 .. Pipeline
      /\ events[f].mask = {AE_READABLE} /\ events[f].data = c
      /\ events[f].rproc = "socket_readable"
  BY Waits DEF MayRead
<1>2. /\ Pace(cn) /\ cn.pending = conn[c].pending /\ cn.has_pending
      /\ cn.pending \in 1 .. Pipeline
  BY <1>1, SamePaceKept DEF SamePace
<1>3. /\ done \in ConnType /\ done.pending = cn.pending - 1
      /\ PendingLeft(cn) = cn.pending - 1
      /\ done.has_pending = (cn.pending # 1)
      /\ done.fd = cn.fd /\ done.written = cn.written
  BY <1>2, CompletedFields
<1> HIDE DEF done
<1>4. SamePace(done, y) /\ y.parser = "start" /\ y.fd = f /\ y.written = 0
  <2>1. SamePace(done, y) /\ y.parser = "start" /\ y.fd = done.fd /\ y.written = done.written
    BY <1>3, OtherFields
  <2> HIDE DEF y
  <2> QED BY <1>3, <2>1
<1>5. y.pending = conn[c].pending - 1 /\ y.has_pending = (conn[c].pending # 1)
  BY <1>2, <1>3, <1>4 DEF SamePace
<1>6. conn'[c] = y /\ \A d \in Conns : d # c => conn'[d] = conn[d]
  BY CycleReady, Zenon DEF Tables, done
<1> HIDE DEF y
<1>7. Pace(conn'[c]) /\ Responds(conn[c], conn'[c])
  BY <1>1, <1>4, <1>6, DoneResponds DEF done
<1>8. /\ handed'[c] = HandedFor(conn[c].pending - 1)
      /\ \A d \in Conns : d # c => handed'[d] = handed[d]
  <2>1. handed[c] = HandedFor(conn[c].pending) /\ handed \in [Conns -> Int]
    BY CycleReady DEF Awaiting
  <2>2. CASE Dynamic
    BY <2>1, <2>2 DEF HandedFor, ResponseCounted
  <2>3. CASE ~Dynamic
    BY <2>1, <2>3 DEF HandedFor, ResponseCounted
  <2> QED BY <2>2, <2>3
<1>9. CASE conn[c].pending = 1
  <2>1. PendingLeft(cn) = 0
    BY <1>2, <1>3, <1>9, SMT
  <2>2. events' = CreateFileEvent(events, f, {AE_WRITABLE}, "socket_writeable", c)
    BY <2>1 DEF Rearmed
  <2>3. /\ events'[f].mask = events[f].mask \cup {AE_WRITABLE}
        /\ events'[f].data = c /\ events'[f].wproc = "socket_writeable"
        /\ events'[f].rproc = events[f].rproc
        /\ \A g \in Fds : g # f => events'[g] = events[g]
    BY <2>2, CycleReady, WritableAwaited DEF Tables
  <2>4. events'[f].mask = RW
    BY <1>1, <2>3 DEF RW
  <2>5. y.pending = 0 /\ ~y.has_pending /\ OnTheWire(sock'[f]) = 0 /\ handed'[c] = 0
    <3>1. conn[c].pending - 1 = 0
      BY <1>9, SMT
    <3> QED BY <1>5, <1>8, <1>9, <3>1 DEF HandedFor
  <2>6. Now(c, f, y, sock'[f], events'[f])
    BY <1>1, <1>4, <1>6 DEF Now
  <2>7. Idle(c)'
    BY <1>1, <1>4, <2>3, <2>4, <2>5, <2>6, BackToIdle
  <2>8. OthersAlone(c)
    BY <1>6, <1>8, <2>3 DEF OthersAlone
  <2> QED BY <1>7, <2>7, <2>8 DEF Goes, Stage, PlanMove
<1>10. CASE conn[c].pending # 1
  <2>1. PendingLeft(cn) # 0
    <3>1. PICK p : p = conn[c].pending
      OBVIOUS
    <3>2. p \in Nat /\ p # 1
      BY <1>1, <1>10, <3>1, ThreadAssumption
    <3>3. p - 1 # 0
      BY <3>2
    <3> QED BY <1>2, <1>3, <3>1, <3>3
  <2>2. events' = events
    BY <2>1, Zenon DEF Rearmed
  <2>3. y.pending \in 1 .. Pipeline /\ y.has_pending
    <3>1. conn[c].pending - 1 \in 1 .. Pipeline
      <4>1. PICK p : p = conn[c].pending
        OBVIOUS
      <4>2. p \in 1 .. Pipeline /\ p # 1 /\ Pipeline \in Nat
        BY <1>1, <1>10, <4>1, ThreadAssumption
      <4>3. p - 1 \in 1 .. Pipeline
        BY <4>2
      <4> QED BY <4>1, <4>3
    <3> QED BY <1>5, <1>10, <3>1
  <2>4. /\ y.pending = OnTheWire(sock'[f]) + (IF y.parser = "eof_body" THEN 1 ELSE 0)
        /\ handed'[c] = HandedFor(y.pending)
    <3>1. OnTheWire(sock'[f]) + 0 = OnTheWire(sock'[f])
      BY WireNat, SMT
    <3>2. (IF y.parser = "eof_body" THEN 1 ELSE 0) = 0
      BY <1>4
    <3> QED BY <1>5, <1>8, <3>1, <3>2
  <2>5. Now(c, f, y, sock'[f], events'[f])
    BY <1>1, <1>4, <1>6 DEF Now
  <2>6. Awaiting(c)'
    BY <1>1, <1>4, <2>2, <2>3, <2>4, <2>5, StillAwaiting
  <2>7. OthersAlone(c)
    BY <1>6, <1>8, <2>2 DEF OthersAlone
  <2> QED BY <1>7, <2>6, <2>7 DEF Goes, Stage, PlanMove
<1> QED BY <1>9, <1>10

\* The parser of connection c takes the next piece, which leaves the connection cn.
Parsed(c, f, piece, cn) ==
    /\ sock[f].inq # <<>> /\ piece = Head(sock[f].inq)
    /\ SamePace(conn[c], cn) /\ cn.fd = f /\ cn.written = 0
    /\ cn.parser = Feed(conn[c].parser, piece)

\* A piece that ends no message.
LEMMA SilentPiece ==
    ASSUME CycleInv, Reliable, NEW c \in Conns, MayRead(c), NEW f \in Fds, f = conn[c].fd,
           NEW piece, NEW cn, Parsed(c, f, piece, cn), ~EndsMessage(conn[c].parser, piece),
           NEW t, Now(c, f, cn, t, events[f]), OthersAlone(c), Taken(sock[f], t),
           NothingRecorded, now' = now, FileEvent(f)
    PROVE  Goes(c)
<1> USE DEF Parsed
<1> PICK s : s = sock[f]
  OBVIOUS
<1>0. s = Wire(c) /\ s.inq # <<>> /\ Taken(s, t) /\ piece = Head(s.inq)
  BY DEF Wire
<1>1. PieceRead(c, s, t, piece)
  BY <1>0, NextPiece
<1>2. /\ piece \in {"part", "until_eof"}
      /\ piece = "part" => cn.parser = "body"
      /\ piece = "until_eof" => cn.parser = "eof_body"
  BY <1>1, FeedAnswer, AnswersArePieces DEF PieceRead
<1>3. /\ conn[c] \in ConnType /\ Pace(conn[c])
      /\ events[f].mask = {AE_READABLE} /\ events[f].data = c
      /\ events[f].rproc = "socket_readable"
      /\ t.st = "open" /\ t.got = 0 /\ handed[c] \in 0 .. Pipeline
      /\ conn[c].has_pending /\ conn[c].pending \in 1 .. Pipeline
  BY Waits DEF Taken
<1>4. recorded' = recorded /\ handed' = handed /\ stopping' = stopping
  BY DEF NothingRecorded
<1>5. CASE Awaiting(c)
  <2>1. Answering(s, conn[c].parser) /\ conn[c].pending = OnTheWire(s) + 0
    <3>1. conn[c].parser # "eof_body"
      BY <1>1 DEF PieceRead
    <3>2. conn[c].pending = OnTheWire(s) + 0
      BY <1>5, <3>1, Zenon DEF Awaiting, Wire
    <3> QED BY <1>5, <3>2 DEF Awaiting, Wire
  <2>2. /\ piece = "part" => Answering(t, "body")
        /\ piece = "until_eof" => Answering(t, "eof_body")
    BY <2>1, PieceTaken DEF Taken
  <2>3. Answering(t, cn.parser)
    BY <1>2, <2>2
  <2>4. cn.pending = OnTheWire(t) + (IF cn.parser = "eof_body" THEN 1 ELSE 0)
    <3>1. CASE piece = "part"
      <4>1. (IF cn.parser = "eof_body" THEN 1 ELSE 0) = 0
        BY <1>2, <3>1
      <4> QED BY <1>1, <2>1, <3>1, <4>1 DEF SamePace, PieceRead
    <3>2. CASE piece = "until_eof"
      <4>1. (IF cn.parser = "eof_body" THEN 1 ELSE 0) = 1
        BY <1>2, <3>2
      <4>2. OnTheWire(t) + 1 = OnTheWire(s) + 0
        BY <1>1, <3>2, SMT DEF PieceRead
      <4> QED BY <2>1, <4>1, <4>2 DEF SamePace
    <3> QED BY <1>2, <3>1, <3>2
  <2>5. handed'[c] = HandedFor(cn.pending) /\ cn.has_pending /\ cn.pending \in 1 .. Pipeline
    BY <1>3, <1>4, <1>5 DEF Awaiting, SamePace
  <2>6. Awaiting(c)'
    BY <1>3, <2>3, <2>4, <2>5, StillAwaiting
  <2>7. Pace(cn) /\ PlanMove(conn[c], cn)
    BY <1>3, <1>4, SamePaceMove
  <2> QED BY <2>6, <2>7 DEF Goes, Stage, Now
<1>6. CASE ~Awaiting(c)
  <2>1. stopping /\ now >= StopAt /\ Answers \cap Closing = {}
    BY <1>6 DEF MayRead, Stopped
  <2>2. piece = "part"
    BY <1>1, <1>2, <1>6 DEF Closing, PieceRead
  <2>3. stopping' = TRUE /\ rest' = rest \ {f}
    BY <1>4, <2>1, CycleReady DEF FileEvent
  <2>4. Dynamic => handed'[c] = OnTheWire(t)
    BY <1>1, <1>4, <2>2 DEF PieceRead
  <2>5. cn.parser \in {"start", "body"} /\ handed'[c] \in 0 .. Pipeline
    BY <1>2, <1>3, <1>4, <2>2
  <2> QED BY <1>1, <1>3, <1>4, <2>1, <2>3, <2>4, <2>5, StopsThere DEF PieceRead
<1> QED BY <1>5, <1>6

\* What is left in the sockets, and the turn of the loop after the piece.
OffTheWire(f, sks) ==
    Taken(sock[f], sks[f]) /\ \A g \in Fds : g # f => sks[g] = sock[g]

TurnsOn(f, c, cn, sks) ==
    \/ turn' = Polling
    \/ /\ turn' = InTurn(IF KeepAlive(cn.parser) THEN "read" ELSE "tail", f, c, FALSE)
       /\ sks[f].inq # <<>>

\* A piece that ends a message.
LEMMA MessagePiece ==
    ASSUME CycleInv, Reliable, NEW c \in Conns, MayRead(c), NEW f \in Fds, f = conn[c].fd,
           NEW piece, NEW cn \in ConnType, Parsed(c, f, piece, cn),
           EndsMessage(conn[c].parser, piece), NEW sks, OffTheWire(f, sks),
           NEW failed, ResponseComplete(c, cn, KeepAlive(cn.parser), failed, sks),
           delays' = delays, now' = now, FileEvent(f), TurnsOn(f, c, cn, sks)
    PROVE  /\ Goes(c)
           /\ turn'.step # "poll" =>
                turn'.step = "read" /\ conn'[c].fd = f /\ sock'[f].inq # <<>>
<1> USE DEF Parsed, OffTheWire, TurnsOn
<1> PICK s : s = sock[f]
  OBVIOUS
<1> PICK t : t = sks[f]
  OBVIOUS
<1>0. s = Wire(c) /\ s.inq # <<>> /\ Taken(s, t) /\ piece = Head(s.inq)
  BY DEF Wire
<1>1. PieceRead(c, s, t, piece)
  BY <1>0, NextPiece
<1>2. /\ piece \in {"ok", "fail", "close"}
      /\ piece # "close" => cn.parser = "start"
      /\ piece = "close" => cn.parser = "dead"
  <2>1. PICK phase : phase = conn[c].parser
    OBVIOUS
  <2>2. cn.parser = Feed(phase, piece) /\ EndsMessage(phase, piece)
    BY <2>1
  <2>3. phase \in {"start", "body"} /\ piece \in Answers
    BY <1>1, <2>1 DEF PieceRead
  <2>4. /\ EndsMessage(phase, piece) <=> piece \in {"ok", "fail", "close"}
        /\ piece \in {"ok", "fail"} => Feed(phase, piece) = "start"
        /\ piece = "close" => Feed(phase, piece) = "dead"
    <3> HIDE DEF Parsed, OffTheWire, TurnsOn
    <3> QED BY <2>3, FeedAnswer
  <2> QED BY <2>2, <2>4
<1>3. KeepAlive(cn.parser) <=> piece # "close"
  BY <1>2 DEF KeepAlive
<1>4. /\ conn[c] \in ConnType /\ Pace(conn[c])
      /\ s.st = "open" /\ s.got = 0 /\ handed[c] \in 0 .. Pipeline /\ delays[c] = <<>>
  <2>1. /\ conn[c] \in ConnType /\ Pace(conn[c])
        /\ sock[conn[c].fd].st = "open" /\ sock[conn[c].fd].got = 0
        /\ handed[c] \in 0 .. Pipeline /\ delays[c] = <<>>
    BY Waits
  <2>2. s = sock[conn[c].fd]
    OBVIOUS
  <2> QED BY <2>1, <2>2
<1>5. t.st = "open" /\ t.got = 0
  BY <1>4 DEF Taken
<1>6. piece # "part" /\ OnTheWire(t) = OnTheWire(s) - 1
  BY <1>1, <1>2 DEF PieceRead
<1>7. Awaiting(c) =>
        /\ conn[c].pending = OnTheWire(s)
        /\ piece = "close" => t.inq = <<>>
        /\ piece # "close" => Answering(t, "start")
  <2> SUFFICES ASSUME Awaiting(c)
               PROVE  /\ conn[c].pending = OnTheWire(s)
                      /\ piece = "close" => t.inq = <<>>
                      /\ piece # "close" => Answering(t, "start")
    OBVIOUS
  <2>1. Answering(s, conn[c].parser)
    BY <1>0 DEF Awaiting
  <2>2. conn[c].pending = OnTheWire(s)
    <3>1. conn[c].parser # "eof_body"
      BY <1>1 DEF PieceRead
    <3>2. conn[c].pending = OnTheWire(s) + 0
      BY <1>0, <3>1, Zenon DEF Awaiting
    <3> QED BY <1>1, <3>2, SMT DEF PieceRead
  <2>3. piece \in Closing => t.inq = <<>>
    BY <1>0, <2>1, PieceTaken DEF Taken
  <2>4. piece \in {"ok", "fail"} => Answering(t, "start")
    BY <1>0, <2>1, PieceTaken DEF Taken
  <2> QED BY <1>2, <2>2, <2>3, <2>4 DEF Closing
<1>8. turn'.step # "poll" =>
        turn'.step = "read" /\ t.inq # <<>> /\ piece # "close"
  <2>1. piece = "close" => Awaiting(c)
    BY <1>1 DEF Closing, PieceRead
  <2> QED BY <1>3, <1>7, <2>1 DEF Polling, InTurn
<1>9. CASE now >= StopAt
  <2>1. /\ handed' = IF Dynamic THEN [handed EXCEPT ![c] = @ - 1] ELSE handed
        /\ stopping' = TRUE /\ conn' = [conn EXCEPT ![c] = cn] /\ sock' = sks
        /\ recorded' = recorded /\ events' = events
    <3>1. ~(now < StopAt)
      BY <1>9, CycleReady, ThreadAssumption, SMT
    <3> QED BY <3>1, Zenon DEF ResponseComplete
  <2>2. conn'[c] = cn /\ \A d \in Conns : d # c => conn'[d] = conn[d]
    BY <2>1, CycleReady, Zenon DEF Tables
  <2>3. /\ Dynamic => handed'[c] = handed[c] - 1
        /\ ~Dynamic => handed'[c] = handed[c]
        /\ \A d \in Conns : d # c => handed'[d] = handed[d]
    BY <2>1, CycleReady, Zenon
  <2>4. handed'[c] \in 0 .. Pipeline /\ (Dynamic => handed'[c] = OnTheWire(t))
    <3>1. CASE Dynamic
      <4>1. handed'[c] = handed[c] - 1 /\ handed[c] = OnTheWire(s)
        BY <1>1, <2>3, <3>1, Zenon DEF PieceRead
      <4>2. OnTheWire(t) \in Nat
        BY <1>1 DEF PieceRead
      <4> QED BY <1>4, <1>6, <4>1, <4>2, ThreadAssumption, SMT
    <3>2. CASE ~Dynamic
      BY <1>4, <2>3, <3>2
    <3> QED BY <3>1, <3>2
  <2>5. Now(c, f, cn, t, events[f])
    BY <1>4, <2>1, <2>2 DEF Now
  <2>6. OthersAlone(c)
    BY <2>1, <2>2, <2>3 DEF OthersAlone
  <2>7. rest' = rest \ {f}
    BY <2>1 DEF FileEvent
  <2>8. turn'.step # "poll" =>
          /\ Answers \cap Closing = {} /\ cn.parser \in {"start", "body"}
    BY <1>1, <1>2, <1>6, <1>8 DEF PieceRead
  <2>9. Goes(c)
    BY <1>1, <1>5, <1>9, <2>1, <2>4, <2>5, <2>6, <2>7, <2>8, StopsThere DEF PieceRead
  <2> QED BY <1>8, <2>1, <2>2, <2>9
<1>10. CASE now < StopAt
  <2>1. Awaiting(c)
    BY <1>10, CycleReady, ThreadAssumption, SMT DEF MayRead, Stopped
  <2>2. ResponseCounted(c, cn)
    <3>1. ~(now >= StopAt)
      BY <1>10, CycleReady, ThreadAssumption, SMT
    <3> QED BY <3>1, Zenon DEF ResponseComplete, ResponseCounted, Completed
  <2>3. CASE piece = "close"
    <3>1. ReconnectSocket(c, Completed(cn),
                          IF failed THEN [errors EXCEPT !.status = @ + 1] ELSE errors,
                          faults)
      <4>1. ~(now >= StopAt)
        BY <1>10, CycleReady, ThreadAssumption, SMT
      <4> QED BY <1>3, <2>3, <4>1, Zenon DEF ResponseComplete, Completed
    <3>2. Goes(c)
      BY <1>1, <2>1, <2>2, <2>3, <3>1, CompleteClosing DEF Closing, PieceRead
    <3> QED BY <1>8, <2>3, <3>2
  <2>4. CASE piece # "close"
    <3>1. /\ conn' = [conn EXCEPT ![c] = [Completed(cn) EXCEPT !.parser = "start"]]
          /\ events' = IF PendingLeft(cn) = 0
                       THEN CreateFileEvent(events, cn.fd, {AE_WRITABLE},
                                            "socket_writeable", c)
                       ELSE events
          /\ sock' = sks
      <4>1. ~(now >= StopAt)
        BY <1>10, CycleReady, ThreadAssumption, SMT
      <4> QED BY <1>3, <2>4, <4>1, Zenon DEF ResponseComplete, Completed
    <3>2. Rearmed(c, f, PendingLeft(cn))
      BY <3>1 DEF Rearmed
    <3>3. sock'[f] = t /\ \A g \in Fds : g # f => sock'[g] = sock[g]
      BY <3>1
    <3>4. OnTheWire(sock'[f]) = conn[c].pending - 1 /\ Answering(sock'[f], "start")
      BY <1>6, <1>7, <2>1, <2>4, <3>3
    <3>5. Goes(c)
      BY <1>5, <2>1, <2>2, <3>1, <3>2, <3>3, <3>4, CompleteKeeping
    <3>6. conn'[c].fd = f
      <4>1. conn'[c] = [Completed(cn) EXCEPT !.parser = "start"]
        BY <3>1, CycleReady, Zenon DEF Tables
      <4>2. Completed(cn) \in ConnType /\ Completed(cn).fd = cn.fd
        BY <1>4, Waits, CompletedFields, SamePaceKept DEF SamePace
      <4> QED BY <4>1, <4>2, OtherFields
    <3> QED BY <1>8, <3>3, <3>5, <3>6
  <2> QED BY <2>3, <2>4
<1>11. now >= StopAt \/ now < StopAt
  BY DEF ResponseComplete
<1> QED BY <1>9, <1>10, <1>11

LEMMA TurnAfterRead ==
    ASSUME NEW f, NEW c, EndOfRead(f, c, FALSE)
    PROVE  turn' = Polling
  BY DEF EndOfRead

\* The two outcomes: an answer of the server is no parse error.
EndsAnswer(c, f, piece, cn, sks) ==
    /\ EndsMessage(conn[c].parser, piece) /\ TurnsOn(f, c, cn, sks)
    /\ \E failed : ResponseComplete(c, cn, KeepAlive(cn.parser), failed, sks)

GoesOn(c, f, piece, cn, sks) ==
    /\ ~EndsMessage(conn[c].parser, piece)
    /\ conn' = [conn EXCEPT ![c] = cn] /\ sock' = sks
    /\ NothingRecorded /\ events' = events
    /\ \/ turn' = Polling
       \/ sks[f].inq # <<>> /\ turn' = InTurn("read", f, c, FALSE)

LEMMA NextParsed ==
    ASSUME CycleInv, Reliable, NEW c \in Conns, MayRead(c), NEW f \in Fds, f = conn[c].fd,
           ParsePiece(f, c, FALSE)
    PROVE  \E piece, sks : \E cn \in ConnType :
             /\ Parsed(c, f, piece, cn) /\ OffTheWire(f, sks)
             /\ EndsAnswer(c, f, piece, cn, sks) \/ GoesOn(c, f, piece, cn, sks)
<1> PICK piece : piece = Head(sock[f].inq)
  OBVIOUS
<1> PICK phase : phase = Feed(conn[c].parser, piece)
  OBVIOUS
<1> PICK cn : cn = [conn[c] EXCEPT !.parser = phase]
  OBVIOUS
<1> PICK sks : sks = [sock EXCEPT ![f].inq = Tail(@)]
  OBVIOUS
<1>0. /\ conn[c] \in ConnType /\ conn[c].written = 0 /\ sock[f].st = "open"
      /\ delays[c] = <<>>
      /\ conn \in [Conns -> ConnType] /\ sock \in [Fds -> SocketType]
  BY Waits, CycleReady DEF Tables
<1>1. OffTheWire(f, sks)
  BY <1>0, PieceOff DEF OffTheWire, Taken
<1>2. Parsed(c, f, piece, cn)
  <2> DEFINE y == [conn[c] EXCEPT !.parser = phase]
  <2>1. /\ SamePace(conn[c], y) /\ y.fd = conn[c].fd /\ y.written = conn[c].written
        /\ y.parser = phase
    BY <1>0, SMT DEF ConnType, SamePace
  <2>2. cn = y
    OBVIOUS
  <2> HIDE DEF y
  <2> QED BY <1>0, <2>1, <2>2 DEF Parsed, ParsePiece
<1>3. sock[f].inq # <<>>
  BY DEF ParsePiece
<1>4. /\ conn[c].parser \in {"start", "body"} /\ piece \in Answers
      /\ ~ParseError(conn[c].parser, piece)
  <2> PICK s : s = sock[f]
    OBVIOUS
  <2>1. s = Wire(c) /\ s.inq # <<>> /\ Taken(s, sks[f]) /\ piece = Head(s.inq)
    BY <1>1, <1>3 DEF Wire, OffTheWire
  <2> PICK t : t = sks[f]
    OBVIOUS
  <2>2. PieceRead(c, s, t, piece)
    BY <2>1, NextPiece
  <2> QED BY <2>2, FeedAnswer DEF PieceRead
<1>5. cn \in ConnType
  <2>1. Feed(conn[c].parser, piece) \in Phases
    BY <1>4, AnswersArePieces, FeedInPhases DEF Phases
  <2> QED BY <1>0, <2>1, Zenon DEF ConnType
<1>6. \/ /\ EndsMessage(conn[c].parser, piece)
         /\ ResponseComplete(c, cn, KeepAlive(cn.parser), piece = "fail", sks)
         /\ \/ EndOfRead(f, c, FALSE)
            \/ /\ sks[f].inq # <<>>
               /\ turn' = InTurn(IF KeepAlive(cn.parser) THEN "read" ELSE "tail",
                                 f, c, FALSE)
      \/ /\ ~EndsMessage(conn[c].parser, piece)
         /\ conn' = [conn EXCEPT ![c] = cn] /\ sock' = sks
         /\ NothingRecorded /\ events' = events
         /\ \/ EndOfRead(f, c, FALSE)
            \/ sks[f].inq # <<>> /\ turn' = InTurn("read", f, c, FALSE)
  BY <1>4, Zenon DEF ParsePiece
<1>7. EndsAnswer(c, f, piece, cn, sks) \/ GoesOn(c, f, piece, cn, sks)
  BY <1>6, TurnAfterRead, Zenon DEF EndsAnswer, GoesOn, TurnsOn
<1> QED BY <1>1, <1>2, <1>5, <1>7, Zenon

LEMMA PieceCycle ==
    ASSUME CycleInv, Reliable, NEW c \in Conns, MayRead(c), NEW f \in Fds, f = conn[c].fd,
           ParsePiece(f, c, FALSE), delays' = delays, FileEvent(f), LoopOnly
    PROVE  CycleStep(c)
<1>0. delays[c] = <<>> /\ conn \in [Conns -> ConnType]
  BY Waits, CycleReady DEF Tables
<1>1. PICK piece, sks : \E cn \in ConnType :
        /\ Parsed(c, f, piece, cn) /\ OffTheWire(f, sks)
        /\ EndsAnswer(c, f, piece, cn, sks) \/ GoesOn(c, f, piece, cn, sks)
  BY NextParsed
<1>2. PICK cn \in ConnType :
        /\ Parsed(c, f, piece, cn) /\ OffTheWire(f, sks)
        /\ EndsAnswer(c, f, piece, cn, sks) \/ GoesOn(c, f, piece, cn, sks)
  BY <1>1
<1>3. now' = now /\ rest' \subseteq rest
  BY DEF LoopOnly, FileEvent
<1>4. CASE EndsAnswer(c, f, piece, cn, sks)
  <2>1. EndsMessage(conn[c].parser, piece) /\ TurnsOn(f, c, cn, sks)
    BY <1>4 DEF EndsAnswer
  <2>2. PICK failed : ResponseComplete(c, cn, KeepAlive(cn.parser), failed, sks)
    BY <1>4 DEF EndsAnswer
  <2>3. /\ Goes(c)
        /\ turn'.step # "poll" =>
             turn'.step = "read" /\ conn'[c].fd = f /\ sock'[f].inq # <<>>
    BY <1>2, <1>3, <2>1, <2>2, MessagePiece
  <2>4. stopping => stopping'
    BY <2>2 DEF ResponseComplete
  <2>5. turn'.step # "poll" => turn'.c = c /\ turn'.fd = f /\ turn'.w = FALSE
    BY <2>1 DEF TurnsOn, Polling, InTurn
  <2>6. OnlyTouches(c)
    BY <1>3, <2>3, <2>4, <2>5 DEF OnlyTouches, Goes
  <2>7. Reading'
    BY <2>3, <2>5 DEF Reading
  <2> QED BY <2>3, <2>6, <2>7 DEF CycleStep, Goes
<1>5. CASE GoesOn(c, f, piece, cn, sks)
  <2>1. conn'[c] = cn /\ \A d \in Conns : d # c => conn'[d] = conn[d]
    BY <1>0, <1>5, Zenon DEF GoesOn
  <2>2. handed' = handed /\ stopping' = stopping
    BY <1>5 DEF GoesOn, NothingRecorded
  <2>3. OthersAlone(c)
    BY <1>2, <1>5, <2>1, <2>2 DEF OthersAlone, OffTheWire, GoesOn
  <2>4. Now(c, f, cn, sks[f], events[f]) /\ Taken(sock[f], sks[f])
    BY <1>0, <1>2, <1>5, <2>1 DEF Now, Parsed, OffTheWire, GoesOn
  <2>5. ~EndsMessage(conn[c].parser, piece) /\ NothingRecorded
    BY <1>5 DEF GoesOn
  <2>6. Goes(c)
    BY <1>2, <1>3, <2>3, <2>4, <2>5, SilentPiece
  <2>7. \/ turn'.step = "poll"
        \/ /\ turn'.step = "read" /\ turn'.c = c /\ turn'.fd = f /\ turn'.w = FALSE
           /\ sks[f].inq # <<>>
    BY <1>5 DEF GoesOn, Polling, InTurn
  <2>8. OnlyTouches(c)
    BY <1>3, <2>2, <2>3, <2>7 DEF OnlyTouches
  <2>9. Reading'
    BY <1>2, <1>5, <2>1, <2>7 DEF Reading, Parsed, GoesOn
  <2> QED BY <2>6, <2>8, <2>9 DEF CycleStep, Goes
<1> QED BY <1>2, <1>4, <1>5

\* The end of the stream: it ends the message that was waited for.
LEMMA EofCycle ==
    ASSUME CycleInv, Reliable, NEW c \in Conns, Awaiting(c), NEW f \in Fds, f = conn[c].fd,
           ReadEof(f, c, FALSE), delays' = delays, FileEvent(f), LoopOnly
    PROVE  CycleStep(c)
<1>0. /\ conn[c] \in ConnType /\ conn[c].written = 0 /\ delays[c] = <<>>
      /\ sock[f].st = "open" /\ sock[f].got = 0 /\ handed[c] \in 0 .. Pipeline
      /\ conn \in [Conns -> ConnType] /\ handed \in [Conns -> Int]
      /\ MayRead(c)
  BY Waits, CycleReady DEF Tables, MayRead
<1>1. sock[f].inq = <<>> /\ sock[f].peer = "fin"
  BY DEF ReadEof
<1>2. conn[c].parser = "eof_body" /\ conn[c].pending = 1
  <2>1. Answering(sock[f], conn[c].parser)
    BY DEF Awaiting, Wire
  <2>2. conn[c].parser = "eof_body" /\ sock[f].owed = 0
    BY <1>1, <2>1 DEF Answering
  <2>3. OnTheWire(sock[f]) = 0
    <3>1. Cardinality(Unread(sock[f].inq)) = 0
      BY <1>1, UnreadNone
    <3> HIDE DEF Unread
    <3> QED BY <2>2, <3>1, SMT DEF OnTheWire
  <2>4. conn[c].pending = OnTheWire(sock[f]) + 1
    BY <2>2, Zenon DEF Awaiting, Wire
  <2> QED BY <2>2, <2>3, <2>4, SMT
<1>3. ResponseComplete(c, conn[c], FALSE, FALSE, sock) /\ turn' = Polling
  BY <1>2, TurnAfterRead DEF ReadEof, EofEndsMessage, EofError
<1>4. /\ now' = now /\ rest' \subseteq rest /\ turn'.step = "poll"
      /\ stopping => stopping'
  BY <1>3 DEF LoopOnly, FileEvent, Polling, ResponseComplete
<1>5. SamePace(conn[c], conn[c])
  BY DEF SamePace
<1>6. Goes(c)
  <2>1. CASE now >= StopAt
    <3>1. /\ handed' = IF Dynamic THEN [handed EXCEPT ![c] = @ - 1] ELSE handed
          /\ stopping' = TRUE /\ conn' = [conn EXCEPT ![c] = conn[c]] /\ sock' = sock
          /\ recorded' = recorded /\ events' = events
      <4>1. ~(now < StopAt)
        BY <2>1, CycleReady, ThreadAssumption, SMT
      <4> QED BY <1>3, <4>1, Zenon DEF ResponseComplete
    <3>2. conn' = conn
      BY <1>0, <3>1, Zenon
    <3>3. handed'[c] \in 0 .. Pipeline /\ \A d \in Conns : d # c => handed'[d] = handed[d]
      <4>1. handed[c] = HandedFor(1)
        BY <1>2 DEF Awaiting
      <4>2. CASE Dynamic
        BY <1>0, <3>1, <4>1, <4>2, ThreadAssumption DEF HandedFor
      <4>3. CASE ~Dynamic
        BY <1>0, <3>1, <4>3
      <4> QED BY <4>2, <4>3
    <3>4. Now(c, f, conn[c], sock[f], events[f])
      BY <1>0, <3>1, <3>2 DEF Now
    <3>5. OthersAlone(c)
      BY <3>1, <3>2, <3>3 DEF OthersAlone
    <3>6. rest' = rest \ {f}
      BY <3>1 DEF FileEvent
    <3> PICK s : s = sock[f]
      OBVIOUS
    <3> PICK cn : cn = conn[c]
      OBVIOUS
    <3> QED BY <1>0, <1>4, <1>5, <2>1, <3>1, <3>3, <3>4, <3>5, <3>6, StopsThere
  <2>2. CASE now < StopAt
    <3>1. ~(now >= StopAt)
      BY <2>2, CycleReady, ThreadAssumption, SMT
    <3>2. ResponseCounted(c, conn[c])
      BY <1>3, <3>1, Zenon DEF ResponseComplete, ResponseCounted, Completed
    <3>3. ReconnectSocket(c, Completed(conn[c]), errors, faults)
      BY <1>3, <3>1, Zenon DEF ResponseComplete, Completed
    <3> PICK cn : cn = conn[c]
      OBVIOUS
    <3> QED BY <1>0, <1>2, <1>5, <3>2, <3>3, CompleteClosing
  <2> QED BY <1>3, <2>1, <2>2 DEF ResponseComplete
<1>7. OnlyTouches(c) /\ Reading'
  BY <1>4, <1>6 DEF OnlyTouches, Goes, Reading
<1> QED BY <1>6, <1>7 DEF CycleStep, Goes

LEMMA ReadCycle ==
    ASSUME CycleInv, Reliable, NEW c \in Conns, NEW f \in Fds, f = conn[c].fd,
           MayRead(c), sock[f].inq # <<>> \/ (Awaiting(c) /\ sock[f].peer # "up"),
           SocketReadable(f, c, FALSE), FileEvent(f), LoopOnly
    PROVE  CycleStep(c)
<1>1. delays' = delays
  BY DEF SocketReadable
<1>2. CASE ParsePiece(f, c, FALSE)
  BY <1>1, <1>2, PieceCycle
<1>3. CASE ReadEof(f, c, FALSE)
  <2>1. sock[f].inq = <<>>
    BY <1>3 DEF ReadEof
  <2> QED BY <1>1, <1>3, <2>1, EofCycle
<1>4. CASE ReadFails(f, c, FALSE)
  <2>1. sock[f].inq = <<>> /\ sock[f].peer # "fin" /\ Awaiting(c)
    BY <1>4, Waits DEF ReadFails
  <2>2. sock[f].peer = "up"
    BY <2>1 DEF Awaiting, Answering, Wire
  <2> QED BY <2>1, <2>2
<1> QED BY <1>2, <1>3, <1>4 DEF SocketReadable

LEMMA FireReadableCycle ==
    ASSUME CycleInv, Reliable, NEW f \in Fds, FireReadable(f)
    PROVE  \E c \in Conns : CycleStep(c)
<1>1. /\ AE_READABLE \in events[f].mask /\ ReadReady(sock[f]) /\ turn.step = "poll"
      /\ f \in rest
  BY DEF FireReadable, AtPoll
<1>2. events[f].mask # {}
  BY <1>1
<1> PICK c \in Conns : c = events[f].data
  BY <1>2, FiresFor
<1>3. /\ conn[c].fd = f /\ Stage(c) /\ ~Undialled(c)
      /\ Entry(c) = events[f] /\ Wire(c) = sock[f]
  BY <1>2, FiresFor
<1>4. Awaiting(c)
  <2>1. ~(Silent(c) /\ Wire(c).st \in {"connecting", "open"})
    BY <1>1, <1>3 DEF ReadReady, Silent
  <2>2. ~Dialling(c) /\ ~Idle(c) /\ ~Writing(c)
    BY <2>1 DEF Dialling, Idle, Writing, Established
  <2>3. ~Stopped(c)
    BY <1>1, <1>3 DEF Stopped
  <2> QED BY <1>3, <2>2, <2>3 DEF Stage
<1>5. /\ events[f].mask = {AE_READABLE} /\ events[f].rproc = "socket_readable"
      /\ sock[f].st = "open"
  BY <1>3, <1>4, Waits DEF MayRead
<1>6. FiredWritable(events[f], sock[f]) = {FALSE}
  <2>1. sock[f].peer # "rst"
    BY <1>3, <1>4 DEF Awaiting, Answering
  <2>2. AE_WRITABLE \notin events[f].mask
    BY <1>5 DEF AE_READABLE, AE_WRITABLE
  <2> QED BY <1>5, <2>1, <2>2 DEF FiredWritable
<1>7. SocketReadable(f, c, FALSE) /\ FileEvent(f) /\ LoopOnly
  BY <1>5, <1>6 DEF FireReadable
<1>8. sock[f].inq # <<>> \/ sock[f].peer # "up"
  BY <1>1, <1>5 DEF ReadReady
<1>9. CycleStep(c)
  BY <1>3, <1>4, <1>7, <1>8, ReadCycle DEF MayRead
<1> QED BY <1>9

LEMMA ReadMoreCycle ==
    ASSUME CycleInv, Reliable, ReadMore
    PROVE  \E c \in Conns : CycleStep(c)
<1>1. turn.step = "read"
  BY DEF ReadMore
<1>2. /\ ~turn.w /\ turn.fd = conn[turn.c].fd /\ turn.fd \in Fds
      /\ sock[turn.fd].inq # <<>>
  BY <1>1 DEF CycleInv, Reading
<1>3. turn.c \in Conns /\ turn.w = FALSE
  BY <1>2, CycleReady, SMT DEF TurnType
<1> PICK c \in Conns : c = turn.c
  BY <1>3
<1> PICK f \in Fds : f = turn.fd
  BY <1>2
<1>4. f = conn[c].fd /\ sock[f].inq # <<>> /\ Stage(c)
  BY <1>2 DEF CycleInv
<1>5. MayRead(c)
  <2>1. ~Silent(c)
    BY <1>4 DEF Silent, Wire
  <2>2. ~Dialling(c) /\ ~Idle(c) /\ ~Writing(c)
    BY <2>1 DEF Dialling, Idle, Writing
  <2>3. ~Undialled(c)
    BY <1>4, ThreadAssumption DEF Undialled
  <2>4. turn.step # "poll"
    BY <1>1
  <2> QED BY <1>4, <2>2, <2>3, <2>4 DEF Stage, MayRead
<1>6. SocketReadable(f, c, FALSE) /\ FileEvent(f) /\ LoopOnly
  BY <1>3, Zenon DEF ReadMore
<1>7. CycleStep(c)
  BY <1>4, <1>5, <1>6, ReadCycle
<1> QED BY <1>7

\* Nothing follows a message that closes the connection, and no event fires both ways.
LEMMA NoOtherTurn ==
    ASSUME CycleInv
    PROVE  ~ParseTail /\ ~FinishWriteable
  BY DEF CycleInv, Reading, ParseTail, FinishWriteable

-----------------------------------------------------------------------------------
(* The server.                                                                      *)

\* A step of the server changes one socket, and takes nothing from it.
LEMMA WireStep ==
    ASSUME CycleInv, OwnerInv', NEW f \in Fds, UNCHANGED Environment,
           \A g \in Fds : g # f => sock'[g] = sock[g],
           sock[f].inq # <<>> => sock'[f].inq # <<>>,
           \A d \in Conns : conn[d].fd = f => Stage(d)'
    PROVE  CycleInv'
<1>1. /\ now' = now /\ conn' = conn /\ delays' = delays /\ handed' = handed
      /\ events' = events /\ turn' = turn /\ rest' = rest /\ stopping' = stopping
      /\ recorded' = recorded
  BY DEF Environment, loopVars, threadVars
<1>2. ASSUME NEW d \in Conns PROVE Stage(d)' /\ Pace(conn[d])'
  <2>1. Stage(d) /\ Pace(conn[d])
    BY DEF CycleInv
  <2>2. CASE conn[d].fd # f
    <3>1. SameConn(d)
      BY <1>1, <2>2 DEF SameConn
    <3>2. now <= now
      BY CycleReady, SMT
    <3>3. Onward(d)
      BY <1>1, <3>2, CycleReady DEF Onward
    <3>4. Stage(d)'
      BY <2>1, <3>1, <3>3, StageKept
    <3> QED BY <1>1, <2>1, <3>4 DEF Pace, CaughtUpInTime
  <2>3. CASE conn[d].fd = f
    BY <1>1, <2>1, <2>3 DEF Pace, CaughtUpInTime
  <2> QED BY <2>2, <2>3
<1>3. Reading'
  BY <1>1 DEF CycleInv, Reading
<1>4. RecordedSound'
  BY <1>1 DEF CycleInv, RecordedSound
<1> QED BY <1>2, <1>3, <1>4 DEF CycleInv

LEMMA AcceptCycle ==
    ASSUME CycleInv, OwnerInv', NEW f \in Fds, Accept(f)
    PROVE  CycleInv'
<1>0. sock \in [Fds -> SocketType]
  BY CycleReady DEF Tables
<1> DEFINE t == [sock[f] EXCEPT !.st = "open"]
<1>1. sock' = [sock EXCEPT ![f] = t] /\ sock[f].st = "connecting" /\ UNCHANGED Environment
  BY DEF Accept
<1>2. /\ t.st = "open" /\ t.inq = sock[f].inq /\ t.peer = sock[f].peer
      /\ t.got = sock[f].got /\ t.owed = sock[f].owed /\ t.mid = sock[f].mid
  BY <1>0, SMT DEF SocketType
<1> HIDE DEF t
<1>3. sock'[f] = t /\ \A g \in Fds : g # f => sock'[g] = sock[g]
  BY <1>0, <1>1, Zenon
<1>4. /\ conn' = conn /\ delays' = delays /\ handed' = handed /\ events' = events
  BY <1>1 DEF Environment, loopVars, threadVars
<1>5. ASSUME NEW d \in Conns, conn[d].fd = f PROVE Stage(d)'
  <2>1. Stage(d) /\ Wire(d).st = "connecting" /\ Wire(d) = sock[f]
    BY <1>1, <1>5 DEF CycleInv, Wire
  <2>2. Dialling(d)
    <3>1. ~Undialled(d)
      BY <1>5, ThreadAssumption DEF Undialled
    <3> QED BY <2>1, <3>1 DEF Stage, Idle, Writing, Awaiting, Stopped, Out, Established
  <2>3. Wire(d)' = t /\ Entry(d)' = Entry(d)
    BY <1>3, <1>4, <1>5 DEF Wire, Entry
  <2>4. Registered(d, RW)' /\ AtRest(d)' /\ Silent(d)'
    BY <1>2, <1>4, <2>1, <2>2, <2>3 DEF Dialling, Registered, AtRest, Silent
  <2> QED BY <1>2, <1>4, <2>2, <2>3, <2>4 DEF Dialling, Stage
<1> QED BY <1>1, <1>2, <1>3, <1>5, WireStep

\* The server sends on a connection that waits: the answers on the wire are as many.
LEMMA ServedStage ==
    ASSUME CycleInv, NEW f \in Fds, NEW d \in Conns, conn[d].fd = f,
           UNCHANGED Environment, sock[f].owed > 0,
           NEW t, sock'[f] = t, t.st = sock[f].st, t.got = sock[f].got,
           Answering(sock[f], conn[d].parser) /\ (Answers \cap Closing = {}
                                                    \/ OnTheWire(sock[f]) <= 1) =>
             Answering(t, conn[d].parser) /\ OnTheWire(t) = OnTheWire(sock[f]),
           sock[f].owed \in Nat /\ sock[f].inq \in Seq(Answers) =>
             /\ t.owed \in Nat /\ t.inq \in Seq(Answers)
             /\ OnTheWire(t) = OnTheWire(sock[f]),
           Reliable
    PROVE  Stage(d)'
<1>1. /\ conn' = conn /\ delays' = delays /\ handed' = handed /\ events' = events
      /\ now' = now /\ rest' = rest /\ stopping' = stopping /\ turn' = turn
  BY DEF Environment, loopVars, threadVars
<1>2. Stage(d) /\ Wire(d) = sock[f] /\ Wire(d)' = t /\ Entry(d)' = Entry(d)
  BY <1>1 DEF CycleInv, Wire, Entry
<1>3. Awaiting(d) \/ Stopped(d)
  <2>1. ~Silent(d)
    BY <1>2, SMT DEF Silent
  <2>2. ~Undialled(d)
    BY ThreadAssumption DEF Undialled
  <2> QED BY <1>2, <2>1, <2>2 DEF Stage, Dialling, Idle, Writing
<1>4. Out(d) /\ Out(d)'
  BY <1>1, <1>2, <1>3 DEF Awaiting, Stopped, Out, Established, Registered
<1>5. CASE Awaiting(d)
  <2> DEFINE e == IF conn[d].parser = "eof_body" THEN 1 ELSE 0
  <2>1. Answering(sock[f], conn[d].parser) /\ conn[d].pending = OnTheWire(sock[f]) + e
    BY <1>2, <1>5 DEF Awaiting
  <2>2. Answers \cap Closing = {} \/ OnTheWire(sock[f]) <= 1
    <3>1. Pipeline = 1 => OnTheWire(sock[f]) <= 1
      <4>1. OnTheWire(sock[f]) \in Nat /\ e \in Nat
        BY <2>1, WireNat
      <4> HIDE DEF e
      <4> QED BY <1>4, <2>1, <4>1, SMT DEF Out
    <3> QED BY <3>1 DEF Reliable, Closing
  <2>3. Answering(t, conn[d].parser) /\ OnTheWire(t) = OnTheWire(sock[f])
    BY <2>1, <2>2
  <2>4. Answering(Wire(d), conn[d].parser)'
    BY <1>1, <1>2, <2>3 DEF Answering
  <2>5. Awaiting(d)'
    BY <1>1, <1>2, <1>4, <1>5, <2>1, <2>3, <2>4 DEF Awaiting, HandedFor, OnTheWire
  <2> QED BY <2>5 DEF Stage
<1>6. CASE Stopped(d)
  <2>1. turn.step # "poll" /\ turn.c = d =>
          /\ t.owed \in Nat /\ t.inq \in Seq(Answers)
          /\ OnTheWire(t) = OnTheWire(sock[f])
    BY <1>2, <1>6 DEF Stopped
  <2>2. Stopped(d)'
    BY <1>1, <1>2, <1>4, <1>6, <2>1 DEF Stopped, OnTheWire
  <2> QED BY <2>2 DEF Stage
<1> QED BY <1>3, <1>5, <1>6

LEMMA AnswerCycle ==
    ASSUME CycleInv, Reliable, OwnerInv', NEW f \in Fds, Answer(f)
    PROVE  CycleInv'
<1>0. sock \in [Fds -> SocketType]
  BY CycleReady DEF Tables
<1> PICK piece \in Answers \ {"part"} :
      /\ Up(f) /\ sock[f].owed > 0
      /\ sock' = [sock EXCEPT ![f].inq = Append(@, piece), ![f].owed = @ - 1,
                              ![f].mid = FALSE,
                              ![f].peer = IF piece \in {"close", "until_eof"}
                                          THEN "fin" ELSE "up"]
      /\ UNCHANGED Environment
  BY DEF Answer
<1> DEFINE q == Append(sock[f].inq, piece)
           n == sock[f].owed - 1
           p == IF piece \in {"close", "until_eof"} THEN "fin" ELSE "up"
           t == [sock[f] EXCEPT !.inq = q, !.owed = n, !.mid = FALSE, !.peer = p]
<1>1. sock' = [sock EXCEPT ![f] = t]
  BY <1>0, Zenon
<1> HIDE DEF q, n, p
<1>2. /\ t.st = sock[f].st /\ t.got = sock[f].got
      /\ t.inq = q /\ t.owed = n /\ t.mid = FALSE /\ t.peer = p
  BY <1>0, Zenon DEF SocketType
<1> HIDE DEF t
<1>3. sock'[f] = t /\ \A g \in Fds : g # f => sock'[g] = sock[g]
  BY <1>0, <1>1, Zenon
<1>4. sock[f].inq \in Seq(Pieces) /\ q # <<>>
  <2>1. sock[f].inq \in Seq(Pieces) /\ piece \in Pieces
    BY <1>0, AnswersArePieces, SMT DEF SocketType
  <2> QED BY <2>1, AppendProperties DEF q
<1>5. ASSUME NEW d \in Conns, conn[d].fd = f PROVE Stage(d)'
  <2>1. ASSUME Answering(sock[f], conn[d].parser),
               Answers \cap Closing = {} \/ OnTheWire(sock[f]) <= 1
        PROVE  Answering(t, conn[d].parser) /\ OnTheWire(t) = OnTheWire(sock[f])
    <3>1. sock[f].peer = "up"
      BY DEF Up
    <3> QED BY <1>2, <2>1, <3>1, AnswerSent DEF q, n, p
  <2>2. ASSUME sock[f].owed \in Nat, sock[f].inq \in Seq(Answers)
        PROVE  /\ t.owed \in Nat /\ t.inq \in Seq(Answers)
               /\ OnTheWire(t) = OnTheWire(sock[f])
    <3>1. t.owed \in Nat
      BY <1>2, <2>2, SMT DEF n
    <3>2. t.inq \in Seq(Answers)
      BY <1>2, <2>2, AppendProperties DEF q
    <3>3. piece \in Pieces /\ piece \notin {"part", "junk"}
      BY AnswersArePieces
    <3>4. Cardinality(Unread(t.inq)) = Cardinality(Unread(sock[f].inq)) + 1
      BY <1>2, <1>4, <3>3, UnreadAppend DEF q
    <3>5. Cardinality(Unread(sock[f].inq)) \in Nat
      BY <1>4, UnreadFinite
    <3> HIDE DEF Unread
    <3> QED BY <1>2, <2>2, <3>1, <3>2, <3>4, <3>5, SMT DEF OnTheWire, n
  <2> QED BY <1>2, <1>3, <1>5, <2>1, <2>2, ServedStage
<1> QED BY <1>2, <1>3, <1>4, <1>5, WireStep

LEMMA AnswerPartCycle ==
    ASSUME CycleInv, Reliable, OwnerInv', NEW f \in Fds, AnswerPart(f)
    PROVE  CycleInv'
<1>0. sock \in [Fds -> SocketType]
  BY CycleReady DEF Tables
<1> DEFINE q == Append(sock[f].inq, "part")
           t == [sock[f] EXCEPT !.inq = q, !.mid = TRUE]
<1>1. /\ sock' = [sock EXCEPT ![f] = t] /\ UNCHANGED Environment
      /\ Up(f) /\ sock[f].owed > 0 /\ "part" \in Answers
  <2>1. sock' = [sock EXCEPT ![f] = t]
    BY <1>0, Zenon DEF AnswerPart
  <2> QED BY <2>1 DEF AnswerPart
<1> HIDE DEF q
<1>2. /\ t.st = sock[f].st /\ t.got = sock[f].got /\ t.inq = q
      /\ t.owed = sock[f].owed /\ t.mid = TRUE /\ t.peer = sock[f].peer
  BY <1>0, Zenon DEF SocketType
<1> HIDE DEF t
<1>3. sock'[f] = t /\ \A g \in Fds : g # f => sock'[g] = sock[g]
  BY <1>0, <1>1, Zenon
<1>4. sock[f].inq \in Seq(Pieces) /\ q # <<>> /\ "part" \in Pieces
  <2>1. sock[f].inq \in Seq(Pieces) /\ "part" \in Pieces
    BY <1>0, SMT DEF SocketType, Pieces
  <2> QED BY <2>1, AppendProperties DEF q
<1>5. ASSUME NEW d \in Conns, conn[d].fd = f PROVE Stage(d)'
  <2>1. ASSUME Answering(sock[f], conn[d].parser)
        PROVE  Answering(t, conn[d].parser) /\ OnTheWire(t) = OnTheWire(sock[f])
    <3>1. sock[f].peer = "up"
      BY <1>1 DEF Up
    <3> QED BY <1>1, <1>2, <2>1, <3>1, PartSent DEF q
  <2>2. ASSUME sock[f].owed \in Nat, sock[f].inq \in Seq(Answers)
        PROVE  /\ t.owed \in Nat /\ t.inq \in Seq(Answers)
               /\ OnTheWire(t) = OnTheWire(sock[f])
    <3>1. t.owed \in Nat /\ t.inq \in Seq(Answers)
      BY <1>1, <1>2, <2>2, AppendProperties DEF q
    <3>2. Cardinality(Unread(t.inq)) = Cardinality(Unread(sock[f].inq)) + 0
      BY <1>2, <1>4, UnreadAppend, Zenon DEF q
    <3>3. Cardinality(Unread(sock[f].inq)) \in Nat
      BY <1>4, UnreadFinite
    <3> HIDE DEF Unread
    <3> QED BY <1>2, <2>2, <3>1, <3>2, <3>3, SMT DEF OnTheWire
  <2> QED BY <1>1, <1>2, <1>3, <1>5, <2>1, <2>2, ServedStage
<1> QED BY <1>1, <1>2, <1>3, <1>4, <1>5, WireStep

LEMMA ServerCycle ==
    ASSUME CycleInv, Reliable, OwnerInv', NEW f \in Fds, Server(f)
    PROVE  CycleInv'
<1>1. \A kind : Fault(kind) => kind \in {"sigint", "handshake"}
  BY DEF Fault, Reliable
<1>2. /\ ~Refuse(f) /\ ~AnswerEarly(f) /\ ~AnswerUnsolicited(f) /\ ~SendJunk(f)
      /\ ~PeerCloses(f) /\ ~PeerResets(f)
  BY <1>1 DEF Refuse, AnswerEarly, AnswerUnsolicited, SendJunk, PeerCloses, PeerResets
<1> QED BY <1>2, AcceptCycle, AnswerCycle, AnswerPartCycle DEF Server

-----------------------------------------------------------------------------------
(* The steps that touch no connection.                                              *)

LeftAlone ==
    /\ UNCHANGED <<sock, events, delays, turn, conn, recorded, handed>>
    /\ now' \in {now, now + 1}
    /\ stopping => stopping'
    /\ rest' \subseteq rest

LEMMA LeftAloneKeeps ==
    ASSUME CycleInv, OwnerInv', LeftAlone
    PROVE  CycleInv'
<1>1. now \in Nat /\ now' \in Nat /\ now <= now'
  BY CycleReady, SMT DEF LeftAlone
<1>2. ASSUME NEW d \in Conns PROVE Stage(d)' /\ Pace(conn[d])'
  <2>1. Stage(d) /\ Pace(conn[d]) /\ conn[d] \in ConnType /\ conn'[d] = conn[d]
    BY CycleReady DEF CycleInv, Tables, LeftAlone
  <2>2. SameConn(d) /\ Onward(d)
    BY <1>1 DEF LeftAlone, SameConn, Onward
  <2>3. Stage(d)'
    BY <2>1, <2>2, StageKept
  <2>4. Pace(conn[d])'
    <3>1. PICK cn \in ConnType : cn = conn[d]
      BY <2>1
    <3>2. Pace(cn)'
      BY <1>1, <2>1, <3>1, PaceKept
    <3> QED BY <2>1, <3>1, <3>2 DEF Pace, Counts, CaughtUpInTime
  <2> QED BY <2>3, <2>4
<1>3. Reading' /\ RecordedSound'
  BY DEF CycleInv, LeftAlone, Reading, RecordedSound
<1> QED BY <1>2, <1>3 DEF CycleInv

LEMMA TimeoutsLeaveAlone ==
    ASSUME CycleInv, CheckTimeouts \/ AeMainReturns
    PROVE  LeftAlone
<1>1. CASE CheckTimeouts
  <2>1. rest' \subseteq rest
    BY <1>1 DEF CheckTimeouts, TimeEvent
  <2> QED BY <1>1, <2>1 DEF CheckTimeouts, LeftAlone
<1>2. CASE AeMainReturns
  BY <1>2 DEF AeMainReturns, LeftAlone, threadVars
<1> QED BY <1>1, <1>2

LEMMA EnvironmentLeavesAlone ==
    ASSUME Tick \/ Handler \/ Terminated \/ UNCHANGED vars
    PROVE  LeftAlone
<1>1. CASE Tick
  BY <1>1 DEF Tick, LeftAlone, loopVars, threadVars
<1>2. CASE Handler
  BY <1>2 DEF Handler, LeftAlone, loopVars, threadVars
<1>3. CASE Terminated \/ UNCHANGED vars
  BY <1>3 DEF Terminated, vars, LeftAlone, loopVars, threadVars
<1> QED BY <1>1, <1>2, <1>3

\* Every step goes one way round the cycle for one connection, is one of the server's,
\* or leaves the connections alone.
LEMMA StepKinds ==
    ASSUME CycleInv, Reliable, [Next]_vars
    PROVE  \/ \E c \in Conns : CycleStep(c)
           \/ \E f \in Fds : Server(f)
           \/ LeftAlone
<1>1. CASE Loop
  <2>1. ASSUME NEW f \in Fds, FireReadable(f) PROVE \E c \in Conns : CycleStep(c)
    BY <2>1, FireReadableCycle
  <2>2. ASSUME NEW f \in Fds, FireWriteable(f) PROVE \E c \in Conns : CycleStep(c)
    BY <2>2, FireWriteableCycle
  <2>3. ASSUME NEW c \in Conns, DelayedInitialConnect(c) PROVE CycleStep(c)
    BY <2>3, DelayedInitialConnectCycle
  <2>4. ASSUME NEW c \in Conns, DelayRequest(c) PROVE CycleStep(c)
    BY <2>4, DelayRequestCycle
  <2>5. ASSUME ReadMore PROVE \E c \in Conns : CycleStep(c)
    BY <2>5, ReadMoreCycle
  <2>6. ASSUME CheckTimeouts \/ AeMainReturns PROVE LeftAlone
    BY <2>6, TimeoutsLeaveAlone
  <2>7. ~ParseTail /\ ~FinishWriteable
    BY NoOtherTurn
  <2> QED BY <1>1, <2>1, <2>2, <2>3, <2>4, <2>5, <2>6, <2>7 DEF Loop
<1>2. CASE Tick \/ Handler \/ Terminated \/ UNCHANGED vars
  BY <1>2, EnvironmentLeavesAlone
<1> QED BY <1>1, <1>2 DEF Next

LEMMA CycleNext ==
    ASSUME Reliable
    PROVE  CycleInv /\ [Next]_vars => CycleInv'
<1> SUFFICES ASSUME CycleInv, [Next]_vars PROVE CycleInv'
  OBVIOUS
<1>1. OwnerInv'
  BY OwnerNext DEF CycleInv
<1>2. CASE \E c \in Conns : CycleStep(c)
  BY <1>1, <1>2, StepKeeps
<1>3. CASE \E f \in Fds : Server(f)
  BY <1>1, <1>3, ServerCycle
<1>4. CASE LeftAlone
  BY <1>1, <1>4, LeftAloneKeeps
<1> QED BY <1>2, <1>3, <1>4, StepKinds

LEMMA CycleInit == Init => CycleInv
<1> SUFFICES ASSUME Init PROVE CycleInv
  OBVIOUS
<1>1. OwnerInv
  BY OwnerInit
<1>2. Reading /\ RecordedSound
  BY SMT DEF Init, Reading, Polling, RecordedSound
<1>3. ASSUME NEW c \in Conns PROVE Stage(c) /\ Pace(conn[c])
  <2>1. conn[c] = NewConnection /\ delays[c] = <<>> /\ handed[c] = 0
    BY <1>3 DEF Init
  <2>2. Undialled(c)
    BY <2>1 DEF Undialled, AtRest, NewConnection
  <2>3. Pace(conn[c])
    BY <2>1 DEF Pace, Counts, CaughtUpInTime, NewConnection
  <2> QED BY <2>2, <2>3 DEF Stage
<1> QED BY <1>1, <1>2, <1>3 DEF CycleInv

-----------------------------------------------------------------------------------
(* What the cycle means for the properties of WrkThread.                            *)

LEMMA CycleCatchesUp == CycleInv => CatchUpRate
<1> SUFFICES ASSUME CycleInv, NEW c \in Conns,
                    ~conn[c].caught_up,
                    conn[c].complete - conn[c].complete_at_catch_up_start >= Pipeline
             PROVE  conn[c].catch_up_start_time
                      + CatchUpOffset(conn[c].complete - conn[c].complete_at_catch_up_start
                                        - Pipeline) <= now
  BY DEF CatchUpRate
<1> DEFINE cn == conn[c]
           fewer == cn.complete - cn.complete_at_catch_up_start - Pipeline
           since == cn.complete_at_last_batch_start - cn.complete_at_catch_up_start
<1>1. /\ cn.complete \in Nat /\ cn.pending \in Nat /\ cn.catch_up_start_time \in Nat
      /\ cn.complete_at_last_batch_start \in Nat
      /\ cn.complete_at_catch_up_start \in Nat /\ now \in Nat /\ Pipeline \in Nat \ {0}
  <2>1. cn \in ConnType /\ now \in Nat
    BY CycleReady DEF Tables
  <2> QED BY <2>1, ThreadAssumption, SMT DEF ConnType
<1>2. Counts(cn) /\ CaughtUpInTime(cn)
  BY DEF CycleInv, Pace
<1>3. cn.complete + cn.pending = cn.complete_at_last_batch_start + Pipeline
  BY <1>1, <1>2, SMT DEF Counts
<1> HIDE DEF cn
<1>4. fewer \in Nat /\ since \in Nat /\ fewer <= since
  BY <1>1, <1>3, SMT DEF cn
<1>5. cn.catch_up_start_time + CatchUpOffset(since) <= now
  BY <1>2, <1>4, SMT DEF CaughtUpInTime, cn
<1> HIDE DEF fewer, since
<1>6. CatchUpOffset(fewer) <= CatchUpOffset(since)
  BY <1>4, CatchUpMonotonic
<1>7. CatchUpOffset(fewer) \in Int /\ CatchUpOffset(since) \in Int
  BY <1>4, CatchUpOffsetInt
<1>8. cn.catch_up_start_time + CatchUpOffset(fewer) <= now
  BY <1>1, <1>5, <1>6, <1>7, SMT
<1> QED BY <1>8 DEF fewer, cn

\* A wakeup at a time.
OneOfTwo(c) ==
    \/ Len(delays[c]) = 0 /\ AE_WRITABLE \in Entry(c).mask
    \/ Len(delays[c]) = 1 /\ AE_WRITABLE \notin Entry(c).mask
    \/ Len(delays[c]) = 0 /\ AE_WRITABLE \notin Entry(c).mask /\ conn[c].has_pending

LEMMA OneAtMost ==
    ASSUME NEW c, OneOfTwo(c)
    PROVE  /\ ~conn[c].has_pending => delays[c] # <<>> \/ AE_WRITABLE \in Entry(c).mask
           /\ Len(delays[c]) + (IF AE_WRITABLE \in Entry(c).mask THEN 1 ELSE 0) <= 1
<1> DEFINE len == Len(delays[c])
           n == IF AE_WRITABLE \in Entry(c).mask THEN 1 ELSE 0
<1>1. delays[c] = <<>> => len = 0
  OBVIOUS
<1>2. ~(len = 1 /\ len = 0)
  BY SMT
<1> HIDE DEF len
<1>3. (len = 0 /\ n = 1) \/ (len = 1 /\ n = 0) \/ (len = 0 /\ n = 0)
  <2>1. CASE AE_WRITABLE \in Entry(c).mask
    BY <2>1, Zenon DEF OneOfTwo, len
  <2>2. CASE ~(AE_WRITABLE \in Entry(c).mask)
    BY <2>2, Zenon DEF OneOfTwo, len
  <2> QED BY <2>1, <2>2
<1>4. ~conn[c].has_pending => delays[c] # <<>> \/ AE_WRITABLE \in Entry(c).mask
  BY <1>1, <1>2, Zenon DEF OneOfTwo, len
<1> HIDE DEF n
<1>5. len + n <= 1
  BY <1>3, SMT
<1> QED BY <1>4, <1>5 DEF len, n

LEMMA CycleWakesUp == CycleInv => IdleHasWakeup /\ OneWakeup
<1> SUFFICES ASSUME CycleInv, NEW c \in Conns, Connected(c)
             PROVE  OneOfTwo(c)
  BY OneAtMost DEF IdleHasWakeup, OneWakeup, Entry
<1>1. AE_WRITABLE \in RW /\ AE_WRITABLE \notin {AE_READABLE}
  BY DEF RW, AE_READABLE, AE_WRITABLE
<1>2. Stage(c) /\ ~Undialled(c)
  BY DEF CycleInv, Connected, Undialled
<1>3. delays[c] = <<>> => Len(delays[c]) = 0
  OBVIOUS
<1>4. CASE Dialling(c) \/ Idle(c) \/ Writing(c)
  BY <1>1, <1>3, <1>4 DEF Dialling, Idle, Writing, Registered, OneOfTwo
<1>5. CASE Awaiting(c) \/ Stopped(c)
  BY <1>1, <1>3, <1>5 DEF Awaiting, Stopped, Out, Registered, OneOfTwo
<1> QED BY <1>2, <1>4, <1>5 DEF Stage

LEMMA CycleHandsOut == CycleInv => RequestThenResponse
<1> SUFFICES ASSUME CycleInv, NEW c \in Conns PROVE handed[c] \in 0 .. Pipeline
  BY DEF RequestThenResponse
<1>1. \A n \in 0 .. Pipeline : HandedFor(n) \in 0 .. Pipeline
  BY ThreadAssumption, SMT DEF HandedFor
<1>2. Pipeline \in 0 .. Pipeline /\ 0 \in 0 .. Pipeline
  BY ThreadAssumption, SMT
<1>3. Stage(c)
  BY DEF CycleInv
<1>4. CASE Undialled(c) \/ Dialling(c) \/ Idle(c)
  BY <1>2, <1>4 DEF Undialled, Dialling, Idle, AtRest
<1>5. CASE Writing(c)
  BY <1>1, <1>2, <1>5 DEF Writing
<1>6. CASE Awaiting(c)
  <2>1. conn[c].pending \in 0 .. Pipeline
    BY <1>6, SMT DEF Awaiting, Out
  <2> QED BY <1>1, <1>6, <2>1 DEF Awaiting
<1>7. CASE Stopped(c)
  BY <1>7 DEF Stopped
<1> QED BY <1>3, <1>4, <1>5, <1>6, <1>7 DEF Stage

LEMMA CycleCounts == CycleInv => PendingIsOutstanding
<1> SUFFICES ASSUME CycleInv, NEW c \in Conns, ~stopping, Connected(c),
                    conn[c].written = 0, Entry(c).rproc = "socket_readable"
             PROVE  conn[c].pending = OnTheWire(Wire(c))
                      + (IF conn[c].parser = "eof_body" THEN 1 ELSE 0)
  BY DEF PendingIsOutstanding, Entry, Wire
<1>1. Stage(c) /\ ~Undialled(c)
  BY DEF CycleInv, Connected, Undialled
<1>2. ~Dialling(c) /\ ~Stopped(c)
  BY DEF Dialling, Stopped
<1>3. ~Writing(c)
  BY SMT DEF Writing
<1>4. CASE Idle(c)
  <2>1. Wire(c).owed = 0 /\ Wire(c).inq = <<>> /\ conn[c].pending = 0
        /\ conn[c].parser = "start"
    BY <1>4 DEF Idle, Silent, AtRest
  <2>2. OnTheWire(Wire(c)) = 0
    BY <2>1, UnreadNone DEF OnTheWire
  <2> QED BY <2>1, <2>2
<1>5. CASE Awaiting(c)
  BY <1>5 DEF Awaiting
<1> QED BY <1>1, <1>2, <1>3, <1>4, <1>5 DEF Stage

-----------------------------------------------------------------------------------
\* A connection that is behind catches up at no more than twice its throughput, through
\* every wait, partial write and redial: the rate is bounded by the clock, not by how
\* often the handlers run.
THEOREM CatchesUpAtTheRate == ASSUME Reliable PROVE Spec => []CatchUpRate
<1>1. Init => CycleInv
  BY CycleInit
<1>2. CycleInv /\ [Next]_vars => CycleInv'
  BY CycleNext
<1>3. CycleInv => CatchUpRate
  BY CycleCatchesUp
<1> QED BY <1>1, <1>2, <1>3, PTL DEF Spec

\* No wakeup is lost: a connection that waits for no response has a timer or the
\* writable event to go on with.
THEOREM WakeupNeverLost == ASSUME Reliable PROVE Spec => []IdleHasWakeup
<1>1. Init => CycleInv
  BY CycleInit
<1>2. CycleInv /\ [Next]_vars => CycleInv'
  BY CycleNext
<1>3. CycleInv => IdleHasWakeup
  BY CycleWakesUp
<1> QED BY <1>1, <1>2, <1>3, PTL DEF Spec

\* ... and never two, which could begin two batches.
THEOREM WakeupNeverDoubled == ASSUME Reliable PROVE Spec => []OneWakeup
<1>1. Init => CycleInv
  BY CycleInit
<1>2. CycleInv /\ [Next]_vars => CycleInv'
  BY CycleNext
<1>3. CycleInv => OneWakeup
  BY CycleWakesUp
<1> QED BY <1>1, <1>2, <1>3, PTL DEF Spec

\* request() is called for a connection only when response() has been called for all
\* the requests it returned before.
THEOREM ScriptTakesTurns == ASSUME Reliable PROVE Spec => []RequestThenResponse
<1>1. Init => CycleInv
  BY CycleInit
<1>2. CycleInv /\ [Next]_vars => CycleInv'
  BY CycleNext
<1>3. CycleInv => RequestThenResponse
  BY CycleHandsOut
<1> QED BY <1>1, <1>2, <1>3, PTL DEF Spec

\* c->pending is the number of responses that are still to come, so --c->pending never
\* wraps round, and the last response of a batch is the one that finds it at zero.
THEOREM PendingCountsTheWire == ASSUME Reliable PROVE Spec => []PendingIsOutstanding
<1>1. Init => CycleInv
  BY CycleInit
<1>2. CycleInv /\ [Next]_vars => CycleInv'
  BY CycleNext
<1>3. CycleInv => PendingIsOutstanding
  BY CycleCounts
<1> QED BY <1>1, <1>2, <1>3, PTL DEF Spec

\* The corrected latency of a response is never below the uncorrected one, and neither
\* is negative: counting from the plan adds the time a request was late and gifts none.
THEOREM CorrectionOnlyAdds == ASSUME Reliable PROVE Spec => []RecordedSound
<1>1. Init => CycleInv
  BY CycleInit
<1>2. CycleInv /\ [Next]_vars => CycleInv'
  BY CycleNext
<1>3. CycleInv => RecordedSound
  BY DEF CycleInv
<1> QED BY <1>1, <1>2, <1>3, PTL DEF Spec

-----------------------------------------------------------------------------------
(* The plan of OpenLoop: each step of the cycle of a connection is a step of its    *)
(* plan or hidden from it.                                                          *)

\* A step that leaves every connection but c alone changes the plan at c at most.
LEMMA PlanAt ==
    ASSUME NEW c \in Conns, \A d \in Conns : d # c => conn'[d] = conn[d]
    PROVE  /\ [d \in Conns |-> conn[d].thread_start]'
                = [[d \in Conns |-> conn[d].thread_start]
                     EXCEPT ![c] = conn'[c].thread_start]
           /\ [d \in Conns |-> conn[d].complete]'
                = [[d \in Conns |-> conn[d].complete] EXCEPT ![c] = conn'[c].complete]
           /\ [d \in Conns |-> conn[d].pending]'
                = [[d \in Conns |-> conn[d].pending] EXCEPT ![c] = conn'[c].pending]
           /\ [d \in Conns |-> conn[d].complete_at_last_batch_start]'
                = [[d \in Conns |-> conn[d].complete_at_last_batch_start]
                     EXCEPT ![c] = conn'[c].complete_at_last_batch_start]
           /\ [d \in Conns |-> conn[d].actual_latency_start]'
                = [[d \in Conns |-> conn[d].actual_latency_start]
                     EXCEPT ![c] = conn'[c].actual_latency_start]
  OBVIOUS

\* A field that keeps its value keeps its place in the plan.
LEMMA PlanField ==
    ASSUME NEW f, NEW c \in Conns, f = [d \in Conns |-> f[d]]
    PROVE  [f EXCEPT ![c] = f[c]] = f
  OBVIOUS

LEMMA PlanInit == Init => Plan!Init
<1> SUFFICES ASSUME Init PROVE Plan!Init
  OBVIOUS
<1>1. now > 0
  BY ThreadAssumption, SMT DEF Init
<1>2. \A c \in Conns : conn[c] = NewConnection
  BY DEF Init
<1> QED BY <1>1, <1>2 DEF Plan!Init, Init, NewConnection

LEMMA PlanStutters ==
    ASSUME conn' = conn, recorded' = recorded, now' \in {now, now + 1}
    PROVE  [Plan!Next]_Plan!vars
<1>1. CASE now' = now
  BY <1>1 DEF Plan!vars
<1>2. CASE now' = now + 1
  <2>1. Plan!Pass
    BY <1>2 DEF Plan!Pass
  <2> QED BY <2>1 DEF Plan!Next
<1> QED BY <1>1, <1>2

\* One step of the cycle is one step of the plan.
LEMMA PlanFollowed ==
    ASSUME NEW c \in Conns, CycleStep(c)
    PROVE  [Plan!Next]_Plan!vars
<1> DEFINE opened == [d \in Conns |-> conn[d].thread_start]
           served == [d \in Conns |-> conn[d].complete]
           outstanding == [d \in Conns |-> conn[d].pending]
           base == [d \in Conns |-> conn[d].complete_at_last_batch_start]
           sent == [d \in Conns |-> conn[d].actual_latency_start]
           x == conn[c]
           y == conn'[c]
<1>1. now' = now /\ PlanMove(x, y)
  BY DEF CycleStep, OnlyTouches
<1>2. /\ opened' = [opened EXCEPT ![c] = y.thread_start]
      /\ served' = [served EXCEPT ![c] = y.complete]
      /\ outstanding' = [outstanding EXCEPT ![c] = y.pending]
      /\ base' = [base EXCEPT ![c] = y.complete_at_last_batch_start]
      /\ sent' = [sent EXCEPT ![c] = y.actual_latency_start]
  BY PlanAt DEF CycleStep, OnlyTouches, OthersAlone
<1>3. /\ opened[c] = x.thread_start /\ served[c] = x.complete
      /\ outstanding[c] = x.pending /\ base[c] = x.complete_at_last_batch_start
      /\ sent[c] = x.actual_latency_start
  OBVIOUS
<1>4. /\ [opened EXCEPT ![c] = opened[c]] = opened
      /\ [served EXCEPT ![c] = served[c]] = served
      /\ [outstanding EXCEPT ![c] = outstanding[c]] = outstanding
      /\ [base EXCEPT ![c] = base[c]] = base
      /\ [sent EXCEPT ![c] = sent[c]] = sent
  BY PlanField
<1>5. CASE SamePlan(x, y)
  BY <1>1, <1>2, <1>3, <1>4, <1>5, Zenon DEF SamePlan, Plan!vars
<1>6. CASE Opens(x, y)
  <2>1. Plan!Open(c)
    BY <1>1, <1>2, <1>3, <1>4, <1>6, Zenon DEF Opens, Plan!Open
  <2> QED BY <2>1 DEF Plan!Next
<1>7. CASE Begins(x, y)
  <2>1. opened[c] + PlannedOffset(served[c]) <= now
    BY <1>3, <1>7, Zenon DEF Begins, PlannedStart
  <2>2. Plan!Begin(c)
    BY <1>1, <1>2, <1>3, <1>4, <1>7, <2>1, Zenon DEF Begins, Plan!Begin
  <2> QED BY <2>2 DEF Plan!Next
<1>8. CASE Responds(x, y)
  <2>1. Latencies(x) = [corrected   |-> now - (opened[c] + PlannedOffset(base[c])),
                        uncorrected |-> now - sent[c]]
    BY <1>3, Zenon DEF Latencies, ExpectedLatencyStart
  <2>2. /\ outstanding' = [outstanding EXCEPT ![c] = @ - 1]
        /\ served' = [served EXCEPT ![c] = @ + 1]
    BY <1>2, <1>3, <1>8, Zenon DEF Responds
  <2>3. outstanding[c] > 0 /\ opened' = opened /\ base' = base /\ sent' = sent
    BY <1>2, <1>3, <1>4, <1>8, Zenon DEF Responds
  <2>4. \/ recorded' = [corrected   |-> now - (opened[c] + PlannedOffset(base[c])),
                        uncorrected |-> now - sent[c]]
        \/ outstanding[c] > 1 /\ recorded' = recorded
    BY <1>3, <1>8, <2>1, Zenon DEF Responds
  <2>5. Plan!Respond(c)
    BY <1>1, <2>2, <2>3, <2>4, Zenon DEF Plan!Respond
  <2> QED BY <2>5 DEF Plan!Next
<1> QED BY <1>1, <1>5, <1>6, <1>7, <1>8 DEF PlanMove

LEMMA PlanNext ==
    ASSUME Reliable
    PROVE  CycleInv /\ [Next]_vars => [Plan!Next]_Plan!vars
<1> SUFFICES ASSUME CycleInv, [Next]_vars PROVE [Plan!Next]_Plan!vars
  OBVIOUS
<1>1. ASSUME NEW f \in Fds, Server(f) PROVE [Plan!Next]_Plan!vars
  <2>1. UNCHANGED Environment
    BY <1>1, ServerType DEF CycleInv, OwnerInv
  <2>2. conn' = conn /\ recorded' = recorded /\ now' = now
    BY <2>1 DEF Environment, threadVars
  <2> QED BY <2>2, PlanStutters
<1>2. CASE LeftAlone
  BY <1>2, PlanStutters DEF LeftAlone
<1> QED BY <1>1, <1>2, PlanFollowed, StepKinds

\* While the server answers every request once, the thread follows the plan of OpenLoop:
\* it begins no batch before its planned start or before the last one is answered, and
\* every latency it records counts from the planned start of the batch.
THEOREM FollowsThePlan == ASSUME Reliable PROVE Spec => FollowsPlan
<1>1. Init => CycleInv
  BY CycleInit
<1>2. CycleInv /\ [Next]_vars => CycleInv'
  BY CycleNext
<1>3. Init => Plan!Init
  BY PlanInit
<1>4. CycleInv /\ [Next]_vars => [Plan!Next]_Plan!vars
  BY PlanNext
<1> QED BY <1>1, <1>2, <1>3, <1>4, PTL DEF Spec, FollowsPlan, Plan!Spec

-----------------------------------------------------------------------------------
(* Whatever the server and the network do to connections that are written in whole   *)
(* strings, no wakeup is lost.                                                       *)

\* Every write takes the whole request string, and hosts can be reached.  (A response
\* that completes a batch while its string is being written leaves no wakeup once the
\* string is written; a connect that fails at once is not tried again.)
WholeWrites == ReqLen = 1 /\ "unreachable" \notin FaultKinds

\* A connection with a descriptor listens to it, and has responses to come, a timer, or
\* the writable event.
Wakeful(c) ==
    /\ conn[c].written = 0
    /\ conn[c].fd \in Fds =>
         /\ Entry(c).data = c /\ AE_READABLE \in Entry(c).mask
         /\ conn[c].has_pending \/ delays[c] # <<>> \/ AE_WRITABLE \in Entry(c).mask

WakeInv == OwnerInv /\ \A c \in Conns : Wakeful(c)

\* What a handler of connection c has to show.
Wakes(c) ==
    /\ \A d \in Conns : d # c => conn'[d] = conn[d] /\ delays'[d] = delays[d]
    /\ \A g \in Fds : g # conn[c].fd /\ events[g].mask # {} => events'[g] = events[g]
    /\ Wakeful(c)'

LEMMA WakeReady ==
    ASSUME WakeInv
    PROVE  /\ Tables /\ Ready /\ now \in Nat /\ delays \in [Conns -> Seq(Nat)]
           /\ turn \in TurnType
           /\ \A c \in Conns : conn[c] \in ConnType /\ Wakeful(c)
           /\ \A c \in Conns : delays[c] # <<>> => Dialled(conn[c])
<1>1. Tables /\ Ready /\ now \in Nat
  BY OwnerTables DEF WakeInv
<1>2. /\ delays \in [Conns -> Seq(Nat)]
      /\ \A c \in Conns : delays[c] # <<>> => Dialled(conn[c])
  BY InvReady DEF WakeInv, OwnerInv
<1>3. turn \in TurnType
  BY DEF WakeInv, OwnerInv, IInv, TypeOK
<1> QED BY <1>1, <1>2, <1>3 DEF WakeInv, Tables

\* The other connections have other descriptors, since each is registered for its own.
LEMMA WakesAll ==
    ASSUME WakeInv, OwnerInv', NEW c \in Conns, Wakes(c)
    PROVE  WakeInv'
<1>1. ASSUME NEW d \in Conns, d # c PROVE Wakeful(d)'
  <2>1. Wakeful(d) /\ Wakeful(c) /\ conn'[d] = conn[d] /\ delays'[d] = delays[d]
    BY <1>1 DEF WakeInv, Wakes
  <2>2. CASE conn[d].fd \in Fds
    <3>1. Entry(d).data = d /\ AE_READABLE \in Entry(d).mask
      BY <2>1, <2>2 DEF Wakeful
    <3>2. conn[d].fd # conn[c].fd
      <4> SUFFICES ASSUME conn[d].fd = conn[c].fd PROVE FALSE
        OBVIOUS
      <4>1. Entry(c).data = c
        BY <2>1, <2>2 DEF Wakeful
      <4> QED BY <1>1, <3>1, <4>1 DEF Entry
    <3>3. events'[conn[d].fd] = events[conn[d].fd]
      <4>1. events[conn[d].fd].mask # {}
        BY <3>1 DEF Entry
      <4> QED BY <2>2, <3>2, <4>1 DEF Wakes
    <3> QED BY <2>1, <3>3 DEF Wakeful, Entry
  <2>3. CASE conn[d].fd \notin Fds
    BY <2>1, <2>3 DEF Wakeful
  <2> QED BY <2>2, <2>3
<1> QED BY <1>1 DEF WakeInv, Wakes

-----------------------------------------------------------------------------------
LEMMA RedialWakes ==
    ASSUME WakeInv, WholeWrites, NEW c \in Conns, NEW cn \in ConnType,
           cn.fd = conn[c].fd, cn.fd \in Fds, cn.written = 0, delays' = delays,
           NEW errs, NEW flts, ReconnectSocket(c, cn, errs, flts)
    PROVE  Wakes(c)
<1> DEFINE evs == DeleteFileEvent(events, cn.fd, RW)
           sks == [sock EXCEPT ![cn.fd] = Free]
<1>1. Tables /\ "unreachable" \notin FaultKinds
  BY WakeReady DEF WholeWrites
<1>2. evs \in [Fds -> EntryType] /\ \A g \in Fds : g # cn.fd => evs[g] = events[g]
  BY <1>1, DeletedEntry, DeleteFileEventProps DEF Tables
<1>3. /\ sks \in [Fds -> SocketType] /\ sks[cn.fd] = Free
      /\ \A g \in Fds : g # cn.fd => sks[g] = sock[g]
  BY <1>1, UpdateProps, SocketInType DEF Tables, Free
<1>4. ConnectSocket(c, cn, evs, sks, errs, flts)
  BY DEF ReconnectSocket
<1> HIDE DEF evs, sks
<1>5. sks[cn.fd].st = "free"
  BY <1>3, SocketFields DEF Free
<1>6. /\ \A d \in Conns : d # c => conn'[d] = conn[d]
      /\ \E f \in Fds :
           /\ sks[f].st = "free" /\ conn'[c] = WithFd(cn, f)
           /\ events'[f].mask = RW /\ events'[f].data = c
           /\ \A g \in Fds : g # f => events'[g] = evs[g]
  BY <1>1, <1>2, <1>3, <1>4, <1>5, NewSocket DEF Tables
<1>7. PICK f \in Fds :
           /\ sks[f].st = "free" /\ conn'[c] = WithFd(cn, f)
           /\ events'[f].mask = RW /\ events'[f].data = c
           /\ \A g \in Fds : g # f => events'[g] = evs[g]
  BY <1>6
<1>8. ASSUME NEW g \in Fds, g # conn[c].fd, events[g].mask # {}
      PROVE  events'[g] = events[g]
  <2>1. sock[g].st # "free"
    BY <1>1, <1>8 DEF Tables, Owned
  <2>2. g # f
    BY <1>3, <1>7, <1>8, <2>1
  <2> QED BY <1>2, <1>7, <1>8, <2>2
<1>9. conn'[c].fd = f /\ conn'[c].written = 0
  BY <1>7, OtherFields
<1>10. AE_READABLE \in RW /\ AE_WRITABLE \in RW
  BY DEF RW
<1>11. Wakeful(c)'
  BY <1>7, <1>9, <1>10 DEF Wakeful, Entry
<1> QED BY <1>6, <1>8, <1>11 DEF Wakes

LEMMA ConnectedWakes ==
    ASSUME WakeInv, WholeWrites, NEW c \in Conns, NEW f \in Fds, f = conn[c].fd,
           SocketConnected(f, c)
    PROVE  Wakes(c)
<1>0. /\ conn \in [Conns -> ConnType] /\ events \in [Fds -> EntryType]
      /\ conn[c] \in ConnType /\ Wakeful(c)
  BY WakeReady DEF Tables
<1>1. delays' = delays
  BY DEF SocketConnected
<1>2. CASE /\ conn' = [conn EXCEPT ![c].parser = "start", ![c].written = 0]
           /\ events' = CreateFileEvent(
                          CreateFileEvent(events, f, {AE_READABLE}, "socket_readable", c),
                          f, {AE_WRITABLE}, "socket_writeable", c)
           /\ UNCHANGED <<sock, errors, faults>>
  <2> DEFINE cn == [conn[c] EXCEPT !.parser = "start", !.written = 0]
             evs == CreateFileEvent(events, f, {AE_READABLE}, "socket_readable", c)
             e == CreateFileEvent(evs, f, {AE_WRITABLE}, "socket_writeable", c)
  <2>1. cn.fd = f /\ cn.written = 0
    BY <1>0, SMT DEF ConnType
  <2>2. evs \in [Fds -> EntryType]
    BY <1>0, CreateFileEventProps DEF Masks, AE_READABLE, AE_WRITABLE
  <2>3. /\ evs[f].mask = events[f].mask \cup {AE_READABLE}
        /\ \A g \in Fds : g # f => evs[g] = events[g]
    BY <1>0, CreatedEntry
  <2> HIDE DEF evs
  <2>4. /\ e[f].mask = evs[f].mask \cup {AE_WRITABLE} /\ e[f].data = c
        /\ \A g \in Fds : g # f => e[g] = evs[g]
    BY <2>2, CreatedEntry
  <2>5. events' = e
    BY <1>2 DEF evs
  <2>6. conn'[c] = cn /\ \A d \in Conns : d # c => conn'[d] = conn[d]
    BY <1>0, <1>2, Zenon
  <2> HIDE DEF e, cn
  <2>7. Wakeful(c)'
    BY <2>1, <2>3, <2>4, <2>5, <2>6 DEF Wakeful, Entry
  <2> QED BY <1>1, <2>3, <2>4, <2>5, <2>6, <2>7 DEF Wakes
<1>3. CASE ReconnectSocket(c, conn[c], [errors EXCEPT !.connect = @ + 1], faults - 1)
  BY <1>0, <1>1, <1>3, RedialWakes DEF Wakeful
<1> QED BY <1>2, <1>3 DEF SocketConnected

LEMMA WaitWakes ==
    ASSUME WakeInv, NEW c \in Conns, NEW f \in Fds, f = conn[c].fd, WaitToSend(f, c)
    PROVE  Wakes(c)
<1>0. /\ conn \in [Conns -> ConnType] /\ events \in [Fds -> EntryType]
      /\ conn[c] \in ConnType /\ now \in Nat /\ Wakeful(c)
      /\ delays \in [Conns -> Seq(Nat)]
  BY WakeReady DEF Tables
<1>1. /\ conn' = [conn EXCEPT ![c] = Paced(conn[c], now)]
      /\ events' = DeleteFileEvent(events, f, {AE_WRITABLE})
      /\ delays' = DelayTimer(c)
  BY DEF WaitToSend, WaitUnwritable
<1>2. /\ conn'[c] = Paced(conn[c], now)
      /\ \A d \in Conns : d # c => conn'[d] = conn[d]
  BY <1>0, <1>1, Zenon
<1>3. conn'[c].fd = f /\ conn'[c].written = 0
  BY <1>0, <1>2, PacedProps DEF Wakeful
<1>4. delays'[c] # <<>> /\ \A d \in Conns : d # c => delays'[d] = delays[d]
  <2> DEFINE t == MsNow(now) + DelayMs(UsecToNextSend(conn[c], now))
  <2>1. delays' = [delays EXCEPT ![c] = <<t>> \o delays[c]]
    BY <1>1 DEF DelayTimer
  <2>2. t \in Nat
    BY <1>0, WaitNat
  <2> HIDE DEF t
  <2>3. delays[c] \in Seq(Nat) /\ <<t>> \in Seq(Nat) /\ Len(<<t>>) = 1
    BY <1>0, <2>2
  <2>4. <<t>> \o delays[c] # <<>>
    <3>1. Len(<<t>> \o delays[c]) = 1 + Len(delays[c]) /\ Len(delays[c]) \in Nat
      BY <2>3, ConcatProperties, LenProperties
    <3>2. Len(<<t>> \o delays[c]) # 0
      BY <3>1, SMT
    <3> QED BY <3>2, EmptySeq
  <2> QED BY <1>0, <2>1, <2>4
<1>5. /\ events'[f].mask = events[f].mask \ {AE_WRITABLE}
      /\ events'[f].data = events[f].data
      /\ \A g \in Fds : g # f => events'[g] = events[g]
  BY <1>0, <1>1, DeletedEntry
<1>6. AE_READABLE # AE_WRITABLE
  BY DEF AE_READABLE, AE_WRITABLE
<1>7. Wakeful(c)'
  BY <1>0, <1>3, <1>4, <1>5, <1>6 DEF Wakeful, Entry
<1> QED BY <1>2, <1>4, <1>5, <1>7 DEF Wakes

LEMMA BeginsPending ==
    ASSUME NEW cn \in ConnType
    PROVE  BeginBatch(cn).has_pending
<1>1. CASE cn.has_pending
  BY <1>1, SMT DEF BeginBatch, ConnType
<1>2. CASE ~cn.has_pending
  BY <1>2, SMT DEF BeginBatch, ConnType
<1> QED BY <1>1, <1>2

\* A batch that is begun has responses to come, whether its write succeeds, is to be
\* repeated, or fails.
LEMMA SendWakes ==
    ASSUME WakeInv, WholeWrites, NEW c \in Conns, NEW f \in Fds, f = conn[c].fd,
           Send(f, c)
    PROVE  Wakes(c)
<1> DEFINE cn == BeginBatch(Paced(conn[c], now))
<1>0. /\ conn \in [Conns -> ConnType] /\ events \in [Fds -> EntryType]
      /\ conn[c] \in ConnType /\ now \in Nat /\ Wakeful(c) /\ conn[c].written = 0
      /\ GoodConn(conn[c])
  BY WakeReady DEF Tables, Wakeful, Ready
<1>1. delays' = delays /\ UsecToNextSend(conn[c], now) = 0
  BY <1>0 DEF Send
<1>2. cn \in ConnType /\ cn.fd = f /\ cn.written = 0 /\ cn.has_pending
  <2> DEFINE p == Paced(conn[c], now)
  <2>1. /\ GoodConn(p) /\ p \in ConnType /\ p.fd = f /\ p.written = 0
        /\ p.thread_start = conn[c].thread_start /\ p.complete = conn[c].complete
    BY <1>0, PacedProps
  <2>2. Dialled(p)
    <3>1. Entry(c).data = c /\ AE_READABLE \in Entry(c).mask
      BY <1>0 DEF Wakeful
    <3>2. Dialled(conn[c])
      <4>1. events[f].mask # {}
        BY <3>1 DEF Entry
      <4> QED BY <3>1, <4>1, RegisteredOwner DEF Entry, WakeInv
    <3> QED BY <2>1, <3>2 DEF Dialled
  <2>3. PlannedStart(p) <= now
    <3>1. PlannedStart(conn[c]) <= now
      BY <1>0, <1>1, SendIsDue
    <3> QED BY <2>1, <3>1 DEF PlannedStart
  <2> HIDE DEF p
  <2>4. /\ GoodConn(BeginBatch(p)) /\ BeginBatch(p).fd = p.fd
        /\ BeginBatch(p).written = p.written /\ BeginBatch(p).has_pending
    BY <1>0, <2>1, <2>2, <2>3, BeginBatchProps, BeginsPending
  <2> QED BY <2>1, <2>4 DEF GoodConn, p
<1>3. \/ \E errs : ReconnectSocket(c, cn, errs, faults)
      \/ conn' = [conn EXCEPT ![c] = cn] /\ events' = events
      \/ /\ \E n \in 1 .. (ReqLen - cn.written) :
              conn' = [conn EXCEPT ![c] = [cn EXCEPT !.written =
                         IF cn.written + n = ReqLen THEN 0 ELSE @ + n]]
         /\ events' = WrittenUnwritable(f) \/ events' = events
  <2> HIDE DEF cn
  <2>1. cn = IF conn[c].written = 0 THEN BeginBatch(Paced(conn[c], now)) ELSE conn[c]
    BY <1>0 DEF cn
  <2>2. \/ \E errs : ReconnectSocket(c, cn, errs, faults)
        \/ conn' = [conn EXCEPT ![c] = cn] /\ UNCHANGED <<sock, events, errors>>
        \/ \E n \in 1 .. (ReqLen - cn.written) :
              /\ conn' = [conn EXCEPT ![c] = [cn EXCEPT !.written =
                            IF cn.written + n = ReqLen THEN 0 ELSE @ + n]]
              /\ events' = IF cn.written + n = ReqLen THEN WrittenUnwritable(f) ELSE events
    BY <2>1, Zenon DEF Send
  <2> QED BY <2>2
<1> HIDE DEF cn
<1>4. ASSUME NEW errs, ReconnectSocket(c, cn, errs, faults)
      PROVE  Wakes(c)
  BY <1>1, <1>2, <1>4, RedialWakes
<1>5. ASSUME NEW x \in ConnType, x.fd = f, x.written = 0, x.has_pending,
             conn' = [conn EXCEPT ![c] = x],
             events' = WrittenUnwritable(f) \/ events' = events
      PROVE  Wakes(c)
  <2>1. conn'[c] = x /\ \A d \in Conns : d # c => conn'[d] = conn[d]
    BY <1>0, <1>5, Zenon
  <2>2. /\ events'[f].data = events[f].data
        /\ AE_READABLE \in events[f].mask => AE_READABLE \in events'[f].mask
        /\ \A g \in Fds : g # f => events'[g] = events[g]
    <3>1. CASE events' = WrittenUnwritable(f)
      <4>1. /\ events'[f].mask = events[f].mask \ {AE_WRITABLE}
            /\ events'[f].data = events[f].data
            /\ \A g \in Fds : g # f => events'[g] = events[g]
        BY <1>0, <3>1, DeletedEntry DEF WrittenUnwritable
      <4> QED BY <4>1 DEF AE_READABLE, AE_WRITABLE
    <3> QED BY <1>5, <3>1
  <2>3. Wakeful(c)'
    BY <1>0, <1>5, <2>1, <2>2 DEF Wakeful, Entry
  <2> QED BY <1>1, <2>1, <2>2, <2>3 DEF Wakes
<1>6. CASE conn' = [conn EXCEPT ![c] = cn] /\ events' = events
  BY <1>2, <1>5, <1>6
<1>7. ASSUME NEW n \in 1 .. (ReqLen - cn.written),
             conn' = [conn EXCEPT ![c] = [cn EXCEPT !.written =
                        IF cn.written + n = ReqLen THEN 0 ELSE @ + n]],
             events' = WrittenUnwritable(f) \/ events' = events
      PROVE  Wakes(c)
  <2>1. cn.written + n = ReqLen
    BY <1>2, SMT DEF WholeWrites
  <2> DEFINE x == [cn EXCEPT !.written = 0]
  <2>2. conn' = [conn EXCEPT ![c] = x]
    BY <1>7, <2>1
  <2>3. x \in ConnType /\ x.fd = f /\ x.written = 0 /\ x.has_pending
    BY <1>2, SMT DEF ConnType
  <2> HIDE DEF x
  <2> QED BY <1>5, <1>7, <2>2, <2>3
<1> QED BY <1>3, <1>4, <1>6, <1>7

\* The last response of a batch wakes the connection up.
LEMMA CompleteWakes ==
    ASSUME WakeInv, WholeWrites, NEW c \in Conns, NEW cn \in ConnType,
           cn.fd = conn[c].fd, cn.fd \in Fds, cn.written = 0,
           cn.has_pending = conn[c].has_pending, delays' = delays,
           NEW keep \in BOOLEAN, NEW failed, NEW sks,
           ResponseComplete(c, cn, keep, failed, sks)
    PROVE  Wakes(c)
<1> DEFINE left == PendingLeft(cn)
           errs == IF failed THEN [errors EXCEPT !.status = @ + 1] ELSE errors
           done == [cn EXCEPT !.complete = @ + 1, !.pending = left,
                              !.has_pending = IF left = 0 THEN FALSE ELSE @]
           evs  == CreateFileEvent(events, cn.fd, {AE_WRITABLE}, "socket_writeable", c)
<1>0. /\ conn \in [Conns -> ConnType] /\ events \in [Fds -> EntryType] /\ Wakeful(c)
  BY WakeReady DEF Tables
<1>1. \/ conn' = [conn EXCEPT ![c] = cn] /\ events' = events
      \/ /\ conn' = [conn EXCEPT ![c] = [done EXCEPT !.parser = "start"]]
         /\ events' = IF left = 0 THEN evs ELSE events
      \/ ReconnectSocket(c, done, errs, faults)
  BY DEF ResponseComplete
<1>2. /\ done \in ConnType /\ done.fd = conn[c].fd
      /\ done.written = 0 /\ (left # 0 => done.has_pending = cn.has_pending)
  <2>1. done \in ConnType /\ done.fd = conn[c].fd
    BY DoneType
  <2>2. done.written = 0 /\ (left # 0 => done.has_pending = cn.has_pending)
    <3> DEFINE k == cn.complete + 1
               h == IF left = 0 THEN FALSE ELSE cn.has_pending
    <3>1. done = [cn EXCEPT !.complete = k, !.pending = left, !.has_pending = h]
      OBVIOUS
    <3>2. left # 0 => h = cn.has_pending
      OBVIOUS
    <3> HIDE DEF left, k, h, done
    <3>3. done.written = cn.written /\ done.has_pending = h
      BY <3>1, SMT DEF ConnType
    <3> QED BY <3>2, <3>3
  <2> QED BY <2>1, <2>2
<1> HIDE DEF done, errs, evs, left
<1>3. ASSUME NEW x \in ConnType, x.fd = cn.fd, x.written = 0,
             conn' = [conn EXCEPT ![c] = x],
             \/ x.has_pending = conn[c].has_pending /\ events' = events
             \/ events' = evs
      PROVE  Wakes(c)
  <2>1. conn'[c] = x /\ \A d \in Conns : d # c => conn'[d] = conn[d]
    BY <1>0, <1>3, Zenon
  <2>2. CASE x.has_pending = conn[c].has_pending /\ events' = events
    BY <1>0, <1>3, <2>1, <2>2 DEF Wakes, Wakeful, Entry
  <2>3. CASE events' = evs
    <3>1. /\ events'[cn.fd].mask = events[cn.fd].mask \cup {AE_WRITABLE}
          /\ events'[cn.fd].data = c
          /\ \A g \in Fds : g # cn.fd => events'[g] = events[g]
      BY <1>0, <2>3, WritableAwaited DEF evs
    <3>2. Wakeful(c)'
      BY <1>0, <1>3, <2>1, <3>1 DEF Wakeful, Entry
    <3> QED BY <2>1, <3>1, <3>2 DEF Wakes
  <2> QED BY <1>3, <2>2, <2>3
<1>4. CASE conn' = [conn EXCEPT ![c] = cn] /\ events' = events
  BY <1>3, <1>4
<1>5. CASE /\ conn' = [conn EXCEPT ![c] = [done EXCEPT !.parser = "start"]]
           /\ events' = IF left = 0 THEN evs ELSE events
  <2> DEFINE x == [done EXCEPT !.parser = "start"]
  <2>1. x \in ConnType /\ x.fd = cn.fd /\ x.written = 0 /\ x.has_pending = done.has_pending
    BY <1>2, SMT DEF ConnType, Phases
  <2> HIDE DEF x
  <2>2. conn' = [conn EXCEPT ![c] = x]
    BY <1>5 DEF x
  <2> QED BY <1>2, <1>3, <1>5, <2>1, <2>2
<1>6. CASE ReconnectSocket(c, done, errs, faults)
  BY <1>2, <1>6, RedialWakes
<1> QED BY <1>1, <1>4, <1>5, <1>6

LEMMA ReadErrorWakes ==
    ASSUME WakeInv, WholeWrites, NEW c \in Conns, conn[c].fd \in Fds, delays' = delays,
           NEW phase \in Phases, ReadError(c, phase)
    PROVE  Wakes(c)
<1> DEFINE cn == [conn[c] EXCEPT !.parser = phase]
<1>1. conn[c] \in ConnType /\ conn[c].written = 0
  BY WakeReady DEF Wakeful
<1>2. cn \in ConnType
  BY <1>1, Zenon DEF ConnType
<1>3. cn.fd = conn[c].fd /\ cn.written = 0
  BY <1>1, SMT DEF ConnType
<1>4. ReconnectSocket(c, cn, [errors EXCEPT !.read = @ + 1], faults)
  BY DEF ReadError
<1> HIDE DEF cn
<1> QED BY <1>2, <1>3, <1>4, RedialWakes

LEMMA ReadableWakes ==
    ASSUME WakeInv, WholeWrites, NEW f, NEW c \in Conns, conn[c].fd \in Fds, NEW w,
           SocketReadable(f, c, w)
    PROVE  Wakes(c)
<1>1. /\ conn[c] \in ConnType /\ conn[c].parser \in Phases /\ "dead" \in Phases
      /\ conn[c].written = 0 /\ conn \in [Conns -> ConnType] /\ Wakeful(c)
      /\ sock \in [Fds -> SocketType] /\ delays' = delays
  <2>1. /\ conn[c] \in ConnType /\ Wakeful(c) /\ conn \in [Conns -> ConnType]
        /\ sock \in [Fds -> SocketType]
    BY WakeReady DEF Tables
  <2> QED BY <2>1, SMT DEF ConnType, Phases, Wakeful, SocketReadable
<1>2. ASSUME NEW x \in ConnType, x.fd = conn[c].fd, x.written = 0,
             x.has_pending = conn[c].has_pending,
             conn' = [conn EXCEPT ![c] = x], events' = events
      PROVE  Wakes(c)
  <2>1. conn'[c] = x /\ \A d \in Conns : d # c => conn'[d] = conn[d]
    BY <1>1, <1>2, Zenon
  <2> QED BY <1>1, <1>2, <2>1 DEF Wakes, Wakeful, Entry
<1>3. CASE ParsePiece(f, c, w)
  <2> DEFINE g     == conn[c].fd
             piece == Head(sock[g].inq)
             phase == Feed(conn[c].parser, piece)
             cn    == [conn[c] EXCEPT !.parser = phase]
             sks   == [sock EXCEPT ![g].inq = Tail(@)]
  <2>1. /\ sock[g].inq # <<>>
        /\ \/ ReadError(c, "dead")
           \/ ResponseComplete(c, cn, KeepAlive(cn.parser), piece = "fail", sks)
           \/ conn' = [conn EXCEPT ![c] = cn] /\ events' = events
    BY <1>3 DEF ParsePiece
  <2>2. phase \in Phases
    <3>1. piece \in Pieces
      <4>1. sock[g].inq \in Seq(Pieces)
        BY <1>1, SMT DEF SocketType
      <4> QED BY <2>1, <4>1
    <3> QED BY <1>1, <3>1, FeedInPhases
  <2> HIDE DEF phase, sks, piece
  <2>3. /\ cn \in ConnType /\ cn.fd = conn[c].fd /\ cn.written = 0
        /\ cn.has_pending = conn[c].has_pending
    <3>1. cn \in ConnType
      BY <1>1, <2>2, Zenon DEF ConnType
    <3>2. /\ cn.fd = conn[c].fd /\ cn.written = conn[c].written
          /\ cn.has_pending = conn[c].has_pending
      BY <1>1, SMT DEF ConnType
    <3> QED BY <1>1, <3>1, <3>2
  <2> HIDE DEF cn
  <2>4. CASE ReadError(c, "dead")
    BY <1>1, <2>4, ReadErrorWakes
  <2>5. CASE ResponseComplete(c, cn, KeepAlive(cn.parser), piece = "fail", sks)
    <3>1. KeepAlive(cn.parser) \in BOOLEAN
      BY Zenon DEF KeepAlive
    <3> QED BY <1>1, <2>3, <2>5, <3>1, CompleteWakes
  <2>6. CASE conn' = [conn EXCEPT ![c] = cn] /\ events' = events
    BY <1>2, <2>3, <2>6
  <2> QED BY <2>1, <2>4, <2>5, <2>6
<1>4. CASE ReadEof(f, c, w)
  <2>1. CASE ResponseComplete(c, conn[c], FALSE, FALSE, sock)
    BY <1>1, <2>1, CompleteWakes
  <2>2. CASE ReadError(c, "dead")
    BY <1>1, <2>2, ReadErrorWakes
  <2>3. CASE UNCHANGED <<conn, sock, events, errors, faults>>
    BY <1>1, <2>3 DEF Wakes, Wakeful, Entry
  <2> QED BY <1>4, <2>1, <2>2, <2>3 DEF ReadEof
<1>5. CASE ReadFails(f, c, w)
  BY <1>1, <1>5, ReadErrorWakes DEF ReadFails
<1> QED BY <1>3, <1>4, <1>5 DEF SocketReadable

\* A connection whose timer fires has a descriptor that is open.
LEMMA DelayWakes ==
    ASSUME WakeInv, NEW c \in Conns, DelayRequest(c)
    PROVE  Wakes(c)
<1>0. /\ conn \in [Conns -> ConnType] /\ events \in [Fds -> EntryType]
      /\ conn[c] \in ConnType /\ now \in Nat /\ Wakeful(c)
      /\ delays \in [Conns -> Seq(Nat)]
  BY WakeReady DEF Tables
<1>1. PICK i \in DOMAIN delays[c] :
        LET wait == UsecToNextSend(conn[c], now)
            f    == conn[c].fd IN
        /\ conn' = [conn EXCEPT ![c] = Paced(@, now)]
        /\ \/ wait > 0 /\ delays' = TimerReturns(c, i, DelayMs(wait)) /\ UNCHANGED events
           \/ /\ wait = 0 /\ delays' = TimerReturns(c, i, AE_NOMORE)
              /\ events' = IF sock[f].st # "free"
                           THEN CreateFileEvent(events, f, {AE_WRITABLE},
                                                "socket_writeable", c)
                           ELSE events
  BY DEF DelayRequest
<1> DEFINE wait == UsecToNextSend(conn[c], now)
<1>2. delays[c] \in Seq(Nat) /\ delays[c] # <<>> /\ i \in 1 .. Len(delays[c])
  BY <1>0, <1>1
<1>3. conn[c].fd \in Fds
  BY <1>2, WakeReady DEF Dialled
<1> PICK f \in Fds : f = conn[c].fd
  BY <1>3
<1>4. Entry(c).data = c /\ AE_READABLE \in Entry(c).mask
  BY <1>0 DEF Wakeful
<1>5. sock[f].st # "free"
  <2>1. events[f].mask # {}
    BY <1>4 DEF Entry
  <2> QED BY <2>1, RegisteredOwner DEF WakeInv
<1>6. /\ conn'[c] = Paced(conn[c], now)
      /\ \A d \in Conns : d # c => conn'[d] = conn[d]
  BY <1>0, <1>1, Zenon
<1>7. conn'[c].fd = f /\ conn'[c].written = 0
  BY <1>0, <1>6, PacedProps DEF Wakeful
<1>8. \A d \in Conns : d # c => delays'[d] = delays[d]
  BY <1>0, <1>1, Zenon DEF TimerReturns
<1>9. CASE delays' = TimerReturns(c, i, DelayMs(wait)) /\ UNCHANGED events /\ wait > 0
  <2> DEFINE t == MsNow(now) + DelayMs(wait)
             s == [delays[c] EXCEPT ![i] = t]
  <2>1. DelayMs(wait) # AE_NOMORE
    <3>1. wait \in Nat
      BY <1>0, WaitNat
    <3> HIDE DEF wait
    <3>2. DelayMs(wait) \in Nat
      BY <3>1, Quotient, PacingAssumption, SMT DEF DelayMs
    <3> QED BY <3>2, SMT DEF AE_NOMORE
  <2>2. delays' = [delays EXCEPT ![c] = s]
    BY <1>9, <2>1 DEF TimerReturns
  <2> HIDE DEF t
  <2>3. s # <<>>
    <3>1. DOMAIN s = 1 .. Len(delays[c]) /\ i \in DOMAIN s
      BY <1>2
    <3> HIDE DEF s
    <3> QED BY <3>1, EmptySeq
  <2> HIDE DEF s
  <2>4. delays'[c] # <<>>
    BY <1>0, <2>2, <2>3, Zenon
  <2>5. Wakeful(c)'
    BY <1>4, <1>7, <1>9, <2>4 DEF Wakeful, Entry
  <2> QED BY <1>6, <1>8, <1>9, <2>5 DEF Wakes
<1>10. CASE events' = IF sock[f].st # "free"
                      THEN CreateFileEvent(events, f, {AE_WRITABLE},
                                           "socket_writeable", c)
                      ELSE events
  <2>1. events' = CreateFileEvent(events, f, {AE_WRITABLE}, "socket_writeable", c)
    BY <1>5, <1>10
  <2>2. /\ events'[f].mask = events[f].mask \cup {AE_WRITABLE} /\ events'[f].data = c
        /\ \A g \in Fds : g # f => events'[g] = events[g]
    BY <1>0, <2>1, WritableAwaited
  <2>3. Wakeful(c)'
    BY <1>4, <1>7, <2>2 DEF Wakeful, Entry
  <2> QED BY <1>6, <1>8, <2>2, <2>3 DEF Wakes
<1> QED BY <1>1, <1>9, <1>10

LEMMA InitialConnectWakes ==
    ASSUME WakeInv, WholeWrites, NEW c \in Conns, DelayedInitialConnect(c)
    PROVE  Wakes(c)
<1> DEFINE cn == [conn[c] EXCEPT !.thread_start = now]
<1>0. /\ Tables /\ conn[c] \in ConnType /\ now \in Nat /\ Wakeful(c)
  BY WakeReady
<1>1. delays' = delays /\ ConnectSocket(c, cn, events, sock, errors, faults)
  BY DEF DelayedInitialConnect
<1>2. cn \in ConnType
  BY <1>0, Zenon DEF ConnType
<1>3. /\ cn.fd = conn[c].fd /\ cn.written = conn[c].written
      /\ cn.has_pending = conn[c].has_pending
  BY <1>0, SMT DEF ConnType
<1> HIDE DEF cn
<1>4. /\ \A d \in Conns : d # c => conn'[d] = conn[d]
      /\ \/ \E f \in Fds :
              /\ sock[f].st = "free" /\ conn'[c] = WithFd(cn, f)
              /\ events'[f].mask = RW /\ events'[f].data = c
              /\ \A g \in Fds : g # f => events'[g] = events[g]
         \/ conn'[c] = cn /\ events' = events
  BY <1>0, <1>1, <1>2, NewSocket DEF Tables, WholeWrites
<1>5. ASSUME NEW f \in Fds, sock[f].st = "free", conn'[c] = WithFd(cn, f),
             events'[f].mask = RW, events'[f].data = c,
             \A g \in Fds : g # f => events'[g] = events[g]
      PROVE  Wakes(c)
  <2>1. conn'[c].fd = f /\ conn'[c].written = 0
    BY <1>0, <1>2, <1>3, <1>5, OtherFields DEF Wakeful
  <2>2. AE_READABLE \in RW /\ AE_WRITABLE \in RW
    BY DEF RW
  <2>3. events[f].mask = {}
    BY <1>0, <1>5 DEF Tables, Owned
  <2>4. Wakeful(c)'
    BY <1>5, <2>1, <2>2 DEF Wakeful, Entry
  <2> QED BY <1>1, <1>4, <1>5, <2>3, <2>4 DEF Wakes
<1>6. CASE conn'[c] = cn /\ events' = events
  BY <1>0, <1>1, <1>3, <1>4, <1>6 DEF Wakes, Wakeful, Entry
<1> QED BY <1>4, <1>5, <1>6

-----------------------------------------------------------------------------------
LEMMA FireReadableWakes ==
    ASSUME WakeInv, WholeWrites, NEW f \in Fds, FireReadable(f)
    PROVE  \E c \in Conns : Wakes(c)
<1>1. events[f].mask # {}
  BY DEF FireReadable
<1> PICK c \in Conns : c = events[f].data
  BY <1>1, RegisteredOwner DEF WakeInv
<1>2. conn[c].fd = f
  BY <1>1, RegisteredOwner DEF WakeInv
<1>3. SocketConnected(f, c) \/ \E w : SocketReadable(f, c, w)
  BY DEF FireReadable
<1> QED BY <1>2, <1>3, ConnectedWakes, ReadableWakes

LEMMA WriteProcWakes ==
    ASSUME WakeInv, WholeWrites, NEW f \in Fds, events[f].mask # {}, CallWriteProc(f)
    PROVE  \E c \in Conns : Wakes(c)
<1> PICK c \in Conns : c = events[f].data
  BY RegisteredOwner DEF WakeInv
<1>1. conn[c].fd = f
  BY RegisteredOwner DEF WakeInv
<1>2. SocketConnected(f, c) \/ WaitToSend(f, c) \/ Send(f, c)
  BY DEF CallWriteProc, SocketWriteable
<1> QED BY <1>1, <1>2, ConnectedWakes, WaitWakes, SendWakes

LEMMA TurnWakes ==
    ASSUME WakeInv, WholeWrites, ReadMore \/ ParseTail
    PROVE  \E c \in Conns : Wakes(c)
<1>1. turn.c \in Conns
  <2>1. turn \in TurnType
    BY WakeReady
  <2> QED BY <2>1, SMT DEF TurnType
<1>2. turn.step # "poll"
  BY DEF ReadMore, ParseTail
<1>3. conn[turn.c].fd \in Fds /\ "dead" \in Phases
  BY <1>2 DEF WakeInv, OwnerInv, IInv, DialledFirst, Dialled, Phases
<1>4. CASE ReadMore
  BY <1>1, <1>3, <1>4, ReadableWakes DEF ReadMore
<1>5. CASE ParseTail
  BY <1>1, <1>3, <1>5, ReadErrorWakes DEF ParseTail
<1> QED BY <1>4, <1>5

LEMMA WakeNext ==
    ASSUME WholeWrites
    PROVE  WakeInv /\ [Next]_vars => WakeInv'
<1> SUFFICES ASSUME WakeInv, [Next]_vars PROVE WakeInv'
  OBVIOUS
<1>1. OwnerInv'
  BY OwnerNext DEF WakeInv
<1>2. CASE \E c \in Conns : Wakes(c)
  BY <1>1, <1>2, WakesAll
<1>3. CASE UNCHANGED <<conn, events, delays>>
  BY <1>1, <1>3 DEF WakeInv, Wakeful, Entry
<1>4. CASE Loop
  <2>1. ASSUME NEW f \in Fds, FireReadable(f) PROVE \E c \in Conns : Wakes(c)
    BY <2>1, FireReadableWakes
  <2>2. ASSUME NEW f \in Fds, FireWriteable(f) PROVE \E c \in Conns : Wakes(c)
    BY <2>2, WriteProcWakes DEF FireWriteable
  <2>3. ASSUME FinishWriteable PROVE \E c \in Conns : Wakes(c)
    <3>1. turn.fd \in Fds /\ AE_WRITABLE \in events[turn.fd].mask
      BY <2>3 DEF WakeInv, OwnerInv, IInv, DialledFirst, FinishWriteable
    <3> QED BY <2>3, <3>1, WriteProcWakes DEF FinishWriteable
  <2>4. ASSUME NEW c \in Conns, DelayedInitialConnect(c) \/ DelayRequest(c) PROVE Wakes(c)
    BY <2>4, InitialConnectWakes, DelayWakes
  <2>5. ASSUME CheckTimeouts \/ AeMainReturns PROVE UNCHANGED <<conn, events, delays>>
    BY <2>5 DEF CheckTimeouts, AeMainReturns, threadVars
  <2> QED BY <1>2, <1>3, <1>4, <2>1, <2>2, <2>3, <2>4, <2>5, TurnWakes DEF Loop
<1>5. CASE Tick \/ Handler \/ Terminated \/ UNCHANGED vars
  <2>1. UNCHANGED <<conn, events, delays>>
    BY <1>5 DEF Tick, Handler, Terminated, vars, loopVars, threadVars
  <2> QED BY <1>3, <2>1
<1>6. ASSUME NEW f \in Fds, Server(f) PROVE WakeInv'
  <2>1. UNCHANGED <<conn, events, delays>>
    BY <1>6, ServerType DEF WakeInv, OwnerInv, Environment, loopVars, threadVars
  <2> QED BY <1>3, <2>1
<1> QED BY <1>4, <1>5, <1>6 DEF Next

LEMMA WakeInit == Init => WakeInv
<1> SUFFICES ASSUME Init PROVE WakeInv
  OBVIOUS
<1>1. OwnerInv
  BY OwnerInit
<1>2. ASSUME NEW c \in Conns PROVE Wakeful(c)
  <2>1. conn[c] = NewConnection
    BY DEF Init
  <2>2. conn[c].written = 0 /\ conn[c].fd = NoFd
    BY <2>1 DEF NewConnection
  <2>3. NoFd \notin Fds
    BY ThreadAssumption
  <2> QED BY <2>2, <2>3 DEF Wakeful
<1> QED BY <1>1, <1>2 DEF WakeInv

\* No wakeup is lost, whatever else goes wrong: resets, refusals, closes, garbage, late
\* and unasked answers, as often as they like, leave a connection that waits for no
\* response a timer or the writable event, though its descriptor changes hands and its
\* timers outlive its sockets.
THEOREM WakeupOutlivesFaults == ASSUME WholeWrites PROVE Spec => []IdleHasWakeup
<1>1. Init => WakeInv
  BY WakeInit
<1>2. WakeInv /\ [Next]_vars => WakeInv'
  BY WakeNext
<1>3. WakeInv => IdleHasWakeup
  <2> SUFFICES ASSUME WakeInv, NEW c \in Conns, conn[c].fd # NoFd
               PROVE  conn[c].has_pending \/ delays[c] # <<>>
                         \/ AE_WRITABLE \in events[conn[c].fd].mask
    BY DEF IdleHasWakeup, Connected
  <2>1. conn[c] \in ConnType /\ Wakeful(c)
    BY WakeReady
  <2>2. conn[c].fd \in Fds
    BY <2>1, SMT DEF ConnType
  <2> QED BY <2>1, <2>2 DEF Wakeful, Entry
<1> QED BY <1>1, <1>2, <1>3, PTL DEF Spec
===================================================================================
