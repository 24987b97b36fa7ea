----------------------------- MODULE WrkThreadProofs -----------------------------
(***********************************************************************************)
(* Proofs, for every value of the constants and every behaviour of the server and  *)
(* the network, that the variables of WrkThread keep their types and that no       *)
(* connection measures from a planned start that lies after the real one.          *)
(***********************************************************************************)
EXTENDS WrkThread, FiniteSetTheorems, TLAPS

\* What a connection keeps on its own: its type, its batch was planned before it was
\* begun, and its plan starts before its first batch.
GoodConn(cn) ==
    /\ cn \in ConnType
    /\ PlannedFirst(cn)
    /\ cn.thread_start = 0 =>
         cn.complete_at_last_batch_start = 0 /\ cn.actual_latency_start = 0

\* The connections and the event table after a handler (now does not change in one).
Handled ==
    /\ conn' \in [Conns -> ConnType]
    /\ \A d \in Conns : GoodConn(conn'[d])
    /\ \A d \in Conns : Dialled(conn[d]) => Dialled(conn'[d])
    /\ sock' \in [Fds -> SocketType]
    /\ events' \in [Fds -> EntryType]
    /\ \A f \in Fds : events'[f].mask # {} => Dialled(conn'[events'[f].data])
    /\ errors' \in ErrorsType
    /\ faults' \in Nat

\* The state a handler starts in.
Ready ==
    /\ now \in Nat
    /\ conn \in [Conns -> ConnType]
    /\ \A d \in Conns : GoodConn(conn[d])
    /\ sock \in [Fds -> SocketType]
    /\ events \in [Fds -> EntryType]
    /\ \A f \in Fds : events[f].mask # {} => Dialled(conn[events[f].data])
    /\ errors \in ErrorsType
    /\ faults \in Nat

-----------------------------------------------------------------------------------
\* The quotients of the plan are natural numbers, and the plan starts at 0.
LEMMA Quotient ==
    ASSUME NEW a \in Int, NEW b \in Nat \ {0}
    PROVE  /\ a \div b \in Int
           /\ a >= 0 => a \div b \in Nat
           /\ a = 0 => a \div b = 0
           /\ a % b \in 0 .. (b - 1)
  BY SMT

LEMMA PlannedOffsetNat ==
    ASSUME NEW n \in Nat
    PROVE  PlannedOffset(n) \in Nat
<1>1. n * RateDen \in Nat
  BY PacingAssumption, SMT
<1> QED BY <1>1, Quotient, PacingAssumption DEF PlannedOffset

LEMMA PlannedOffsetZero == PlannedOffset(0) = 0
<1>1. 0 * RateDen = 0
  BY PacingAssumption, SMT
<1> QED BY <1>1, Quotient, PacingAssumption DEF PlannedOffset

LEMMA CatchUpOffsetInt ==
    ASSUME NEW n \in Int
    PROVE  CatchUpOffset(n) \in Int
<1>1. n * RateDen \in Int /\ 2 * RateNum \in Nat \ {0}
  BY PacingAssumption, SMT
<1> QED BY <1>1, Quotient DEF CatchUpOffset

-----------------------------------------------------------------------------------
\* usec_to_next_send keeps a connection good: it writes the catch-up fields only.
LEMMA PacedProps ==
    ASSUME NEW cn \in ConnType, now \in Nat
    PROVE  /\ Paced(cn, now) \in ConnType
           /\ Paced(cn, now).thread_start = cn.thread_start
           /\ Paced(cn, now).complete = cn.complete
           /\ Paced(cn, now).written = cn.written
           /\ Paced(cn, now).fd = cn.fd
           /\ GoodConn(cn) => GoodConn(Paced(cn, now))
<1>1. CASE OnPace(cn, now)
  <2> DEFINE p == [cn EXCEPT !.caught_up = TRUE]
  <2>1. Paced(cn, now) = p
    BY <1>1 DEF Paced
  <2>2. p \in ConnType
    BY Zenon DEF ConnType
  <2>3. /\ p.thread_start = cn.thread_start /\ p.complete = cn.complete
        /\ p.written = cn.written /\ p.fd = cn.fd
        /\ p.actual_latency_start = cn.actual_latency_start
        /\ p.complete_at_last_batch_start = cn.complete_at_last_batch_start
    BY SMT DEF ConnType
  <2> QED BY <2>1, <2>2, <2>3 DEF GoodConn, PlannedFirst, ExpectedLatencyStart
<1>2. CASE ~OnPace(cn, now) /\ cn.caught_up
  <2> DEFINE p == [cn EXCEPT !.caught_up = FALSE, !.catch_up_start_time = now,
                             !.complete_at_catch_up_start = cn.complete]
  <2>1. Paced(cn, now) = p
    BY <1>2 DEF Paced
  <2>2. p \in ConnType
    BY Zenon DEF ConnType
  <2>3. /\ p.thread_start = cn.thread_start /\ p.complete = cn.complete
        /\ p.written = cn.written /\ p.fd = cn.fd
        /\ p.actual_latency_start = cn.actual_latency_start
        /\ p.complete_at_last_batch_start = cn.complete_at_last_batch_start
    BY SMT DEF ConnType
  <2> QED BY <2>1, <2>2, <2>3 DEF GoodConn, PlannedFirst, ExpectedLatencyStart
<1>3. CASE ~OnPace(cn, now) /\ ~cn.caught_up
  BY <1>3 DEF Paced
<1> QED BY <1>1, <1>2, <1>3

\* When usec_to_next_send lets a request go, the planned start of that request is past.
LEMMA SendIsDue ==
    ASSUME NEW cn \in ConnType, now \in Nat, UsecToNextSend(cn, now) = 0
    PROVE  PlannedStart(cn) <= now
<1>1. PlannedStart(cn) \in Nat
  BY PlannedOffsetNat, SMT DEF PlannedStart, ConnType
<1>2. CASE OnPace(cn, now)
  BY <1>1, <1>2, SMT DEF UsecToNextSend, NextStart, OnPace
<1>3. CASE ~OnPace(cn, now)
  BY <1>1, <1>3, SMT DEF OnPace
<1> QED BY <1>2, <1>3

\* The time to wait is a natural number, and so is the due time of its timer.
LEMMA WaitNat ==
    ASSUME NEW cn \in ConnType, now \in Nat
    PROVE  /\ UsecToNextSend(cn, now) \in Nat
           /\ MsNow(now) \in Nat
           /\ MsNow(now) + DelayMs(UsecToNextSend(cn, now)) \in Nat
<1>1. PlannedStart(cn) \in Nat
  BY PlannedOffsetNat, SMT DEF PlannedStart, ConnType
<1>2. Paced(cn, now) \in ConnType
  BY PacedProps
<1>3. CatchUpStart(Paced(cn, now)) \in Int
  BY <1>2, CatchUpOffsetInt, SMT DEF CatchUpStart, ConnType
<1>4. NextStart(cn, now) \in Int
  BY <1>1, <1>3 DEF NextStart
<1>5. UsecToNextSend(cn, now) \in Nat
  BY <1>4, SMT DEF UsecToNextSend
<1>6. MsNow(now) \in Nat
  BY Quotient, PacingAssumption, SMT DEF MsNow
<1>7. DelayMs(UsecToNextSend(cn, now)) \in Nat
  BY <1>5, Quotient, PacingAssumption, SMT DEF DelayMs
<1> QED BY <1>5, <1>6, <1>7, SMT

\* Beginning a batch that is due keeps a connection good, and this is where the
\* planned start of a batch is pinned below its real one.
LEMMA BeginBatchProps ==
    ASSUME NEW cn \in ConnType, GoodConn(cn), now \in Nat, Dialled(cn),
           PlannedStart(cn) <= now
    PROVE  /\ GoodConn(BeginBatch(cn))
           /\ BeginBatch(cn).thread_start = cn.thread_start
           /\ BeginBatch(cn).written = cn.written
           /\ BeginBatch(cn).fd = cn.fd
<1>1. Pipeline \in 0 .. (CounterMod - 1)
  BY ThreadAssumption, SMT
<1>2. CASE cn.has_pending
  <2> DEFINE b == [cn EXCEPT !.start = now, !.pending = Pipeline]
  <2>1. BeginBatch(cn) = b
    BY <1>2 DEF BeginBatch
  <2>2. b \in ConnType
    BY <1>1, Zenon DEF ConnType
  <2>3. /\ b.thread_start = cn.thread_start /\ b.written = cn.written /\ b.fd = cn.fd
        /\ b.actual_latency_start = cn.actual_latency_start
        /\ b.complete_at_last_batch_start = cn.complete_at_last_batch_start
    BY SMT DEF ConnType
  <2> QED BY <2>1, <2>2, <2>3 DEF GoodConn, PlannedFirst, ExpectedLatencyStart
<1>3. CASE ~cn.has_pending
  <2> DEFINE b == [cn EXCEPT !.start = now, !.pending = Pipeline,
                             !.actual_latency_start = now,
                             !.complete_at_last_batch_start = cn.complete,
                             !.has_pending = TRUE]
  <2>1. BeginBatch(cn) = b
    BY <1>3 DEF BeginBatch
  <2>2. b \in ConnType
    BY <1>1, Zenon DEF ConnType
  <2>3. /\ b.thread_start = cn.thread_start /\ b.written = cn.written /\ b.fd = cn.fd
        /\ b.actual_latency_start = now
        /\ b.complete_at_last_batch_start = cn.complete
    BY SMT DEF ConnType
  <2>4. ExpectedLatencyStart(b) = PlannedStart(cn)
    BY <2>3 DEF ExpectedLatencyStart, PlannedStart
  <2>5. PlannedFirst(b)
    BY <2>3, <2>4, SMT DEF PlannedFirst
  <2> QED BY <2>1, <2>2, <2>3, <2>5 DEF GoodConn, Dialled
<1> QED BY <1>2, <1>3

-----------------------------------------------------------------------------------
\* Updating one entry of a table; an index outside of it changes nothing.
LEMMA UpdateProps ==
    ASSUME NEW D, NEW S, NEW t \in [D -> S], NEW i, NEW x \in S
    PROVE  /\ [t EXCEPT ![i] = x] \in [D -> S]
           /\ \A j \in D : j # i => [t EXCEPT ![i] = x][j] = t[j]
           /\ i \in D => [t EXCEPT ![i] = x][i] = x
  BY Zenon

\* aeCreateFileEvent and aeDeleteFileEvent keep the table an event table, and only
\* creation adds to a mask.
LEMMA CreateFileEventProps ==
    ASSUME NEW evs \in [Fds -> EntryType], NEW f, NEW m \in Masks,
           NEW proc, NEW d \in Conns,
           AE_READABLE \in m => proc \in {"socket_connected", "socket_readable"},
           AE_WRITABLE \in m => proc \in {"socket_connected", "socket_writeable"}
    PROVE  /\ CreateFileEvent(evs, f, m, proc, d) \in [Fds -> EntryType]
           /\ \A g \in Fds : g # f => CreateFileEvent(evs, f, m, proc, d)[g] = evs[g]
           /\ f \in Fds => /\ CreateFileEvent(evs, f, m, proc, d)[f].data = d
                           /\ CreateFileEvent(evs, f, m, proc, d)[f].mask
                                = evs[f].mask \cup m
<1> DEFINE e == [mask  |-> evs[f].mask \cup m,
                 rproc |-> IF AE_READABLE \in m THEN proc ELSE evs[f].rproc,
                 wproc |-> IF AE_WRITABLE \in m THEN proc ELSE evs[f].wproc,
                 data  |-> d]
<1>1. CreateFileEvent(evs, f, m, proc, d) = [evs EXCEPT ![f] = e]
  BY DEF CreateFileEvent
<1>2. CASE f \in Fds
  <2>1. e \in EntryType
    BY <1>2, SMT DEF EntryType, Masks
  <2>2. e.data = d /\ e.mask = evs[f].mask \cup m
    OBVIOUS
  <2> HIDE DEF e
  <2> QED BY <1>1, <1>2, <2>1, <2>2, Zenon
<1>3. CASE f \notin Fds
  BY <1>1, <1>3, Zenon
<1> QED BY <1>2, <1>3

LEMMA CreateFileEventElsewhere ==
    ASSUME NEW evs \in [Fds -> EntryType], NEW f, NEW m, NEW proc, NEW d,
           NEW g \in Fds, g # f
    PROVE  CreateFileEvent(evs, f, m, proc, d)[g] = evs[g]
  BY Zenon DEF CreateFileEvent

LEMMA DeleteFileEventProps ==
    ASSUME NEW evs \in [Fds -> EntryType], NEW f, NEW m
    PROVE  /\ DeleteFileEvent(evs, f, m) \in [Fds -> EntryType]
           /\ \A g \in Fds : /\ DeleteFileEvent(evs, f, m)[g].data = evs[g].data
                             /\ DeleteFileEvent(evs, f, m)[g].mask \subseteq evs[g].mask
<1> DEFINE e == [evs[f] EXCEPT !.mask = @ \ m]
<1>1. DeleteFileEvent(evs, f, m) = [evs EXCEPT ![f] = e]
  BY DEF DeleteFileEvent
<1>2. CASE f \in Fds
  <2>1. e \in EntryType /\ e.data = evs[f].data /\ e.mask \subseteq evs[f].mask
    BY <1>2, SMT DEF EntryType, Masks
  <2> HIDE DEF e
  <2> QED BY <1>1, <1>2, <2>1, Zenon
<1>3. CASE f \notin Fds
  BY <1>1, <1>3, Zenon
<1> QED BY <1>2, <1>3

-----------------------------------------------------------------------------------
(* The handlers, from the inside out.                                               *)

\* A handler that replaces connection c by a good one whose plan has started.
LEMMA ConnUpdate ==
    ASSUME Ready, NEW c \in Conns, NEW cn \in ConnType, GoodConn(cn),
           Dialled(conn[c]) => Dialled(cn),
           conn' = [conn EXCEPT ![c] = cn]
    PROVE  /\ conn' \in [Conns -> ConnType]
           /\ \A d \in Conns : GoodConn(conn'[d])
           /\ \A d \in Conns : Dialled(conn[d]) => Dialled(conn'[d])
           /\ conn'[c] = cn
<1>1. conn \in [Conns -> ConnType] /\ \A d \in Conns : GoodConn(conn[d])
  BY DEF Ready
<1>2. conn' \in [Conns -> ConnType] /\ conn'[c] = cn
  BY <1>1, UpdateProps
<1>3. \A d \in Conns : d # c => conn'[d] = conn[d]
  BY <1>1, UpdateProps
<1> QED BY <1>1, <1>2, <1>3

\* A table whose registered entries belong to connections with a started plan.
EventsStarted(evs, cs) ==
    /\ evs \in [Fds -> EntryType]
    /\ \A f \in Fds : evs[f].mask # {} => Dialled(cs[evs[f].data])

LEMMA CreateStarted ==
    ASSUME NEW evs, NEW cs, EventsStarted(evs, cs), NEW c \in Conns,
           Dialled(cs[c]), NEW f, NEW m \in Masks, NEW proc,
           AE_READABLE \in m => proc \in {"socket_connected", "socket_readable"},
           AE_WRITABLE \in m => proc \in {"socket_connected", "socket_writeable"}
    PROVE  EventsStarted(CreateFileEvent(evs, f, m, proc, c), cs)
<1>1. evs \in [Fds -> EntryType]
  BY DEF EventsStarted
<1>2. ASSUME NEW g \in Fds, CreateFileEvent(evs, f, m, proc, c)[g].mask # {}
      PROVE  Dialled(cs[CreateFileEvent(evs, f, m, proc, c)[g].data])
  <2>1. CASE g = f
    <3>1. CreateFileEvent(evs, f, m, proc, c)[g].data = c
      BY <1>1, <2>1, CreateFileEventProps
    <3> QED BY <3>1
  <2>2. CASE g # f
    <3>1. CreateFileEvent(evs, f, m, proc, c)[g] = evs[g]
      BY <1>1, <2>2, CreateFileEventElsewhere
    <3> QED BY <1>2, <3>1 DEF EventsStarted
  <2> QED BY <2>1, <2>2
<1>3. CreateFileEvent(evs, f, m, proc, c) \in [Fds -> EntryType]
  BY <1>1, CreateFileEventProps
<1> QED BY <1>2, <1>3 DEF EventsStarted

LEMMA DeleteStarted ==
    ASSUME NEW evs, NEW cs, EventsStarted(evs, cs), NEW f, NEW m
    PROVE  EventsStarted(DeleteFileEvent(evs, f, m), cs)
<1>1. evs \in [Fds -> EntryType]
  BY DEF EventsStarted
<1>2. ASSUME NEW g \in Fds, DeleteFileEvent(evs, f, m)[g].mask # {}
      PROVE  Dialled(cs[DeleteFileEvent(evs, f, m)[g].data])
  <2>1. evs[g].mask # {}
    BY <1>1, <1>2, DeleteFileEventProps
  <2>2. DeleteFileEvent(evs, f, m)[g].data = evs[g].data
    BY <1>1, DeleteFileEventProps
  <2> QED BY <2>1, <2>2 DEF EventsStarted
<1> QED BY <1>1, <1>2, DeleteFileEventProps DEF EventsStarted

\* Starting the plans of more connections keeps the table started.
LEMMA StartedMonotonic ==
    ASSUME NEW evs, NEW cs, NEW ds, EventsStarted(evs, cs),
           \A d \in Conns : Dialled(cs[d]) => Dialled(ds[d])
    PROVE  EventsStarted(evs, ds)
<1>1. \A f \in Fds : evs[f].data \in Conns
  BY SMT DEF EventsStarted, EntryType
<1> QED BY <1>1 DEF EventsStarted

LEMMA ErrorsProps ==
    ASSUME NEW errs \in ErrorsType
    PROVE  /\ [errs EXCEPT !.connect = @ + 1] \in ErrorsType
           /\ [errs EXCEPT !.read = @ + 1] \in ErrorsType
           /\ [errs EXCEPT !.write = @ + 1] \in ErrorsType
           /\ [errs EXCEPT !.status = @ + 1] \in ErrorsType
  BY SMT DEF ErrorsType

LEMMA SocketInType ==
    ASSUME NEW st \in {"free", "connecting", "refused", "open"}
    PROVE  Socket(st) \in SocketType
  BY SMT DEF Socket, SocketType, Pieces

\* connect_socket keeps everything in order, whether the connection attempt starts
\* or fails at once.
LEMMA ConnectSocketProps ==
    ASSUME Ready, NEW c \in Conns, NEW cn \in ConnType, GoodConn(cn),
           cn.thread_start # 0, Dialled(conn[c]) => Dialled(cn),
           NEW evs, EventsStarted(evs, conn), NEW sks \in [Fds -> SocketType],
           NEW errs \in ErrorsType, NEW flts \in Nat,
           ConnectSocket(c, cn, evs, sks, errs, flts)
    PROVE  Handled
<1>1. CASE \E f \in {g \in Fds : sks[g].st = "free"} :
             /\ conn'   = [conn EXCEPT ![c] = [cn EXCEPT !.fd = f]]
             /\ sock'   = [sks EXCEPT ![f] = Socket("connecting")]
             /\ events' = CreateFileEvent(evs, f, RW, "socket_connected", c)
             /\ errors' = errs
             /\ faults' = flts
  <2>1. PICK f \in Fds :
             /\ conn'   = [conn EXCEPT ![c] = [cn EXCEPT !.fd = f]]
             /\ sock'   = [sks EXCEPT ![f] = Socket("connecting")]
             /\ events' = CreateFileEvent(evs, f, RW, "socket_connected", c)
             /\ errors' = errs
             /\ faults' = flts
    BY <1>1
  <2> DEFINE d == [cn EXCEPT !.fd = f]
  <2>2. d \in ConnType
    BY Zenon DEF ConnType
  <2>3. /\ d.thread_start = cn.thread_start /\ d.fd = f
        /\ d.actual_latency_start = cn.actual_latency_start
        /\ d.complete_at_last_batch_start = cn.complete_at_last_batch_start
    BY SMT DEF ConnType
  <2>4. GoodConn(d) /\ Dialled(d)
    BY <2>2, <2>3 DEF GoodConn, PlannedFirst, ExpectedLatencyStart, Dialled
  <2> HIDE DEF d
  <2>5. /\ conn' \in [Conns -> ConnType]
        /\ \A e \in Conns : GoodConn(conn'[e])
        /\ \A e \in Conns : Dialled(conn[e]) => Dialled(conn'[e])
        /\ conn'[c] = d
    BY <2>1, <2>2, <2>4, ConnUpdate DEF d
  <2>6. sock' \in [Fds -> SocketType]
    BY <2>1, UpdateProps, SocketInType
  <2>7. EventsStarted(evs, conn')
    BY <2>5, StartedMonotonic
  <2>8. EventsStarted(events', conn')
    BY <2>1, <2>4, <2>5, <2>7, CreateStarted DEF RW, Masks
  <2> QED BY <2>1, <2>5, <2>6, <2>8 DEF Handled, EventsStarted
<1>2. CASE /\ \/ "unreachable" \in FaultKinds /\ flts > 0 /\ faults' = flts - 1
              \/ (\A g \in Fds : sks[g].st # "free") /\ faults' = flts
           /\ conn'   = [conn EXCEPT ![c] = cn]
           /\ errors' = [errs EXCEPT !.connect = @ + 1]
           /\ sock' = sks /\ events' = evs
  <2>1. /\ conn' \in [Conns -> ConnType]
        /\ \A e \in Conns : GoodConn(conn'[e])
        /\ \A e \in Conns : Dialled(conn[e]) => Dialled(conn'[e])
    BY <1>2, ConnUpdate
  <2>2. EventsStarted(events', conn')
    BY <1>2, <2>1, StartedMonotonic
  <2>3. faults' \in Nat
    BY <1>2, SMT
  <2>4. errors' \in ErrorsType
    BY <1>2, ErrorsProps
  <2> QED BY <1>2, <2>1, <2>2, <2>3, <2>4 DEF Handled, EventsStarted
<1> QED BY <1>1, <1>2 DEF ConnectSocket, WithFd

LEMMA ReconnectSocketProps ==
    ASSUME Ready, NEW c \in Conns, NEW cn \in ConnType, GoodConn(cn),
           Dialled(cn), NEW errs \in ErrorsType, NEW flts \in Nat,
           ReconnectSocket(c, cn, errs, flts)
    PROVE  Handled
<1>1. EventsStarted(events, conn)
  BY DEF Ready, EventsStarted
<1>2. EventsStarted(DeleteFileEvent(events, cn.fd, RW), conn)
  BY <1>1, DeleteStarted
<1>3. [sock EXCEPT ![cn.fd] = Free] \in [Fds -> SocketType]
  BY UpdateProps, SocketInType DEF Ready, Free
<1> QED BY <1>2, <1>3, ConnectSocketProps DEF ReconnectSocket, Dialled

\* The parser moves between its phases.
LEMMA FeedInPhases ==
    ASSUME NEW phase \in Phases, NEW piece \in Pieces
    PROVE  Feed(phase, piece) \in Phases
<1>1. phase \in {"start", "body", "eof_body", "dead"}
  BY DEF Phases
<1>2. piece \in {"ok", "fail", "close", "part", "until_eof", "junk"}
  BY DEF Pieces, Endings
<1> QED BY <1>1, <1>2 DEF Feed, Phases

\* A connection with another parser phase, or another count of written units, is as
\* good as it was.
LEMMA ParserProps ==
    ASSUME NEW cn \in ConnType, GoodConn(cn), NEW phase \in Phases
    PROVE  /\ [cn EXCEPT !.parser = phase] \in ConnType
           /\ GoodConn([cn EXCEPT !.parser = phase])
           /\ Dialled(cn) => Dialled([cn EXCEPT !.parser = phase])
<1> DEFINE p == [cn EXCEPT !.parser = phase]
<1>1. p \in ConnType
  BY Zenon DEF ConnType
<1>2. /\ p.thread_start = cn.thread_start /\ p.fd = cn.fd
      /\ p.actual_latency_start = cn.actual_latency_start
      /\ p.complete_at_last_batch_start = cn.complete_at_last_batch_start
  BY SMT DEF ConnType
<1> QED BY <1>1, <1>2 DEF GoodConn, PlannedFirst, ExpectedLatencyStart, Dialled

LEMMA WrittenProps ==
    ASSUME NEW cn \in ConnType, GoodConn(cn), NEW n \in Nat
    PROVE  /\ [cn EXCEPT !.written = n] \in ConnType
           /\ GoodConn([cn EXCEPT !.written = n])
           /\ Dialled(cn) => Dialled([cn EXCEPT !.written = n])
<1> DEFINE p == [cn EXCEPT !.written = n]
<1>1. p \in ConnType
  BY Zenon DEF ConnType
<1>2. /\ p.thread_start = cn.thread_start /\ p.fd = cn.fd
      /\ p.actual_latency_start = cn.actual_latency_start
      /\ p.complete_at_last_batch_start = cn.complete_at_last_batch_start
  BY SMT DEF ConnType
<1> QED BY <1>1, <1>2 DEF GoodConn, PlannedFirst, ExpectedLatencyStart, Dialled

\* What is given and kept outside of the connections and the tables.
CountsReady ==
    /\ complete \in Nat
    /\ recorded \in [corrected : Int, uncorrected : Int]
    /\ recorded.corrected >= 0
    /\ handed \in [Conns -> Int]
    /\ stopping \in BOOLEAN

Counted ==
    /\ complete' \in Nat
    /\ recorded' \in [corrected : Int, uncorrected : Int]
    /\ recorded'.corrected >= 0
    /\ handed' \in [Conns -> Int]
    /\ stopping' \in BOOLEAN

LEMMA NothingRecordedProps ==
    ASSUME CountsReady, NothingRecorded
    PROVE  Counted
  BY DEF CountsReady, NothingRecorded, Counted

\* socket_connected.
LEMMA SocketConnectedProps ==
    ASSUME Ready, CountsReady, NEW f \in Fds, NEW c \in Conns,
           Dialled(conn[c]), SocketConnected(f, c)
    PROVE  Handled /\ Counted
<1>1. Counted
  BY NothingRecordedProps DEF SocketConnected
<1>2. conn[c] \in ConnType /\ GoodConn(conn[c])
  BY DEF Ready
<1>3. CASE /\ conn' = [conn EXCEPT ![c].parser = "start", ![c].written = 0]
           /\ events' = CreateFileEvent(
                          CreateFileEvent(events, f, {AE_READABLE}, "socket_readable", c),
                          f, {AE_WRITABLE}, "socket_writeable", c)
           /\ UNCHANGED <<sock, errors, faults>>
  <2> DEFINE d == [conn[c] EXCEPT !.parser = "start"]
             e == [d EXCEPT !.written = 0]
  <2>1. d \in ConnType /\ GoodConn(d) /\ Dialled(d)
    BY <1>2, ParserProps DEF Phases
  <2>2. e \in ConnType /\ GoodConn(e) /\ Dialled(e)
    <3> HIDE DEF d
    <3> QED BY <2>1, WrittenProps
  <2>3. conn' = [conn EXCEPT ![c] = e]
    BY <1>3, Zenon DEF Ready
  <2> HIDE DEF d, e
  <2>4. /\ conn' \in [Conns -> ConnType]
        /\ \A x \in Conns : GoodConn(conn'[x])
        /\ \A x \in Conns : Dialled(conn[x]) => Dialled(conn'[x])
    BY <2>1, <2>2, <2>3, ConnUpdate
  <2>5. EventsStarted(events, conn)
    BY DEF Ready, EventsStarted
  <2>6. EventsStarted(CreateFileEvent(events, f, {AE_READABLE}, "socket_readable", c), conn)
    BY <2>5, CreateStarted DEF Masks, AE_READABLE, AE_WRITABLE
  <2>7. EventsStarted(events', conn)
    BY <1>3, <2>6, CreateStarted DEF Masks, AE_READABLE, AE_WRITABLE
  <2>8. EventsStarted(events', conn')
    BY <2>4, <2>7, StartedMonotonic
  <2> QED BY <1>1, <1>3, <2>4, <2>8 DEF Handled, Ready, EventsStarted
<1>4. CASE /\ faults > 0
           /\ ReconnectSocket(c, conn[c], [errors EXCEPT !.connect = @ + 1], faults - 1)
  <2>1. faults - 1 \in Nat
    BY <1>4, SMT DEF Ready
  <2>2. [errors EXCEPT !.connect = @ + 1] \in ErrorsType
    BY ErrorsProps DEF Ready
  <2> QED BY <1>1, <1>2, <1>4, <2>1, <2>2, ReconnectSocketProps
<1> QED BY <1>3, <1>4 DEF SocketConnected

\* The wait of socket_writeable.
LEMMA WaitToSendProps ==
    ASSUME Ready, CountsReady, delays \in [Conns -> Seq(Nat)],
           NEW f \in Fds, NEW c \in Conns, Dialled(conn[c]), WaitToSend(f, c)
    PROVE  /\ Handled /\ Counted
           /\ delays' \in [Conns -> Seq(Nat)]
           /\ \A d \in Conns : d # c => delays'[d] = delays[d]
<1>1. Counted
  BY NothingRecordedProps DEF WaitToSend
<1>2. conn[c] \in ConnType /\ GoodConn(conn[c]) /\ now \in Nat
  BY DEF Ready
<1>3. /\ Paced(conn[c], now) \in ConnType /\ GoodConn(Paced(conn[c], now))
      /\ Dialled(Paced(conn[c], now))
  BY <1>2, PacedProps DEF Dialled
<1>4. /\ conn' \in [Conns -> ConnType]
      /\ \A x \in Conns : GoodConn(conn'[x])
      /\ \A x \in Conns : Dialled(conn[x]) => Dialled(conn'[x])
  BY <1>3, ConnUpdate DEF WaitToSend
<1>5. EventsStarted(events, conn)
  BY DEF Ready, EventsStarted
<1>6. EventsStarted(events', conn')
  BY <1>4, <1>5, DeleteStarted, StartedMonotonic DEF WaitToSend, WaitUnwritable
<1>7. /\ delays' \in [Conns -> Seq(Nat)]
      /\ \A d \in Conns : d # c => delays'[d] = delays[d]
  <2> DEFINE w == MsNow(now) + DelayMs(UsecToNextSend(conn[c], now))
             s == <<w>> \o delays[c]
  <2>1. w \in Nat
    BY <1>2, WaitNat
  <2> HIDE DEF w
  <2>2. s \in Seq(Nat)
    BY <2>1, SMT
  <2>3. delays' = [delays EXCEPT ![c] = s]
    BY DEF WaitToSend, DelayTimer, w
  <2> HIDE DEF s
  <2> QED BY <2>2, <2>3, UpdateProps
<1> QED BY <1>1, <1>4, <1>6, <1>7 DEF Handled, EventsStarted, WaitToSend, Ready

LEMMA DeliverType ==
    ASSUME NEW s \in SocketType, NEW n \in Nat
    PROVE  Deliver(s, n) \in SocketType
<1>1. CASE s.peer # "up"
  <2>1. [s EXCEPT !.peer = "rst"] \in SocketType
    BY Zenon DEF SocketType
  <2> QED BY <1>1, <2>1 DEF Deliver
<1>2. CASE s.peer = "up"
  <2> DEFINE all == s.got + n
             g == all % ReqLen
             o == s.owed + Pipeline * (all \div ReqLen)
  <2>1. s.got \in Nat /\ s.owed \in Int
    BY SMT DEF SocketType
  <2>2. all \in Nat
    BY <2>1, SMT
  <2>3. ReqLen \in Nat \ {0} /\ Pipeline \in Nat
    BY ThreadAssumption
  <2> HIDE DEF all
  <2>4. g \in Nat /\ all \div ReqLen \in Nat
    BY <2>2, <2>3, Quotient, SMT
  <2>5. o \in Int
    BY <2>1, <2>3, <2>4, SMT
  <2>6. Deliver(s, n) = [s EXCEPT !.got = g, !.owed = o]
    BY <1>2, Zenon DEF Deliver, all
  <2> HIDE DEF g, o
  <2>7. [s EXCEPT !.got = g, !.owed = o] \in SocketType
    BY <2>4, <2>5, Zenon DEF SocketType
  <2> QED BY <2>6, <2>7
<1> QED BY <1>1, <1>2

\* The sending half of socket_writeable.
LEMMA SendProps ==
    ASSUME Ready, CountsReady, NEW f \in Fds, NEW c \in Conns,
           Dialled(conn[c]), Send(f, c)
    PROVE  Handled /\ Counted /\ delays' = delays
<1> DEFINE first == conn[c].written = 0
           cn == IF first THEN BeginBatch(Paced(conn[c], now)) ELSE conn[c]
<1>1. conn[c] \in ConnType /\ GoodConn(conn[c]) /\ now \in Nat
  BY DEF Ready
<1>2. cn \in ConnType /\ GoodConn(cn) /\ Dialled(cn)
  <2>1. CASE first
    <3>1. PlannedStart(conn[c]) <= now
      BY <1>1, <2>1, SendIsDue DEF Send
    <3>2. /\ Paced(conn[c], now) \in ConnType /\ GoodConn(Paced(conn[c], now))
          /\ Dialled(Paced(conn[c], now))
          /\ PlannedStart(Paced(conn[c], now)) = PlannedStart(conn[c])
      BY <1>1, PacedProps DEF PlannedStart, Dialled
    <3>3. /\ GoodConn(BeginBatch(Paced(conn[c], now)))
          /\ Dialled(BeginBatch(Paced(conn[c], now)))
      BY <1>1, <3>1, <3>2, BeginBatchProps DEF Dialled
    <3> QED BY <2>1, <3>3 DEF GoodConn
  <2>2. CASE ~first
    BY <1>1, <2>2
  <2> QED BY <2>1, <2>2
<1>3. /\ handed' = IF first /\ Dynamic THEN [handed EXCEPT ![c] = @ + Pipeline] ELSE handed
      /\ UNCHANGED <<complete, recorded, stopping, delays>>
      /\ \/ ReconnectSocket(c, cn, [errors EXCEPT !.write = @ + 1], faults)
         \/ /\ Fault("again")
            /\ conn' = [conn EXCEPT ![c] = cn]
            /\ UNCHANGED <<sock, events, errors>>
         \/ /\ \E n \in 1 .. (ReqLen - cn.written) :
                 LET full == cn.written + n = ReqLen IN
                 /\ conn' = [conn EXCEPT
                               ![c] = [cn EXCEPT !.written = IF full THEN 0 ELSE @ + n]]
                 /\ sock' = [sock EXCEPT ![cn.fd] = Deliver(@, n)]
                 /\ events' = IF full THEN DeleteFileEvent(events, f, {AE_WRITABLE})
                              ELSE events
            /\ UNCHANGED <<errors, faults>>
  BY DEF Send, WrittenUnwritable
<1> HIDE DEF cn, first
<1>4. Counted
  <2>1. handed' \in [Conns -> Int]
    <3>1. Pipeline \in Int
      BY ThreadAssumption
    <3>2. handed[c] + Pipeline \in Int
      BY <3>1, SMT DEF CountsReady
    <3> QED BY <1>3, <3>2, UpdateProps DEF CountsReady
  <2> QED BY <1>3, <2>1 DEF CountsReady, Counted
<1>5. EventsStarted(events, conn)
  BY DEF Ready, EventsStarted
<1>6. CASE ReconnectSocket(c, cn, [errors EXCEPT !.write = @ + 1], faults)
  <2>1. [errors EXCEPT !.write = @ + 1] \in ErrorsType /\ faults \in Nat
    BY ErrorsProps DEF Ready
  <2> QED BY <1>2, <1>3, <1>4, <1>6, <2>1, ReconnectSocketProps
<1>7. CASE /\ Fault("again")
           /\ conn' = [conn EXCEPT ![c] = cn]
           /\ UNCHANGED <<sock, events, errors>>
  <2>1. faults' \in Nat
    BY <1>7, SMT DEF Fault, Ready
  <2>2. /\ conn' \in [Conns -> ConnType]
        /\ \A x \in Conns : GoodConn(conn'[x])
        /\ \A x \in Conns : Dialled(conn[x]) => Dialled(conn'[x])
    BY <1>2, <1>7, ConnUpdate
  <2>3. EventsStarted(events', conn')
    BY <1>5, <1>7, <2>2, StartedMonotonic
  <2> QED BY <1>3, <1>4, <1>7, <2>1, <2>2, <2>3 DEF Handled, EventsStarted, Ready
<1>8. CASE /\ \E n \in 1 .. (ReqLen - cn.written) :
                LET full == cn.written + n = ReqLen IN
                /\ conn' = [conn EXCEPT
                              ![c] = [cn EXCEPT !.written = IF full THEN 0 ELSE @ + n]]
                /\ sock' = [sock EXCEPT ![cn.fd] = Deliver(@, n)]
                /\ events' = IF full THEN DeleteFileEvent(events, f, {AE_WRITABLE})
                             ELSE events
           /\ UNCHANGED <<errors, faults>>
  <2>1. PICK n \in 1 .. (ReqLen - cn.written) :
                LET full == cn.written + n = ReqLen IN
                /\ conn' = [conn EXCEPT
                              ![c] = [cn EXCEPT !.written = IF full THEN 0 ELSE @ + n]]
                /\ sock' = [sock EXCEPT ![cn.fd] = Deliver(@, n)]
                /\ events' = IF full THEN DeleteFileEvent(events, f, {AE_WRITABLE})
                             ELSE events
    BY <1>8
  <2> DEFINE w == IF cn.written + n = ReqLen THEN 0 ELSE cn.written + n
             d == [cn EXCEPT !.written = w]
  <2>2. cn.written \in Nat /\ cn.fd \in Fds \cup {NoFd}
    BY <1>2, SMT DEF ConnType
  <2>3. n \in Nat /\ w \in Nat
    BY <2>2, ThreadAssumption, SMT
  <2>4. conn' = [conn EXCEPT ![c] = d]
    BY <2>1
  <2> HIDE DEF w
  <2>5. d \in ConnType /\ GoodConn(d) /\ Dialled(d)
    BY <1>2, <2>3, WrittenProps
  <2> HIDE DEF d
  <2>6. /\ conn' \in [Conns -> ConnType]
        /\ \A x \in Conns : GoodConn(conn'[x])
        /\ \A x \in Conns : Dialled(conn[x]) => Dialled(conn'[x])
    BY <2>4, <2>5, ConnUpdate
  <2>7. sock' \in [Fds -> SocketType]
    <3>1. sock \in [Fds -> SocketType]
      BY DEF Ready
    <3>2. CASE cn.fd \in Fds
      <4>1. Deliver(sock[cn.fd], n) \in SocketType
        BY <2>3, <3>1, <3>2, DeliverType
      <4> QED BY <2>1, <3>1, <3>2, <4>1, UpdateProps
    <3>3. CASE cn.fd \notin Fds
      BY <2>1, <3>1, <3>3, Zenon
    <3> QED BY <3>2, <3>3
  <2>8. EventsStarted(events', conn')
    <3>1. EventsStarted(events', conn)
      BY <1>5, <2>1, DeleteStarted
    <3> QED BY <2>6, <3>1, StartedMonotonic
  <2> QED BY <1>3, <1>4, <1>8, <2>6, <2>7, <2>8 DEF Handled, EventsStarted, Ready
<1> QED BY <1>3, <1>6, <1>7, <1>8

\* response_complete: the latency it records is the age of a planned start that is past.
LEMMA ResponseCompleteProps ==
    ASSUME Ready, CountsReady, NEW c \in Conns, NEW cn \in ConnType, GoodConn(cn),
           Dialled(cn), NEW keep \in BOOLEAN, NEW failed \in BOOLEAN,
           NEW sks \in [Fds -> SocketType],
           ResponseComplete(c, cn, keep, failed, sks)
    PROVE  Handled /\ Counted
<1> DEFINE errs == IF failed THEN [errors EXCEPT !.status = @ + 1] ELSE errors
           left == (cn.pending - 1) % CounterMod
           done == [cn EXCEPT !.complete = @ + 1, !.pending = left,
                              !.has_pending = IF left = 0 THEN FALSE ELSE @]
           kept == [done EXCEPT !.parser = "start"]
           evs  == IF left = 0
                   THEN CreateFileEvent(events, cn.fd, {AE_WRITABLE},
                                        "socket_writeable", c)
                   ELSE events
<1>1. /\ complete' = complete + 1
      /\ handed' = IF Dynamic THEN [handed EXCEPT ![c] = @ - 1] ELSE handed
      /\ \/ /\ now >= StopAt
            /\ stopping' = TRUE
            /\ conn' = [conn EXCEPT ![c] = cn] /\ sock' = sks /\ errors' = errs
            /\ UNCHANGED <<recorded, events, faults>>
         \/ /\ now < StopAt
            /\ recorded' = IF RecordAll \/ ~done.has_pending
                           THEN Latencies(cn) ELSE recorded
            /\ UNCHANGED stopping
            /\ IF keep
               THEN /\ conn' = [conn EXCEPT ![c] = kept]
                    /\ events' = evs
                    /\ sock' = sks /\ errors' = errs /\ UNCHANGED faults
               ELSE ReconnectSocket(c, done, errs, faults)
  BY DEF ResponseComplete, PendingLeft, ToRecord
<1>2. errs \in ErrorsType
  BY ErrorsProps DEF Ready
<1>3. left \in 0 .. (CounterMod - 1)
  <2>1. cn.pending - 1 \in Int
    BY SMT DEF ConnType
  <2>2. CounterMod \in Nat \ {0}
    BY ThreadAssumption, SMT
  <2> QED BY <2>1, <2>2, Quotient
<1> HIDE DEF left, errs
<1>4. done \in ConnType /\ GoodConn(done) /\ Dialled(done)
  <2> DEFINE h == IF left = 0 THEN FALSE ELSE cn.has_pending
  <2>1. cn.complete + 1 \in Nat /\ h \in BOOLEAN
    <3>1. cn.complete + 1 \in Nat /\ cn.has_pending \in BOOLEAN
      BY SMT DEF ConnType
    <3> QED BY <3>1, Zenon
  <2>2. done = [cn EXCEPT !.complete = cn.complete + 1, !.pending = left,
                          !.has_pending = h]
    OBVIOUS
  <2> HIDE DEF h
  <2>3. done \in ConnType
    BY <1>3, <2>1, <2>2, Zenon DEF ConnType
  <2>4. /\ done.thread_start = cn.thread_start /\ done.fd = cn.fd
        /\ done.actual_latency_start = cn.actual_latency_start
        /\ done.complete_at_last_batch_start = cn.complete_at_last_batch_start
    BY <2>2, SMT DEF ConnType
  <2> QED BY <2>3, <2>4 DEF GoodConn, PlannedFirst, ExpectedLatencyStart, Dialled
<1> HIDE DEF done
<1>5. kept \in ConnType /\ GoodConn(kept) /\ Dialled(kept)
  BY <1>4, ParserProps DEF Phases
<1>6. EventsStarted(events, conn) /\ conn[c] \in ConnType
  BY DEF Ready, EventsStarted
<1>7. /\ Latencies(cn) \in [corrected : Int, uncorrected : Int]
      /\ Latencies(cn).corrected >= 0
  <2>1. /\ now \in Nat
        /\ cn.actual_latency_start \in Nat
        /\ PlannedOffset(cn.complete_at_last_batch_start) \in Nat
        /\ cn.thread_start \in Nat
    BY PlannedOffsetNat, SMT DEF Ready, ConnType
  <2>2. ExpectedLatencyStart(cn) \in Nat /\ ExpectedLatencyStart(cn) <= now
    BY <2>1, SMT DEF ExpectedLatencyStart, GoodConn, PlannedFirst
  <2> QED BY <2>1, <2>2, SMT DEF Latencies
<1>8. Counted
  <2>1. complete' \in Nat
    BY <1>1, SMT DEF CountsReady
  <2>2. handed' \in [Conns -> Int]
    <3>1. handed[c] - 1 \in Int
      BY SMT DEF CountsReady
    <3> QED BY <1>1, <3>1, UpdateProps DEF CountsReady
  <2> QED BY <1>1, <1>7, <2>1, <2>2 DEF CountsReady, Counted
<1>9. CASE /\ conn' = [conn EXCEPT ![c] = cn] /\ sock' = sks /\ errors' = errs
           /\ UNCHANGED <<recorded, events, faults>>
  <2>1. /\ conn' \in [Conns -> ConnType]
        /\ \A x \in Conns : GoodConn(conn'[x])
        /\ \A x \in Conns : Dialled(conn[x]) => Dialled(conn'[x])
    BY <1>9, ConnUpdate
  <2>2. EventsStarted(events', conn')
    BY <1>6, <1>9, <2>1, StartedMonotonic
  <2> QED BY <1>2, <1>8, <1>9, <2>1, <2>2 DEF Handled, EventsStarted, Ready
<1>10. CASE keep /\ conn' = [conn EXCEPT ![c] = kept] /\ events' = evs
                 /\ sock' = sks /\ errors' = errs /\ UNCHANGED faults
  <2>1. /\ conn' \in [Conns -> ConnType]
        /\ \A x \in Conns : GoodConn(conn'[x])
        /\ \A x \in Conns : Dialled(conn[x]) => Dialled(conn'[x])
        /\ conn'[c] = kept
    <3> HIDE DEF kept
    <3> QED BY <1>5, <1>10, ConnUpdate
  <2>2. EventsStarted(events, conn')
    BY <1>6, <2>1, StartedMonotonic
  <2>3. EventsStarted(events', conn')
    <3>1. Dialled(conn'[c])
      BY <1>5, <2>1
    <3> QED BY <1>10, <2>2, <3>1, CreateStarted DEF Masks, AE_READABLE, AE_WRITABLE
  <2> QED BY <1>2, <1>8, <1>10, <2>1, <2>3 DEF Handled, EventsStarted, Ready
<1>11. CASE ReconnectSocket(c, done, errs, faults)
  BY <1>2, <1>4, <1>8, <1>11, ReconnectSocketProps DEF Ready
<1> QED BY <1>1, <1>9, <1>10, <1>11

LEMMA ReadErrorProps ==
    ASSUME Ready, CountsReady, NEW c \in Conns, Dialled(conn[c]),
           NEW phase \in Phases, ReadError(c, phase)
    PROVE  Handled /\ Counted
<1>1. Counted
  BY NothingRecordedProps DEF ReadError
<1>2. conn[c] \in ConnType /\ GoodConn(conn[c])
  BY DEF Ready
<1> DEFINE d == [conn[c] EXCEPT !.parser = phase]
<1>3. d \in ConnType /\ GoodConn(d) /\ Dialled(d)
  BY <1>2, ParserProps
<1>4. [errors EXCEPT !.read = @ + 1] \in ErrorsType /\ faults \in Nat
  BY ErrorsProps DEF Ready
<1>5. ReconnectSocket(c, d, [errors EXCEPT !.read = @ + 1], faults)
  BY DEF ReadError
<1> HIDE DEF d
<1> QED BY <1>1, <1>3, <1>4, <1>5, ReconnectSocketProps

\* Where the loop may stand after a step of socket_readable.
AfterRead(f, c, w) ==
    \/ EndOfRead(f, c, w)
    \/ turn' \in {InTurn("read", f, c, w), InTurn("tail", f, c, w)}

\* socket_readable, whatever it reads.
LEMMA SocketReadableProps ==
    ASSUME Ready, CountsReady, NEW f \in Fds, NEW c \in Conns, NEW w \in BOOLEAN,
           Dialled(conn[c]), SocketReadable(f, c, w)
    PROVE  Handled /\ Counted /\ AfterRead(f, c, w) /\ delays' = delays
<1>1. conn[c] \in ConnType /\ GoodConn(conn[c])
  BY DEF Ready
<1>2. conn[c].parser \in Phases /\ "dead" \in Phases
  BY <1>1, SMT DEF ConnType, Phases
<1>3. EventsStarted(events, conn) /\ sock \in [Fds -> SocketType]
  BY DEF Ready, EventsStarted
<1>4. delays' = delays
  BY DEF SocketReadable
<1>5. CASE ParsePiece(f, c, w)
  <2> DEFINE g     == conn[c].fd
             piece == Head(sock[g].inq)
             phase == Feed(conn[c].parser, piece)
             cn    == [conn[c] EXCEPT !.parser = phase]
             sks   == [sock EXCEPT ![g].inq = Tail(@)]
  <2>1. /\ sock[g].st = "open" /\ sock[g].inq # <<>>
        /\ \/ ReadError(c, "dead") /\ EndOfRead(f, c, w)
           \/ /\ ResponseComplete(c, cn, KeepAlive(cn.parser), piece = "fail", sks)
              /\ AfterRead(f, c, w)
           \/ /\ conn' = [conn EXCEPT ![c] = cn] /\ sock' = sks
              /\ NothingRecorded /\ UNCHANGED <<events, errors, faults>>
              /\ AfterRead(f, c, w)
    BY <1>5 DEF ParsePiece, AfterRead
  <2>2. g \in Fds
    BY DEF Dialled
  <2>3. sock[g] \in SocketType /\ sock[g].inq \in Seq(Pieces)
    BY <1>3, <2>2, SMT DEF SocketType
  <2>4. piece \in Pieces /\ Tail(sock[g].inq) \in Seq(Pieces)
    BY <2>1, <2>3
  <2>5. sks \in [Fds -> SocketType]
    <3> DEFINE s == [sock[g] EXCEPT !.inq = Tail(@)]
    <3>1. s \in SocketType
      BY <2>3, <2>4, Zenon DEF SocketType
    <3>2. sks = [sock EXCEPT ![g] = s]
      OBVIOUS
    <3> HIDE DEF s, sks, g
    <3> QED BY <1>3, <3>1, <3>2, UpdateProps
  <2>6. phase \in Phases
    BY <1>2, <2>4, FeedInPhases
  <2> HIDE DEF sks, piece, phase, g
  <2>7. cn \in ConnType /\ GoodConn(cn) /\ Dialled(cn)
    BY <1>1, <2>6, ParserProps
  <2> HIDE DEF cn
  <2>8. CASE ReadError(c, "dead") /\ EndOfRead(f, c, w)
    BY <1>2, <1>4, <2>8, ReadErrorProps DEF AfterRead
  <2>9. CASE /\ ResponseComplete(c, cn, KeepAlive(cn.parser), piece = "fail", sks)
             /\ AfterRead(f, c, w)
    <3>1. KeepAlive(cn.parser) \in BOOLEAN /\ (piece = "fail") \in BOOLEAN
      BY Zenon DEF KeepAlive
    <3> QED BY <1>4, <2>5, <2>7, <2>9, <3>1, ResponseCompleteProps
  <2>10. CASE /\ conn' = [conn EXCEPT ![c] = cn] /\ sock' = sks
              /\ NothingRecorded /\ UNCHANGED <<events, errors, faults>>
              /\ AfterRead(f, c, w)
    <3>1. /\ conn' \in [Conns -> ConnType]
          /\ \A x \in Conns : GoodConn(conn'[x])
          /\ \A x \in Conns : Dialled(conn[x]) => Dialled(conn'[x])
      BY <2>7, <2>10, ConnUpdate
    <3>2. EventsStarted(events', conn')
      BY <1>3, <2>10, <3>1, StartedMonotonic
    <3>3. Counted
      BY <2>10, NothingRecordedProps
    <3> QED BY <1>4, <2>5, <2>10, <3>1, <3>2, <3>3 DEF Handled, EventsStarted, Ready
  <2> QED BY <2>1, <2>8, <2>9, <2>10
<1>6. CASE ReadEof(f, c, w)
  <2>1. AfterRead(f, c, w)
    BY <1>6 DEF ReadEof, AfterRead
  <2>2. CASE ResponseComplete(c, conn[c], FALSE, FALSE, sock)
    BY <1>1, <1>3, <1>4, <2>1, <2>2, ResponseCompleteProps
  <2>3. CASE ReadError(c, "dead")
    BY <1>2, <1>4, <2>1, <2>3, ReadErrorProps
  <2>4. CASE NothingRecorded /\ UNCHANGED <<conn, sock, events, errors, faults>>
    <3>1. Counted
      BY <2>4, NothingRecordedProps
    <3>2. Handled
      BY <2>4 DEF Handled, Ready
    <3> QED BY <1>4, <2>1, <3>1, <3>2
  <2> QED BY <1>6, <2>2, <2>3, <2>4 DEF ReadEof
<1>7. CASE ReadFails(f, c, w)
  <2>1. ReadError(c, conn[c].parser) /\ AfterRead(f, c, w)
    BY <1>7 DEF ReadFails, AfterRead
  <2> QED BY <1>2, <1>4, <2>1, ReadErrorProps
<1> QED BY <1>5, <1>6, <1>7 DEF SocketReadable

-----------------------------------------------------------------------------------
(* The inductive invariant and its preservation, action by action.                  *)

IInv ==
    /\ TypeOK
    /\ now # 0
    /\ PlannedBeforeActual
    /\ DialledFirst
    /\ RecordedNonNegative

\* What the handlers need of it ...
LEMMA InvReady ==
    ASSUME IInv
    PROVE  /\ Ready /\ CountsReady
           /\ delays \in [Conns -> Seq(Nat)]
           /\ \A d \in Conns : delays[d] # <<>> => Dialled(conn[d])
<1>1. \A d \in Conns : GoodConn(conn[d])
  BY DEF IInv, TypeOK, PlannedBeforeActual, DialledFirst, GoodConn
<1> QED BY <1>1 DEF IInv, TypeOK, DialledFirst, Ready, CountsReady, RecordedNonNegative

\* ... and what they, and the loop around them, have to leave.
DelaysGood ==
    /\ delays' \in [Conns -> Seq(Nat)]
    /\ \A d \in Conns : delays'[d] # <<>> => Dialled(conn'[d])

TurnGood ==
    /\ turn' \in TurnType
    /\ turn'.step # "poll" => Dialled(conn'[turn'.c]) /\ turn'.fd \in Fds
    /\ turn'.step = "write" => AE_WRITABLE \in events'[turn'.fd].mask

RestGood == rest' \subseteq Fds

LEMMA FewerLeft ==
    ASSUME IInv, TimeEvent \/ \E f \in Fds : FileEvent(f)
    PROVE  RestGood
  BY DEF IInv, TypeOK, TimeEvent, FileEvent, RestGood

LEMMA HandledInv ==
    ASSUME IInv, LoopOnly, Handled, Counted, DelaysGood, TurnGood, RestGood
    PROVE  IInv'
<1>1. now' = now
  BY DEF LoopOnly
<1>2. TypeOK'
  BY DEF IInv, TypeOK, LoopOnly, Handled, Counted, DelaysGood, TurnGood, RestGood
<1>3. PlannedBeforeActual'
  BY <1>1 DEF PlannedBeforeActual, Handled, GoodConn, PlannedFirst, ExpectedLatencyStart
<1>4. DialledFirst'
  BY DEF DialledFirst, Handled, GoodConn, DelaysGood, TurnGood
<1>5. RecordedNonNegative'
  BY DEF RecordedNonNegative, Counted
<1> QED BY <1>1, <1>2, <1>3, <1>4, <1>5 DEF IInv

\* Timers that stay as they are belong to the connections they belonged to.
LEMMA SameDelays ==
    ASSUME IInv, Handled, delays' = delays
    PROVE  DelaysGood
  BY InvReady DEF DelaysGood, Handled

LEMMA TurnKinds ==
    ASSUME NEW f \in Fds, NEW c \in Conns, NEW w \in BOOLEAN
    PROVE  /\ Polling \in TurnType
           /\ \A s \in {"read", "tail", "write"} : InTurn(s, f, c, w) \in TurnType
<1>1. 0 \in Conns
  BY ThreadAssumption, SMT DEF Conns
<1> QED BY <1>1, SMT DEF Polling, InTurn, TurnType

LEMMA PollingGood ==
    ASSUME turn' = Polling
    PROVE  TurnGood
<1>1. 0 \in Conns
  BY ThreadAssumption, SMT DEF Conns
<1>2. Polling \in TurnType
  BY <1>1, SMT DEF Polling, TurnType
<1> QED BY <1>2 DEF TurnGood, Polling

LEMMA StillPolling ==
    ASSUME IInv, AtPoll, turn' = turn
    PROVE  TurnGood
  BY DEF IInv, TypeOK, AtPoll, TurnGood

LEMMA AfterReadGood ==
    ASSUME NEW f \in Fds, NEW c \in Conns, NEW w \in BOOLEAN,
           Dialled(conn'[c]), AfterRead(f, c, w)
    PROVE  TurnGood
<1>1. CASE turn' = Polling
  BY <1>1, PollingGood
<1>2. CASE turn' = InTurn("write", f, c, TRUE) /\ AE_WRITABLE \in events'[f].mask
  <2>1. InTurn("write", f, c, TRUE) \in TurnType
    BY TurnKinds
  <2> QED BY <1>2, <2>1 DEF TurnGood, InTurn
<1>3. CASE turn' \in {InTurn("read", f, c, w), InTurn("tail", f, c, w)}
  <2>1. turn' \in TurnType
    BY <1>3, TurnKinds
  <2> QED BY <1>3, <2>1 DEF TurnGood, InTurn
<1> QED BY <1>1, <1>2, <1>3 DEF AfterRead, EndOfRead, WritableStillDue

\* The connection of a registered event is one of the thread's, and dialled.
LEMMA EventOwner ==
    ASSUME IInv, NEW f \in Fds, events[f].mask # {}
    PROVE  events[f].data \in Conns /\ Dialled(conn[events[f].data])
<1>1. events[f] \in EntryType
  BY DEF IInv, TypeOK
<1> QED BY <1>1 DEF IInv, DialledFirst, EntryType

LEMMA FireReadableInv ==
    ASSUME IInv, NEW f \in Fds, FireReadable(f)
    PROVE  IInv'
<1> DEFINE c == events[f].data
<1>1. c \in Conns /\ Dialled(conn[c])
  BY EventOwner DEF FireReadable
<1> PICK w \in FiredWritable(events[f], sock[f]) :
         /\ LoopOnly /\ FileEvent(f)
         /\ \/ SocketConnected(f, c) /\ EndOfRead(f, c, w)
            \/ SocketReadable(f, c, w)
  BY DEF FireReadable
<1>2. w \in BOOLEAN
  BY DEF FiredWritable
<1>3. /\ LoopOnly /\ FileEvent(f)
      /\ \/ SocketConnected(f, c) /\ EndOfRead(f, c, w)
         \/ SocketReadable(f, c, w)
  OBVIOUS
<1> HIDE DEF c
<1>4. Handled /\ Counted /\ AfterRead(f, c, w) /\ delays' = delays
  <2>1. CASE SocketConnected(f, c) /\ EndOfRead(f, c, w)
    BY <1>1, <2>1, InvReady, SocketConnectedProps DEF AfterRead, SocketConnected
  <2>2. CASE SocketReadable(f, c, w)
    BY <1>1, <1>2, <2>2, InvReady, SocketReadableProps
  <2> QED BY <1>3, <2>1, <2>2
<1>5. Dialled(conn'[c])
  BY <1>1, <1>4 DEF Handled
<1> QED BY <1>1, <1>2, <1>3, <1>4, <1>5, SameDelays, AfterReadGood, FewerLeft, HandledInv

LEMMA ReadMoreInv ==
    ASSUME IInv, ReadMore
    PROVE  IInv'
<1>1. turn \in TurnType
  BY DEF IInv, TypeOK
<1>2. turn.fd \in Fds /\ Dialled(conn[turn.c])
  BY DEF IInv, DialledFirst, ReadMore
<1>3. turn.c \in Conns /\ turn.w \in BOOLEAN
  BY <1>1, SMT DEF TurnType
<1>4. Handled /\ Counted /\ AfterRead(turn.fd, turn.c, turn.w) /\ delays' = delays
  BY <1>2, <1>3, InvReady, SocketReadableProps DEF ReadMore
<1>5. Dialled(conn'[turn.c])
  BY <1>2, <1>3, <1>4 DEF Handled
<1>6. TurnGood
  BY <1>2, <1>3, <1>4, <1>5, AfterReadGood
<1> QED BY <1>2, <1>4, <1>6, SameDelays, FewerLeft, HandledInv DEF ReadMore

LEMMA ParseTailInv ==
    ASSUME IInv, ParseTail
    PROVE  IInv'
<1>1. turn \in TurnType
  BY DEF IInv, TypeOK
<1>2. turn.fd \in Fds /\ Dialled(conn[turn.c])
  BY DEF IInv, DialledFirst, ParseTail
<1>3. turn.c \in Conns /\ turn.w \in BOOLEAN
  BY <1>1, SMT DEF TurnType
<1>4. Handled /\ Counted
  <2>1. "dead" \in Phases
    BY DEF Phases
  <2> QED BY <1>2, <1>3, <2>1, InvReady, ReadErrorProps DEF ParseTail
<1>5. AfterRead(turn.fd, turn.c, turn.w) /\ delays' = delays
  BY DEF ParseTail, AfterRead
<1>6. Dialled(conn'[turn.c])
  BY <1>2, <1>3, <1>4 DEF Handled
<1>7. TurnGood
  BY <1>2, <1>3, <1>5, <1>6, AfterReadGood
<1> QED BY <1>2, <1>4, <1>5, <1>7, SameDelays, FewerLeft, HandledInv DEF ParseTail

\* The write procedure of a descriptor that is registered as writable.
LEMMA CallWriteProcInv ==
    ASSUME IInv, NEW f \in Fds, events[f].mask # {}, CallWriteProc(f)
    PROVE  IInv'
<1> DEFINE c == events[f].data
<1>1. c \in Conns /\ Dialled(conn[c])
  BY EventOwner
<1>2. /\ LoopOnly /\ turn' = Polling /\ FileEvent(f)
      /\ SocketConnected(f, c) \/ WaitToSend(f, c) \/ Send(f, c)
  BY DEF CallWriteProc, SocketWriteable
<1> HIDE DEF c
<1>3. TurnGood /\ RestGood
  BY <1>2, PollingGood, FewerLeft
<1>4. CASE SocketConnected(f, c)
  <2>1. delays' = delays
    BY <1>4 DEF SocketConnected
  <2> QED BY <1>1, <1>2, <1>3, <1>4, <2>1, InvReady, SocketConnectedProps, SameDelays,
             HandledInv
<1>5. CASE WaitToSend(f, c)
  <2>1. /\ Handled /\ Counted /\ delays' \in [Conns -> Seq(Nat)]
        /\ \A d \in Conns : d # c => delays'[d] = delays[d]
    BY <1>1, <1>5, InvReady, WaitToSendProps
  <2>2. DelaysGood
    BY <1>1, <2>1, InvReady DEF DelaysGood, Handled
  <2> QED BY <1>2, <1>3, <2>1, <2>2, HandledInv
<1>6. CASE Send(f, c)
  BY <1>1, <1>2, <1>3, <1>6, InvReady, SendProps, SameDelays, HandledInv
<1> QED BY <1>2, <1>4, <1>5, <1>6

LEMMA DelayedInitialConnectInv ==
    ASSUME IInv, NEW c \in Conns, DelayedInitialConnect(c)
    PROVE  IInv'
<1> DEFINE cn == [conn[c] EXCEPT !.thread_start = now]
<1>1. /\ conn[c] \in ConnType /\ conn[c].thread_start = 0
      /\ conn[c].complete_at_last_batch_start = 0 /\ conn[c].actual_latency_start = 0
      /\ now \in Nat /\ now # 0
  BY DEF IInv, TypeOK, DialledFirst, DelayedInitialConnect
<1>2. cn \in ConnType
  BY <1>1, Zenon DEF ConnType
<1>3. /\ cn.thread_start = now /\ cn.complete_at_last_batch_start = 0
      /\ cn.actual_latency_start = 0
  BY <1>1, SMT DEF ConnType
<1>4. ConnectSocket(c, cn, events, sock, errors, faults)
  BY DEF DelayedInitialConnect
<1> HIDE DEF cn
<1>5. GoodConn(cn)
  <2>1. ExpectedLatencyStart(cn) = now
    BY <1>1, <1>3, PlannedOffsetZero, SMT DEF ExpectedLatencyStart
  <2> QED BY <1>1, <1>2, <1>3, <2>1, SMT DEF GoodConn, PlannedFirst
<1>6. Ready /\ EventsStarted(events, conn) /\ ~Dialled(conn[c])
  BY <1>1, InvReady DEF Ready, EventsStarted, Dialled
<1>7. Handled
  <2>1. sock \in [Fds -> SocketType] /\ errors \in ErrorsType /\ faults \in Nat
    BY <1>6 DEF Ready
  <2> QED BY <1>1, <1>2, <1>3, <1>4, <1>5, <1>6, <2>1, ConnectSocketProps
<1>8. LoopOnly /\ Counted /\ delays' = delays /\ TurnGood /\ RestGood
  BY InvReady, NothingRecordedProps, StillPolling, FewerLeft DEF DelayedInitialConnect
<1> QED BY <1>7, <1>8, SameDelays, HandledInv

LEMMA DelayRequestInv ==
    ASSUME IInv, NEW c \in Conns, DelayRequest(c)
    PROVE  IInv'
<1>1. PICK i \in DOMAIN delays[c] :
        LET wait == UsecToNextSend(conn[c], now)
            f    == conn[c].fd IN
        /\ conn' = [conn EXCEPT ![c] = Paced(@, now)]
        /\ \/ delays' = TimerReturns(c, i, DelayMs(wait)) /\ UNCHANGED events
           \/ /\ delays' = TimerReturns(c, i, AE_NOMORE)
              /\ events' = IF sock[f].st # "free"
                           THEN CreateFileEvent(events, f, {AE_WRITABLE},
                                                "socket_writeable", c)
                           ELSE events
        /\ NothingRecorded /\ TimeEvent /\ LoopOnly
        /\ UNCHANGED <<sock, errors, faults, turn>>
        /\ AtPoll
  BY DEF DelayRequest
<1>2. Ready /\ CountsReady /\ delays \in [Conns -> Seq(Nat)]
  BY InvReady
<1>3. delays[c] \in Seq(Nat) /\ delays[c] # <<>> /\ i \in 1 .. Len(delays[c])
  BY <1>1, <1>2
<1>4. Dialled(conn[c]) /\ conn[c] \in ConnType /\ GoodConn(conn[c]) /\ now \in Nat
  BY <1>2, <1>3, InvReady DEF Ready
<1>5. /\ Paced(conn[c], now) \in ConnType /\ GoodConn(Paced(conn[c], now))
      /\ Dialled(Paced(conn[c], now))
  BY <1>4, PacedProps DEF Dialled
<1>6. /\ conn' \in [Conns -> ConnType]
      /\ \A x \in Conns : GoodConn(conn'[x])
      /\ \A x \in Conns : Dialled(conn[x]) => Dialled(conn'[x])
  BY <1>1, <1>2, <1>5, ConnUpdate
<1>7. EventsStarted(events, conn') /\ Dialled(conn'[c])
  <2>1. EventsStarted(events, conn)
    BY <1>2 DEF Ready, EventsStarted
  <2> QED BY <1>4, <1>6, <2>1, StartedMonotonic
<1>8. EventsStarted(events', conn')
  <2>1. CASE events' = events
    BY <1>7, <2>1
  <2>2. CASE events' = CreateFileEvent(events, conn[c].fd, {AE_WRITABLE},
                                       "socket_writeable", c)
    BY <1>7, <2>2, CreateStarted DEF Masks, AE_READABLE, AE_WRITABLE
  <2> QED BY <1>1, <2>1, <2>2
<1>9. Handled
  BY <1>1, <1>2, <1>6, <1>8 DEF Handled, EventsStarted, Ready
<1>10. DelaysGood
  <2>1. CASE delays' = [delays EXCEPT ![c][i] = MsNow(now)
                                      + DelayMs(UsecToNextSend(conn[c], now))]
    <3> DEFINE t == MsNow(now) + DelayMs(UsecToNextSend(conn[c], now))
               s == [delays[c] EXCEPT ![i] = t]
    <3>1. t \in Nat
      BY <1>4, WaitNat
    <3>2. delays' = [delays EXCEPT ![c] = s]
      BY <2>1
    <3> HIDE DEF t
    <3>3. s \in Seq(Nat)
      BY <1>3, <3>1
    <3> HIDE DEF s
    <3>4. delays' \in [Conns -> Seq(Nat)] /\ \A d \in Conns : d # c => delays'[d] = delays[d]
      BY <1>2, <3>2, <3>3, UpdateProps
    <3> QED BY <1>6, <1>7, <3>4, InvReady DEF DelaysGood
  <2>2. CASE delays' = [delays EXCEPT ![c] = RemoveAt(@, i)]
    <3> DEFINE s == RemoveAt(delays[c], i)
    <3>1. s \in Seq(Nat)
      <4>1. s = SubSeq(delays[c], 1, i - 1) \o SubSeq(delays[c], i + 1, Len(delays[c]))
        BY DEF RemoveAt
      <4>2. SubSeq(delays[c], 1, i - 1) \in Seq(Nat)
        BY <1>3
      <4>3. SubSeq(delays[c], i + 1, Len(delays[c])) \in Seq(Nat)
        BY <1>3
      <4> QED BY <4>1, <4>2, <4>3
    <3>2. delays' = [delays EXCEPT ![c] = s]
      BY <2>2
    <3> HIDE DEF s
    <3>3. delays' \in [Conns -> Seq(Nat)] /\ \A d \in Conns : d # c => delays'[d] = delays[d]
      BY <1>2, <3>1, <3>2, UpdateProps
    <3> QED BY <1>6, <1>7, <3>3, InvReady DEF DelaysGood
  <2> QED BY <1>1, <2>1, <2>2 DEF TimerReturns
<1>11. LoopOnly /\ Counted /\ TurnGood /\ RestGood
  BY <1>1, <1>2, NothingRecordedProps, StillPolling, FewerLeft
<1> QED BY <1>9, <1>10, <1>11, HandledInv

LEMMA CheckTimeoutsInv ==
    ASSUME IInv, CheckTimeouts
    PROVE  IInv'
<1> DEFINE k == Cardinality({c \in Conns : TimedOut(c)})
<1>1. k \in Nat
  <2>1. IsFiniteSet(Conns)
    BY FS_Interval, ThreadAssumption DEF Conns
  <2>2. IsFiniteSet({c \in Conns : TimedOut(c)})
    BY <2>1, FS_Subset
  <2> QED BY <2>2, FS_CardinalityType
<1>2. errors' = [errors EXCEPT !.timeout = @ + k]
  BY DEF CheckTimeouts
<1> HIDE DEF k
<1>3. errors' \in ErrorsType
  <2>1. errors \in ErrorsType
    BY DEF IInv, TypeOK
  <2> QED BY <1>1, <1>2, <2>1, SMT DEF ErrorsType
<1>4. checkDue' \in Nat
  <2>1. MsNow(now) \in Nat
    <3>1. now \in Nat
      BY DEF IInv, TypeOK
    <3> QED BY <3>1, Quotient, PacingAssumption, SMT DEF MsNow
  <2> QED BY <2>1, ThreadAssumption DEF CheckTimeouts
<1>5. stopping' \in BOOLEAN
  BY Zenon DEF CheckTimeouts, ShouldStop, IInv, TypeOK
<1>6. TypeOK'
  BY <1>3, <1>4, <1>5, FewerLeft DEF CheckTimeouts, RestGood, IInv, TypeOK
<1> QED BY <1>6 DEF CheckTimeouts, IInv, PlannedBeforeActual, PlannedFirst,
             ExpectedLatencyStart, DialledFirst, Dialled, RecordedNonNegative

\* The server and the kernel change sockets and use up faults, nothing else.
LEMMA ServerType ==
    ASSUME IInv, NEW f \in Fds, Server(f)
    PROVE  /\ sock' \in [Fds -> SocketType] /\ faults' \in Nat
           /\ UNCHANGED Environment
<1> DEFINE s == sock[f]
<1>1. sock \in [Fds -> SocketType] /\ s \in SocketType /\ faults \in Nat
  BY DEF IInv, TypeOK
<1>2. /\ s.st \in {"free", "connecting", "refused", "open"} /\ s.inq \in Seq(Pieces)
      /\ s.peer \in {"up", "fin", "rst"} /\ s.owed - 1 \in Int
  BY <1>1, SMT DEF SocketType
<1>3. \A piece \in Pieces : Append(s.inq, piece) \in Seq(Pieces)
  BY <1>2
<1>4. ASSUME NEW kind, Fault(kind)
      PROVE  faults' \in Nat
  BY <1>1, <1>4, SMT DEF Fault
<1>5. CASE Accept(f)
  <2>1. [s EXCEPT !.st = "open"] \in SocketType
    BY <1>1, Zenon DEF SocketType
  <2>2. sock' = [sock EXCEPT ![f] = [s EXCEPT !.st = "open"]]
    BY <1>5 DEF Accept
  <2>9. faults' \in Nat /\ UNCHANGED Environment
    BY <1>1, <1>4, <1>5 DEF Accept
  <2> HIDE DEF s
  <2> QED BY <1>1, <2>1, <2>2, <2>9, UpdateProps
<1>6. CASE Refuse(f)
  <2>1. [s EXCEPT !.st = "refused"] \in SocketType
    BY <1>1, Zenon DEF SocketType
  <2>2. sock' = [sock EXCEPT ![f] = [s EXCEPT !.st = "refused"]]
    BY <1>6 DEF Refuse
  <2>9. faults' \in Nat /\ UNCHANGED Environment
    BY <1>1, <1>4, <1>6 DEF Refuse
  <2> HIDE DEF s
  <2> QED BY <1>1, <2>1, <2>2, <2>9, UpdateProps
<1>7. CASE Answer(f)
  <2>1. PICK piece \in Answers \ {"part"} :
          sock' = [sock EXCEPT ![f].inq = Append(@, piece), ![f].owed = @ - 1,
                               ![f].mid = FALSE,
                               ![f].peer = IF piece \in {"close", "until_eof"}
                                           THEN "fin" ELSE "up"]
    BY <1>7 DEF Answer
  <2> DEFINE q == Append(s.inq, piece)
             o == s.owed - 1
             p == IF piece \in {"close", "until_eof"} THEN "fin" ELSE "up"
             t == [s EXCEPT !.inq = q, !.owed = o, !.mid = FALSE, !.peer = p]
  <2>2. q \in Seq(Pieces) /\ o \in Int /\ p \in {"up", "fin", "rst"}
    BY <1>2, <1>3, ThreadAssumption DEF Pieces
  <2>3. sock' = [sock EXCEPT ![f] = t]
    BY <1>1, <2>1, Zenon
  <2> HIDE DEF q, o, p
  <2>4. t \in SocketType
    BY <1>1, <2>2, Zenon DEF SocketType
  <2>9. faults' \in Nat /\ UNCHANGED Environment
    BY <1>1, <1>4, <1>7 DEF Answer
  <2> HIDE DEF t, s
  <2> QED BY <1>1, <2>3, <2>4, <2>9, UpdateProps
<1>8. CASE AnswerPart(f)
  <2> DEFINE q == Append(s.inq, "part")
             t == [s EXCEPT !.inq = q, !.mid = TRUE]
  <2>1. q \in Seq(Pieces)
    BY <1>3 DEF Pieces
  <2>2. sock' = [sock EXCEPT ![f] = t]
    BY <1>1, <1>8, Zenon DEF AnswerPart
  <2> HIDE DEF q
  <2>3. t \in SocketType
    BY <1>1, <2>1, Zenon DEF SocketType
  <2>9. faults' \in Nat /\ UNCHANGED Environment
    BY <1>1, <1>4, <1>8 DEF AnswerPart
  <2> HIDE DEF t, s
  <2> QED BY <1>1, <2>2, <2>3, <2>9, UpdateProps
<1>9. CASE AnswerEarly(f)
  <2> DEFINE q == Append(s.inq, "fail")
             o == s.owed - 1
             t == [s EXCEPT !.inq = q, !.owed = o]
  <2>1. q \in Seq(Pieces) /\ o \in Int
    BY <1>2, <1>3 DEF Pieces, Endings
  <2>2. sock' = [sock EXCEPT ![f] = t]
    BY <1>1, <1>9, Zenon DEF AnswerEarly
  <2> HIDE DEF q, o
  <2>3. t \in SocketType
    BY <1>1, <2>1, Zenon DEF SocketType
  <2>9. faults' \in Nat /\ UNCHANGED Environment
    BY <1>1, <1>4, <1>9 DEF AnswerEarly
  <2> HIDE DEF t, s
  <2> QED BY <1>1, <2>2, <2>3, <2>9, UpdateProps
<1>10. CASE AnswerUnsolicited(f) \/ SendJunk(f)
  <2>1. PICK piece \in {"fail", "junk"} : sock' = [sock EXCEPT ![f].inq = Append(@, piece)]
    BY <1>10 DEF AnswerUnsolicited, SendJunk
  <2> DEFINE q == Append(s.inq, piece)
             t == [s EXCEPT !.inq = q]
  <2>2. q \in Seq(Pieces)
    BY <1>3, <2>1 DEF Pieces, Endings
  <2>3. sock' = [sock EXCEPT ![f] = t]
    BY <1>1, <2>1, Zenon
  <2> HIDE DEF q
  <2>4. t \in SocketType
    BY <1>1, <2>2, Zenon DEF SocketType
  <2>5. faults' \in Nat /\ UNCHANGED Environment
    BY <1>4, <1>10 DEF AnswerUnsolicited, SendJunk
  <2> HIDE DEF t, s
  <2> QED BY <1>1, <2>3, <2>4, <2>5, UpdateProps
<1>11. CASE PeerCloses(f) \/ PeerResets(f)
  <2>1. PICK peer \in {"fin", "rst"} : sock' = [sock EXCEPT ![f].peer = peer]
    BY <1>11 DEF PeerCloses, PeerResets
  <2> DEFINE t == [s EXCEPT !.peer = peer]
  <2>2. sock' = [sock EXCEPT ![f] = t]
    BY <1>1, <2>1, Zenon
  <2>3. t \in SocketType
    BY <1>1, <2>1, Zenon DEF SocketType
  <2>4. faults' \in Nat /\ UNCHANGED Environment
    BY <1>4, <1>11 DEF PeerCloses, PeerResets
  <2> HIDE DEF t, s
  <2> QED BY <1>1, <2>2, <2>3, <2>4, UpdateProps
<1> QED BY <1>5, <1>6, <1>7, <1>8, <1>9, <1>10, <1>11 DEF Server

LEMMA ServerInv ==
    ASSUME IInv, NEW f \in Fds, Server(f)
    PROVE  IInv'
<1>1. /\ sock' \in [Fds -> SocketType] /\ faults' \in Nat
      /\ UNCHANGED Environment
  BY ServerType
<1> QED BY <1>1 DEF Environment, loopVars, threadVars, IInv, TypeOK, PlannedBeforeActual,
             PlannedFirst, ExpectedLatencyStart, DialledFirst, Dialled, RecordedNonNegative

LEMMA StutterInv ==
    ASSUME IInv, UNCHANGED vars
    PROVE  IInv'
  BY DEF vars, loopVars, threadVars, IInv, TypeOK, PlannedBeforeActual,
         PlannedFirst, ExpectedLatencyStart, DialledFirst, Dialled, RecordedNonNegative

LEMMA AeMainReturnsInv ==
    ASSUME IInv, AeMainReturns
    PROVE  IInv'
  BY DEF AeMainReturns, threadVars, IInv, TypeOK, PlannedBeforeActual,
         PlannedFirst, ExpectedLatencyStart, DialledFirst, Dialled, RecordedNonNegative

LEMMA HandlerInv ==
    ASSUME IInv, Handler
    PROVE  IInv'
  BY DEF Handler, loopVars, threadVars, IInv, TypeOK, PlannedBeforeActual,
         PlannedFirst, ExpectedLatencyStart, DialledFirst, Dialled, RecordedNonNegative

\* Time only goes forward, so what was planned or begun in the past stays there.
LEMMA TickInv ==
    ASSUME IInv, Tick
    PROVE  IInv'
<1>1. now \in Nat /\ now' = now + 1 /\ now' \in Nat /\ now' # 0
  BY SMT DEF IInv, TypeOK, Tick
<1>2. UNCHANGED <<sock, events, delays, checkDue, stopping, running, turn, rest, conn,
                  complete, errors, recorded, handed, interrupted, faults>>
  BY DEF Tick, loopVars, threadVars
<1>3. TypeOK'
  BY <1>1, <1>2 DEF IInv, TypeOK
<1>4. PlannedBeforeActual'
  <2> SUFFICES ASSUME NEW c \in Conns
               PROVE  PlannedFirst(conn[c])'
    BY DEF PlannedBeforeActual
  <2>1. conn[c] \in ConnType /\ PlannedFirst(conn[c])
    BY DEF IInv, TypeOK, PlannedBeforeActual
  <2>2. /\ ExpectedLatencyStart(conn[c]) \in Nat
        /\ conn[c].actual_latency_start \in Nat
    <3>1. /\ conn[c].actual_latency_start \in Nat /\ conn[c].thread_start \in Nat
          /\ conn[c].complete_at_last_batch_start \in Nat
      BY <2>1, SMT DEF ConnType
    <3> QED BY <3>1, PlannedOffsetNat, SMT DEF ExpectedLatencyStart
  <2>3. conn[c]' = conn[c] /\ ExpectedLatencyStart(conn[c])' = ExpectedLatencyStart(conn[c])
    BY <1>2 DEF ExpectedLatencyStart
  <2> QED BY <1>1, <2>1, <2>2, <2>3, SMT DEF PlannedFirst
<1>5. DialledFirst' /\ RecordedNonNegative'
  BY <1>2 DEF IInv, DialledFirst, Dialled, RecordedNonNegative
<1> QED BY <1>1, <1>3, <1>4, <1>5 DEF IInv

LEMMA InitInv == Init => IInv
<1> SUFFICES ASSUME Init PROVE IInv
  OBVIOUS
<1>1. now \in Nat /\ now # 0 /\ 0 \in Conns
  BY ThreadAssumption, SMT DEF Init, Conns
<1>2. NewConnection \in ConnType
  BY ThreadAssumption, SMT DEF NewConnection, ConnType, Phases
<1>3. TypeOK
  <2>1. sock \in [Fds -> SocketType]
    BY SocketInType DEF Init, Free
  <2>2. events \in [Fds -> EntryType]
    <3>1. EmptyEntry("socket_connected", 0) \in EntryType
      BY <1>1, SMT DEF EmptyEntry, EntryType, Masks
    <3> QED BY <3>1 DEF Init
  <2>3. checkDue \in Nat
    <3>1. MsNow(Epoch) \in Nat /\ NConns * Stagger \in Nat /\ TimeoutCheckMs \in Nat
      <4>1. Epoch \in Nat /\ NConns \in Nat /\ Stagger \in Nat
        BY ThreadAssumption
      <4>2. MsNow(Epoch) \in Nat
        BY <4>1, Quotient, PacingAssumption DEF MsNow
      <4>3. NConns * Stagger \in Nat
        BY <4>1, SMT
      <4> QED BY <4>2, <4>3, ThreadAssumption
    <3> QED BY <3>1, SMT DEF Init
  <2>4. turn \in TurnType
    BY <1>1, SMT DEF Init, Polling, TurnType
  <2>5. errors \in ErrorsType /\ recorded \in [corrected : Int, uncorrected : Int]
    BY SMT DEF Init, ErrorsType
  <2>6. delays \in [Conns -> Seq(Nat)] /\ handed \in [Conns -> Int]
    BY DEF Init
  <2> QED BY <1>1, <1>2, <2>1, <2>2, <2>3, <2>4, <2>5, <2>6, ThreadAssumption
             DEF Init, TypeOK
<1>4. PlannedBeforeActual
  <2>1. ExpectedLatencyStart(NewConnection) = 0
    BY PlannedOffsetZero, SMT DEF ExpectedLatencyStart, NewConnection
  <2>2. PlannedFirst(NewConnection)
    BY <1>1, <2>1, SMT DEF PlannedFirst, NewConnection
  <2> QED BY <2>2 DEF Init, PlannedBeforeActual
<1>5. DialledFirst
  BY DEF Init, DialledFirst, EmptyEntry, NewConnection, Polling
<1>6. RecordedNonNegative
  BY DEF Init, RecordedNonNegative
<1> QED BY <1>1, <1>3, <1>4, <1>5, <1>6 DEF IInv

LEMMA NextInv == IInv /\ [Next]_vars => IInv'
<1> SUFFICES ASSUME IInv, [Next]_vars PROVE IInv'
  OBVIOUS
<1>1. CASE Loop
  <2>1. ASSUME NEW f \in Fds, FireReadable(f) PROVE IInv'
    BY <2>1, FireReadableInv
  <2>2. ASSUME NEW f \in Fds, FireWriteable(f) PROVE IInv'
    BY <2>2, CallWriteProcInv DEF FireWriteable
  <2>3. CASE FinishWriteable
    <3>1. turn.fd \in Fds /\ AE_WRITABLE \in events[turn.fd].mask
      BY <2>3 DEF IInv, DialledFirst, FinishWriteable
    <3> QED BY <2>3, <3>1, CallWriteProcInv DEF FinishWriteable
  <2> QED BY <1>1, <2>1, <2>2, <2>3, ReadMoreInv, ParseTailInv, DelayedInitialConnectInv,
             DelayRequestInv, CheckTimeoutsInv, AeMainReturnsInv DEF Loop
<1>2. CASE Tick
  BY <1>2, TickInv
<1>3. CASE Handler
  BY <1>3, HandlerInv
<1>4. CASE Terminated \/ UNCHANGED vars
  BY <1>4, StutterInv DEF Terminated
<1>5. ASSUME NEW f \in Fds, Server(f) PROVE IInv'
  BY <1>5, ServerInv
<1> QED BY <1>1, <1>2, <1>3, <1>4, <1>5 DEF Next

-----------------------------------------------------------------------------------
\* Every variable keeps its type, whatever the server and the network do: c->pending
\* stays in its width, and every event and every turn of the loop belongs to a
\* connection of the thread.
THEOREM TypeCorrect == Spec => []TypeOK
<1>1. IInv => TypeOK
  BY DEF IInv
<1> QED BY InitInv, NextInv, <1>1, PTL DEF Spec

\* The batch a connection measures from was planned before it was begun, through
\* every delay, catch-up period, retry, error and reconnection.
THEOREM PlanPrecedesSend == Spec => []PlannedBeforeActual
<1>1. IInv => PlannedBeforeActual
  BY DEF IInv
<1> QED BY InitInv, NextInv, <1>1, PTL DEF Spec

\* No handler runs for a connection that delayed_initial_connect has not dialled.
THEOREM NothingBeforeDial == Spec => []DialledFirst
<1>1. IInv => DialledFirst
  BY DEF IInv
<1> QED BY InitInv, NextInv, <1>1, PTL DEF Spec

\* response_complete never hands a negative latency to hdr_record_value: the crash
\* its comment says "wil never ever ever happen" does not happen, even for a response
\* no request was sent for.
THEOREM LatencyNeverNegative == Spec => []RecordedNonNegative
<1>1. IInv => RecordedNonNegative
  BY DEF IInv
<1> QED BY InitInv, NextInv, <1>1, PTL DEF Spec

-----------------------------------------------------------------------------------
(* Who owns a descriptor.                                                           *)

\* A registered descriptor is open and belongs to the connection its handlers get.
\* It may be the c->fd of another connection too, one whose connect failed and left
\* the number of its closed socket in place.
Owned(cs, evs, sks) ==
    \A f \in Fds : evs[f].mask # {} => cs[evs[f].data].fd = f /\ sks[f].st # "free"

Tables ==
    /\ conn \in [Conns -> ConnType]
    /\ events \in [Fds -> EntryType]
    /\ sock \in [Fds -> SocketType]
    /\ Owned(conn, events, sock)

\* cs and ds give every connection the same descriptor.
SameFds(cs, ds) == \A d \in Conns : ds[d].fd = cs[d].fd

\* What is open in sks is open in tks.
StillOpen(sks, tks) == \A f \in Fds : sks[f].st # "free" => tks[f].st # "free"

-----------------------------------------------------------------------------------
LEMMA OwnedKept ==
    ASSUME NEW evs \in [Fds -> EntryType], NEW cs, NEW ds, NEW sks, NEW tks,
           Owned(cs, evs, sks), SameFds(cs, ds), StillOpen(sks, tks)
    PROVE  Owned(ds, evs, tks)
<1>1. \A f \in Fds : evs[f].data \in Conns
  BY SMT DEF EntryType
<1> QED BY <1>1 DEF Owned, SameFds, StillOpen

LEMMA OwnedCreate ==
    ASSUME NEW evs \in [Fds -> EntryType], NEW cs, NEW sks, Owned(cs, evs, sks),
           NEW f \in Fds, NEW c \in Conns, cs[c].fd = f, sks[f].st # "free",
           NEW m \in Masks, NEW proc,
           AE_READABLE \in m => proc \in {"socket_connected", "socket_readable"},
           AE_WRITABLE \in m => proc \in {"socket_connected", "socket_writeable"}
    PROVE  /\ Owned(cs, CreateFileEvent(evs, f, m, proc, c), sks)
           /\ CreateFileEvent(evs, f, m, proc, c) \in [Fds -> EntryType]
<1> DEFINE e == CreateFileEvent(evs, f, m, proc, c)
<1>1. e \in [Fds -> EntryType] /\ e[f].data = c
  BY CreateFileEventProps
<1>2. \A g \in Fds : g # f => e[g] = evs[g]
  BY CreateFileEventProps
<1> HIDE DEF e
<1>3. Owned(cs, e, sks)
  BY <1>1, <1>2 DEF Owned
<1> QED BY <1>1, <1>3 DEF e

LEMMA OwnedDelete ==
    ASSUME NEW evs \in [Fds -> EntryType], NEW cs, NEW sks, Owned(cs, evs, sks),
           NEW f, NEW m
    PROVE  /\ Owned(cs, DeleteFileEvent(evs, f, m), sks)
           /\ DeleteFileEvent(evs, f, m) \in [Fds -> EntryType]
<1> DEFINE e == DeleteFileEvent(evs, f, m)
<1>1. e \in [Fds -> EntryType]
  BY DeleteFileEventProps
<1>2. \A g \in Fds : e[g].data = evs[g].data /\ (e[g].mask # {} => evs[g].mask # {})
  BY DeleteFileEventProps
<1> HIDE DEF e
<1>3. Owned(cs, e, sks)
  BY <1>1, <1>2 DEF Owned
<1> QED BY <1>1, <1>3 DEF e

\* Deleting both conditions of a descriptor leaves nothing registered for it.
LEMMA DeletedAll ==
    ASSUME NEW evs \in [Fds -> EntryType], NEW f \in Fds
    PROVE  DeleteFileEvent(evs, f, RW)[f].mask = {}
<1>1. evs[f].mask \subseteq RW
  BY SMT DEF EntryType, Masks, RW
<1>2. DeleteFileEvent(evs, f, RW)[f].mask = evs[f].mask \ RW
  BY Zenon DEF DeleteFileEvent, EntryType
<1> QED BY <1>1, <1>2

\* A handler that leaves the descriptors of all connections alone and closes nothing.
LEMMA SameOwners ==
    ASSUME Tables, NEW c \in Conns, NEW cn, cn.fd = conn[c].fd,
           conn' = [conn EXCEPT ![c] = cn]
    PROVE  SameFds(conn, conn')
<1>1. conn'[c] = cn /\ \A d \in Conns : d # c => conn'[d] = conn[d]
  BY Zenon DEF Tables
<1> QED BY <1>1 DEF SameFds

\* connect_socket takes a closed descriptor for a connection nothing is registered for.
LEMMA ConnectOwned ==
    ASSUME conn \in [Conns -> ConnType], NEW c \in Conns, NEW cn \in ConnType,
           NEW evs \in [Fds -> EntryType], NEW sks \in [Fds -> SocketType],
           Owned(conn, evs, sks), \A f \in Fds : evs[f].mask # {} => evs[f].data # c,
           NEW errs, NEW flts, ConnectSocket(c, cn, evs, sks, errs, flts)
    PROVE  Owned(conn', events', sock')
<1>1. \A f \in Fds : evs[f].data \in Conns
  BY SMT DEF EntryType
<1>2. ASSUME NEW f \in Fds,
             conn' = [conn EXCEPT ![c] = WithFd(cn, f)],
             sock' = [sks EXCEPT ![f] = Socket("connecting")],
             events' = CreateFileEvent(evs, f, RW, "socket_connected", c)
      PROVE  Owned(conn', events', sock')
  <2>1. conn'[c].fd = f /\ \A d \in Conns : d # c => conn'[d] = conn[d]
    <3>1. conn'[c] = WithFd(cn, f) /\ \A d \in Conns : d # c => conn'[d] = conn[d]
      BY <1>2, Zenon
    <3>2. WithFd(cn, f).fd = f
      BY SMT DEF WithFd, ConnType
    <3> QED BY <3>1, <3>2
  <2>2. sock'[f].st = "connecting" /\ \A g \in Fds : g # f => sock'[g] = sks[g]
    <3>1. sock'[f] = Socket("connecting") /\ \A g \in Fds : g # f => sock'[g] = sks[g]
      BY <1>2, Zenon
    <3> QED BY <3>1 DEF Socket
  <2>3. events'[f].data = c /\ \A g \in Fds : g # f => events'[g] = evs[g]
    <3> DEFINE e == CreateFileEvent(evs, f, RW, "socket_connected", c)
    <3>1. RW \in Masks
      BY DEF RW, Masks
    <3>2. e[f].data = c /\ \A g \in Fds : g # f => e[g] = evs[g]
      BY <3>1, CreateFileEventProps
    <3>3. events' = e
      BY <1>2
    <3> HIDE DEF e
    <3> QED BY <3>2, <3>3
  <2> QED BY <1>1, <2>1, <2>2, <2>3 DEF Owned
<1>3. ASSUME conn' = [conn EXCEPT ![c] = cn], sock' = sks, events' = evs
      PROVE  Owned(conn', events', sock')
  <2>1. \A d \in Conns : d # c => conn'[d] = conn[d]
    BY <1>3, Zenon
  <2> QED BY <1>1, <1>3, <2>1 DEF Owned
<1>4. \/ \E f \in Fds : /\ conn' = [conn EXCEPT ![c] = WithFd(cn, f)]
                         /\ sock' = [sks EXCEPT ![f] = Socket("connecting")]
                         /\ events' = CreateFileEvent(evs, f, RW, "socket_connected", c)
      \/ conn' = [conn EXCEPT ![c] = cn] /\ sock' = sks /\ events' = evs
  BY Zenon DEF ConnectSocket
<1> QED BY <1>2, <1>3, <1>4, Zenon

\* reconnect_socket: all that is registered for the connection is registered for the
\* descriptor it closes, and is deleted first.
LEMMA ReconnectOwned ==
    ASSUME Tables, NEW c \in Conns, NEW cn \in ConnType, cn.fd = conn[c].fd,
           cn.fd \in Fds, NEW errs, NEW flts, ReconnectSocket(c, cn, errs, flts)
    PROVE  Owned(conn', events', sock')
<1> DEFINE evs == DeleteFileEvent(events, cn.fd, RW)
           sks == [sock EXCEPT ![cn.fd] = Free]
<1>1. evs \in [Fds -> EntryType] /\ Owned(conn, evs, sock)
  BY OwnedDelete DEF Tables
<1>2. evs[cn.fd].mask = {}
  BY DeletedAll DEF Tables
<1>3. sks \in [Fds -> SocketType] /\ \A g \in Fds : g # cn.fd => sks[g] = sock[g]
  BY UpdateProps, SocketInType DEF Tables, Free
<1>4. ConnectSocket(c, cn, evs, sks, errs, flts)
  BY DEF ReconnectSocket
<1> HIDE DEF evs, sks
<1>5. \A f \in Fds : evs[f].mask # {} => f # cn.fd /\ evs[f].data # c
  BY <1>1, <1>2 DEF Owned
<1>6. Owned(conn, evs, sks)
  BY <1>1, <1>3, <1>5 DEF Owned
<1> QED BY <1>1, <1>3, <1>4, <1>5, <1>6, ConnectOwned DEF Tables

-----------------------------------------------------------------------------------
(* The handlers.                                                                    *)

LEMMA SocketConnectedOwned ==
    ASSUME Tables, NEW f \in Fds, NEW c \in Conns, conn[c].fd = f, sock[f].st # "free",
           SocketConnected(f, c)
    PROVE  Owned(conn', events', sock')
<1>1. CASE /\ conn' = [conn EXCEPT ![c].parser = "start", ![c].written = 0]
           /\ events' = CreateFileEvent(
                          CreateFileEvent(events, f, {AE_READABLE}, "socket_readable", c),
                          f, {AE_WRITABLE}, "socket_writeable", c)
           /\ UNCHANGED <<sock, errors, faults>>
  <2> DEFINE cn == [conn[c] EXCEPT !.parser = "start", !.written = 0]
             evs == CreateFileEvent(events, f, {AE_READABLE}, "socket_readable", c)
  <2>1. conn' = [conn EXCEPT ![c] = cn] /\ cn.fd = conn[c].fd
    <3>1. conn[c] \in ConnType
      BY DEF Tables
    <3>2. cn.fd = conn[c].fd
      BY <3>1, SMT DEF ConnType
    <3> QED BY <1>1, <3>2, Zenon DEF Tables
  <2>2. SameFds(conn, conn')
    BY <2>1, SameOwners
  <2>3. evs \in [Fds -> EntryType] /\ Owned(conn, evs, sock)
    BY OwnedCreate DEF Tables, Masks, AE_READABLE, AE_WRITABLE
  <2> HIDE DEF evs
  <2>4. /\ CreateFileEvent(evs, f, {AE_WRITABLE}, "socket_writeable", c)
             \in [Fds -> EntryType]
        /\ Owned(conn, CreateFileEvent(evs, f, {AE_WRITABLE}, "socket_writeable", c), sock)
    BY <2>3, OwnedCreate DEF Masks, AE_READABLE, AE_WRITABLE
  <2>5. sock' = sock /\ events' = CreateFileEvent(evs, f, {AE_WRITABLE}, "socket_writeable", c)
    BY <1>1 DEF evs
  <2>6. StillOpen(sock, sock')
    BY <2>5 DEF StillOpen
  <2> QED BY <2>2, <2>4, <2>5, <2>6, OwnedKept
<1>2. CASE ReconnectSocket(c, conn[c], [errors EXCEPT !.connect = @ + 1], faults - 1)
  BY <1>2, ReconnectOwned DEF Tables
<1> QED BY <1>1, <1>2 DEF SocketConnected

LEMMA WaitToSendOwned ==
    ASSUME Tables, now \in Nat, NEW f \in Fds, NEW c \in Conns, WaitToSend(f, c)
    PROVE  Owned(conn', events', sock')
<1>1. conn' = [conn EXCEPT ![c] = Paced(conn[c], now)]
  BY DEF WaitToSend
<1>2. SameFds(conn, conn')
  <2>1. Paced(conn[c], now).fd = conn[c].fd
    BY PacedProps DEF Tables
  <2> QED BY <1>1, <2>1, SameOwners
<1>3. events' \in [Fds -> EntryType] /\ Owned(conn, events', sock)
  BY OwnedDelete DEF Tables, WaitToSend, WaitUnwritable
<1>4. StillOpen(sock, sock')
  BY DEF WaitToSend, StillOpen
<1> QED BY <1>2, <1>3, <1>4, OwnedKept

\* A write changes what is on a socket and neither opens nor closes one.
LEMMA DeliverOpen ==
    ASSUME NEW s \in SocketType, NEW n
    PROVE  Deliver(s, n).st = s.st
  BY SMT DEF Deliver, SocketType

LEMMA SendOwned ==
    ASSUME Tables, Ready, NEW f \in Fds, NEW c \in Conns, conn[c].fd = f,
           Dialled(conn[c]), Send(f, c)
    PROVE  Owned(conn', events', sock')
<1> DEFINE cn == IF conn[c].written = 0 THEN BeginBatch(Paced(conn[c], now)) ELSE conn[c]
<1>1. cn \in ConnType /\ cn.fd = f
  <2>1. CASE conn[c].written = 0
    <3>1. UsecToNextSend(conn[c], now) = 0
      BY <2>1 DEF Send
    <3>2. conn[c] \in ConnType /\ GoodConn(conn[c]) /\ now \in Nat
      BY DEF Ready
    <3>3. /\ GoodConn(Paced(conn[c], now)) /\ Paced(conn[c], now) \in ConnType
          /\ Paced(conn[c], now).fd = f
          /\ Paced(conn[c], now).thread_start = conn[c].thread_start
          /\ Paced(conn[c], now).complete = conn[c].complete
      BY <3>2, PacedProps
    <3>4. Dialled(Paced(conn[c], now))
      BY <3>3 DEF Dialled
    <3>5. PlannedStart(Paced(conn[c], now)) <= now
      <4>1. PlannedStart(conn[c]) <= now
        BY <3>1, <3>2, SendIsDue
      <4> QED BY <3>3, <4>1 DEF PlannedStart
    <3>6. /\ GoodConn(BeginBatch(Paced(conn[c], now)))
          /\ BeginBatch(Paced(conn[c], now)).fd = Paced(conn[c], now).fd
      BY <3>2, <3>3, <3>4, <3>5, BeginBatchProps
    <3> QED BY <2>1, <3>3, <3>6 DEF GoodConn
  <2>2. CASE conn[c].written # 0
    BY <2>2 DEF Tables
  <2> QED BY <2>1, <2>2
<1>2. \/ \E errs : ReconnectSocket(c, cn, errs, faults)
      \/ conn' = [conn EXCEPT ![c] = cn] /\ UNCHANGED <<sock, events>>
      \/ /\ \E n \in Nat : conn' = [conn EXCEPT ![c] = [cn EXCEPT !.written = n]]
         /\ \E n : sock' = [sock EXCEPT ![f] = Deliver(sock[f], n)]
         /\ events' = WrittenUnwritable(f) \/ events' = events
  <2>1. CASE ReconnectSocket(c, cn, [errors EXCEPT !.write = @ + 1], faults)
    BY <2>1
  <2>2. CASE conn' = [conn EXCEPT ![c] = cn] /\ UNCHANGED <<sock, events, errors>>
    BY <2>2
  <2>3. ASSUME NEW n \in 1 .. (ReqLen - cn.written),
               conn' = [conn EXCEPT ![c] =
                          [cn EXCEPT !.written = IF cn.written + n = ReqLen
                                                 THEN 0 ELSE @ + n]],
               sock' = [sock EXCEPT ![cn.fd] = Deliver(@, n)],
               events' = IF cn.written + n = ReqLen THEN WrittenUnwritable(f) ELSE events
        PROVE  /\ \E m \in Nat : conn' = [conn EXCEPT ![c] = [cn EXCEPT !.written = m]]
               /\ \E m : sock' = [sock EXCEPT ![f] = Deliver(sock[f], m)]
               /\ events' = WrittenUnwritable(f) \/ events' = events
    <3>1. cn.written \in Nat /\ ReqLen \in Nat
      BY <1>1, ThreadAssumption, SMT DEF ConnType
    <3> DEFINE m == IF cn.written + n = ReqLen THEN 0 ELSE cn.written + n
    <3>2. m \in Nat
      BY <3>1, SMT
    <3>3. conn' = [conn EXCEPT ![c] = [cn EXCEPT !.written = m]]
      BY <2>3, Zenon
    <3>4. sock' = [sock EXCEPT ![f] = Deliver(sock[f], n)]
      BY <1>1, <2>3, Zenon
    <3> HIDE DEF m, cn
    <3> QED BY <2>3, <3>2, <3>3, <3>4, Zenon
  <2> HIDE DEF cn
  <2> QED BY <2>1, <2>2, <2>3, Zenon DEF Send, Fault, cn
<1> HIDE DEF cn
<1>3. ASSUME NEW errs, ReconnectSocket(c, cn, errs, faults)
      PROVE  Owned(conn', events', sock')
  BY <1>1, <1>3, ReconnectOwned
<1>4. CASE conn' = [conn EXCEPT ![c] = cn] /\ UNCHANGED <<sock, events>>
  <2>1. SameFds(conn, conn') /\ StillOpen(sock, sock')
    BY <1>1, <1>4, SameOwners DEF StillOpen
  <2> QED BY <1>4, <2>1, OwnedKept DEF Tables
<1>5. ASSUME NEW n \in Nat, conn' = [conn EXCEPT ![c] = [cn EXCEPT !.written = n]],
             NEW m, sock' = [sock EXCEPT ![f] = Deliver(sock[f], m)],
             events' = WrittenUnwritable(f) \/ events' = events
      PROVE  Owned(conn', events', sock')
  <2>1. [cn EXCEPT !.written = n].fd = conn[c].fd
    BY <1>1, SMT DEF ConnType
  <2>2. SameFds(conn, conn')
    BY <1>5, <2>1, SameOwners
  <2>3. StillOpen(sock, sock')
    <3>1. /\ sock'[f] = Deliver(sock[f], m)
          /\ \A g \in Fds : g # f => sock'[g] = sock[g]
      BY <1>5, Zenon DEF Tables
    <3>2. sock[f] \in SocketType
      BY DEF Tables
    <3> QED BY <3>1, <3>2, DeliverOpen DEF StillOpen
  <2>4. events' \in [Fds -> EntryType] /\ Owned(conn, events', sock)
    BY <1>5, OwnedDelete DEF Tables, WrittenUnwritable
  <2> QED BY <2>2, <2>3, <2>4, OwnedKept
<1> QED BY <1>2, <1>3, <1>4, <1>5

\* What the rest of response_complete does to the connection keeps its type.
LEMMA DoneType ==
    ASSUME NEW cn \in ConnType, NEW done,
           done = [cn EXCEPT !.complete = @ + 1, !.pending = PendingLeft(cn),
                             !.has_pending = IF PendingLeft(cn) = 0 THEN FALSE ELSE @]
    PROVE  done \in ConnType /\ done.fd = cn.fd
<1> DEFINE left == PendingLeft(cn)
           k == cn.complete + 1
           h == IF left = 0 THEN FALSE ELSE cn.has_pending
<1>1. left \in 0 .. (CounterMod - 1)
  <2>1. cn.pending - 1 \in Int
    BY SMT DEF ConnType
  <2>2. CounterMod \in Nat \ {0}
    BY ThreadAssumption, SMT
  <2> QED BY <2>1, <2>2, Quotient DEF PendingLeft
<1>2. k \in Nat /\ h \in BOOLEAN
  <2>1. cn.complete + 1 \in Nat /\ cn.has_pending \in BOOLEAN
    BY SMT DEF ConnType
  <2> QED BY <2>1, Zenon
<1>3. done = [cn EXCEPT !.complete = k, !.pending = left, !.has_pending = h]
  OBVIOUS
<1> HIDE DEF left, k, h
<1>4. done \in ConnType
  BY <1>1, <1>2, <1>3, Zenon DEF ConnType
<1>5. done.fd = cn.fd
  BY <1>3, SMT DEF ConnType
<1> QED BY <1>4, <1>5

LEMMA ResponseCompleteOwned ==
    ASSUME Tables, NEW c \in Conns, NEW cn \in ConnType, cn.fd = conn[c].fd,
           cn.fd \in Fds, sock[cn.fd].st # "free", NEW keep \in BOOLEAN, NEW failed,
           NEW sks, StillOpen(sock, sks), ResponseComplete(c, cn, keep, failed, sks)
    PROVE  Owned(conn', events', sock')
<1> DEFINE errs == IF failed THEN [errors EXCEPT !.status = @ + 1] ELSE errors
           done == [cn EXCEPT !.complete = @ + 1, !.pending = PendingLeft(cn),
                              !.has_pending = IF PendingLeft(cn) = 0 THEN FALSE ELSE @]
           evs == CreateFileEvent(events, cn.fd, {AE_WRITABLE}, "socket_writeable", c)
<1>1. \/ conn' = [conn EXCEPT ![c] = cn] /\ sock' = sks /\ events' = events
      \/ /\ conn' = [conn EXCEPT ![c] = [done EXCEPT !.parser = "start"]]
         /\ events' = evs \/ events' = events
         /\ sock' = sks
      \/ ReconnectSocket(c, done, errs, faults)
  BY DEF ResponseComplete
<1>2. done \in ConnType /\ done.fd = conn[c].fd
  BY DoneType
<1>3. events \in [Fds -> EntryType] /\ Owned(conn, events, sock)
  BY DEF Tables
<1>4. evs \in [Fds -> EntryType] /\ Owned(conn, evs, sock)
  BY <1>3, OwnedCreate DEF Masks, AE_READABLE, AE_WRITABLE
<1> HIDE DEF done, errs, evs
<1>5. CASE conn' = [conn EXCEPT ![c] = cn] /\ sock' = sks /\ events' = events
  <2>1. SameFds(conn, conn')
    BY <1>5, SameOwners
  <2> QED BY <1>3, <1>5, <2>1, OwnedKept
<1>6. CASE /\ conn' = [conn EXCEPT ![c] = [done EXCEPT !.parser = "start"]]
           /\ events' = evs \/ events' = events
           /\ sock' = sks
  <2>1. [done EXCEPT !.parser = "start"].fd = conn[c].fd
    BY <1>2, SMT DEF ConnType
  <2>2. SameFds(conn, conn')
    BY <1>6, <2>1, SameOwners
  <2> QED BY <1>3, <1>4, <1>6, <2>2, OwnedKept
<1>7. CASE ReconnectSocket(c, done, errs, faults)
  BY <1>2, <1>7, ReconnectOwned
<1> QED BY <1>1, <1>5, <1>6, <1>7

LEMMA ReadErrorOwned ==
    ASSUME Tables, NEW c \in Conns, conn[c].fd \in Fds, NEW phase \in Phases,
           ReadError(c, phase)
    PROVE  Owned(conn', events', sock')
<1> DEFINE cn == [conn[c] EXCEPT !.parser = phase]
<1>1. conn[c] \in ConnType
  BY DEF Tables
<1>2. cn \in ConnType
  BY <1>1, Zenon DEF ConnType
<1>3. cn.fd = conn[c].fd
  BY <1>1, SMT DEF ConnType
<1>4. ReconnectSocket(c, cn, [errors EXCEPT !.read = @ + 1], faults)
  BY DEF ReadError
<1> HIDE DEF cn
<1> QED BY <1>2, <1>3, <1>4, ReconnectOwned

\* socket_readable, for a connection with a descriptor: what it reads is on that
\* descriptor's socket, which is open when anything but an error is read.
LEMMA SocketReadableOwned ==
    ASSUME Tables, NEW f, NEW c \in Conns, conn[c].fd \in Fds, NEW w,
           SocketReadable(f, c, w)
    PROVE  Owned(conn', events', sock')
<1>1. conn[c] \in ConnType /\ conn[c].parser \in Phases /\ "dead" \in Phases
  <2>1. conn[c] \in ConnType
    BY DEF Tables
  <2> QED BY <2>1, SMT DEF ConnType, Phases
<1>2. ASSUME NEW phase \in Phases, ReadError(c, phase)
      PROVE  Owned(conn', events', sock')
  BY <1>2, ReadErrorOwned
<1>3. CASE ParsePiece(f, c, w)
  <2> DEFINE g     == conn[c].fd
             piece == Head(sock[g].inq)
             phase == Feed(conn[c].parser, piece)
             cn    == [conn[c] EXCEPT !.parser = phase]
             sks   == [sock EXCEPT ![g].inq = Tail(@)]
  <2>1. /\ sock[g].st = "open" /\ sock[g].inq # <<>>
        /\ \/ ReadError(c, "dead")
           \/ ResponseComplete(c, cn, KeepAlive(cn.parser), piece = "fail", sks)
           \/ conn' = [conn EXCEPT ![c] = cn] /\ sock' = sks /\ events' = events
    BY <1>3 DEF ParsePiece
  <2>2. sock[g] \in SocketType
    BY DEF Tables
  <2>3. StillOpen(sock, sks)
    <3>1. [sock[g] EXCEPT !.inq = Tail(@)].st = sock[g].st
      BY <2>2, SMT DEF SocketType
    <3>2. /\ sks[g] = [sock[g] EXCEPT !.inq = Tail(@)]
          /\ \A h \in Fds : h # g => sks[h] = sock[h]
      BY Zenon DEF Tables
    <3> HIDE DEF sks, g
    <3> QED BY <3>1, <3>2 DEF StillOpen
  <2>4. phase \in Phases
    <3>1. piece \in Pieces
      <4>1. sock[g].inq \in Seq(Pieces)
        BY <2>2, SMT DEF SocketType
      <4> QED BY <2>1, <4>1
    <3> QED BY <1>1, <3>1, FeedInPhases
  <2> HIDE DEF phase, sks, piece
  <2>5. cn \in ConnType
    BY <1>1, <2>4, Zenon DEF ConnType
  <2>6. cn.fd = conn[c].fd
    BY <1>1, SMT DEF ConnType
  <2> HIDE DEF cn
  <2>7. CASE ReadError(c, "dead")
    BY <1>1, <1>2, <2>7
  <2>8. CASE ResponseComplete(c, cn, KeepAlive(cn.parser), piece = "fail", sks)
    <3>1. KeepAlive(cn.parser) \in BOOLEAN
      BY Zenon DEF KeepAlive
    <3> QED BY <2>1, <2>3, <2>5, <2>6, <2>8, <3>1, ResponseCompleteOwned
  <2>9. CASE conn' = [conn EXCEPT ![c] = cn] /\ sock' = sks /\ events' = events
    <3>1. SameFds(conn, conn')
      BY <2>6, <2>9, SameOwners
    <3> QED BY <2>3, <2>9, <3>1, OwnedKept DEF Tables
  <2> QED BY <2>1, <2>7, <2>8, <2>9
<1>4. CASE ReadEof(f, c, w)
  <2>1. CASE ResponseComplete(c, conn[c], FALSE, FALSE, sock)
    <3>1. StillOpen(sock, sock) /\ sock[conn[c].fd].st # "free"
      BY <1>4 DEF StillOpen, ReadEof
    <3> QED BY <1>1, <2>1, <3>1, ResponseCompleteOwned
  <2>2. CASE ReadError(c, "dead")
    BY <1>1, <1>2, <2>2
  <2>3. CASE UNCHANGED <<conn, sock, events, errors, faults>>
    BY <2>3 DEF Tables
  <2> QED BY <1>4, <2>1, <2>2, <2>3 DEF ReadEof
<1>5. CASE ReadFails(f, c, w)
  BY <1>1, <1>2, <1>5 DEF ReadFails
<1> QED BY <1>3, <1>4, <1>5 DEF SocketReadable

-----------------------------------------------------------------------------------
(* The actions.                                                                     *)

\* A registration has to belong to a dialled connection for the handlers to be called
\* as they expect: the invariant of WrkThreadProofs carries this one.
OwnerInv == IInv /\ Owned(conn, events, sock)

LEMMA OwnerTables ==
    ASSUME OwnerInv
    PROVE  Tables /\ Ready /\ now \in Nat
  BY InvReady DEF OwnerInv, IInv, TypeOK, Tables

\* The handlers of a registered descriptor get the connection that has it.
LEMMA RegisteredOwner ==
    ASSUME OwnerInv, NEW f \in Fds, events[f].mask # {}
    PROVE  /\ events[f].data \in Conns /\ Dialled(conn[events[f].data])
           /\ conn[events[f].data].fd = f /\ sock[f].st # "free"
  BY EventOwner DEF OwnerInv, Owned

LEMMA FireReadableOwned ==
    ASSUME OwnerInv, NEW f \in Fds, FireReadable(f)
    PROVE  Owned(conn', events', sock')
<1> DEFINE c == events[f].data
<1>1. c \in Conns /\ conn[c].fd = f /\ sock[f].st # "free"
  BY RegisteredOwner DEF FireReadable
<1> PICK w : SocketConnected(f, c) \/ SocketReadable(f, c, w)
  BY DEF FireReadable
<1>2. SocketConnected(f, c) \/ SocketReadable(f, c, w)
  OBVIOUS
<1> HIDE DEF c
<1> QED BY <1>1, <1>2, OwnerTables, SocketConnectedOwned, SocketReadableOwned

LEMMA CallWriteProcOwned ==
    ASSUME OwnerInv, NEW f \in Fds, events[f].mask # {}, CallWriteProc(f)
    PROVE  Owned(conn', events', sock')
<1> DEFINE c == events[f].data
<1>1. c \in Conns /\ Dialled(conn[c]) /\ conn[c].fd = f /\ sock[f].st # "free"
  BY RegisteredOwner
<1>2. SocketConnected(f, c) \/ WaitToSend(f, c) \/ Send(f, c)
  BY DEF CallWriteProc, SocketWriteable
<1> HIDE DEF c
<1> QED BY <1>1, <1>2, OwnerTables, SocketConnectedOwned, WaitToSendOwned, SendOwned

LEMMA ReadMoreOwned ==
    ASSUME OwnerInv, ReadMore
    PROVE  Owned(conn', events', sock')
<1>1. turn \in TurnType
  BY DEF OwnerInv, IInv, TypeOK
<1>2. Dialled(conn[turn.c]) /\ turn.c \in Conns
  <2>1. turn.c \in Conns
    BY <1>1, SMT DEF TurnType
  <2> QED BY <2>1 DEF OwnerInv, IInv, DialledFirst, ReadMore
<1>3. conn[turn.c].fd \in Fds
  BY <1>2 DEF Dialled
<1> QED BY <1>2, <1>3, OwnerTables, SocketReadableOwned DEF ReadMore

LEMMA ParseTailOwned ==
    ASSUME OwnerInv, ParseTail
    PROVE  Owned(conn', events', sock')
<1>1. turn \in TurnType
  BY DEF OwnerInv, IInv, TypeOK
<1>2. Dialled(conn[turn.c]) /\ turn.c \in Conns
  <2>1. turn.c \in Conns
    BY <1>1, SMT DEF TurnType
  <2> QED BY <2>1 DEF OwnerInv, IInv, DialledFirst, ParseTail
<1>3. conn[turn.c].fd \in Fds /\ "dead" \in Phases
  BY <1>2 DEF Dialled, Phases
<1> QED BY <1>2, <1>3, OwnerTables, ReadErrorOwned DEF ParseTail

\* A connection that is dialled for the first time has nothing registered.
LEMMA DelayedInitialConnectOwned ==
    ASSUME OwnerInv, NEW c \in Conns, DelayedInitialConnect(c)
    PROVE  Owned(conn', events', sock')
<1> DEFINE cn == [conn[c] EXCEPT !.thread_start = now]
<1>1. cn \in ConnType
  <2>1. conn[c] \in ConnType /\ now \in Nat
    BY OwnerTables DEF Tables
  <2> QED BY <2>1, Zenon DEF ConnType
<1>2. \A f \in Fds : events[f].mask # {} => events[f].data # c
  BY RegisteredOwner DEF Dialled, DelayedInitialConnect
<1>3. ConnectSocket(c, cn, events, sock, errors, faults)
  BY DEF DelayedInitialConnect
<1> HIDE DEF cn
<1> QED BY <1>1, <1>2, <1>3, OwnerTables, ConnectOwned DEF Tables

\* delay_request registers the c->fd of its connection, if that is open: the registration
\* is the connection's from then on, whoever had it before.
LEMMA DelayRequestOwned ==
    ASSUME OwnerInv, NEW c \in Conns, DelayRequest(c)
    PROVE  Owned(conn', events', sock')
<1> DEFINE f == conn[c].fd
           evs == CreateFileEvent(events, f, {AE_WRITABLE}, "socket_writeable", c)
<1>1. /\ conn' = [conn EXCEPT ![c] = Paced(conn[c], now)]
      /\ sock' = sock
      /\ events' = events \/ (sock[f].st # "free" /\ events' = evs)
      /\ delays[c] # <<>>
  BY DEF DelayRequest
<1>2. conn[c] \in ConnType /\ now \in Nat /\ f \in Fds
  BY <1>1, OwnerTables, InvReady DEF OwnerInv, Tables, Dialled
<1>3. SameFds(conn, conn')
  <2>1. Paced(conn[c], now).fd = conn[c].fd
    BY <1>2, PacedProps
  <2> QED BY <1>1, <2>1, OwnerTables, SameOwners
<1>4. StillOpen(sock, sock')
  BY <1>1 DEF StillOpen
<1>5. events' \in [Fds -> EntryType] /\ Owned(conn, events', sock)
  <2>1. CASE events' = events
    BY <2>1, OwnerTables DEF Tables
  <2>2. CASE sock[f].st # "free" /\ events' = evs
    <3>1. events \in [Fds -> EntryType] /\ Owned(conn, events, sock)
      BY OwnerTables DEF Tables
    <3>2. evs \in [Fds -> EntryType] /\ Owned(conn, evs, sock)
      <4> HIDE DEF f
      <4>1. f = conn[c].fd
        BY DEF f
      <4> QED BY <1>2, <2>2, <3>1, <4>1, OwnedCreate DEF Masks, AE_READABLE, AE_WRITABLE
    <3> QED BY <2>2, <3>2
  <2> QED BY <1>1, <2>1, <2>2
<1> QED BY <1>3, <1>4, <1>5, OwnedKept

\* The server and the kernel close no socket: only the program does.
LEMMA ServerOwned ==
    ASSUME OwnerInv, NEW f \in Fds, Server(f)
    PROVE  Owned(conn', events', sock')
<1>1. sock \in [Fds -> SocketType] /\ sock[f] \in SocketType
  BY OwnerTables DEF Tables
<1>2. \E t : sock' = [sock EXCEPT ![f] = t] /\ (sock[f].st # "free" => t.st # "free")
  <2> DEFINE s == sock[f]
  <2>1. CASE Accept(f)
    <3>1. sock' = [sock EXCEPT ![f] = [s EXCEPT !.st = "open"]]
      BY <2>1 DEF Accept
    <3>2. [s EXCEPT !.st = "open"].st = "open"
      BY <1>1, SMT DEF SocketType
    <3> QED BY <3>1, <3>2
  <2>2. CASE Refuse(f)
    <3>1. sock' = [sock EXCEPT ![f] = [s EXCEPT !.st = "refused"]]
      BY <2>2 DEF Refuse
    <3>2. [s EXCEPT !.st = "refused"].st = "refused"
      BY <1>1, SMT DEF SocketType
    <3> QED BY <3>1, <3>2
  <2>3. CASE Answer(f)
    <3>1. PICK piece : sock' = [sock EXCEPT
                 ![f].inq = Append(@, piece), ![f].owed = @ - 1, ![f].mid = FALSE,
                 ![f].peer = IF piece \in {"close", "until_eof"} THEN "fin" ELSE "up"]
      BY <2>3 DEF Answer
    <3> DEFINE t == [s EXCEPT !.inq = Append(@, piece), !.owed = @ - 1, !.mid = FALSE,
                              !.peer = IF piece \in {"close", "until_eof"}
                                       THEN "fin" ELSE "up"]
    <3>2. sock' = [sock EXCEPT ![f] = t]
      BY <1>1, <3>1, Zenon
    <3>3. t.st = s.st
      BY <1>1, SMT DEF SocketType
    <3> QED BY <3>2, <3>3
  <2>4. CASE AnswerPart(f)
    <3> DEFINE t == [s EXCEPT !.inq = Append(@, "part"), !.mid = TRUE]
    <3>1. sock' = [sock EXCEPT ![f] = t]
      BY <1>1, <2>4, Zenon DEF AnswerPart
    <3>2. t.st = s.st
      BY <1>1, SMT DEF SocketType
    <3> QED BY <3>1, <3>2
  <2>5. CASE AnswerEarly(f)
    <3> DEFINE t == [s EXCEPT !.inq = Append(@, "fail"), !.owed = @ - 1]
    <3>1. sock' = [sock EXCEPT ![f] = t]
      BY <1>1, <2>5, Zenon DEF AnswerEarly
    <3>2. t.st = s.st
      BY <1>1, SMT DEF SocketType
    <3> QED BY <3>1, <3>2
  <2>6. CASE AnswerUnsolicited(f) \/ SendJunk(f)
    <3>1. PICK piece : sock' = [sock EXCEPT ![f].inq = Append(@, piece)]
      BY <2>6 DEF AnswerUnsolicited, SendJunk
    <3> DEFINE t == [s EXCEPT !.inq = Append(@, piece)]
    <3>2. sock' = [sock EXCEPT ![f] = t]
      BY <1>1, <3>1, Zenon
    <3>3. t.st = s.st
      BY <1>1, SMT DEF SocketType
    <3> QED BY <3>2, <3>3
  <2>7. CASE PeerCloses(f) \/ PeerResets(f)
    <3>1. PICK peer : sock' = [sock EXCEPT ![f].peer = peer]
      BY <2>7 DEF PeerCloses, PeerResets
    <3> DEFINE t == [s EXCEPT !.peer = peer]
    <3>2. sock' = [sock EXCEPT ![f] = t]
      BY <1>1, <3>1, Zenon
    <3>3. t.st = s.st
      BY <1>1, SMT DEF SocketType
    <3> QED BY <3>2, <3>3
  <2> QED BY <2>1, <2>2, <2>3, <2>4, <2>5, <2>6, <2>7 DEF Server
<1>3. StillOpen(sock, sock')
  <2>1. PICK t : sock' = [sock EXCEPT ![f] = t] /\ (sock[f].st # "free" => t.st # "free")
    BY <1>2
  <2>2. sock'[f] = t /\ \A g \in Fds : g # f => sock'[g] = sock[g]
    BY <1>1, <2>1, Zenon
  <2> QED BY <2>1, <2>2 DEF StillOpen
<1>4. SameFds(conn, conn') /\ events' = events
  BY ServerType DEF OwnerInv, Environment, loopVars, threadVars, SameFds
<1> QED BY <1>3, <1>4, OwnerTables, OwnedKept DEF Tables

LEMMA OwnerNext == OwnerInv /\ [Next]_vars => OwnerInv'
<1> SUFFICES ASSUME OwnerInv, [Next]_vars PROVE Owned(conn', events', sock')
  <2>1. IInv /\ [Next]_vars => IInv'
    BY NextInv
  <2> QED BY <2>1 DEF OwnerInv
<1>1. CASE Loop
  <2>1. ASSUME NEW f \in Fds, FireReadable(f) PROVE Owned(conn', events', sock')
    BY <2>1, FireReadableOwned
  <2>2. ASSUME NEW f \in Fds, FireWriteable(f) PROVE Owned(conn', events', sock')
    BY <2>2, CallWriteProcOwned DEF FireWriteable
  <2>3. CASE FinishWriteable
    <3>1. turn.fd \in Fds /\ AE_WRITABLE \in events[turn.fd].mask
      BY <2>3 DEF OwnerInv, IInv, DialledFirst, FinishWriteable
    <3> QED BY <2>3, <3>1, CallWriteProcOwned DEF FinishWriteable
  <2>4. CASE CheckTimeouts \/ AeMainReturns
    BY <2>4 DEF CheckTimeouts, AeMainReturns, threadVars, OwnerInv
  <2> QED BY <1>1, <2>1, <2>2, <2>3, <2>4, ReadMoreOwned, ParseTailOwned,
             DelayedInitialConnectOwned, DelayRequestOwned DEF Loop
<1>2. CASE Tick \/ Handler \/ Terminated \/ UNCHANGED vars
  BY <1>2 DEF Tick, Handler, Terminated, vars, loopVars, threadVars, OwnerInv
<1>3. ASSUME NEW f \in Fds, Server(f) PROVE Owned(conn', events', sock')
  BY <1>3, ServerOwned
<1> QED BY <1>1, <1>2, <1>3 DEF Next

LEMMA OwnerInit == Init => OwnerInv
  BY InitInv DEF Init, OwnerInv, Owned, EmptyEntry

-----------------------------------------------------------------------------------
\* The thread is told to stop by response_complete and by check_timeouts, each of which
\* has looked at stop_at or at the flag of the signal.
ReasonInv ==
    /\ now \in Nat /\ StopAt \in Nat
    /\ stopping => (now >= StopAt \/ interrupted)
    /\ ~running => (now >= StopAt \/ interrupted)

\* What is the same in all handlers of file events: they stop the loop at most in
\* response_complete.
LEMMA StopsInResponse ==
    ASSUME NEW f, NEW c, NEW w,
           \/ SocketConnected(f, c) \/ SocketWriteable(f, c) \/ SocketReadable(f, c, w)
           \/ ReadError(c, "dead")
    PROVE  stopping' = stopping \/ now >= StopAt
<1>1. CASE SocketConnected(f, c)
  BY <1>1 DEF SocketConnected, NothingRecorded
<1>2. CASE SocketWriteable(f, c)
  BY <1>2 DEF SocketWriteable, WaitToSend, Send, NothingRecorded
<1>3. ASSUME NEW phase, ReadError(c, phase)
      PROVE  stopping' = stopping
  BY <1>3 DEF ReadError, NothingRecorded
<1>4. ASSUME NEW cn, NEW keep, NEW failed, NEW sks, ResponseComplete(c, cn, keep, failed, sks)
      PROVE  stopping' = stopping \/ now >= StopAt
  BY <1>4 DEF ResponseComplete
<1>5. CASE SocketReadable(f, c, w)
  <2>1. CASE ParsePiece(f, c, w)
    BY <1>3, <1>4, <2>1 DEF ParsePiece, NothingRecorded
  <2>2. CASE ReadEof(f, c, w)
    BY <1>3, <1>4, <2>2 DEF ReadEof, NothingRecorded
  <2>3. CASE ReadFails(f, c, w)
    BY <1>3, <2>3 DEF ReadFails
  <2> QED BY <1>5, <2>1, <2>2, <2>3 DEF SocketReadable
<1> QED BY <1>1, <1>2, <1>3, <1>5

LEMMA ReasonNext == ReasonInv /\ [Next]_vars => ReasonInv'
<1> SUFFICES ASSUME ReasonInv, [Next]_vars PROVE ReasonInv'
  OBVIOUS
<1>1. ASSUME LoopOnly, stopping' = stopping \/ now >= StopAt
      PROVE  ReasonInv'
  BY <1>1 DEF ReasonInv, LoopOnly
<1>2. CASE \E f \in Fds : FireReadable(f) \/ FireWriteable(f)
  <2>1. PICK f \in Fds : FireReadable(f) \/ FireWriteable(f)
    BY <1>2
  <2>2. CASE FireReadable(f)
    BY <1>1, <2>2, StopsInResponse DEF FireReadable
  <2>3. CASE FireWriteable(f)
    BY <1>1, <2>3, StopsInResponse DEF FireWriteable, CallWriteProc, SocketWriteable
  <2> QED BY <2>1, <2>2, <2>3
<1>3. CASE ReadMore \/ ParseTail \/ FinishWriteable
  BY <1>1, <1>3, StopsInResponse DEF ReadMore, ParseTail, FinishWriteable, CallWriteProc,
     SocketWriteable
<1>4. CASE \E c \in Conns : DelayedInitialConnect(c) \/ DelayRequest(c)
  BY <1>1, <1>4 DEF DelayedInitialConnect, DelayRequest, NothingRecorded
<1>5. CASE CheckTimeouts
  BY <1>5 DEF CheckTimeouts, ShouldStop, ReasonInv
<1>6. CASE AeMainReturns
  BY <1>6 DEF AeMainReturns, ReasonInv
<1>7. CASE Tick
  BY <1>7, SMT DEF Tick, ReasonInv, loopVars
<1>8. CASE Handler
  BY <1>8 DEF Handler, ReasonInv, loopVars
<1>9. ASSUME NEW f \in Fds, Server(f) PROVE ReasonInv'
  <2>1. UNCHANGED Environment
    BY <1>9, Zenon DEF Server, Accept, Refuse, Answer, AnswerPart, AnswerEarly,
       AnswerUnsolicited, SendJunk, PeerCloses, PeerResets
  <2> QED BY <2>1 DEF Environment, ReasonInv, loopVars
<1>10. CASE Terminated \/ UNCHANGED vars
  BY <1>10 DEF Terminated, vars, loopVars, ReasonInv
<1> QED BY <1>2, <1>3, <1>4, <1>5, <1>6, <1>7, <1>8, <1>9, <1>10 DEF Next, Loop

LEMMA ReasonInit == Init => ReasonInv
  BY ThreadAssumption DEF Init, ReasonInv

-----------------------------------------------------------------------------------
\* The loop has no event on a descriptor that is closed, through every reconnection in
\* the middle of an event, every failed connect and every descriptor that is given out
\* again.
THEOREM NothingOnClosed == Spec => []NoEventOnClosedSocket
<1>1. OwnerInv => NoEventOnClosedSocket
  BY DEF OwnerInv, Owned, NoEventOnClosedSocket
<1> QED BY OwnerInit, OwnerNext, <1>1, PTL DEF Spec

\* The handlers of a descriptor get the connection that has it: no event is delivered to
\* the connection that had the descriptor before.
THEOREM HandlersOwn == Spec => []HandlerOwnsSocket
<1>1. OwnerInv => HandlerOwnsSocket
  BY DEF OwnerInv, Owned, HandlerOwnsSocket
<1> QED BY OwnerInit, OwnerNext, <1>1, PTL DEF Spec

\* aeMain returns only when the time is over or the user has interrupted the program.
THEOREM ReasonToStop == Spec => []StopsForAReason
<1>1. ReasonInv => StopsForAReason
  BY DEF ReasonInv, StopsForAReason
<1> QED BY ReasonInit, ReasonNext, <1>1, PTL DEF Spec
===================================================================================
