-------------------------------- MODULE WrkThread --------------------------------
(***********************************************************************************)
(* One thread of the load generator (src/wrk.c): its connections, the event loop   *)
(* that runs their handlers, the kernel's sockets and the server behind them.      *)
(*                                                                                 *)
(* The thread runs handlers one at a time: a handler is one action, except that    *)
(* socket_readable takes one action per piece of input it parses.  The clock, the  *)
(* kernel and the server move between actions.  The server is not the program's:   *)
(* it answers, and the faults it and the network may commit are chosen by          *)
(* FaultKinds and bounded by MaxFaults.                                            *)
(***********************************************************************************)
EXTENDS Pacing, AeFileEvents, HttpResponse, Sequences, SequencesExt, FiniteSets

CONSTANTS
    NConns,         \* thread->connections
    Fds,            \* descriptors the thread's sockets may get
    Pipeline,       \* cfg.pipeline: requests in one string of request()
    ReqLen,         \* length of that string, in units of a partial write
    RecordAll,      \* cfg.record_all_responses (FALSE with -B)
    Dynamic,        \* cfg.dynamic: request() is called for every batch
    Epoch,          \* time_us() when the thread starts its loop
    Stagger,        \* milliseconds between initial connects (5)
    Timeout,        \* cfg.timeout, in ticks
    TimeoutCheckMs, \* TIMEOUT_INTERVAL_MS
    StopAt,         \* thread->stop_at
    MaxNow,         \* bound: the last value of the clock
    CounterMod,     \* 2^64, the width of c->pending
    Answers,        \* the pieces the server's answers are made of
    FaultKinds,     \* what may go wrong in the server, the network and the kernel
    MaxFaults       \* bound: how many times

Conns == 0 .. (NConns - 1)
NoFd  == 0          \* the value of c->fd after zcalloc

AllFaults == {"refuse", "unreachable", "handshake", "fin", "rst", "junk",
              "unsolicited", "early", "again", "sigint"}

ASSUME ThreadAssumption ==
    /\ NConns \in Nat \ {0} /\ Pipeline \in Nat \ {0} /\ ReqLen \in Nat \ {0}
    /\ CounterMod \in Nat /\ Pipeline < CounterMod
    /\ Fds \subseteq Nat \ {NoFd}
    /\ {RecordAll, Dynamic} \subseteq BOOLEAN
    /\ {Stagger, Timeout, TimeoutCheckMs, StopAt, MaxNow, MaxFaults} \subseteq Nat
    /\ Epoch \in Nat \ {0}
    /\ Answers \subseteq Endings \cup {"part", "until_eof"}
    /\ FaultKinds \subseteq AllFaults

VARIABLES
    now,         \* time_us()
    sock,        \* the kernel's sockets, by descriptor
    events,      \* loop->events, by descriptor
    delays,      \* per connection: due times (ms) of its delay_request timers,
                 \* the newest first, as in the loop's list
    checkDue,    \* due time (ms) of the check_timeouts timer
    stopping,    \* loop->stop
    running,     \* aeMain has not returned
    turn,        \* where the loop is inside a fired event
    rest,        \* descriptors whose fired event of the present pass may still come
    conn,        \* thread->cs
    complete,    \* thread->complete
    errors,      \* thread->errors
    recorded,    \* the latencies last given to the two histograms
    handed,      \* per connection: requests request() returned that response()
                 \* has not been called for
    interrupted, \* the flag the signal handler sets
    faults       \* faults still to come (bound)

loopVars   == <<events, delays, checkDue, stopping, running, turn, rest>>
threadVars == <<conn, complete, errors, recorded, handed>>
vars == <<now, sock, loopVars, threadVars, interrupted, faults>>

-----------------------------------------------------------------------------------
(* Sockets: the kernel's and the server's side of a connection (external).          *)

\* inq: pieces sent by the server and not read yet; peer: whether the server still
\* has its end open, closed it (FIN) or reset it (RST); got: units of the current
\* request string the server has; owed: complete requests it has not answered;
\* mid: it has sent a part of the next answer.
Socket(st) ==
    [st |-> st, inq |-> <<>>, peer |-> "up", got |-> 0, owed |-> 0, mid |-> FALSE]

Free == Socket("free")

ReadReady(s) ==
    s.st = "refused" \/ (s.st = "open" /\ (s.inq # <<>> \/ s.peer # "up"))
WriteReady(s) == s.st \in {"refused", "open"}

\* n units of a request string reach the server.  A server that has closed its end
\* answers data with a reset.
Deliver(s, n) ==
    IF s.peer # "up" THEN [s EXCEPT !.peer = "rst"]
    ELSE LET all == s.got + n IN
         [s EXCEPT !.got  = all % ReqLen,
                   !.owed = @ + Pipeline * (all \div ReqLen)]

Fault(kind) == kind \in FaultKinds /\ faults > 0 /\ faults' = faults - 1

Up(f) == sock[f].st = "open" /\ sock[f].peer = "up"

Environment == <<now, loopVars, threadVars, interrupted>>

Accept(f) ==
    /\ sock[f].st = "connecting"
    /\ sock' = [sock EXCEPT ![f].st = "open"]
    /\ UNCHANGED <<Environment, faults>>

Refuse(f) ==
    /\ sock[f].st = "connecting"
    /\ Fault("refuse")
    /\ sock' = [sock EXCEPT ![f].st = "refused"]
    /\ UNCHANGED Environment

\* A whole answer, or its end if a part was sent before.
Answer(f) == \E piece \in Answers \ {"part"} :
    /\ Up(f) /\ sock[f].owed > 0
    /\ sock' = [sock EXCEPT ![f].inq = Append(@, piece), ![f].owed = @ - 1,
                            ![f].mid = FALSE,
                            ![f].peer = IF piece \in {"close", "until_eof"}
                                        THEN "fin" ELSE "up"]
    /\ UNCHANGED <<Environment, faults>>

AnswerPart(f) ==
    /\ Up(f) /\ sock[f].owed > 0 /\ ~sock[f].mid /\ "part" \in Answers
    /\ sock' = [sock EXCEPT ![f].inq = Append(@, "part"), ![f].mid = TRUE]
    /\ UNCHANGED <<Environment, faults>>

\* The server answers a request it has received only a part of.
AnswerEarly(f) ==
    /\ Up(f) /\ sock[f].got > 0 /\ sock[f].owed = 0
    /\ Fault("early")
    /\ sock' = [sock EXCEPT ![f].inq = Append(@, "fail"), ![f].owed = @ - 1]
    /\ UNCHANGED Environment

\* The server sends a response to no request (a 408 on an idle connection).
AnswerUnsolicited(f) ==
    /\ Up(f) /\ sock[f].owed = 0 /\ sock[f].got = 0
    /\ Fault("unsolicited")
    /\ sock' = [sock EXCEPT ![f].inq = Append(@, "fail")]
    /\ UNCHANGED Environment

\* Bytes no response has: at any time, or between the last answer and the FIN.
SendJunk(f) ==
    /\ \/ Up(f)
       \/ sock[f].peer = "fin" /\ sock[f].inq # <<>> /\ Last(sock[f].inq) = "close"
    /\ Fault("junk")
    /\ sock' = [sock EXCEPT ![f].inq = Append(@, "junk")]
    /\ UNCHANGED Environment

PeerCloses(f) ==
    /\ Up(f) /\ Fault("fin")
    /\ sock' = [sock EXCEPT ![f].peer = "fin"]
    /\ UNCHANGED Environment

PeerResets(f) ==
    /\ Up(f) /\ Fault("rst")
    /\ sock' = [sock EXCEPT ![f].peer = "rst"]
    /\ UNCHANGED Environment

Server(f) ==
    \/ Accept(f) \/ Refuse(f) \/ Answer(f) \/ AnswerPart(f) \/ AnswerEarly(f)
    \/ AnswerUnsolicited(f) \/ SendJunk(f) \/ PeerCloses(f) \/ PeerResets(f)

-----------------------------------------------------------------------------------
(* The loop's position.  "poll": between events; otherwise inside the fired event   *)
(* of descriptor fd, whose handler runs for connection c: "read" in the do-while of *)
(* socket_readable, "tail" with bytes of the chunk left to parse after a message    *)
(* that closed the connection, "write" between the read and the write procedure.    *)
(* w: the event also fired as writable.                                             *)

Polling == [step |-> "poll", fd |-> NoFd, c |-> 0, w |-> FALSE]
InTurn(step, f, c, w) == [step |-> step, fd |-> f, c |-> c, w |-> w]

AtPoll == running /\ turn.step = "poll"

\* The read half of a fired event is over.
EndOfRead(f, c, w) ==
    turn' = IF w /\ WritableStillDue(events'[f], TRUE)
            THEN InTurn("write", f, c, TRUE) ELSE Polling

-----------------------------------------------------------------------------------
(* connect_socket and reconnect_socket.                                             *)

RW == {AE_READABLE, AE_WRITABLE}

WithFd(cn, f) == [cn EXCEPT !.fd = f]

\* The kernel gives out the lowest free descriptor of the process; other threads
\* hold others, so any free one may come.  On an error c->fd keeps its old value.
ConnectSocket(c, cn, evs, sks, errs, flts) ==
    \/ \E f \in {g \in Fds : sks[g].st = "free"} :
        /\ conn'   = [conn EXCEPT ![c] = WithFd(cn, f)]
        /\ sock'   = [sks EXCEPT ![f] = Socket("connecting")]
        /\ events' = CreateFileEvent(evs, f, RW, "socket_connected", c)
        /\ errors' = errs
        /\ faults' = flts
    \/ /\ \/ "unreachable" \in FaultKinds /\ flts > 0 /\ faults' = flts - 1
          \/ (\A g \in Fds : sks[g].st # "free") /\ faults' = flts
       /\ conn'   = [conn EXCEPT ![c] = cn]
       /\ errors' = [errs EXCEPT !.connect = @ + 1]
       /\ sock' = sks /\ events' = evs

\* Mutant: the events of the old descriptor stay registered.
ReconnectSocketKeepsEvents(c, cn, errs, flts) ==
    ConnectSocket(c, cn, events, [sock EXCEPT ![cn.fd] = Free], errs, flts)

\* cn, errs and flts: the connection and the counters as the caller leaves them.
\* Registrations the caller makes on c->fd are deleted here, whatever they are.
ReconnectSocket(c, cn, errs, flts) ==
    ConnectSocket(c, cn, DeleteFileEvent(events, cn.fd, RW),
                  [sock EXCEPT ![cn.fd] = Free], errs, flts)

-----------------------------------------------------------------------------------
(* The handlers of file events.  Each sets conn, sock, events, errors and faults,   *)
(* and says what else it changes.                                                   *)

NothingRecorded == UNCHANGED <<complete, recorded, handed, stopping>>

SocketConnected(f, c) ==
    /\ NothingRecorded /\ UNCHANGED delays
    /\ \/ /\ conn' = [conn EXCEPT ![c].parser = "start", ![c].written = 0]
          /\ events' = CreateFileEvent(
                          CreateFileEvent(events, f, {AE_READABLE}, "socket_readable", c),
                          f, {AE_WRITABLE}, "socket_writeable", c)
          /\ UNCHANGED <<sock, errors, faults>>
       \/ /\ "handshake" \in FaultKinds /\ faults > 0
          /\ ReconnectSocket(c, conn[c], [errors EXCEPT !.connect = @ + 1], faults - 1)

\* Mutant: the writable event is not deleted when the wait begins.
WaitStillWritable(f) == events
WaitUnwritable(f)    == DeleteFileEvent(events, f, {AE_WRITABLE})

\* aeCreateTimeEvent for delay_request.  Mutant: there is no timer.
NoDelayTimer(c) == delays
DelayTimer(c) ==
    [delays EXCEPT ![c] = <<MsNow(now) + DelayMs(UsecToNextSend(conn[c], now))>> \o @]

\* Not yet time to send: a timer takes the place of the writable event.
WaitToSend(f, c) ==
    /\ conn[c].written = 0 /\ UsecToNextSend(conn[c], now) > 0
    /\ conn'   = [conn EXCEPT ![c] = Paced(@, now)]
    /\ events' = WaitUnwritable(f)
    /\ delays' = DelayTimer(c)
    /\ NothingRecorded /\ UNCHANGED <<sock, errors, faults>>

\* Mutant: one response is waited for, however many requests the batch has.
BeginBatchOfOne(cn) ==
    [cn EXCEPT !.start = now, !.pending = 1, !.actual_latency_start = now,
               !.complete_at_last_batch_start = cn.complete, !.has_pending = TRUE]

\* What socket_writeable does to the connection before it writes the first unit.
BeginBatch(cn) ==
    IF cn.has_pending
    THEN [cn EXCEPT !.start = now, !.pending = Pipeline]
    ELSE [cn EXCEPT !.start = now, !.pending = Pipeline,
                    !.actual_latency_start = now,
                    !.complete_at_last_batch_start = cn.complete,
                    !.has_pending = TRUE]

\* The event table once the whole request string is written.  Mutant: the readable
\* event goes too.
WrittenDeaf(f)          == DeleteFileEvent(events, f, RW)
WrittenUnwritable(f)    == DeleteFileEvent(events, f, {AE_WRITABLE})

Send(f, c) ==
    LET first == conn[c].written = 0
        cn == IF first THEN BeginBatch(Paced(conn[c], now)) ELSE conn[c]
        s  == sock[cn.fd] IN
    /\ first => UsecToNextSend(conn[c], now) = 0
    /\ handed' = IF first /\ Dynamic THEN [handed EXCEPT ![c] = @ + Pipeline] ELSE handed
    /\ UNCHANGED <<complete, recorded, stopping, delays>>
    /\ \/ /\ s.st # "open" \/ s.peer = "rst"                          \* ERROR
          /\ ReconnectSocket(c, cn, [errors EXCEPT !.write = @ + 1], faults)
       \/ /\ Fault("again")                                           \* RETRY
          /\ conn' = [conn EXCEPT ![c] = cn]
          /\ UNCHANGED <<sock, events, errors>>
       \/ /\ s.st = "open" /\ s.peer # "rst"                          \* OK
          /\ \E n \in 1 .. (ReqLen - cn.written) :
              LET full == cn.written + n = ReqLen IN
              /\ conn' = [conn EXCEPT
                            ![c] = [cn EXCEPT !.written = IF full THEN 0 ELSE @ + n]]
              /\ sock' = [sock EXCEPT ![cn.fd] = Deliver(@, n)]
              /\ events' = IF full THEN WrittenUnwritable(f) ELSE events
          /\ UNCHANGED <<errors, faults>>

SocketWriteable(f, c) == WaitToSend(f, c) \/ Send(f, c)

\* Mutant: the present count, which gifts pipelined responses their time.
ExpectedLatencyStartNow(cn) == cn.thread_start + PlannedOffset(cn.complete)

\* expected_latency_start: when the last batch of the connection was planned to begin,
\* by the count of responses at its beginning and not by the present one.
ExpectedLatencyStart(cn) ==
    cn.thread_start + PlannedOffset(cn.complete_at_last_batch_start)

\* expected_latency_timing and actual_latency_timing in response_complete.
Latencies(cn) ==
    [corrected   |-> now - ExpectedLatencyStart(cn),
     uncorrected |-> now - cn.actual_latency_start]

\* --c->pending, in its unsigned width.  Mutant: a signed counter.
PendingLeftSigned(cn) == cn.pending - 1
PendingLeft(cn) == (cn.pending - 1) % CounterMod

\* Which responses have their latency recorded.
ToRecord(cn) == RecordAll \/ ~cn.has_pending

\* response_complete, called by the parser of cn; sks: the sockets after the read.
ResponseComplete(c, cn, keep, failed, sks) ==
    LET errs == IF failed THEN [errors EXCEPT !.status = @ + 1] ELSE errors
        left == PendingLeft(cn)
        done == [cn EXCEPT !.complete = @ + 1, !.pending = left,
                           !.has_pending = IF left = 0 THEN FALSE ELSE @] IN
    /\ complete' = complete + 1
    /\ handed' = IF Dynamic THEN [handed EXCEPT ![c] = @ - 1] ELSE handed
    /\ \/ /\ now >= StopAt
          /\ stopping' = TRUE
          /\ conn' = [conn EXCEPT ![c] = cn] /\ sock' = sks /\ errors' = errs
          /\ UNCHANGED <<recorded, events, faults>>
       \/ /\ now < StopAt
          /\ recorded' = IF ToRecord(done) THEN Latencies(cn) ELSE recorded
          /\ UNCHANGED stopping
          /\ IF keep
             THEN /\ conn' = [conn EXCEPT ![c] = [done EXCEPT !.parser = "start"]]
                  /\ events' = IF left = 0
                               THEN CreateFileEvent(events, cn.fd, {AE_WRITABLE},
                                                    "socket_writeable", c)
                               ELSE events
                  /\ sock' = sks /\ errors' = errs /\ UNCHANGED faults
             ELSE ReconnectSocket(c, done, errs, faults)

\* errors.read and a reconnection, which leaves the parser in the phase it is in.
ReadError(c, phase) ==
    /\ ReconnectSocket(c, [conn[c] EXCEPT !.parser = phase],
                       [errors EXCEPT !.read = @ + 1], faults)
    /\ NothingRecorded

\* socket_readable parses one more piece of input.  The loop goes on while the chunk
\* or, after a full one, the socket has more; it may leave the rest for a later turn.
ParsePiece(f, c, w) ==
    LET g     == conn[c].fd
        piece == Head(sock[g].inq)
        cn    == [conn[c] EXCEPT !.parser = Feed(@, piece)]
        sks   == [sock EXCEPT ![g].inq = Tail(@)]
        more  == sks[g].inq # <<>> IN
    /\ sock[g].st = "open" /\ sock[g].inq # <<>>
    /\ \/ /\ ParseError(conn[c].parser, piece)
          /\ ReadError(c, "dead")
          /\ EndOfRead(f, c, w)
       \/ /\ EndsMessage(conn[c].parser, piece)
          /\ ResponseComplete(c, cn, KeepAlive(cn.parser), piece = "fail", sks)
          /\ \/ EndOfRead(f, c, w)
             \/ more /\ turn' = InTurn(IF KeepAlive(cn.parser) THEN "read" ELSE "tail",
                                       f, c, w)
       \/ /\ ~ParseError(conn[c].parser, piece) /\ ~EndsMessage(conn[c].parser, piece)
          /\ conn' = [conn EXCEPT ![c] = cn] /\ sock' = sks
          /\ NothingRecorded /\ UNCHANGED <<events, errors, faults>>
          /\ \/ EndOfRead(f, c, w)
             \/ more /\ turn' = InTurn("read", f, c, w)

\* A read of zero bytes: the parser is told of the end of the stream.
ReadEof(f, c, w) ==
    LET g == conn[c].fd IN
    /\ sock[g].st = "open" /\ sock[g].inq = <<>> /\ sock[g].peer = "fin"
    /\ \/ EofEndsMessage(conn[c].parser)
          /\ ResponseComplete(c, conn[c], FALSE, FALSE, sock)
       \/ EofError(conn[c].parser) /\ ReadError(c, "dead")
       \/ /\ ~EofEndsMessage(conn[c].parser) /\ ~EofError(conn[c].parser)
          /\ NothingRecorded /\ UNCHANGED <<conn, sock, events, errors, faults>>
    /\ EndOfRead(f, c, w)

ReadFails(f, c, w) ==
    LET s == sock[conn[c].fd] IN
    /\ s.st # "open" \/ (s.inq = <<>> /\ s.peer # "fin")
    /\ ReadError(c, conn[c].parser)
    /\ EndOfRead(f, c, w)

SocketReadable(f, c, w) ==
    /\ ParsePiece(f, c, w) \/ ReadEof(f, c, w) \/ ReadFails(f, c, w)
    /\ UNCHANGED delays

-----------------------------------------------------------------------------------
(* aeProcessEvents: a fired event of descriptor f.  Which fired events a poll       *)
(* returned, and in which order, is left open, and so is what the network does      *)
(* between the poll, which fixes the mask of the event, and the handling: what the  *)
(* server has sent may not have arrived by the poll.  A pass handles the event of a *)
(* descriptor once and its time events after its file events; this matters, and     *)
(* rest keeps account of it, in the last pass, the one in which the loop is stopped. *)

LoopOnly == UNCHANGED <<now, interrupted, checkDue, running>>

FileEvent(f) == rest' = IF stopping' THEN rest \ {f} ELSE rest
TimeEvent    == rest' = IF stopping' THEN {} ELSE rest

\* Whether the event of a readable descriptor fired as writable too: if it is registered
\* for that and, registered or not, after an error or a hang-up (EPOLLERR, EPOLLHUP); a
\* reset may have come after the poll.  The registration may then come from the read
\* procedure.
FiredWritable(e, s) ==
    IF AE_WRITABLE \in e.mask \/ s.st = "refused" THEN {TRUE}
    ELSE IF s.peer = "rst" THEN BOOLEAN ELSE {FALSE}

FireReadable(f) == \E w \in FiredWritable(events[f], sock[f]) :
    LET e == events[f] IN
    /\ AtPoll /\ f \in rest /\ AE_READABLE \in e.mask /\ ReadReady(sock[f])
    /\ \/ /\ e.rproc = "socket_connected"
          /\ SocketConnected(f, e.data) /\ EndOfRead(f, e.data, w)
       \/ /\ e.rproc = "socket_readable"
          /\ SocketReadable(f, e.data, w)
    /\ FileEvent(f) /\ LoopOnly

\* The do-while of socket_readable goes on.
ReadMore ==
    /\ running /\ turn.step = "read"
    /\ SocketReadable(turn.fd, turn.c, turn.w)
    /\ FileEvent(turn.fd) /\ LoopOnly

\* The rest of the chunk is parsed after a message that ended the connection.
ParseTail ==
    /\ running /\ turn.step = "tail"
    /\ ReadError(turn.c, "dead") /\ EndOfRead(turn.fd, turn.c, turn.w)
    /\ UNCHANGED delays /\ FileEvent(turn.fd) /\ LoopOnly

CallWriteProc(f) ==
    LET e == events[f] IN
    /\ \/ e.wproc = "socket_connected" /\ SocketConnected(f, e.data)
       \/ e.wproc = "socket_writeable" /\ SocketWriteable(f, e.data)
    /\ turn' = Polling
    /\ FileEvent(f) /\ LoopOnly

FireWriteable(f) ==
    /\ AtPoll /\ f \in rest /\ AE_WRITABLE \in events[f].mask /\ WriteReady(sock[f])
    /\ AE_READABLE \in events[f].mask => sock[f].st # "refused"    \* both fired
    /\ CallWriteProc(f)

FinishWriteable ==
    /\ running /\ turn.step = "write"
    /\ CallWriteProc(turn.fd)

-----------------------------------------------------------------------------------
(* The handlers of time events.                                                     *)

\* Mutants: the timer comes back; the start of the plan is forgotten.
DelayedInitialConnectAgain(c) ==
    /\ AtPoll /\ MsNow(now) >= MsNow(Epoch) + c * Stagger
    /\ ConnectSocket(c, [conn[c] EXCEPT !.thread_start = now], events, sock, errors, faults)
    /\ NothingRecorded /\ TimeEvent /\ LoopOnly /\ UNCHANGED <<delays, turn>>
DelayedInitialConnectUnplanned(c) ==
    /\ AtPoll /\ conn[c].thread_start = 0
    /\ MsNow(now) >= MsNow(Epoch) + c * Stagger
    /\ ConnectSocket(c, conn[c], events, sock, errors, faults)
    /\ NothingRecorded /\ TimeEvent /\ LoopOnly /\ UNCHANGED <<delays, turn>>

DelayedInitialConnect(c) ==
    /\ AtPoll /\ conn[c].thread_start = 0
    /\ MsNow(now) >= MsNow(Epoch) + c * Stagger
    /\ ConnectSocket(c, [conn[c] EXCEPT !.thread_start = now], events, sock, errors, faults)
    /\ NothingRecorded /\ TimeEvent /\ LoopOnly /\ UNCHANGED <<delays, turn>>

\* processTimeEvents: a timer goes on for as many milliseconds as its procedure returns,
\* or is deleted (AE_NOMORE).
AE_NOMORE == -1
TimerReturns(c, i, ms) ==
    IF ms # AE_NOMORE THEN [delays EXCEPT ![c][i] = MsNow(now) + ms]
    ELSE [delays EXCEPT ![c] = RemoveAt(@, i)]

\* aeCreateFileEvent fails, and is not checked, if the descriptor is closed.
DelayRequest(c) == \E i \in DOMAIN delays[c] :
    LET wait == UsecToNextSend(conn[c], now)
        f    == conn[c].fd IN
    /\ AtPoll /\ delays[c][i] <= MsNow(now)
    /\ conn' = [conn EXCEPT ![c] = Paced(@, now)]
    /\ \/ wait > 0 /\ delays' = TimerReturns(c, i, DelayMs(wait)) /\ UNCHANGED events
       \/ /\ wait = 0 /\ delays' = TimerReturns(c, i, AE_NOMORE)
          /\ events' = IF sock[f].st # "free"
                       THEN CreateFileEvent(events, f, {AE_WRITABLE}, "socket_writeable", c)
                       ELSE events
    /\ NothingRecorded /\ TimeEvent /\ LoopOnly
    /\ UNCHANGED <<sock, errors, faults, turn>>

TimedOut(c) == now - Timeout > conn[c].start

\* Mutants: only the signal stops the loop; stop_at is anticipated.
ShouldStopOnSignal == interrupted
ShouldStopEarly    == interrupted \/ now + TimeoutCheckMs * UsPerMs >= StopAt
ShouldStop         == interrupted \/ now >= StopAt

CheckTimeouts ==
    /\ AtPoll /\ checkDue <= MsNow(now)
    /\ errors' = [errors EXCEPT !.timeout = @ + Cardinality({c \in Conns : TimedOut(c)})]
    /\ stopping' = (stopping \/ ShouldStop)
    /\ checkDue' = MsNow(now) + TimeoutCheckMs
    /\ TimeEvent
    /\ UNCHANGED <<now, interrupted, sock, events, delays, running, turn, conn, complete,
                   recorded, handed, faults>>

\* aeMain looks at the flag between two calls of aeProcessEvents; the rest of the
\* events of the call in which it is set are still processed.
AeMainReturns ==
    /\ AtPoll /\ stopping
    /\ running' = FALSE
    /\ UNCHANGED <<now, sock, events, delays, checkDue, stopping, turn, rest, threadVars,
                   interrupted, faults>>

-----------------------------------------------------------------------------------
Tick ==
    /\ running /\ now < MaxNow
    /\ now' = now + 1
    /\ UNCHANGED <<sock, loopVars, threadVars, interrupted, faults>>

\* SIGINT: handler sets the flag.
Handler ==
    /\ running /\ "sigint" \in FaultKinds /\ ~interrupted
    /\ interrupted' = TRUE
    /\ UNCHANGED <<now, sock, loopVars, threadVars, faults>>

Terminated == ~running /\ UNCHANGED vars

NewConnection ==
    [fd |-> NoFd, parser |-> "start", written |-> 0, pending |-> 0,
     has_pending |-> FALSE, start |-> 0, actual_latency_start |-> 0,
     thread_start |-> 0, complete |-> 0, complete_at_last_batch_start |-> 0,
     caught_up |-> TRUE, catch_up_start_time |-> 0, complete_at_catch_up_start |-> 0]

Init ==
    /\ now = Epoch
    /\ sock = [f \in Fds |-> Free]
    /\ events = [f \in Fds |-> EmptyEntry("socket_connected", 0)]
    /\ delays = [c \in Conns |-> <<>>]
    /\ checkDue = MsNow(Epoch) + TimeoutCheckMs + NConns * Stagger
    /\ stopping = FALSE /\ running = TRUE /\ turn = Polling /\ rest = Fds
    /\ conn = [c \in Conns |-> NewConnection]
    /\ complete = 0
    /\ errors = [connect |-> 0, read |-> 0, write |-> 0, status |-> 0, timeout |-> 0]
    /\ recorded = [corrected |-> 0, uncorrected |-> 0]
    /\ handed = [c \in Conns |-> 0]
    /\ interrupted = FALSE
    /\ faults = MaxFaults

Loop ==
    \/ \E f \in Fds : FireReadable(f) \/ FireWriteable(f)
    \/ ReadMore \/ ParseTail \/ FinishWriteable
    \/ \E c \in Conns : DelayedInitialConnect(c) \/ DelayRequest(c)
    \/ CheckTimeouts \/ AeMainReturns

Next ==
    \/ Loop
    \/ Tick \/ Handler \/ Terminated
    \/ \E f \in Fds : running /\ Server(f)

Spec == Init /\ [][Next]_vars

\* Level-triggered readiness and due timers come back in every pass of the loop, so
\* each descriptor and each timer is served again and again; the server accepts and
\* answers, and time passes.
Fairness ==
    /\ WF_vars(Tick)
    /\ WF_vars(ReadMore) /\ WF_vars(ParseTail) /\ WF_vars(FinishWriteable)
    /\ WF_vars(CheckTimeouts) /\ WF_vars(AeMainReturns)
    /\ \A f \in Fds : /\ WF_vars(FireReadable(f)) /\ WF_vars(FireWriteable(f))
                      /\ WF_vars(running /\ Accept(f)) /\ WF_vars(running /\ Answer(f))
    /\ \A c \in Conns : WF_vars(DelayedInitialConnect(c)) /\ WF_vars(DelayRequest(c))

FairSpec == Spec /\ Fairness

-----------------------------------------------------------------------------------
SocketType == [st : {"free", "connecting", "refused", "open"}, inq : Seq(Pieces),
               peer : {"up", "fin", "rst"}, got : Nat, owed : Int, mid : BOOLEAN]

EntryType == [mask : Masks, rproc : {"socket_connected", "socket_readable"},
              wproc : {"socket_connected", "socket_writeable"}, data : Conns]

ConnType == [fd : Fds \cup {NoFd}, parser : Phases, written : Nat,
             pending : 0 .. (CounterMod - 1), has_pending : BOOLEAN, start : Nat,
             actual_latency_start : Nat, thread_start : Nat, complete : Nat,
             complete_at_last_batch_start : Nat, caught_up : BOOLEAN,
             catch_up_start_time : Nat, complete_at_catch_up_start : Nat]

ErrorsType == [connect : Nat, read : Nat, write : Nat, status : Nat, timeout : Nat]

TurnType == [step : {"poll", "read", "tail", "write"}, fd : Fds \cup {NoFd},
             c : Conns, w : BOOLEAN]

\* The type of every variable; of the code it says that c->pending keeps its width
\* and that every event and every turn belongs to a connection of the thread.
TypeOK ==
    /\ now \in Nat
    /\ sock \in [Fds -> SocketType]
    /\ events \in [Fds -> EntryType]
    /\ delays \in [Conns -> Seq(Nat)]
    /\ checkDue \in Nat
    /\ stopping \in BOOLEAN /\ running \in BOOLEAN
    /\ turn \in TurnType
    /\ rest \subseteq Fds
    /\ conn \in [Conns -> ConnType]
    /\ complete \in Nat
    /\ errors \in ErrorsType
    /\ recorded \in [corrected : Int, uncorrected : Int]
    /\ handed \in [Conns -> Int]
    /\ interrupted \in BOOLEAN
    /\ faults \in Nat

\* Requests of the socket's client that it has not read the response of: those the
\* server owes an answer and those whose answer is on its way.
Unread(q) == {i \in DOMAIN q : q[i] \notin {"part", "junk"}}
OnTheWire(s) == s.owed + Cardinality(Unread(s.inq))

Connected(c) == conn[c].fd # NoFd /\ sock[conn[c].fd].st # "free"

\* The latency recorded for a response is never negative: response_complete calls a
\* negative one something that "wil never ever ever happen" and hdr_record_value
\* would abort on it.  Holds whatever the server and the network do.
RecordedNonNegative == recorded.corrected >= 0

\* The corrected latency is never below the uncorrected one: counting from the plan
\* only ever adds the time a request was late, it never gifts any.
RecordedSound == 0 <= recorded.uncorrected /\ recorded.uncorrected <= recorded.corrected

\* Why both hold: the planned start of the last batch of a connection is not after
\* the moment the batch was really begun, through delays, catching up, retries of
\* the write and reconnections.
PlannedFirst(cn) ==
    /\ ExpectedLatencyStart(cn) <= now
    /\ cn.actual_latency_start # 0 =>
         /\ ExpectedLatencyStart(cn) <= cn.actual_latency_start
         /\ cn.actual_latency_start <= now

PlannedBeforeActual == \A c \in Conns : PlannedFirst(conn[c])

\* Nothing of a connection is registered, no timer of it is armed and none of its
\* handlers runs before delayed_initial_connect has set the start of its plan and
\* got it a first socket.
Dialled(cn) == cn.thread_start # 0 /\ cn.fd \in Fds

DialledFirst ==
    /\ \A f \in Fds : events[f].mask # {} => Dialled(conn[events[f].data])
    /\ \A c \in Conns : delays[c] # <<>> => Dialled(conn[c])
    /\ turn.step # "poll" => Dialled(conn[turn.c]) /\ turn.fd \in Fds
    /\ turn.step = "write" => AE_WRITABLE \in events[turn.fd].mask
    /\ \A c \in Conns : conn[c].thread_start = 0 =>
         /\ conn[c].complete_at_last_batch_start = 0
         /\ conn[c].actual_latency_start = 0

\* A connection is serial: on no socket are there more requests without a read
\* response than one batch.
SerialCycle == \A f \in Fds : OnTheWire(sock[f]) <= Pipeline

\* request() is called for a connection only when response() has been called for all
\* requests it returned before.
RequestThenResponse == \A c \in Conns : handed[c] \in 0 .. Pipeline

\* A connection that is behind catches up at no more than twice its throughput: of the
\* responses since it fell behind, those of all but the last batch needed their time.
CatchUpRate ==
    \A c \in Conns : LET cn == conn[c]
                         since == cn.complete - cn.complete_at_catch_up_start IN
        (~cn.caught_up /\ since >= Pipeline) =>
            cn.catch_up_start_time + CatchUpOffset(since - Pipeline) <= now

\* No wakeup is lost: a connection that has a socket and waits for no response has
\* either a delay_request timer or the writable event of its socket to go on with.
IdleHasWakeup ==
    \A c \in Conns : (Connected(c) /\ ~conn[c].has_pending) =>
        delays[c] # <<>> \/ AE_WRITABLE \in events[conn[c].fd].mask

\* ... and never two of them, which could start two batches.
OneWakeup ==
    \A c \in Conns : Connected(c) =>
        LET e == events[conn[c].fd] IN
        Len(delays[c]) + (IF AE_WRITABLE \in e.mask THEN 1 ELSE 0) <= 1

\* c->pending is the number of responses the connection will still get, at every
\* moment between two events until the thread stops, so it cannot run below zero.
PendingIsOutstanding ==
    \A c \in Conns : LET cn == conn[c] IN
        (AtPoll /\ ~stopping /\ Connected(c) /\ cn.written = 0
           /\ events[cn.fd].rproc = "socket_readable") =>
              cn.pending = OnTheWire(sock[cn.fd])
                             + (IF cn.parser = "eof_body" THEN 1 ELSE 0)

\* The loop has no event on a descriptor that is closed, ...
NoEventOnClosedSocket ==
    \A f \in Fds : sock[f].st = "free" => events[f].mask = {}

\* ... and the handler of a descriptor gets the connection the descriptor belongs to.
HandlerOwnsSocket ==
    \A f \in Fds : events[f].mask # {} => conn[events[f].data].fd = f

\* The thread leaves its loop only after stop_at or a signal.
StopsForAReason == ~running => (now >= StopAt \/ interrupted)

\* The thread always leaves its loop: check_timeouts sees stop_at or the signal, even
\* if the server never answers.
Stops == <>~running

\* A batch that was begun gets its responses.
Answered == \A c \in Conns : conn[c].pending > 0 ~> (conn[c].pending = 0 \/ ~running)

\* A connection that waits for no response begins its next batch, once the batch is
\* due by the plan and, while it catches up, by the catch-up rate.  The clock of the
\* model stops at MaxNow, so the property speaks of batches whose timer (which may be
\* one millisecond late) can still fire.
KeepsSending ==
    \A c \in Conns :
        (/\ conn[c].thread_start # 0 /\ conn[c].pending = 0
         /\ PlannedStart(conn[c]) + UsPerMs <= MaxNow
         /\ ~conn[c].caught_up => CatchUpStart(conn[c]) + UsPerMs <= MaxNow)
            ~> (conn[c].pending > 0 \/ ~running)

\* The abstract specification: complete, pending and the batch fields of a connection
\* are the served, outstanding, base and sent of its plan.
Plan == INSTANCE OpenLoop WITH
    Batch <- Pipeline, Offset <- PlannedOffset,
    clock <- now, sample <- recorded,
    opened <- [c \in Conns |-> conn[c].thread_start],
    served <- [c \in Conns |-> conn[c].complete],
    outstanding <- [c \in Conns |-> conn[c].pending],
    base <- [c \in Conns |-> conn[c].complete_at_last_batch_start],
    sent <- [c \in Conns |-> conn[c].actual_latency_start]

\* While the server answers every request once, the connections of the thread, with
\* their timers, events and sockets, follow the plan and measure from it.
FollowsPlan == Plan!Spec
===================================================================================
