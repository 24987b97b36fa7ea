# A TLA+ verification project for wrk2

wrk2 is an HTTP load generator. Each of its connections has a *plan*: request number
n is due n / throughput after the connection's first connect. The latency of a response
counts from the planned start of its request and not from the moment it was sent, so
that a slow server cannot hide its slowness by slowing the generator down ("coordinated
omission", README.md of the repository, from line 294). Threads run connections on an
event loop; every step of a connection is a callback. The project models this core, the
event loop it depends on, the parser of the responses, the histograms the result ends up
in, and the Lua programs that make a connection's requests depend on its responses.

Paths below are those of the repository; `file:line` refers to its sources.

## 1. Inventory

| Component | State | Operations | What makes it correct |
|---|---|---|---|
| Pacing (`src/wrk.c:434-483`) | `thread_start`, `complete`, `caught_up`, `catch_up_start_time`, `complete_at_catch_up_start` of a connection | `usec_to_next_send`, `delay_request` | nothing is sent before it is due; a connection that is behind catches up at twice its rate and no faster |
| Connections (`src/wrk.c:299-343`, `485-674`) | socket, parser, `written`, `pending`, `has_pending`, `start`, `actual_latency_start`, `complete_at_last_batch_start` | `connect_socket`, `reconnect_socket`, `delayed_initial_connect`, `socket_connected`, `socket_writeable`, `socket_readable`, `response_complete` | one batch at a time; no wakeup lost; no latency negative or shorter than the real one; descriptors, registrations and connections stay together |
| Thread (`src/wrk.c:250-297`, `345-406`) | `complete`, `errors`, `requests`, `stop_at`, histograms | `thread_main`, `check_timeouts`, `calibrate`, `sample_rate`, the SIGINT `handler` | the thread ends, for a reason; the errors mean what they say |
| Event loop, files (`src/ae.c:63-141`, `322-387`, `src/ae_epoll.c`) | `events[fd]`: mask, two procedures, one clientData; `stop` | create, delete, poll, call | handlers run only for registered conditions, with the entry as it is at that moment |
| Event loop, timers (`src/ae.c:150-364`) | list of time events, `timeEventNextId`, `lastTime` | create, delete, find the nearest, walk | what is due is called, not before it is due, and in time; a walk ends |
| Response parser (`src/http_parser.c`, callbacks `src/wrk.c:408-432`, `562-572`) | state, header state, flags, length, status, version, `nread`, marks; `headers`, `body` and `state` of the connection | `http_parser_execute`, `http_should_keep_alive`, `header_field`, `header_value`, `response_body` | messages end where they end, however reads cut them; connections to be closed are closed; `response()` gets what was sent |
| Histogram (`src/hdr_histogram.c`) | counters, `total_count` | record, add, reset, iterate, percentile, min, max, mean | no value is lost; reports keep the digits asked for |
| Shared statistics (`src/stats.c`, `src/wrk.c:392-406`) | min, max, histogram of rates; `statistics.mutex` | `stats_record` | no sample is lost |
| main (`src/wrk.c:77-248`) | totals | create and join threads, add up, print | the total is that of all threads, after calibration |
| Lua bindings (`src/script.c`, `src/wrk.lua`) | one Lua state for each thread | `request`, `response`, set-up of threads, value transfer between states | request and response alternate; transferred values arrive whole |
| Flow executors (`workdir/`) | recorded iterations; `conn_state` and counters of each thread's Lua state | `setup`, `init`, `request`, `response`, `done` | an answer counts for the step it answers; a step uses outputs of its own run; the counters add up, though connections interleave and requests fail |
| TLS (`src/ssl.c`), command line, units, printing, zmalloc, tinymt64, LuaJIT (`deps/`) | | | |

**Interaction.** `main` creates the threads and waits for them. A thread's loop calls the
handlers of its connections; the handlers change the loop (registrations and time events)
that calls them. The parser, called by `socket_readable`, calls `response_complete`, which
may reconnect the socket or register it while the parser and the loop are still at work on
it. Threads share `statistics` (under a mutex), the flag of the SIGINT handler, and the
configuration. `main` reads the histograms of a thread after it has joined it.

**What is hard.** Callbacks that pull the ground from under their caller (a socket closed
and reopened under the same descriptor between the readable and the writable half of one
event, or in the middle of a chunk of input). State kept in three places: the registration,
the timers and the connection. Timers that outlive what they were set for. Servers that
answer in parts, early, twice or not at all, and close or reset at any time. Arithmetic
with truncated milliseconds. A list that changes while it is walked. `PROJECT.json` lists
the hazards line by line with the properties that cover them.

## 2. Modules

| Module | What it is |
|---|---|
| `Pacing` | operators: the plan, `usec_to_next_send`, the delay of a timer |
| `AeFileEvents` | operators: the table of file events |
| `HttpResponse` | operators: what a piece of input does to the parser, in phases |
| `WrkThread` | one thread: connections, loop, clock, kernel and server; its properties |
| `OpenLoop` | abstract specification: what the generator promises of each connection |
| `MCWrkThread` | the instances of `WrkThread` for TLC |
| `WrkThreadProofs`, `CycleProofs` | theorems about `WrkThread`: types, plans, sockets, registrations and the end of the loop; the cycle of a connection and the refinement of `OpenLoop` |
| `AeTimers`, `AeTimersProofs` | the list of time events, its walk and the timeout of the poll; theorems about them |
| `HttpParser` | the parser of one connection byte by byte, the callbacks it calls, the buffers for `response()`, the server's end of the socket |
| `ResponsePhases` | abstract specification: what `WrkThread` relies on of the parser |
| `HttpMessage` | operators: what the bytes of one response say to a reader that has them all, with no reads, callbacks or buffers; what `HttpParser` is compared with |
| `MCHttpParser` | responses and faults for TLC |
| `HttpParserProofs`, `ResponseProofs` | theorems about `HttpParser`: the machine and its phases; that it ends each message where the message ends and hands `response()` what the message says |
| `HdrHistogram` | operators: the histogram |
| `Measurement`, `MCMeasurement` | threads that record, calibrate, sample and end, main that joins and adds up; its instance |
| `SumProofs`, `MeasurementProofs` | theorems about sums over finite sets; the histogram and `Measurement` |
| `FlowExecutor` | the Lua states of the threads: connections that walk recorded iterations, retries, failures, `done()` |
| `MCFlowExecutor`, `FlowExecutorProofs` | recordings and options for TLC; theorems about `FlowExecutor` |
| `ScriptValues`, `MCScriptValues` | `script_copy_value` on the stacks of two Lua states; its instance |

**How they fit together.** `WrkThread` extends `Pacing`, `AeFileEvents` and `HttpResponse`,
and `WrkThread!FollowsPlan` is `OpenLoop` instantiated with its variables. The other modules
are views of the same program at other scales, and each shows what its neighbour takes for
granted:

- `WrkThread` feeds its parser pieces of input by the phases of `HttpResponse`.
  `ResponsePhases` is the specification made of these operators, and
  `HttpParser!RefinesPhases` is that the state machine of `http_parser.c` implements it.
- `WrkThread` has its time events fire at any moment after they are due, which is what
  `AeTimers` shows of the list (`NeverEarly`, `DueGetsCalled`; it may take most of a second,
  see section 6).
- `Measurement` (extending `HdrHistogram`) has its threads end, which is `WrkThread!Stops`.
- `FlowExecutor` has requests and responses of one connection alternate, which is
  `WrkThread!RequestThenResponse`, and calls `request()` again for a first write that would
  block and for a new socket, as `WrkThread` does.

Definitions that are marked *mutant* stand next to the one they differ from. They are used
by no specification: putting one in the place of the other is a way to see a property fail.

### WrkThread and the code

One action is one callback, with everything it calls: `SocketConnected`, `WaitToSend` and
`Send` (the two ends of `socket_writeable`), `DelayedInitialConnect`, `DelayRequest`,
`CheckTimeouts`. `socket_readable` is cut into one action for each piece of input, because
the state of the socket between the pieces matters: `FireReadable` starts it, `ReadMore`
goes on, and `ParseTail` parses what follows a message that ended the connection in the
same chunk. `turn` says where inside a fired event the loop is. `FinishWriteable` is the
writable half after the readable half, with the table of events as the readable half left
it (`ae.c:381-384`).

- *Readiness.* The loop is level-triggered. A poll's batch is left open, and so is what
  arrives between the poll, which fixes the mask of an event, and its handling: an event may
  have fired as writable only although the socket has something to read by now, or was reset.
  An error or a hang-up fires an event as writable whether or not it is registered so
  (`ae_epoll.c:119-120`, `FiredWritable`), and then the procedure that the readable half has
  just registered runs in the same event. An open socket is always writable; a full buffer is
  the fault `again`, in the write itself. `rest` is needed in the last pass only: once the loop
  is told to stop, the events of that pass are handled, each descriptor once, and nothing
  after the time events.
- *Time.* `now` is `time_us()` in ticks; it stands still inside a callback and moves
  between callbacks as it likes, so a server, or the generator itself, may be as slow as it
  likes. `aeGetTime` truncates it to milliseconds (`MsNow`). The clock is taken not to be
  set while `WrkThread` runs (`AeTimers` treats that). Quotients of doubles that the code
  truncates to `uint64_t` are integer divisions of a rational throughput.
- *Server and network* (external). A socket has what the server sent (`inq`), what it got of
  the current request string (`got`) and what it still owes (`owed`). The server answers
  whole or in parts, keeps or closes; what else can happen is the set of `FaultKinds`, each
  use of which costs one of `MaxFaults`.
- *Descriptors.* A new socket gets any free descriptor: the kernel gives out the lowest of
  the process, and other threads hold descriptors too.
- *Data left out.* Contents of requests and responses (`HttpParser` has those of
  responses); `thread->bytes`; the `latest_*` fields (printed only). `request()` and
  `response()` are counted (`handed`). A TLS `RETRY` of connect or read changes nothing;
  of write it is the fault `again`, as is `EAGAIN`.
- `recorded` holds the latencies last recorded; what becomes of them is `Measurement`.

### AeTimers and the code

`Sleep` is the first half of `aeProcessEvents`, with the subtraction in two parts that
`ae.c:348-356` does; the poll then ends by its timeout or by file events (`TimesOut`,
`FilesReady`). `BeginTimeEvents`, `PassOver`, `CallTimeProc` and `EndTimeEvents` are
`processTimeEvents`, one action per event looked at, with the clock free to move, and to be
set, in between. A procedure may create an event and return any wait or `AE_NOMORE`, as
the procedures of `wrk.c` do. Events may be created with a wait of 0, as the one for the
first connection is (`wrk.c:281`); the waits that procedures return are at least 1
(`delay_request` rounds up, the others are constants or at least 10). `due`, `owed`, `called`
and `born` are history: the moment asked for, what a pass has to call, what it has called,
and the events created since it began.

### HttpParser and the code

An action is one turn of the loop of `http_parser_execute`: it looks at one symbol in one
state, with the cases of the switch in the order of the code, and consumes none (the
`REEXECUTE` macro), one, or as many as a body has. A symbol is a byte, or half a word where
the code matches a word byte by byte (`con` `tent-length`), so that a read can end within
every name, value, number, line end and body. `Read` hands over any number of symbols from
the socket; `EndOfInput` is what the function does with the mark that is left; `Unparsed`
is `socket_readable` when fewer bytes were parsed than given; `ReadEof` is the call with
length 0.

- *Limits.* `Counted` is the count of header bytes (`nread`), which is capped, since only
  whether it is 1 makes a difference here; the header limit itself (80 KiB) is not reached.
  Numbers have their width: `UMax` stands for `ULLONG_MAX`, and the tests against overflow
  are made with its value.
- *Callbacks.* `OnHeaderField`, `OnHeaderValue`, `OnBody` and `BufferAppend` are the
  buffers of `wrk.c` and `script.c`, with what lies behind the cursor left from the last
  response; `Pairs` and `Table` are what `script_response` makes of them. `got` is what
  `response()` was called with, on the present socket.
- *Server* (external). It sends whole responses, any number before the first is read, and
  once the run's fault: a response that is cut off or spoilt, garbage, or a reset or close
  between two responses.

### FlowExecutor, ScriptValues and the code

`FlowExecutor` is version 3.0 of the flow executor. `Send` is `request()` as
`socket_writeable` calls it, the three attempts of `request_with_retries` included; `Answer`
is `response()`; `SetUp` makes the Lua state of a thread while earlier threads run, and calls
`request()` once in the first one, as `script_verify_request` does; `Done` is `done()` after
the joins. `SendAgain` and `Reset` are the two ways `WrkThread` has of giving up a request.
A step of a recording is its name, the outputs it refers to and whether its body can be
encoded; values are the run and step they come from. `wire`, `answered` and `lost` are
history. An error in the script ends the process (`exited`).

`ScriptValues` has the two Lua stacks as sequences and negative indices as the C API has
them; `calls` is the recursion of `script_copy_value`, one action per call, push or pop.

### HdrHistogram, Measurement and the code

The constants of `hdr_init` are definitions. Visits of counters that are zero change nothing,
and only the others are looked at. `sub_bucket_mask` and the width of a range are shifts of
an int in the code, so they wrap at `IntBits` (8 in the run, where values have 7 bits). In
`Measurement`, `stats_record` takes two steps inside
the lock, so that a missing lock would show; `kept` and `samples` are history. The rate of
a sample is an operator of the number of requests (`RateOf`). The uncorrected histogram is
recorded, emptied and added beside the corrected one and is left out.

## 3. Runs

All `WrkThread` runs have a tick of half a millisecond (`UsPerMs = 2`) and a plan of one
request in one and a half milliseconds or in one, so that waits are no multiples of what a
timer can do. A clock of 9 to 12 ticks then spans several requests of a connection: on the
plan, behind it, catching up and back on it; runs that are about faults or the end of the
thread have a shorter one. `StopAt` lies before `MaxNow` (but in `live`), so that the end
of the thread is part of the runs and TLC checks that nothing gets stuck before.

| Run | Instance | What it shows |
|---|---|---|
| `serving` | 1 connection, a server of any slowness that answers whole or in parts, closes connections and delimits bodies by closing | `CatchUpRate`, `OneWakeup`, `RequestThenResponse`; the connection implements `OpenLoop` (`FollowsPlan`), also across the reconnections that happen in the middle of parsing |
| `two_connections` | 2 connections, 2 descriptors, a reset at any time | `NoEventOnClosedSocket`, `HandlerOwnsSocket`, `IdleHasWakeup`: descriptors change hands without a stale registration |
| `faults` | all ten fault kinds, two of them in a run, in any order, SIGINT, fair | `TypeOK`, `RecordedNonNegative`, `PlannedBeforeActual`, `DialledFirst`, `StopsForAReason`, and `Stops`: the thread leaves its loop even if an answer never comes |
| `live` | 2 requests per string, written in pieces, latencies per batch (`-B`), fair server and loop | `PendingIsOutstanding` (so `c->pending` cannot run below zero), `RecordedSound` (no latency is gifted time), `Answered`, `KeepsSending` |
| `timers` | 3 events, a second of 2 ms, the clock set once | the walk of the list: `TypeOK` (the walk never stands on a deleted event), `NeverEarly`, `NewWaitsForNextPass`, `DueIsCalled`, `OversleepsUnderASecond`, `DueGetsCalled` |
| `responses` | 2 responses of 9 kinds, reads cut everywhere, one fault | `ResponsesAsSent`: `response()` gets each message once, in order, whole; `NoResponseAwaited`: no connection is left waiting; `RedialsAsAnnounced`, `LengthIsDeclared`, `AssertsHold`, `TypeOK`; the parser implements the phases (`RefinesPhases`) |
| `flow` | 3 iterations, 7 modes: 1 thread with 2 connections, 2 threads with 3, both reuse modes, both failure modes, every second response logged | `AnswerIsRecordedForItsRequest`, `UsesItsOwnRun`, `StepsInOrder`, `CountsAddUp`, `Exhausts` |
| `measurement` | 2 threads, 3 responses, 2 samples, one significant digit | `ReportIsPrecise`, `MergeLosesNothing`, `IterationsEnd`, `SamplesAddUp`, `AllJoined`; the assumption `IndexesSound` of the MC module compares every value a histogram can count with its range |
| `stale_timer`, `oversleep`, `stale_buffers`, `transfer` | small, one property each | violated: section 6 |

The safety properties of these runs, and both refinements, are theorems too (section 4), but
for three of `responses`; the instances satisfy the hypotheses of those that have some.

**Bounds.** One connection is enough where a property is about one connection: connections
share nothing but descriptors, the loop and counters, and `two_connections` has two of them
for the properties about that. Two requests per batch and two pieces per write are the
least numbers with a first, a last and something between. `CounterMod` is 8 and not 2^64:
`pending` never exceeds 2 in a right program and a counter that runs below zero wraps all
the same. Two faults show each pair of faults in each order. In `timers`, three events are
one to call, one created under it and one behind; a second of two milliseconds makes most
additions carry and most subtractions borrow. In `measurement`, the latencies are ends of
the ranges of three buckets.

In `responses`, numbers have two digits in base 2 and `ULLONG_MAX` is 7, so that a third
digit meets the test against overflow; the nine kinds are chosen so that every state and
every way out of it is taken: bodies by length, of length 0, chunked with an extension and a
trailer, absent by status, until the end of the stream; `Connection` as the second of a list
in a folded line; both versions with and without keep-alive; a switch of protocols; names
that only begin like those the parser knows. A second response shows what the first one
leaves behind.

In `flow`, the first iteration has three steps with references to one and two steps back and
a name that is used twice, so that an output is replaced within a run; the second cannot be
encoded and the third refers to what was never answered, so that retries skip over both. Four
iterations started per thread wrap around the recording; one request may be lost, before or
after an idle one.

`live` is checked without deadlock checking, and its thread does not stop: the clock ends at
`MaxNow`, before `StopAt`, and then all is quiet; `KeepsSending` speaks of batches that come
due before that. `measurement` ends with the report.

**Fairness.** In `WrkThread`, the loop comes back to every descriptor that stays ready and to
every timer that is due, since readiness is level-triggered and `DueGetsCalled` holds: weak
fairness of each descriptor's and each timer's action. Time passes. The server accepts and
answers (needed by `Answered` and `KeepsSending` alone; `Stops` does not depend on it, as
`CheckTimeouts` does not). No fault and no signal has to happen, and no choice among the
outcomes of an action is fair. In `Measurement` a thread's end is fair because of `Stops`,
and the system schedules a thread that is not waiting. In `FlowExecutor`, weak fairness of
`SetUp` (main goes on), of `Send` for each connection (`KeepsSending`) and of `Answer` for
each connection (what is not lost is answered); none of `Stop`, `Reset` and `SendAgain`, and
none for a good answer: `Exhausts` holds also if every answer is a failure.

## 4. Theorems

TLAPS proves these for every value of the constants that the named assumptions allow. Each
argument is one inductive invariant: it holds initially, every action preserves it (one lemma
per action, and lemmas for the operators the actions are made of), and it implies the
property. None of the properties is inductive alone.

**`WrkThreadProofs`**, under `PacingAssumption` and `ThreadAssumption` (rates and batches are
positive, `Pipeline` fits the counter, 0 is no descriptor, the clock does not start at 0):
for every number of connections and descriptors, every rate, pipeline depth, string length,
and all answers and faults,

- `TypeCorrect`: `Spec => []TypeOK`.
- `NothingBeforeDial`: `Spec => []DialledFirst`. No registration, timer or running handler
  belongs to a connection whose plan has not begun.
- `PlanPrecedesSend`: `Spec => []PlannedBeforeActual`. The planned start of the last batch
  is not after its real start, nor in the future, through retries, catching up and
  reconnections.
- `LatencyNeverNegative`: `Spec => []RecordedNonNegative`. What `wrk.c:522` calls something
  that "wil never ever ever happen" does not happen, whatever the server does.

The invariant `IInv` is the four formulas and `now # 0`. A recorded latency is not negative
because the planned start is not in the future (`PlannedBeforeActual`); the planned start
stays in the past because `socket_writeable` begins a batch only if `usec_to_next_send` says
so, which looks at `thread_start`; that is set before any handler runs because no event
exists before (`DialledFirst`), and it is set to a moment that is not 0, the value that
stands for "not yet" (`now # 0`). What `ConnectSocket` and `ReconnectSocket` preserve is
proved once and cited by all that call them.

About the sockets, under the same assumptions:

- `NothingOnClosed`: `Spec => []NoEventOnClosedSocket`, and `HandlersOwn`:
  `Spec => []HandlerOwnsSocket`. The invariant `OwnerInv` is `IInv` and `Owned`: a
  descriptor with a registration is open and is the `c->fd` of the connection the handlers
  get. It holds across `reconnect_socket` because all that is registered for a connection
  is registered for its `c->fd`, which is deleted before it is closed; across the first
  connect because nothing is registered before it (`DialledFirst`). It allows what does
  happen: a connection whose connect failed keeps the number of a closed descriptor, which
  another connection may get; its timer then takes the registration over.
- `ReasonToStop`: `Spec => []StopsForAReason`, through every path that sets the flag.

**`CycleProofs`**, under the same assumptions and `Reliable`: the only faults are failed TLS
handshakes and a SIGINT, and either one request is out at a time or no answer closes its
connection. For every number of connections, rate, pipeline depth, string length and
chunking, and a server of any slowness,

- `FollowsThePlan`: `Spec => FollowsPlan`, the refinement of `OpenLoop`;
- `CatchesUpAtTheRate` (`CatchUpRate`), `WakeupNeverLost` (`IdleHasWakeup`),
  `WakeupNeverDoubled` (`OneWakeup`), `ScriptTakesTurns` (`RequestThenResponse`),
  `PendingCountsTheWire` (`PendingIsOutstanding`), `CorrectionOnlyAdds` (`RecordedSound`).

The invariant `CycleInv` is `OwnerInv`, what the loop may be doing (`Reading`), and for each
connection that it is in one of six stages (`Undialled`, `Dialling`, `Idle`, `Writing`,
`Awaiting`, `Stopped`) and that its counters fit (`Pace`). A stage says at once what the
connection, its registration, its timers and its socket hold: `Idle` has exactly one of the
two wakeups, `Awaiting` has as many answers on the wire as `c->pending` says, the one that
closes the connection last. No property can be had alone, because each link of the cycle
relies on the one before: that there is one wakeup on that all answers were read, this on
that `c->pending` counts the wire, this on that a batch is begun only when idle. The
hypothesis is not for convenience: with the other faults the properties are false, or need
not hold for reasons that section 6 gives, and the runs show each (`stale_timer`, *Known
limits*). It covers the runs `serving` and `live`. In the refinement, a step of the thread is a
step of one connection of `OpenLoop` or a stutter, by cases of the stage before.

For servers and networks of any kind, `IdleHasWakeup` is proved under `WholeWrites`: each
write takes a whole request string, and no `connect` fails at once.

- `WakeupOutlivesFaults` (`IdleHasWakeup`), which covers the run `two_connections` and all
  other faults. The invariant `WakeInv` asks for at least one wakeup and not for exactly one,
  so it holds with timers that outlive their sockets: a connection with a descriptor is
  registered as readable there, and has responses to come, a timer, or the writable event.
  Both hypotheses are needed (section 6): with a string that is written in pieces, a response
  may complete the batch between them.

**`AeTimersProofs`**, under `TimersAssumption`, for every length of a second, every list and
every interleaving of clock, procedures, creations and deletions:

- `TypeCorrect` (the walk never stands on a deleted event), `NewWaits`
  (`NewWaitsForNextPass`), `WalkCallsDue` (`DueIsCalled`), `PollIsBounded`
  (`OversleepsUnderASecond`), `NoneEarly` (`NeverEarly`, an action property).
  `NewWaitsForNextPass` compares what the walk called with what was created during it, not
  identifiers with `maxId`: that `maxId` is below all of the latter is part of the invariant.
  `NeverEarly` has one exception, which the code wants (`ae.c:255-259`): events that a pass
  made due at once because it saw the clock set back. Without a set clock there is none.

The invariant `Ind` has four parts: the clock and the counters; the list (identifiers are
distinct and below `nextId`, moments are normalised and, unless an event was made due by a
clock that went back, agree with what was asked for); the walk (whatever has still to be
called stands at the present event or behind it); and the poll (how long the timeout may be,
by the arithmetic of the borrow). Lemmas about deleting, adding and re-arming say which
events stay and where.

**`HttpParserProofs`**, under `DigitsAssumption` (two bases below a width) and
`RepliesAssumption`, for every set of responses and garbage, every base and width, every
size of a read:

- `TypeCorrect`; `LengthsDeclared` (`LengthIsDeclared`): a length that is being read never
  takes the value that stands for none; `AssertionsHold` (`AssertsHold`): no assertion of
  `http_parser_execute` fails, for any input.
- `ParserKeepsPhases`: `Spec => RefinesPhases`, the refinement of `ResponsePhases`.

The invariant says which flags, counts, lengths and header states go with each state of the
machine (a chunk state has its flag, a counted body has something left), and which mark may
be set in it. For the refinement, `PhaseInv` adds that after an error the connection is
dialled again before anything is parsed, that only a message without any other end is ended
by the end of the stream, and that what is parsed of a connection that was given up is what
follows its last message. A turn of the loop is then a stutter but where the phase changes.

**`ResponseProofs`**, under the assumptions of `HttpMessage` as well, for every set of
messages, however reads cut them, and with the faults of the runs:

- `NothingAwaited`: `Spec => []NoResponseAwaited`. When everything that was sent is read, no
  connection waits for a response that came, unless the server's last one was not finished.
- `RedialledAsAnnounced` (`RedialsAsAnnounced`): the connection is dialled again after a
  response if and only if that response let the server close it.
- `AnsweredAsSent`: `Spec => []ResponsesAsSent`. As long as no response is cut off (nor
  garbage sent that begins like one), `response()` is called once for each, in order, with its status, headers and body: where the
  reads cut names, values and bodies, and what earlier responses left in the buffers, makes no
  difference.

`MessagesAssumption` says that the server sends messages: `HttpMessage!After` reads one symbol
and has no memory but the state, the flags, the length, the status and the version; a reply
ends, for this reader, with its last symbol or with the stream, and lets the connection be
kept exactly if the server keeps it; what takes the place of a reply that is not finished, and
garbage, end no message. It is an assumption about the server alone, and TLC evaluates it for
the replies of the runs. The proof then has two halves. One step of the parser against one
symbol: a turn of the loop takes the parser to where `After` takes the reader, or leaves both,
and the turns that consume many symbols (a body) or none (REEXECUTE) are shown to be as many
steps of the reader (`Sees`, `Follows`). And the stream against the words: `Framing` says that
there is a way to cut what was sent on the present socket into words, one for each reply, that
what is unread is the end of their concatenation (`Words`, `Unread`, `WordsSent`), that
`completed` words are over, and that the parser is where a reader that began with the present
word alone would be (`Reading`). What the runs call a message that is cut anywhere is in this
form a statement about every position in a word. The invariant is needed as a whole: that no
response is awaited depends on that the parser finds the end of each message, which depends on
where it found the last one.

For the text, `HttpMessage!Texts` says what the symbols of one response tell: names and values
with NUL between them, which of the two was last, and the octets of the body. `MeaningAssumption`
says that a reply means what `script_response` makes of that text in buffers nothing was in
before: the theorem is thus that every response is handed over as it would be alone and in one
piece. The assumption also leaves out a response without any header, for which the code does
not call `response()` on a connection that never saw one (`response_complete` asks whether the
buffer was ever allocated). TLC compares it with the headers and bodies written down for the
replies of the runs. `View` is what has been told up to now, the contents of the buffers with
what a mark holds back; each turn and each callback moves it as `TextAfter` moves the text of
the reader (`Told`), whether a piece comes through a mark that was reset, at the end of a read,
or as a length of body. `Buffered` ties the mark to the state of the machine, and `Answered`
says that nothing told is left over when a message ends; without it the next one would begin
with foreign text, which is what `stale_buffers` shows after a reset. What lies in a buffer
behind its cursor does not matter because the pairs end with the text (`Parts`): each name has
its value, an empty one included, as the assumption says of a reply.

**`FlowExecutorProofs`**, under `IterationsAssumption`, for every recording, every set of
modes and any number of threads, connections and losses:

- `RecordedForItsRequest` (`AnswerIsRecordedForItsRequest`), `OwnRun` (`UsesItsOwnRun`),
  `InOrder` (`StepsInOrder`), `CountsAlwaysAddUp` (`CountsAddUp`).

The invariant relates, for each connection, the entry of `conn_state`, the request on the
wire and the last answer: the entry is consistent (`Sound`), the last answer is that of the
step before (`Follows`), and the wire carries what the entry says was requested (`Carries`).
The retries are three uses of one lemma. For the counters, `CountInd` says what a thread's
counters are worth (`Books`: in each Lua state every iteration that was started is completed,
failed or under way, and over all of them what was requested is answered, lost, on the wire
or the one request of `script_verify_request`), and that what `done()` reported is the sum
over the threads, which no longer changes.

**`SumProofs`, and the histogram in `MeasurementProofs`.** Sums over finite sets, which the model
writes with the
fold of the community modules, are there shown to be the number of elements of a set of
pairs, so that one summand can be taken out, changed or added without an induction over the
fold. Likewise 2^n is the number of subsets of 1..n. With these,

- `CountersPartition`: `FitsInts => RangesPartition`. Every value has one counter, whose
  range holds it, and the ranges lie one behind the other in the order of the indexes.
  `FitsInts` says that no shift leaves its integer: values stay below 2^62, and
  `sub_bucket_mask` and the width of a range, which are shifts of an int
  (`hdr_histogram.c:93,146`), below 2^(`IntBits`-1). wrk's `hdr_init(1, MAX_LATENCY, 3)` has
  unit magnitude 0 and 27 buckets of 2048 sub-buckets, so it shifts by at most 27 of 31.

**`MeasurementProofs`**, under `MeasurementAssumption`, for any number of threads, any
latencies and rates and any interleaving:

- `NoSampleLost`: `Spec => []SamplesAddUp`. The invariant `Ind` ties the mutex to the step a
  thread is at, and the total that the thread read to the total that is there.
- Under `FitsInts`: `IterationsAlwaysEnd` (`IterationsEnd`), `NothingLostInTheTotal`
  (`MergeLosesNothing`); with the lowest value 1, as `wrk.c` has it, `ReportAlwaysPrecise`
  (`ReportIsPrecise`). The invariant `CountInd` says that the counters of a histogram count
  what was kept; that they add up to its `total_count`, and in the shared histogram to one more
  than it while a thread is between the two writes of `hdr_record_value` (`counts`, then
  `total_count`); and that main's histogram is the sum of those of the threads it has come to.
  `hdr_iter_next` ends because the counters it passes add up to `total_count`, which is what it
  waits for; a percentile is precise because the counter where it stops holds the value of that
  rank and the range of a counter is no wider than the digits allow.

Before it was proved, each invariant was checked by TLC on instances like those of the runs
(`CycleInv` on three, with up to 9.9 million states, `PhaseInv` with 5.7 million, `WakeInv` with
1.2 million, the `CountInd` of the flow executor on the run's instance); what they left out was
found in this way, as the limits of section 6 about pipelining were.

**Model-checked only.** Liveness (`Stops`, `Answered`, `KeepsSending`, `DueGetsCalled`,
`AllJoined`, `Exhausts`) depends on fairness, which is out of the prover's reach here. What
the reader makes of a particular reply, and the pairs of a particular text, are evaluated by
TLC, in `MessagesAssumption` and `MeaningAssumption`: the proofs know the recursive functions
by their equations, which they derive from the least counterexample (`Least`).

## 5. What is not modelled

- `http_parser.c`: the states of a request line and its URL, and `http_parser_parse_url`
  (used once, on the arguments and on what the script makes); the modes that are not compiled
  in; the limit of the header's size.
- Flow executors older than version 3.0, the recorders, and the files of metrics and
  recordings; in version 3.0, the wording of requests, JSON and logs.
- `script.c` beyond the above: userdata for addresses, statistics and the thread object.
- Back ends other than epoll: they are not built on the system the sources are built for
  here, and `aeApiPoll` has one contract. OpenSSL beyond its three outcomes.
- The percentile, linear and logarithmic iterators of the histogram and the wording of the
  report; the command line; units; `zmalloc`, `tinymt64`, LuaJIT (vendored); the example
  scripts. Allocation failure.
- `calibrate` on a thread without responses divides 0 by 0, and the test for 0 that follows
  does not see it (`wrk.c:348-353`): modelled as it is (`MeanIsZero`), with no property,
  since nothing says what should happen.

## 6. What the runs found

- `stale_timer`: a `delay_request` timer survives the reset of its idle connection
  (`wrk.c:331`). The new socket's writable event and the old timer both lead to
  `socket_writeable`, and two batches can be on the way at once, against README.md:306-307,
  "each connection will only begin to send a request after receiving a response", and
  SCRIPTING:70-71, "a call to request() and response() for each request cycle".
- `oversleep`: the timeout of the poll is wrong if the nearest event is overdue across the
  end of a second (`ae.c:348-356`): seconds below zero are cut to 0 while the milliseconds
  are kept, so an event overdue by one millisecond can be slept over for up to 999.
  `OversleepsUnderASecond` bounds it. Requests sent late for this reason count as latency of
  the server.
- `stale_buffers`: `reconnect_socket` leaves `c->headers`, `c->body` and `c->state` alone
  (`wrk.c:333`). What a response that was cut off had brought is handed to `response()` with
  the first response of the next socket, against SCRIPTING:83-84. In the run `responses`,
  `ResponsesAsSent` holds: nothing else gets foreign bytes there.
- `transfer`: `script_copy_value` pushes the value before the key and stores the one under
  the other, and pops the table itself (`script.c:501-506`): a table does not arrive as it
  was, against SCRIPTING:60-61, and a table within a table is walked at a wrong index.

Known limits that are no runs:

- `KeepsSending` fails with the fault `unreachable` (a `connect` that fails at once is never
  tried again, `wrk.c:325`) and with `early` (a response that completes before the request
  string is written loses its wakeup, `wrk.c:643`); `RequestThenResponse` fails with `again`
  (the first write of a batch is repeated together with its call of `request()`,
  `wrk.c:616`).
- A request string that is written in pieces can lose the wakeup after a reset too: the old
  timer (`stale_timer`) begins a second batch, and the response to the first completes it
  before its string is written (`IdleHasWakeup` fails with the fault `rst` and `ReqLen` 2).
- If an answer closes the connection while others are awaited (`Pipeline` above 1), the
  connection is dialled again with `c->has_pending` set. The batch that follows is not taken
  for a new one (`wrk.c:626`): `c->pending` is set, but neither its planned start nor its
  real one, and its latency counts from those of the batch that was cut short. `FollowsPlan`
  fails there, and the theorems of `CycleProofs` exclude it.
- If the server closes a connection between two messages, the read of zero bytes is parsed as
  no input without error (`http_parser.c:645-655`), and `socket_readable` goes on. The socket
  is not reopened until a write on it fails, and a batch whose write succeeds is lost unless
  a reset comes back (README.md:66-67 has the run "keeping 100 HTTP connections open").
- `errors.timeout` counts idle connections too (`wrk.c:379`), and not only "total request
  timeouts" (README.md:258).
- Connections that are left over when they are divided among the threads are never opened
  (`wrk.c:123`).
- With `FLOW_LOG_EVERY`, the response that ends an iteration is logged from a step that is
  gone, and the error ends the process (`flow_executor_templates.lua:713`).
- `thread:stop()` before the thread's loop runs is lost (`ae.c:421`); SCRIPTING:61-62 allows
  it only while the thread is running.

## 7. Plan

Done, in this order: pacing, file events and parser phases; the thread; the abstract plan and
the refinement; faults; the inductive invariant of the thread; time events; histogram and
measurement; the parser byte by byte and its refinement of the phases; the flow executor;
values between Lua states; proofs about the parser, the flow executor, the time events and
the sockets; the cycle of a connection and both refinements; sums, the histogram and the
measurement; the counters of the flow executor; wakeups under faults; the framing of
responses and their text, however the reads cut them. What is left, by importance:

1. *Older flow executors*, as earlier versions of one specification that version 3.0 could be
   shown to implement.
2. *Percentile iterator* and the statistics that scripts see.
3. *Start of the program*: the arguments, SIGINT before the handler is installed.
