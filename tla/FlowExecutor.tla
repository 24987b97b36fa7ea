------------------------------- MODULE FlowExecutor -------------------------------
(***********************************************************************************)
(* A run of the flow executor (workdir/v3.0/flow_executor_templates.lua): every    *)
(* thread of wrk has a Lua state of its own, whose request() and response() walk   *)
(* the connections of the thread through recorded iterations, a step per request.  *)
(* The parts of a step may refer to what earlier steps were answered.  The main    *)
(* thread sets one thread up after the other, while the first ones already run,    *)
(* and reads their counters when they have ended.                                  *)
(*                                                                                  *)
(* On one connection requests and responses alternate (module WrkThread).          *)
(***********************************************************************************)
EXTENDS Naturals, Sequences, FiniteSets, FiniteSetsExt

CONSTANTS
    MaxThreads,  \* bound: cfg.threads
    MaxConns,    \* bound: the connections of a thread
    Iterations,  \* the recorded iterations: sequences of steps
    Modes,       \* the options and environment variables that wrk may be started with
    MaxStarted,  \* bound: the iterations of a thread after which it sends no more
    MaxLost      \* bound: how many requests are never answered

\* A step: its name, the outputs it refers to, and whether its body can be encoded.
Sources == {"responseBody", "endpoint"}
ASSUME IterationsAssumption ==
    /\ MaxThreads \in Nat /\ MaxConns \in Nat
    /\ MaxStarted \in Nat /\ MaxLost \in Nat
    /\ Iterations \in Seq(Seq([flow : STRING, refs : SUBSET (STRING \X Sources),
                               encodes : BOOLEAN]))
    /\ Len(Iterations) > 0 /\ \A i \in DOMAIN Iterations : Len(Iterations[i]) > 0
    /\ Modes \subseteq [threads : 1 .. MaxThreads, connections : Nat \ {0},
                        reuse : {"wrap", "stop"}, failOnNon2xx : BOOLEAN,
                        logEvery : Nat]
    /\ \A m \in Modes : m.connections >= m.threads
                        /\ m.connections \div m.threads <= MaxConns

VARIABLES
    mode,      \* cfg.threads, cfg.connections, FLOW_REUSE_MODE and so on
    lua,       \* the conn_state and the counters of each thread's Lua state
    status,    \* of each thread: "new", "running" or "ended"
    wire,      \* the request a connection waits for an answer to, if any
    answered,  \* the last step that was answered on each connection
    lost,      \* requests of steps that were never answered
    report,    \* what done() added up, if it was called
    exited     \* an error in the script ended the process

vars == <<mode, lua, status, wire, answered, lost, report, exited>>

\* A thread has a share of the connections; what is left over is never opened.
Threads == 1 .. mode.threads
Conns   == 0 .. (mode.connections \div mode.threads - 1)

-----------------------------------------------------------------------------------
(* The state of a connection, and requests.                                         *)

NewConn(c) ==
    [iteration |-> 0, step |-> 1, seed |-> c + 1, current |-> <<>>, outputs |-> <<>>,
     exhausted |-> FALSE]

\* init_runtime_counters.
NoCounts ==
    [issued |-> 0, pairs |-> 0, ok |-> 0, other |-> 0, started |-> 0, completed |-> 0,
     failed |-> 0, exhausted |-> 0, unresolved |-> 0, unencoded |-> 0]

NewLua == [conn |-> [c \in Conns |-> NewConn(c)], n |-> NoCounts]

\* The request of a step: which one, in which run through its iteration, and which steps'
\* outputs it was made of.  The idle request is that of no step.
IdleRequest == [iteration |-> 0, step |-> 0, run |-> 0, uses |-> {}]

\* The entry of conn_state of a connection.  Mutant: one for the thread.
KeyOfThread(c) == 0
Key(c) == c

\* What complete_iteration and fail_iteration leave.  Mutant: the outputs stay.
EndedKeepsOutputs(st) == [st EXCEPT !.iteration = 0, !.step = 1, !.current = <<>>]
Ended(st) ==
    [st EXCEPT !.iteration = 0, !.step = 1, !.current = <<>>, !.outputs = <<>>]

\* The operators below take and return what they work on as one record: the state of a
\* connection (st), the counters (n) and the request that was made (req).

Complete(s) == [s EXCEPT !.st = Ended(@), !.n.completed = @ + 1]
FailIteration(s) == [s EXCEPT !.st = Ended(@), !.n.failed = @ + 1]

-----------------------------------------------------------------------------------
(* request().                                                                        *)

\* wrk.connections is not set by wrk, so the stride is 1.  Mutant: 0.
NoStride == 0
Stride == 1

OutOfIterations(st) == st.seed > Len(Iterations) /\ mode.reuse = "stop"

\* The iteration of the seed is begun.
Begun(st) ==
    [Ended(st) EXCEPT !.seed = @ + Stride,
                      !.iteration = ((st.seed - 1) % Len(Iterations)) + 1]

\* claim_next_iteration; it fails if no iteration is claimed after it.  Mutant: an
\* iteration is counted before it is known that there is one.
ClaimCountsFirst(s) ==
    IF s.st.exhausted THEN s
    ELSE IF OutOfIterations(s.st)
    THEN [s EXCEPT !.st.exhausted = TRUE, !.n.exhausted = @ + 1, !.n.started = @ + 1]
    ELSE [s EXCEPT !.st = Begun(@), !.n.started = @ + 1]
ClaimNextIteration(s) ==
    IF s.st.exhausted THEN s
    ELSE IF OutOfIterations(s.st)
    THEN [s EXCEPT !.st.exhausted = TRUE, !.n.exhausted = @ + 1]
    ELSE [s EXCEPT !.st = Begun(@), !.n.started = @ + 1]

\* resolve_reference succeeds: the step named was answered, and has what is asked of it.
Resolves(st, ref) ==
    /\ ref[1] \in DOMAIN st.outputs
    /\ ref[2] = "responseBody" => st.outputs[ref[1]].parsed

StepOf(st)    == Iterations[st.iteration][st.step]
RequestOf(st) ==
    [iteration |-> st.iteration, step |-> st.step, run |-> st.seed,
     uses |-> {st.outputs[ref[1]].from : ref \in StepOf(st).refs}]

\* build_request_for_state.
BuildRequest(s) ==
    IF \E ref \in StepOf(s.st).refs : ~Resolves(s.st, ref)
    THEN [FailIteration(s) EXCEPT !.n.unresolved = @ + 1]
    ELSE IF ~StepOf(s.st).encodes
    THEN [FailIteration(s) EXCEPT !.n.unencoded = @ + 1]
    ELSE [s EXCEPT !.st.current = <<RequestOf(s.st)>>, !.n.issued = @ + 1,
                   !.req = <<RequestOf(s.st)>>]

\* A turn of the loop of request_with_retries, if it goes on.
ClaimIfNone(s) == IF s.st.iteration = 0 THEN ClaimNextIteration(s) ELSE s
IdleIfNone(s)  == IF s.st.iteration = 0 THEN [s EXCEPT !.req = <<IdleRequest>>] ELSE s
Attempt(s) ==
    IF s.req # <<>> THEN s ELSE IdleIfNone(ClaimIfNone(BuildRequest(s)))

\* request_with_retries(conn_id, 3), as the set of its one outcome.
Attempts(states) == {Attempt(s) : s \in states}
RequestWithRetries(s) ==
    {IF last.req = <<>> THEN [last EXCEPT !.req = <<IdleRequest>>] ELSE last :
        last \in Attempts(Attempts(Attempts({IdleIfNone(ClaimIfNone(s))})))}

\* request(c) in a Lua state.
Outcomes(l, c) ==
    RequestWithRetries([st |-> l.conn[Key(c)], n |-> l.n, req |-> <<>>])
After(l, c, s) == [l EXCEPT !.conn[Key(c)] = s.st, !.n = s.n]

-----------------------------------------------------------------------------------
(* response().                                                                       *)

\* A response is recorded for the step that was requested last.  Mutant: for the step
\* whose turn it is, also if an idle request was sent.
TrackedByIteration(st) == st.iteration # 0
Tracked(st) == st.iteration # 0 /\ st.current # <<>>

\* The step is over.
NextStep(s) ==
    IF s.st.step + 1 > Len(Iterations[s.st.iteration]) THEN Complete(s)
    ELSE [s EXCEPT !.st.step = @ + 1]

\* What later steps of the run may refer to.
WithOutput(st, parsed) ==
    LET flow == StepOf(st).flow
        out  == [parsed |-> parsed,
                 from   |-> [run |-> st.seed, step |-> st.step]] IN
    [st EXCEPT !.outputs = [f \in DOMAIN @ \cup {flow} |-> IF f = flow THEN out ELSE @[f]]]

Recorded(s, ok, parsed) ==
    LET p == [s EXCEPT !.n.pairs = @ + 1] IN
    IF ok
    THEN NextStep([p EXCEPT !.n.ok = @ + 1, !.st = WithOutput(@, parsed)])
    ELSE LET q == [p EXCEPT !.n.other = @ + 1] IN
         IF mode.failOnNon2xx THEN FailIteration(q) ELSE NextStep(q)

\* Every so many pairs are printed, from st.current_step: if the iteration has just ended
\* there is none, and indexing it is an error.
Logs(s)   == mode.logEvery > 0 /\ s.n.pairs % mode.logEvery = 0
Raises(s) == Logs(s) /\ s.st.current = <<>>

Logged(s) == IF Raises(s) THEN s ELSE [s EXCEPT !.st.current = <<>>]

-----------------------------------------------------------------------------------
(* The threads of wrk.                                                                *)

Running(t) == status[t] = "running" /\ ~exited

\* script_create, script_init and, for the first thread, script_verify_request, whose
\* request nobody sends; pthread_create.
SetUp(t) ==
    /\ status[t] = "new" /\ ~exited /\ \A u \in 1 .. (t - 1) : status[u] # "new"
    /\ \E s \in Outcomes(NewLua, 0) :
          lua' = [lua EXCEPT ![t] = IF t = 1 THEN After(NewLua, 0, s) ELSE NewLua]
    /\ status' = [status EXCEPT ![t] = "running"]
    /\ UNCHANGED <<mode, wire, answered, lost, report, exited>>

\* socket_writeable calls request() and sends what it returns.
Request(t, c) == \E s \in Outcomes(lua[t], c) :
    /\ lua' = [lua EXCEPT ![t] = After(@, c, s)]
    /\ wire' = [wire EXCEPT ![t][c] = s.req]

Send(t, c) ==
    /\ Running(t) /\ wire[t][c] = <<>>
    /\ lua[t].n.started <= MaxStarted
    /\ Request(t, c)
    /\ UNCHANGED <<mode, status, answered, lost, report, exited>>

\* A request of a step is given up.
GivenUp(t, c) ==
    lost' = IF wire[t][c] = <<IdleRequest>> THEN lost ELSE lost + 1

\* The first write of the request would block: request() is called again.
SendAgain(t, c) ==
    /\ Running(t) /\ wire[t][c] # <<>> /\ lost < MaxLost
    /\ GivenUp(t, c) /\ Request(t, c)
    /\ UNCHANGED <<mode, status, answered, report, exited>>

\* The connection is reset: the next request goes out on another socket.
Reset(t, c) ==
    /\ Running(t) /\ wire[t][c] # <<>> /\ lost < MaxLost
    /\ GivenUp(t, c) /\ wire' = [wire EXCEPT ![t][c] = <<>>]
    /\ UNCHANGED <<mode, lua, status, answered, report, exited>>

\* response_complete calls response().
Answer(t, c) == \E ok, parsed \in BOOLEAN :
    /\ Running(t) /\ wire[t][c] # <<>>
    /\ wire' = [wire EXCEPT ![t][c] = <<>>]
    /\ answered' = [answered EXCEPT ![t][c] =
                       [run |-> wire[t][c][1].run, step |-> wire[t][c][1].step, ok |-> ok]]
    /\ IF Tracked(lua[t].conn[Key(c)])
       THEN \E r \in {Recorded([st |-> lua[t].conn[Key(c)], n |-> lua[t].n], ok, parsed)} :
              /\ lua' = [lua EXCEPT ![t] = After(@, c, Logged(r))]
              /\ exited' = Raises(r)
       ELSE UNCHANGED <<lua, exited>>
    /\ UNCHANGED <<mode, status, lost, report>>

\* The thread leaves its loop, at stop_at or on SIGINT.
Stop(t) ==
    /\ Running(t)
    /\ status' = [status EXCEPT ![t] = "ended"]
    /\ UNCHANGED <<mode, lua, wire, answered, lost, report, exited>>

\* The main thread has joined all threads.  Mutant: the last one only.
JoinedLast == status[mode.threads] = "ended"
Joined == \A t \in Threads : status[t] = "ended"

Totals == [k \in DOMAIN NoCounts |-> MapThenSumSet(LAMBDA t : lua[t].n[k], Threads)]

Done ==
    /\ Joined /\ report = <<>> /\ ~exited
    /\ report' = <<Totals>>
    /\ UNCHANGED <<mode, lua, status, wire, answered, lost, exited>>

Terminated == (exited \/ (Joined /\ report # <<>>)) /\ UNCHANGED vars

Init ==
    /\ mode \in Modes
    /\ lua = [t \in Threads |-> NewLua]
    /\ status = [t \in Threads |-> "new"]
    /\ wire = [t \in Threads |-> [c \in Conns |-> <<>>]]
    /\ answered = [t \in Threads |-> [c \in Conns |-> [run |-> 0, step |-> 0, ok |-> FALSE]]]
    /\ lost = 0 /\ report = <<>> /\ exited = FALSE

Next ==
    \/ \E t \in Threads : SetUp(t) \/ Stop(t)
    \/ \E t \in Threads, c \in Conns :
          Send(t, c) \/ SendAgain(t, c) \/ Reset(t, c) \/ Answer(t, c)
    \/ Done
    \/ Terminated

Spec == Init /\ [][Next]_vars

\* A connection that may send does (its wakeups, module WrkThread), the server answers
\* what is not lost, and the main thread goes on.
Fairness ==
    /\ \A t \in 1 .. MaxThreads : WF_vars(t \in Threads /\ SetUp(t))
    /\ \A t \in 1 .. MaxThreads, c \in 0 .. (MaxConns - 1) :
          /\ WF_vars(t \in Threads /\ c \in Conns /\ Send(t, c))
          /\ WF_vars(t \in Threads /\ c \in Conns /\ Answer(t, c))

FairSpec == Spec /\ Fairness

-----------------------------------------------------------------------------------
(* Properties                                                                        *)

SetUpThreads == {t \in Threads : status[t] # "new"}

\* While a request is under way, the step its answer will be recorded for is the one it
\* was made of, whatever the other connections of the thread, retries, failures and resets
\* do in between; the answer of an idle request is recorded for none.
AnswerIsRecordedForItsRequest ==
    ~exited => \A t \in Threads, c \in Conns :
        LET w == wire[t][c] IN
        w # <<>> => /\ lua[t].conn[c].current = IF w = <<IdleRequest>> THEN <<>> ELSE w
                    /\ w # <<IdleRequest>> => lua[t].conn[c].iteration = w[1].iteration

\* What a request is made of was answered earlier in the same run through its iteration:
\* not in the run before, nor on another connection.
UsesItsOwnRun ==
    \A t \in Threads, c \in Conns :
        wire[t][c] # <<>> =>
            \A u \in wire[t][c][1].uses :
                u.run = wire[t][c][1].run /\ u.step < wire[t][c][1].step

\* A step is requested only once the one before it was answered, with success if failures
\* end the iteration; no answer, of a retry or an idle request, moves a connection on
\* twice.
StepsInOrder ==
    \A t \in Threads, c \in Conns :
        (wire[t][c] # <<>> /\ wire[t][c][1].step > 1) =>
            LET w == wire[t][c][1]  a == answered[t][c] IN
            a.run = w.run /\ a.step = w.step - 1 /\ (a.ok \/ ~mode.failOnNon2xx)

\* Every iteration that was started is complete, failed or under way; every request that
\* was issued was answered, is under way, was given up, or is the one that the main thread
\* had made to verify the script; done() reports the final counts.
Active(t) == {c \in Conns : lua[t].conn[c].iteration # 0}
UnderWay  == {p \in Threads \X Conns : wire[p[1]][p[2]] \notin {<<>>, <<IdleRequest>>}}
Verified  == IF SetUpThreads = {} THEN 0
             ELSE (CHOOSE s \in Outcomes(NewLua, 0) : TRUE).n.issued
CountsAddUp ==
    /\ \A t \in Threads :
          LET n == lua[t].n IN n.started = n.completed + n.failed + Cardinality(Active(t))
    /\ Totals.issued = Totals.pairs + Cardinality(UnderWay) + lost + Verified
    /\ report # <<>> => report[1] = Totals

\* FLOW_REUSE_MODE=stop: every connection comes to the end of the iterations, however many
\* of them fail, unless its thread ends before or an error in the script ends the process.
Exhausts ==
    mode.reuse = "stop" =>
        <>(exited \/ \A t \in Threads : status[t] = "ended" \/
              \A c \in Conns : lua[t].conn[c].exhausted)
===================================================================================
