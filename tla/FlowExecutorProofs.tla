---------------------------- MODULE FlowExecutorProofs ----------------------------
(***********************************************************************************)
(* Proofs, for any recording, any options and any number of threads and            *)
(* connections, that an answer is recorded for the step it belongs to, that a step *)
(* is made of answers of its own run, that steps are requested in order, and that  *)
(* the counters add up.                                                            *)
(***********************************************************************************)
EXTENDS FlowExecutor, SumProofs

IsConn(st) ==
    st \in [iteration : Nat, step : Nat, seed : Nat, current : {st.current},
            outputs : {st.outputs}, exhausted : {st.exhausted}]

\* A connection without an iteration is at its first step and has requested none.  What
\* it requested last is its present step, and that was made, like all it keeps for later
\* steps, of earlier steps of the run.
Sound(st) ==
    /\ IsConn(st)
    /\ st.iteration = 0 => st.step = 1 /\ st.current = <<>>
    /\ st.current # <<>> =>
          /\ st.current = <<st.current[1]>>
          /\ st.current[1].iteration = st.iteration
          /\ st.current[1].run = st.seed /\ st.current[1].step = st.step
          /\ \A u \in st.current[1].uses : u.run = st.seed /\ u.step < st.step
    /\ \A f \in DOMAIN st.outputs :
          /\ st.outputs[f].from.run = st.seed
          /\ st.outputs[f].from.step \in Nat /\ st.outputs[f].from.step < st.step

\* The step before the present one was answered last.
Follows(st, a) ==
    st.step > 1 => /\ a.run = st.seed /\ a.step = st.step - 1
                   /\ a.ok \/ ~mode.failOnNon2xx

\* The request under way is what the connection believes it is.
Carries(w, st) ==
    w # <<>> => /\ st.current = IF w = <<IdleRequest>> THEN <<>> ELSE w
                /\ w = <<IdleRequest>> => st.step = 1

\* What holds of a connection, the request under way and the answer before it.
Good(st, w, a) == Sound(st) /\ Follows(st, a) /\ Carries(w, st)

\* The other connections of a thread are as they were.
Others(l, r, c) == \A d \in Conns \ {c} : r.conn[d] = l.conn[d]

IsLua(l) == l \in [conn : {l.conn}, n : {l.n}] /\ l.conn = [c \in Conns |-> l.conn[c]]

\* The inductive invariant.
Ind ==
    /\ mode \in Modes
    /\ lua = [t \in Threads |-> lua[t]] /\ \A t \in Threads : IsLua(lua[t])
    /\ wire = [t \in Threads |-> [c \in Conns |-> wire[t][c]]]
    /\ answered = [t \in Threads |-> [c \in Conns |-> answered[t][c]]]
    /\ status = [t \in Threads |-> status[t]]
    /\ \A t \in Threads, c \in Conns :
          /\ Good(lua[t].conn[c], wire[t][c], answered[t][c])
          /\ status[t] = "new" => wire[t][c] = <<>>

-----------------------------------------------------------------------------------
(* A request in the making: the connection, the counters, the request.              *)

IsTurn(s) == s \in [st : {s.st}, n : {s.n}, req : {s.req}]

\* Before an attempt to build a request.
Trying(s, a) ==
    /\ IsTurn(s) /\ Sound(s.st) /\ Follows(s.st, a) /\ Carries(s.req, s.st)
    /\ s.req = <<>> => s.st.iteration # 0

\* After an attempt that failed a new iteration was begun.
Tried(s, a) ==
    /\ Trying(s, a)
    /\ s.req = <<>> => s.st.current = <<>> /\ s.st.step = 1

LEMMA EndedSound ==
    ASSUME NEW st, IsConn(st)
    PROVE  /\ IsConn(Ended(st)) /\ Sound(Ended(st)) /\ Ended(st).seed = st.seed
           /\ Ended(st).iteration = 0 /\ Ended(st).step = 1 /\ Ended(st).current = <<>>
           /\ Ended(st).outputs = <<>> /\ DOMAIN Ended(st).outputs = {}
<1>0. Ended(st) \in [iteration : Nat, step : Nat, seed : Nat, current : {<<>>},
                     outputs : {<<>>}, exhausted : {st.exhausted}]
  BY DEF Ended, IsConn
<1>1. /\ Ended(st).seed = st.seed /\ Ended(st).iteration = 0
      /\ Ended(st).step = 1 /\ Ended(st).current = <<>> /\ Ended(st).outputs = <<>>
  BY DEF Ended, IsConn
<1>3. IsConn(Ended(st))
  BY <1>0, <1>1 DEF IsConn
<1>2. DOMAIN <<>> = {}
  OBVIOUS
<1> QED BY <1>1, <1>2, <1>3 DEF Sound

\* A connection at its first step follows whatever was answered.
LEMMA FirstStepFollows ==
    ASSUME NEW st, NEW a, st.step = 1
    PROVE  Follows(st, a)
  BY DEF Follows

LEMMA FailedSound ==
    ASSUME NEW s, IsTurn(s), IsConn(s.st)
    PROVE  /\ IsTurn(FailIteration(s)) /\ FailIteration(s).st = Ended(s.st)
           /\ FailIteration(s).req = s.req
  BY DEF FailIteration, IsTurn

LEMMA BegunSound ==
    ASSUME NEW st, IsConn(st)
    PROVE  /\ Sound(Begun(st)) /\ Begun(st).iteration # 0
           /\ Begun(st).step = 1 /\ Begun(st).current = <<>>
<1> DEFINE e == Ended(st)
           i == ((st.seed - 1) % Len(Iterations)) + 1
           b == Begun(st)
<1>1. i \in Nat /\ i # 0
  BY IterationsAssumption DEF IsConn
<1>2. /\ e \in [iteration : Nat, step : Nat, seed : Nat, current : {<<>>},
                outputs : {<<>>}, exhausted : {e.exhausted}]
      /\ e.step = 1 /\ DOMAIN e.outputs = {}
  BY EndedSound DEF IsConn
<1>3. b = [e EXCEPT !.seed = @ + Stride, !.iteration = i]
  BY DEF Begun
<1> HIDE DEF e, i, b
<1>4. e.seed + Stride \in Nat
  BY <1>2 DEF Stride
<1>5. /\ b.iteration = i /\ b.step = 1 /\ b.current = <<>> /\ b.outputs = e.outputs
      /\ b \in [iteration : Nat, step : Nat, seed : Nat, current : {<<>>},
                outputs : {<<>>}, exhausted : {e.exhausted}]
      /\ b.exhausted = e.exhausted
  BY <1>1, <1>2, <1>3, <1>4
<1>6. IsConn(b)
  BY <1>5 DEF IsConn
<1>7. Sound(b)
  BY <1>1, <1>2, <1>5, <1>6 DEF Sound
<1> QED BY <1>1, <1>5, <1>7 DEF b

LEMMA ClaimSound ==
    ASSUME NEW s, IsTurn(s), Sound(s.st), s.st.iteration = 0
    PROVE  LET r == ClaimNextIteration(s) IN
           /\ IsTurn(r) /\ Sound(r.st) /\ r.req = s.req
           /\ r.st.current = <<>> /\ r.st.step = 1
<1>1. IsConn(s.st) /\ s.st.step = 1 /\ s.st.current = <<>>
  BY DEF Sound
<1>2. CASE s.st.exhausted
  BY <1>1, <1>2 DEF ClaimNextIteration
<1>3. CASE ~s.st.exhausted /\ OutOfIterations(s.st)
  <2> DEFINE st == [s.st EXCEPT !.exhausted = TRUE]
  <2>1. ClaimNextIteration(s) = [s EXCEPT !.st.exhausted = TRUE, !.n.exhausted = @ + 1]
    BY <1>3 DEF ClaimNextIteration
  <2>2. /\ IsTurn(ClaimNextIteration(s)) /\ ClaimNextIteration(s).st = st
        /\ ClaimNextIteration(s).req = s.req
    BY <2>1 DEF IsTurn
  <2>3. /\ st.iteration = s.st.iteration /\ st.step = s.st.step /\ st.seed = s.st.seed
        /\ st.current = s.st.current /\ st.outputs = s.st.outputs /\ IsConn(st)
    BY <1>1 DEF IsConn
  <2> QED BY <1>1, <2>2, <2>3 DEF Sound
<1>4. CASE ~s.st.exhausted /\ ~OutOfIterations(s.st)
  <2>1. ClaimNextIteration(s) = [s EXCEPT !.st = Begun(s.st), !.n.started = @ + 1]
    BY <1>4 DEF ClaimNextIteration
  <2>2. /\ IsTurn(ClaimNextIteration(s)) /\ ClaimNextIteration(s).st = Begun(s.st)
        /\ ClaimNextIteration(s).req = s.req
    BY <2>1 DEF IsTurn
  <2> QED BY <1>1, <2>2, BegunSound
<1> QED BY <1>2, <1>3, <1>4

\* The request that is made of the present step.
LEMMA RequestSound ==
    ASSUME NEW st, Sound(st), st.iteration # 0,
           \A ref \in StepOf(st).refs : Resolves(st, ref)
    PROVE  LET r == [st EXCEPT !.current = <<RequestOf(st)>>] IN
           /\ Sound(r) /\ r.iteration = st.iteration /\ r.step = st.step
           /\ r.seed = st.seed /\ r.current = <<RequestOf(st)>>
<1> DEFINE q == RequestOf(st)
           r == [st EXCEPT !.current = <<q>>]
<1>1. /\ q.iteration = st.iteration /\ q.step = st.step /\ q.run = st.seed
      /\ q.uses = {st.outputs[ref[1]].from : ref \in StepOf(st).refs}
  BY DEF RequestOf
<1>2. \A u \in q.uses : u.run = st.seed /\ u.step < st.step
  <2>1. SUFFICES ASSUME NEW ref \in StepOf(st).refs
                 PROVE  LET u == st.outputs[ref[1]].from IN u.run = st.seed /\ u.step < st.step
    BY <1>1
  <2>2. ref[1] \in DOMAIN st.outputs
    BY <2>1 DEF Resolves
  <2> QED BY <2>2 DEF Sound
<1> HIDE DEF q
<1>3. /\ r.iteration = st.iteration /\ r.step = st.step /\ r.seed = st.seed
      /\ r.current = <<q>> /\ r.outputs = st.outputs /\ IsConn(r)
  BY DEF Sound, IsConn
<1> HIDE DEF r
<1>4. <<q>> # <<>> /\ <<q>>[1] = q
  OBVIOUS
<1>5. Sound(r)
  BY <1>1, <1>2, <1>3, <1>4 DEF Sound
<1> QED BY <1>3, <1>5 DEF q, r

LEMMA BuildSound ==
    ASSUME NEW s, NEW a, Trying(s, a), s.req = <<>>
    PROVE  LET r == BuildRequest(s) IN
           /\ IsTurn(r) /\ Sound(r.st)
           /\ \/ r.req = <<>> /\ r.st.iteration = 0
              \/ Tried(r, a) /\ r.req # <<>> /\ r.st.iteration # 0
<1>1. IsTurn(s) /\ Sound(s.st) /\ IsConn(s.st) /\ s.st.iteration # 0 /\ Follows(s.st, a)
  BY DEF Trying, Sound
<1>2. CASE \E ref \in StepOf(s.st).refs : ~Resolves(s.st, ref)
  <2> DEFINE f == FailIteration(s)
  <2>1. IsTurn(f) /\ f.st = Ended(s.st) /\ f.req = <<>>
    BY <1>1, FailedSound
  <2>2. BuildRequest(s) = [f EXCEPT !.n.unresolved = @ + 1]
    BY <1>2 DEF BuildRequest
  <2> HIDE DEF f
  <2>3. IsTurn(BuildRequest(s)) /\ BuildRequest(s).st = f.st /\ BuildRequest(s).req = <<>>
    BY <2>1, <2>2 DEF IsTurn
  <2> QED BY <1>1, <2>1, <2>3, EndedSound
<1>3. CASE ~(\E ref \in StepOf(s.st).refs : ~Resolves(s.st, ref)) /\ ~StepOf(s.st).encodes
  <2> DEFINE f == FailIteration(s)
  <2>1. IsTurn(f) /\ f.st = Ended(s.st) /\ f.req = <<>>
    BY <1>1, FailedSound
  <2>2. BuildRequest(s) = [f EXCEPT !.n.unencoded = @ + 1]
    BY <1>3 DEF BuildRequest
  <2> HIDE DEF f
  <2>3. IsTurn(BuildRequest(s)) /\ BuildRequest(s).st = f.st /\ BuildRequest(s).req = <<>>
    BY <2>1, <2>2 DEF IsTurn
  <2> QED BY <1>1, <2>1, <2>3, EndedSound
<1>4. CASE ~(\E ref \in StepOf(s.st).refs : ~Resolves(s.st, ref)) /\ StepOf(s.st).encodes
  <2> DEFINE q == RequestOf(s.st)
             st == [s.st EXCEPT !.current = <<q>>]
             r == BuildRequest(s)
  <2>1. r = [s EXCEPT !.st.current = <<q>>, !.n.issued = @ + 1, !.req = <<q>>]
    BY <1>4 DEF BuildRequest
  <2>2. /\ Sound(st) /\ st.iteration = s.st.iteration /\ st.step = s.st.step
        /\ st.seed = s.st.seed /\ st.current = <<q>>
    BY <1>1, <1>4, RequestSound
  <2>3. q.iteration = s.st.iteration
    BY DEF RequestOf
  <2> HIDE DEF q, r
  <2>4. r.st = st /\ r.req = <<q>> /\ IsTurn(r)
    BY <1>1, <2>1 DEF IsTurn
  <2>5. <<q>> # <<>> /\ <<q>> # <<IdleRequest>>
    BY <1>1, <2>3 DEF IdleRequest
  <2>6. Follows(st, a)
    BY <1>1, <2>2 DEF Follows
  <2> HIDE DEF st
  <2>7. Tried(r, a)
    BY <2>2, <2>4, <2>5, <2>6 DEF Tried, Trying, Carries
  <2> QED BY <1>1, <2>2, <2>4, <2>5, <2>7 DEF r
<1> QED BY <1>2, <1>3, <1>4

\* What request() hands over.
Made(s, a) ==
    /\ IsTurn(s) /\ Sound(s.st) /\ Follows(s.st, a) /\ Carries(s.req, s.st) /\ s.req # <<>>

LEMMA ClaimedOrIdle ==
    ASSUME NEW s, NEW a, IsTurn(s), Sound(s.st), s.req = <<>>, Follows(s.st, a)
    PROVE  LET r == IdleIfNone(ClaimIfNone(s)) IN
           Trying(r, a) /\ (s.st.iteration = 0 => Tried(r, a))
<1> DEFINE d == ClaimIfNone(s)
           r == IdleIfNone(d)
<1>1. CASE s.st.iteration # 0
  <2>1. r = s
    BY <1>1 DEF ClaimIfNone, IdleIfNone
  <2> QED BY <1>1, <2>1 DEF Trying, Carries
<1>2. CASE s.st.iteration = 0
  <2> SUFFICES Tried(r, a)
    BY DEF Tried
  <2>1. d = ClaimNextIteration(s)
    BY <1>2 DEF ClaimIfNone
  <2>2. /\ IsTurn(d) /\ Sound(d.st) /\ d.req = <<>>
        /\ d.st.current = <<>> /\ d.st.step = 1
    BY <1>2, <2>1, ClaimSound
  <2> HIDE DEF d
  <2>3. Follows(d.st, a)
    BY <2>2, FirstStepFollows
  <2>4. CASE d.st.iteration # 0
    <3>1. r = d
      BY <2>4 DEF IdleIfNone
    <3> QED BY <2>2, <2>3, <2>4, <3>1 DEF Tried, Trying, Carries
  <2>5. CASE d.st.iteration = 0
    <3>1. r = [d EXCEPT !.req = <<IdleRequest>>]
      BY <2>5 DEF IdleIfNone
    <3>2. IsTurn(r) /\ r.st = d.st /\ r.req = <<IdleRequest>>
      BY <2>2, <3>1 DEF IsTurn
    <3>3. <<IdleRequest>> # <<>>
      OBVIOUS
    <3> HIDE DEF r
    <3> QED BY <2>2, <2>3, <3>2, <3>3 DEF Tried, Trying, Carries
  <2> QED BY <2>4, <2>5
<1> QED BY <1>1, <1>2

LEMMA AttemptSound ==
    ASSUME NEW s, NEW a, Trying(s, a)
    PROVE  Tried(Attempt(s), a)
<1>1. CASE s.req # <<>>
  BY <1>1 DEF Attempt, Tried
<1>2. CASE s.req = <<>>
  <2> DEFINE b == BuildRequest(s)
  <2>1. /\ IsTurn(b) /\ Sound(b.st)
        /\ \/ b.req = <<>> /\ b.st.iteration = 0
           \/ Tried(b, a) /\ b.req # <<>> /\ b.st.iteration # 0
    BY <1>2, BuildSound
  <2>2. Attempt(s) = IdleIfNone(ClaimIfNone(b))
    BY <1>2 DEF Attempt
  <2> HIDE DEF b
  <2>3. CASE b.req = <<>> /\ b.st.iteration = 0
    <3>1. Follows(b.st, a)
      BY <2>1, <2>3, FirstStepFollows DEF Sound
    <3> QED BY <2>1, <2>2, <2>3, <3>1, ClaimedOrIdle
  <2>4. CASE Tried(b, a) /\ b.req # <<>> /\ b.st.iteration # 0
    <3>1. ClaimIfNone(b) = b /\ IdleIfNone(b) = b
      BY <2>4 DEF ClaimIfNone, IdleIfNone
    <3> QED BY <2>2, <2>4, <3>1
  <2> QED BY <2>1, <2>3, <2>4
<1> QED BY <1>1, <1>2

LEMMA AttemptsSound ==
    ASSUME NEW S, NEW a, \A s \in S : Trying(s, a)
    PROVE  \A s \in Attempts(S) : Tried(s, a) /\ Trying(s, a)
<1> SUFFICES ASSUME NEW s \in S PROVE Tried(Attempt(s), a) /\ Trying(Attempt(s), a)
  BY DEF Attempts
<1> QED BY AttemptSound DEF Tried

\* request() hands over what the connection will take the next answer for.
LEMMA RequestMade ==
    ASSUME NEW l, NEW c, NEW a, Sound(l.conn[c]), Follows(l.conn[c], a)
    PROVE  \A s \in Outcomes(l, c) : Made(s, a)
<1> DEFINE s0 == [st |-> l.conn[c], n |-> l.n, req |-> <<>>]
           s1 == IdleIfNone(ClaimIfNone(s0))
           last == Attempts(Attempts(Attempts({s1})))
<1>1. IsTurn(s0) /\ s0.st = l.conn[c] /\ s0.req = <<>>
  BY DEF IsTurn
<1>2. Outcomes(l, c) = {IF s.req = <<>> THEN [s EXCEPT !.req = <<IdleRequest>>] ELSE s :
                          s \in last}
  BY DEF Outcomes, RequestWithRetries, Key
<1> HIDE DEF s0
<1>3. Trying(s1, a)
  BY <1>1, ClaimedOrIdle
<1> HIDE DEF s1
<1>4. \A s \in last : Tried(s, a)
  <2>1. \A s \in Attempts({s1}) : Trying(s, a)
    BY <1>3, AttemptsSound
  <2>2. \A s \in Attempts(Attempts({s1})) : Trying(s, a)
    BY <2>1, AttemptsSound
  <2> QED BY <2>2, AttemptsSound
<1> HIDE DEF last
<1>5. SUFFICES ASSUME NEW s \in last
               PROVE  Made(IF s.req = <<>> THEN [s EXCEPT !.req = <<IdleRequest>>] ELSE s, a)
  BY <1>2
<1>6. Tried(s, a) /\ Trying(s, a)
  BY <1>4 DEF Tried
<1>7. CASE s.req # <<>>
  BY <1>6, <1>7 DEF Trying, Made
<1>8. CASE s.req = <<>>
  <2> DEFINE r == [s EXCEPT !.req = <<IdleRequest>>]
  <2>1. IsTurn(r) /\ r.st = s.st /\ r.req = <<IdleRequest>>
    BY <1>6 DEF IsTurn, Trying
  <2>2. <<IdleRequest>> # <<>>
    OBVIOUS
  <2>3. s.st.current = <<>> /\ s.st.step = 1 /\ Sound(s.st) /\ Follows(s.st, a)
    BY <1>6, <1>8 DEF Tried, Trying
  <2> HIDE DEF r
  <2>4. Made(r, a)
    BY <2>1, <2>2, <2>3 DEF Made, Carries
  <2> QED BY <1>8, <2>4 DEF r
<1> QED BY <1>7, <1>8

-----------------------------------------------------------------------------------
(* A response: the connection and the counters.                                     *)

IsPair(s) == s \in [st : {s.st}, n : {s.n}]

\* What is sound once the request is forgotten.
Loose(st) ==
    /\ IsConn(st) /\ (st.iteration = 0 => st.step = 1)
    /\ \A f \in DOMAIN st.outputs :
          /\ st.outputs[f].from.run = st.seed
          /\ st.outputs[f].from.step \in Nat /\ st.outputs[f].from.step < st.step

\* ... and before the step is counted.
Answered(st) ==
    /\ IsConn(st)
    /\ \A f \in DOMAIN st.outputs :
          /\ st.outputs[f].from.run = st.seed
          /\ st.outputs[f].from.step \in Nat /\ st.outputs[f].from.step <= st.step

LEMMA EndedPair ==
    ASSUME NEW s, IsPair(s), IsConn(s.st), NEW a
    PROVE  /\ IsPair(FailIteration(s)) /\ Loose(FailIteration(s).st)
           /\ Follows(FailIteration(s).st, a)
           /\ IsPair(Complete(s)) /\ Loose(Complete(s).st) /\ Follows(Complete(s).st, a)
<1>1. IsPair(FailIteration(s)) /\ FailIteration(s).st = Ended(s.st)
  BY DEF FailIteration, IsPair
<1>2. IsPair(Complete(s)) /\ Complete(s).st = Ended(s.st)
  BY DEF Complete, IsPair
<1>3. Loose(Ended(s.st)) /\ Ended(s.st).step = 1
  BY EndedSound DEF Loose
<1> QED BY <1>1, <1>2, <1>3, FirstStepFollows

LEMMA NextStepLoose ==
    ASSUME NEW s, IsPair(s), Answered(s.st), s.st.iteration # 0, NEW ok,
           ok \/ ~mode.failOnNon2xx
    PROVE  LET r == NextStep(s) IN
           /\ IsPair(r) /\ Loose(r.st)
           /\ Follows(r.st, [run |-> s.st.seed, step |-> s.st.step, ok |-> ok])
<1> DEFINE a == [run |-> s.st.seed, step |-> s.st.step, ok |-> ok]
<1>1. CASE s.st.step + 1 > Len(Iterations[s.st.iteration])
  BY <1>1, EndedPair DEF NextStep, Answered
<1>2. CASE ~(s.st.step + 1 > Len(Iterations[s.st.iteration]))
  <2> DEFINE r  == NextStep(s)
             st == [s.st EXCEPT !.step = @ + 1]
  <2>1. r = [s EXCEPT !.st.step = @ + 1]
    BY <1>2 DEF NextStep
  <2>2. IsPair(r) /\ r.st = st
    BY <2>1 DEF IsPair
  <2>3. /\ IsConn(st) /\ st.step = s.st.step + 1 /\ st.seed = s.st.seed
        /\ st.iteration = s.st.iteration /\ st.outputs = s.st.outputs
        /\ s.st.step \in Nat
    BY DEF Answered, IsConn
  <2>4. a.run = s.st.seed /\ a.step = s.st.step /\ a.ok = ok
    OBVIOUS
  <2> HIDE DEF st, a
  <2>5. Loose(st)
    BY <2>3 DEF Answered, Loose
  <2>6. Follows(st, a)
    BY <2>3, <2>4 DEF Follows
  <2> QED BY <2>2, <2>5, <2>6 DEF a
<1> QED BY <1>1, <1>2

LEMMA WithOutputAnswered ==
    ASSUME NEW st, NEW parsed, Sound(st)
    PROVE  LET r == WithOutput(st, parsed) IN
           /\ Answered(r) /\ r.step = st.step /\ r.seed = st.seed
           /\ r.iteration = st.iteration
<1> DEFINE flow == StepOf(st).flow
           out  == [parsed |-> parsed, from |-> [run |-> st.seed, step |-> st.step]]
           o    == [f \in DOMAIN st.outputs \cup {flow} |->
                       IF f = flow THEN out ELSE st.outputs[f]]
           r    == WithOutput(st, parsed)
<1>1. r = [st EXCEPT !.outputs = o]
  BY DEF WithOutput
<1>2. out.from.run = st.seed /\ out.from.step = st.step /\ st.step \in Nat
  BY DEF Sound, IsConn
<1> HIDE DEF out
<1>3. \A f \in DOMAIN o : o[f].from.run = st.seed /\ o[f].from.step \in Nat
                          /\ o[f].from.step <= st.step
  BY <1>2 DEF Sound
<1> HIDE DEF o, r
<1>4. /\ IsConn(r) /\ r.step = st.step /\ r.seed = st.seed
      /\ r.iteration = st.iteration /\ r.outputs = o
  BY <1>1 DEF Sound, IsConn
<1>5. Answered(r)
  BY <1>3, <1>4 DEF Answered
<1> QED BY <1>4, <1>5 DEF r

\* The answer of the step under way.
LEMMA RecordedLoose ==
    ASSUME NEW s, IsPair(s), Sound(s.st), s.st.iteration # 0, NEW ok, NEW parsed
    PROVE  LET r == Recorded(s, ok, parsed) IN
           /\ IsPair(r) /\ Loose(r.st)
           /\ Follows(r.st, [run |-> s.st.seed, step |-> s.st.step, ok |-> ok])
<1> DEFINE p == [s EXCEPT !.n.pairs = @ + 1]
           a == [run |-> s.st.seed, step |-> s.st.step, ok |-> ok]
<1>1. IsPair(p) /\ p.st = s.st
  BY DEF IsPair
<1>2. CASE ok
  <2> DEFINE o == WithOutput(s.st, parsed)
             q == [p EXCEPT !.n.ok = @ + 1, !.st = o]
  <2>1. Recorded(s, ok, parsed) = NextStep(q)
    BY <1>1, <1>2 DEF Recorded
  <2>2. /\ Answered(o) /\ o.step = s.st.step /\ o.seed = s.st.seed
        /\ o.iteration = s.st.iteration
    BY WithOutputAnswered
  <2> HIDE DEF p, o
  <2>3. IsPair(q) /\ q.st = o
    BY <1>1 DEF IsPair
  <2> HIDE DEF q
  <2> QED BY <1>2, <2>1, <2>2, <2>3, NextStepLoose
<1>3. CASE ~ok
  <2> DEFINE q == [p EXCEPT !.n.other = @ + 1]
  <2>1. Recorded(s, ok, parsed) = IF mode.failOnNon2xx THEN FailIteration(q) ELSE NextStep(q)
    BY <1>3 DEF Recorded
  <2> HIDE DEF p
  <2>2. IsPair(q) /\ q.st = s.st
    BY <1>1 DEF IsPair
  <2>3. Answered(s.st) /\ IsConn(s.st)
    BY DEF Sound, Answered, IsConn
  <2> HIDE DEF q
  <2>4. CASE mode.failOnNon2xx
    BY <2>1, <2>2, <2>3, <2>4, EndedPair
  <2>5. CASE ~mode.failOnNon2xx
    BY <2>1, <2>2, <2>3, <2>5, NextStepLoose
  <2> QED BY <2>4, <2>5
<1> QED BY <1>2, <1>3

\* ... after which the connection waits for none.
LEMMA LoggedSound ==
    ASSUME NEW s, IsPair(s), Loose(s.st), NEW a, Follows(s.st, a)
    PROVE  Sound(Logged(s).st) /\ Follows(Logged(s).st, a)
<1>1. CASE Raises(s)
  BY <1>1 DEF Logged, Raises, Loose, Sound
<1>2. CASE ~Raises(s)
  <2> DEFINE st == [s.st EXCEPT !.current = <<>>]
  <2>1. Logged(s).st = st
    BY <1>2 DEF Logged, IsPair
  <2>2. /\ IsConn(st) /\ st.current = <<>> /\ st.iteration = s.st.iteration
        /\ st.step = s.st.step /\ st.seed = s.st.seed /\ st.outputs = s.st.outputs
    BY DEF Loose, IsConn
  <2> HIDE DEF st
  <2>3. Sound(st)
    BY <2>2 DEF Loose, Sound
  <2>4. Follows(st, a)
    BY <2>2 DEF Follows
  <2> QED BY <2>1, <2>3, <2>4
<1> QED BY <1>1, <1>2

-----------------------------------------------------------------------------------
(* The threads.                                                                       *)

LEMMA NewSound ==
    ASSUME NEW c \in Conns
    PROVE  Sound(NewConn(c)) /\ NewConn(c).step = 1
<1>1. c \in Nat
  BY DEF Conns
<1>2. /\ NewConn(c).iteration = 0 /\ NewConn(c).step = 1 /\ NewConn(c).current = <<>>
      /\ NewConn(c).seed = c + 1 /\ NewConn(c).outputs = <<>>
  BY DEF NewConn
<1>3. IsConn(NewConn(c))
  BY <1>1 DEF NewConn, IsConn
<1>4. DOMAIN <<>> = {}
  OBVIOUS
<1> QED BY <1>2, <1>3, <1>4 DEF Sound

LEMMA NewLuaGood ==
    /\ IsLua(NewLua)
    /\ \A c \in Conns : NewLua.conn[c] = NewConn(c)
    /\ \A a : \A c \in Conns : Good(NewLua.conn[c], <<>>, a)
<1>1. IsLua(NewLua) /\ \A c \in Conns : NewLua.conn[c] = NewConn(c)
  BY DEF NewLua, IsLua
<1>2. ASSUME NEW c \in Conns, NEW a PROVE Good(NewConn(c), <<>>, a)
  BY NewSound, FirstStepFollows DEF Good, Carries
<1> QED BY <1>1, <1>2

LEMMA AfterGood ==
    ASSUME NEW l, IsLua(l), NEW c \in Conns, NEW s
    PROVE  /\ IsLua(After(l, c, s)) /\ After(l, c, s).conn[c] = s.st
           /\ Others(l, After(l, c, s), c)
<1> DEFINE r == After(l, c, s)
           k == [l.conn EXCEPT ![c] = s.st]
<1>1. r \in [conn : {k}, n : {s.n}] /\ r.conn = k /\ r.n = s.n
  BY DEF After, Key, IsLua
<1>2. k = [d \in Conns |-> IF d = c THEN s.st ELSE l.conn[d]]
  BY DEF IsLua
<1> HIDE DEF r, k
<1>3. IsLua(r)
  BY <1>1, <1>2 DEF IsLua
<1>4. Others(l, r, c)
  BY <1>1, <1>2 DEF Others
<1>5. r.conn[c] = s.st
  BY <1>1, <1>2
<1> QED BY <1>3, <1>4, <1>5 DEF r

LEMMA FirstConnection ==
    ASSUME mode \in Modes
    PROVE  0 \in Conns
<1>1. /\ mode.threads \in Nat \ {0} /\ mode.connections \in Nat
      /\ mode.connections >= mode.threads
  BY IterationsAssumption
<1>2. \A a \in Nat, b \in Nat \ {0} : a >= b => a \div b \in Nat /\ a \div b >= 1
  BY SMT
<1> QED BY <1>1, <1>2 DEF Conns

\* A step that changes one connection of a thread that runs.
LEMMA OneConnection ==
    ASSUME Ind, NEW t \in Threads, NEW c \in Conns, NEW l, NEW w, NEW a,
           mode' = mode, status' = status, status[t] # "new", IsLua(l),
           Others(lua[t], l, c),
           lua' = [lua EXCEPT ![t] = l], wire' = [wire EXCEPT ![t][c] = w],
           answered' = [answered EXCEPT ![t][c] = a], Good(l.conn[c], w, a)
    PROVE  Ind'
<1>1. Threads' = Threads /\ Conns' = Conns
  BY DEF Threads, Conns
<1>2. /\ lua' = [u \in Threads |-> IF u = t THEN l ELSE lua[u]]
      /\ \A u \in Threads : IsLua(lua'[u])
  BY DEF Ind
<1>3. /\ wire' = [u \in Threads |-> [d \in Conns |->
                     IF u = t /\ d = c THEN w ELSE wire[u][d]]]
      /\ answered' = [u \in Threads |-> [d \in Conns |->
                     IF u = t /\ d = c THEN a ELSE answered[u][d]]]
  <2>1. wire = [u \in Threads |-> [d \in Conns |-> wire[u][d]]]
    BY DEF Ind
  <2>2. answered = [u \in Threads |-> [d \in Conns |-> answered[u][d]]]
    BY DEF Ind
  <2>3. wire' = [u \in Threads |-> [d \in Conns |->
                    IF u = t /\ d = c THEN w ELSE wire[u][d]]]
    BY <2>1
  <2>4. answered' = [u \in Threads |-> [d \in Conns |->
                        IF u = t /\ d = c THEN a ELSE answered[u][d]]]
    BY <2>2
  <2> QED BY <2>3, <2>4
<1>4. ASSUME NEW u \in Threads, NEW d \in Conns
      PROVE  /\ Good(lua'[u].conn[d], wire'[u][d], answered'[u][d])
             /\ status'[u] = "new" => wire'[u][d] = <<>>
  <2>1. CASE u = t /\ d = c
    BY <1>2, <1>3, <2>1
  <2>2. CASE ~(u = t /\ d = c)
    <3>1. lua'[u].conn[d] = lua[u].conn[d]
      BY <1>2, <2>2 DEF Others
    <3>2. wire'[u][d] = wire[u][d] /\ answered'[u][d] = answered[u][d]
      BY <1>3, <2>2
    <3> QED BY <3>1, <3>2 DEF Ind
  <2> QED BY <2>1, <2>2
<1>5. \A u \in Threads' : IsLua(lua[u])'
  BY <1>1, <1>2 DEF IsLua
<1>6. \A u \in Threads', d \in Conns' : Good(lua[u].conn[d], wire[u][d], answered[u][d])'
  BY <1>1, <1>4 DEF Good, Follows
<1>7. lua' = [u \in Threads' |-> lua'[u]]
  BY <1>1, <1>2
<1>8. wire' = [u \in Threads' |-> [d \in Conns' |-> wire'[u][d]]]
  BY <1>1, <1>3
<1>9. answered' = [u \in Threads' |-> [d \in Conns' |-> answered'[u][d]]]
  BY <1>1, <1>3
<1>10. mode' \in Modes /\ status' = [u \in Threads' |-> status'[u]]
  BY <1>1 DEF Ind
<1> QED BY <1>1, <1>4, <1>5, <1>6, <1>7, <1>8, <1>9, <1>10 DEF Ind

LEMMA InitInd == Init => Ind
<1> SUFFICES ASSUME Init PROVE Ind
  OBVIOUS
<1>1. /\ mode \in Modes /\ lua = [t \in Threads |-> NewLua]
      /\ wire = [t \in Threads |-> [c \in Conns |-> <<>>]]
      /\ \A t \in Threads, c \in Conns : wire[t][c] = <<>> /\ lua[t] = NewLua
  BY DEF Init
<1>2. \A t \in Threads, c \in Conns : Good(lua[t].conn[c], wire[t][c], answered[t][c])
  BY <1>1, NewLuaGood
<1>3. lua = [t \in Threads |-> lua[t]] /\ \A t \in Threads : IsLua(lua[t])
  BY <1>1, NewLuaGood
<1>4. wire = [t \in Threads |-> [c \in Conns |-> wire[t][c]]]
  BY <1>1
<1>5. answered = [t \in Threads |-> [c \in Conns |-> answered[t][c]]]
  BY DEF Init
<1>6. status = [t \in Threads |-> status[t]]
  BY DEF Init
<1> QED BY <1>1, <1>2, <1>3, <1>4, <1>5, <1>6 DEF Ind

\* A connection asks for a request: Send and SendAgain.
LEMMA RequestInd ==
    ASSUME Ind, NEW t \in Threads, NEW c \in Conns, Running(t), Request(t, c),
           UNCHANGED <<mode, status, answered>>
    PROVE  Ind'
<1>1. PICK s \in Outcomes(lua[t], c) :
          /\ lua' = [lua EXCEPT ![t] = After(lua[t], c, s)]
          /\ wire' = [wire EXCEPT ![t][c] = s.req]
  BY DEF Request
<1>2. IsLua(lua[t]) /\ Good(lua[t].conn[c], wire[t][c], answered[t][c])
  BY DEF Ind
<1>3. Made(s, answered[t][c])
  BY <1>2, RequestMade DEF Good
<1>4. /\ IsLua(After(lua[t], c, s)) /\ After(lua[t], c, s).conn[c] = s.st
      /\ Others(lua[t], After(lua[t], c, s), c)
  BY <1>2, AfterGood
<1>5. Good(After(lua[t], c, s).conn[c], s.req, answered[t][c])
  BY <1>3, <1>4 DEF Made, Good
<1>6. answered' = [answered EXCEPT ![t][c] = answered[t][c]]
  BY DEF Ind
<1>7. status[t] # "new"
  BY DEF Running
<1> QED BY <1>1, <1>4, <1>5, <1>6, <1>7, OneConnection

LEMMA ResetInd ==
    ASSUME Ind, NEW t \in Threads, NEW c \in Conns, Reset(t, c)
    PROVE  Ind'
<1>1. /\ wire' = [wire EXCEPT ![t][c] = <<>>] /\ lua' = lua /\ status[t] # "new"
      /\ UNCHANGED <<mode, status, answered>>
  BY DEF Reset, Running
<1>2. /\ lua' = [lua EXCEPT ![t] = lua[t]]
      /\ answered' = [answered EXCEPT ![t][c] = answered[t][c]]
  BY <1>1 DEF Ind
<1>3. IsLua(lua[t]) /\ Good(lua[t].conn[c], <<>>, answered[t][c])
  BY DEF Ind, Good, Carries
<1>4. Others(lua[t], lua[t], c)
  BY DEF Others
<1> QED BY <1>1, <1>2, <1>3, <1>4, OneConnection

LEMMA AnswerInd ==
    ASSUME Ind, NEW t \in Threads, NEW c \in Conns, Answer(t, c)
    PROVE  Ind'
<1> DEFINE st == lua[t].conn[c]
           w  == wire[t][c]
<1>1. PICK ok \in BOOLEAN, parsed \in BOOLEAN :
        /\ Running(t) /\ w # <<>> /\ wire' = [wire EXCEPT ![t][c] = <<>>]
        /\ answered' = [answered EXCEPT ![t][c] =
                           [run |-> w[1].run, step |-> w[1].step, ok |-> ok]]
        /\ IF Tracked(st)
           THEN \E r \in {Recorded([st |-> st, n |-> lua[t].n], ok, parsed)} :
                  lua' = [lua EXCEPT ![t] = After(lua[t], c, Logged(r))]
           ELSE lua' = lua
        /\ mode' = mode /\ status' = status
  BY DEF Answer, Key
<1> DEFINE a == [run |-> w[1].run, step |-> w[1].step, ok |-> ok]
<1>2. IsLua(lua[t]) /\ Sound(st) /\ Carries(w, st) /\ status[t] # "new"
  BY <1>1 DEF Ind, Good, Running
<1>3. CASE Tracked(st)
  <2> DEFINE s == [st |-> st, n |-> lua[t].n]
             r == Logged(Recorded(s, ok, parsed))
  <2>1. lua' = [lua EXCEPT ![t] = After(lua[t], c, r)]
    BY <1>1, <1>3
  <2>2. st.iteration # 0 /\ st.current # <<>>
    BY <1>3 DEF Tracked
  <2>3. st.current = w
    BY <1>1, <1>2, <2>2 DEF Carries
  <2>4. w[1].run = st.seed /\ w[1].step = st.step
    BY <1>2, <2>2, <2>3 DEF Sound
  <2>5. IsPair(s) /\ s.st = st
    BY DEF IsPair
  <2> HIDE DEF s
  <2>6. /\ IsPair(Recorded(s, ok, parsed)) /\ Loose(Recorded(s, ok, parsed).st)
        /\ Follows(Recorded(s, ok, parsed).st, a)
    BY <1>2, <2>2, <2>4, <2>5, RecordedLoose
  <2> HIDE DEF a
  <2>7. Sound(r.st) /\ Follows(r.st, a)
    BY <2>6, LoggedSound
  <2> HIDE DEF r
  <2>8. /\ IsLua(After(lua[t], c, r)) /\ After(lua[t], c, r).conn[c] = r.st
        /\ Others(lua[t], After(lua[t], c, r), c)
    BY <1>2, AfterGood
  <2>9. Good(After(lua[t], c, r).conn[c], <<>>, a)
    BY <2>7, <2>8 DEF Good, Carries
  <2> QED BY <1>1, <1>2, <2>1, <2>8, <2>9, OneConnection DEF a
<1>4. CASE ~Tracked(st)
  <2>1. st.step = 1
    BY <1>1, <1>2, <1>4 DEF Tracked, Sound, Carries
  <2> HIDE DEF a
  <2>2. Good(st, <<>>, a)
    BY <1>2, <2>1, FirstStepFollows DEF Good, Carries
  <2>3. lua' = [lua EXCEPT ![t] = lua[t]]
    BY <1>1, <1>4 DEF Ind
  <2>4. Others(lua[t], lua[t], c)
    BY DEF Others
  <2> QED BY <1>1, <1>2, <2>2, <2>3, <2>4, OneConnection DEF a
<1> QED BY <1>3, <1>4

\* A thread is set up, with a request made in the first one.
LEMMA SetUpInd ==
    ASSUME Ind, NEW t \in Threads, SetUp(t)
    PROVE  Ind'
<1>1. /\ status[t] = "new" /\ status' = [status EXCEPT ![t] = "running"]
      /\ UNCHANGED <<mode, wire, answered>> /\ mode \in Modes
  BY DEF SetUp, Ind
<1>2. PICK s \in Outcomes(NewLua, 0) :
          lua' = [lua EXCEPT ![t] = IF t = 1 THEN After(NewLua, 0, s) ELSE NewLua]
  BY DEF SetUp
<1> DEFINE l == IF t = 1 THEN After(NewLua, 0, s) ELSE NewLua
<1>3. 0 \in Conns
  BY <1>1, FirstConnection
<1>4. \A a : Made(s, a)
  BY <1>3, NewLuaGood, RequestMade DEF Good
<1>5. IsLua(l) /\ \A a : \A d \in Conns : Good(l.conn[d], <<>>, a)
  <2> DEFINE r == After(NewLua, 0, s)
  <2>1. IsLua(r) /\ r.conn[0] = s.st /\ Others(NewLua, r, 0)
    BY <1>3, NewLuaGood, AfterGood
  <2> HIDE DEF r
  <2>2. \A a : \A d \in Conns : Good(r.conn[d], <<>>, a)
    BY <1>4, <2>1, NewLuaGood DEF Made, Good, Carries, Others
  <2> QED BY <2>1, <2>2, NewLuaGood DEF r
<1> HIDE DEF l
<1>6. lua' = [u \in Threads |-> IF u = t THEN l ELSE lua[u]]
  BY <1>2 DEF Ind, l
<1>7. status' = [u \in Threads |-> IF u = t THEN "running" ELSE status[u]]
  BY <1>1 DEF Ind
<1>8. Threads' = Threads /\ Conns' = Conns
  BY <1>1 DEF Threads, Conns
<1>9. \A u \in Threads : IsLua(lua'[u])
  BY <1>5, <1>6 DEF Ind
<1>10. ASSUME NEW u \in Threads, NEW d \in Conns
       PROVE  /\ Good(lua'[u].conn[d], wire'[u][d], answered'[u][d])
              /\ status'[u] = "new" => wire'[u][d] = <<>>
  <2>1. CASE u = t
    <3>1. wire[u][d] = <<>>
      BY <1>1, <2>1 DEF Ind
    <3> QED BY <1>1, <1>5, <1>6, <1>7, <2>1, <3>1
  <2>2. CASE u # t
    <3>1. Good(lua[u].conn[d], wire[u][d], answered[u][d])
      BY DEF Ind
    <3>2. status[u] = "new" => wire[u][d] = <<>>
      BY DEF Ind
    <3> QED BY <1>1, <1>6, <1>7, <2>2, <3>1, <3>2
  <2> QED BY <2>1, <2>2
<1>11. \A u \in Threads' : IsLua(lua[u])'
  BY <1>8, <1>9 DEF IsLua
<1>12. \A u \in Threads', d \in Conns' : Good(lua[u].conn[d], wire[u][d], answered[u][d])'
  BY <1>1, <1>8, <1>10 DEF Good, Follows
<1>13. lua' = [u \in Threads' |-> lua'[u]] /\ status' = [u \in Threads' |-> status'[u]]
  BY <1>6, <1>7, <1>8
<1>14. wire' = [u \in Threads' |-> [d \in Conns' |-> wire'[u][d]]]
  BY <1>1, <1>8 DEF Ind
<1>15. answered' = [u \in Threads' |-> [d \in Conns' |-> answered'[u][d]]]
  BY <1>1, <1>8 DEF Ind
<1> QED BY <1>1, <1>8, <1>10, <1>11, <1>12, <1>13, <1>14, <1>15 DEF Ind

\* Nothing of the connections changes.
LEMMA StatusInd ==
    ASSUME Ind, UNCHANGED <<mode, lua, wire, answered>>,
           status' = [t \in Threads |-> status'[t]],
           \A t \in Threads : status'[t] = "new" => status[t] = "new"
    PROVE  Ind'
<1>1. Threads' = Threads /\ Conns' = Conns
  BY DEF Threads, Conns
<1>2. \A u \in Threads' : IsLua(lua[u])'
  BY <1>1 DEF Ind, IsLua
<1>3. \A u \in Threads', d \in Conns' : Good(lua[u].conn[d], wire[u][d], answered[u][d])'
  BY <1>1 DEF Ind, Good, Follows
<1> QED BY <1>1, <1>2, <1>3 DEF Ind

LEMMA NextInd == Ind /\ [Next]_vars => Ind'
<1> SUFFICES ASSUME Ind, [Next]_vars PROVE Ind'
  OBVIOUS
<1>1. ASSUME NEW t \in Threads, SetUp(t) PROVE Ind'
  BY <1>1, SetUpInd
<1>2. ASSUME NEW t \in Threads, Stop(t) PROVE Ind'
  <2>1. /\ status' = [u \in Threads |-> IF u = t THEN "ended" ELSE status[u]]
        /\ UNCHANGED <<mode, lua, wire, answered>>
    BY <1>2 DEF Stop, Ind
  <2> QED BY <2>1, StatusInd
<1>3. ASSUME NEW t \in Threads, NEW c \in Conns, Send(t, c) PROVE Ind'
  BY <1>3, RequestInd DEF Send
<1>4. ASSUME NEW t \in Threads, NEW c \in Conns, SendAgain(t, c) PROVE Ind'
  BY <1>4, RequestInd DEF SendAgain
<1>5. ASSUME NEW t \in Threads, NEW c \in Conns, Reset(t, c) PROVE Ind'
  BY <1>5, ResetInd
<1>6. ASSUME NEW t \in Threads, NEW c \in Conns, Answer(t, c) PROVE Ind'
  BY <1>6, AnswerInd
<1>7. ASSUME UNCHANGED <<mode, lua, status, wire, answered>> PROVE Ind'
  BY <1>7, StatusInd DEF Ind
<1>8. CASE Done
  BY <1>7, <1>8 DEF Done
<1>9. CASE Terminated \/ UNCHANGED vars
  BY <1>7, <1>9 DEF Terminated, vars
<1> QED BY <1>1, <1>2, <1>3, <1>4, <1>5, <1>6, <1>8, <1>9 DEF Next

LEMMA Inductive == Spec => []Ind
BY InitInd, NextInd, PTL DEF Spec

\* Whatever connections, retries, failures and resets interleave, the answer to a request
\* is recorded for the step the request was made of.
THEOREM RecordedForItsRequest == Spec => []AnswerIsRecordedForItsRequest
<1>1. Ind => AnswerIsRecordedForItsRequest
  <2> SUFFICES ASSUME Ind, NEW t \in Threads, NEW c \in Conns, wire[t][c] # <<>>
               PROVE  LET w == wire[t][c] IN
                      /\ lua[t].conn[c].current = IF w = <<IdleRequest>> THEN <<>> ELSE w
                      /\ w # <<IdleRequest>> => lua[t].conn[c].iteration = w[1].iteration
    BY DEF AnswerIsRecordedForItsRequest
  <2>1. Sound(lua[t].conn[c]) /\ Carries(wire[t][c], lua[t].conn[c])
    BY DEF Ind, Good
  <2> QED BY <2>1 DEF Sound, Carries
<1> QED BY Inductive, <1>1, PTL

\* A request is made of answers of its own run through the iteration, to earlier steps.
THEOREM OwnRun == Spec => []UsesItsOwnRun
<1>1. Ind => UsesItsOwnRun
  <2> SUFFICES ASSUME Ind, NEW t \in Threads, NEW c \in Conns, wire[t][c] # <<>>,
                      NEW u \in wire[t][c][1].uses
               PROVE  u.run = wire[t][c][1].run /\ u.step < wire[t][c][1].step
    BY DEF UsesItsOwnRun
  <2>1. Sound(lua[t].conn[c]) /\ Carries(wire[t][c], lua[t].conn[c])
    BY DEF Ind, Good
  <2>2. CASE wire[t][c] = <<IdleRequest>>
    BY <2>2 DEF IdleRequest
  <2>3. CASE wire[t][c] # <<IdleRequest>>
    BY <2>1, <2>3 DEF Sound, Carries
  <2> QED BY <2>2, <2>3
<1> QED BY Inductive, <1>1, PTL

\* A step is requested when the one before it was answered, and not otherwise.
THEOREM InOrder == Spec => []StepsInOrder
<1>1. Ind => StepsInOrder
  <2> SUFFICES ASSUME Ind, NEW t \in Threads, NEW c \in Conns, wire[t][c] # <<>>,
                      wire[t][c][1].step > 1
               PROVE  LET w == wire[t][c][1]  a == answered[t][c] IN
                      a.run = w.run /\ a.step = w.step - 1 /\ (a.ok \/ ~mode.failOnNon2xx)
    BY DEF StepsInOrder
  <2>1. /\ Sound(lua[t].conn[c]) /\ Carries(wire[t][c], lua[t].conn[c])
        /\ Follows(lua[t].conn[c], answered[t][c])
    BY DEF Ind, Good
  <2>2. wire[t][c] # <<IdleRequest>>
    BY DEF IdleRequest
  <2> QED BY <2>1, <2>2 DEF Sound, Carries, Follows
<1> QED BY Inductive, <1>1, PTL

-----------------------------------------------------------------------------------
(* The counters: what done() makes of those of the threads.                          *)

\* The counters, and of one of them the sums over the threads.
Counters == [issued : Nat, pairs : Nat, ok : Nat, other : Nat, started : Nat, completed : Nat,
             failed : Nat, exhausted : Nat, unresolved : Nat, unencoded : Nat]

CountOf(k, l) == [t \in Threads |-> l[t].n[k]]
TotalOf(k, l) == Sum(CountOf(k, l), Threads)
Sums == [k \in DOMAIN NoCounts |-> TotalOf(k, lua)]

LEMMA ThreadsAndConns ==
    ASSUME mode \in Modes
    PROVE  /\ IsFiniteSet(Threads) /\ 1 \in Threads /\ Threads \subseteq Nat
           /\ IsFiniteSet(Conns) /\ 0 \in Conns
<1>1. mode.threads \in Nat /\ mode.threads >= 1 /\ mode.connections \in Nat
  BY IterationsAssumption
<1>2. IsFiniteSet(Threads)
  BY <1>1, FS_Interval DEF Threads
<1>3. 1 \in Threads /\ Threads \subseteq Nat
  BY <1>1 DEF Threads
<1>4. \A a \in Nat, b \in Nat \ {0} : a \div b \in Nat
  BY SMT
<1>5. mode.connections \div mode.threads \in Nat
  BY <1>1, <1>4
<1>6. IsFiniteSet(Conns)
  <2> DEFINE n == mode.connections \div mode.threads
  <2>1. n \in Int
    BY <1>5
  <2> HIDE DEF n
  <2>2. 0 \in Int /\ n - 1 \in Int
    BY <2>1
  <2>3. IsFiniteSet(0 .. (n - 1))
    BY <2>2, FS_Interval
  <2> QED BY <2>3 DEF Conns, n
<1> QED BY <1>2, <1>3, <1>6, FirstConnection

\* What done() adds up.
LEMMA TotalsAreSums ==
    ASSUME mode \in Modes, \A t \in Threads : lua[t].n \in Counters
    PROVE  Totals = Sums
<1>1. DOMAIN NoCounts = {"issued", "pairs", "ok", "other", "started", "completed", "failed",
                         "exhausted", "unresolved", "unencoded"}
  BY DEF NoCounts
<1>2. ASSUME NEW k \in DOMAIN NoCounts
      PROVE  MapThenSumSet(LAMBDA t : lua[t].n[k], Threads) = Sum(CountOf(k, lua), Threads)
  <2> DEFINE iter == CHOOSE f :
                f = [s \in SUBSET Threads |->
                        IF s = {} THEN 0 ELSE lua[Pick(s)].n[k] + f[s \ {Pick(s)}]]
  <2>1. \A f : Folds(CountOf(k, lua), Threads, f) <=>
           f = [s \in SUBSET Threads |->
                   IF s = {} THEN 0 ELSE lua[Pick(s)].n[k] + f[s \ {Pick(s)}]]
    <3> SUFFICES ASSUME NEW f
                 PROVE  [s \in SUBSET Threads |->
                            IF s = {} THEN 0 ELSE CountOf(k, lua)[Pick(s)] + f[s \ {Pick(s)}]]
                         = [s \in SUBSET Threads |->
                              IF s = {} THEN 0 ELSE lua[Pick(s)].n[k] + f[s \ {Pick(s)}]]
      BY Zenon DEF Folds
    <3>1. ASSUME NEW s \in SUBSET Threads, s # {} PROVE CountOf(k, lua)[Pick(s)] = lua[Pick(s)].n[k]
      <4>1. Pick(s) \in Threads
        BY <3>1, PickIsIn
      <4> QED BY <4>1 DEF CountOf
    <3> QED BY <3>1
  <2>2. IsFiniteSet(Threads) /\ \A t \in Threads : CountOf(k, lua)[t] \in Nat
    BY <1>1, ThreadsAndConns DEF CountOf, Counters
  <2>3. Folds(CountOf(k, lua), Threads, [s \in SUBSET Threads |-> Sum(CountOf(k, lua), s)])
    BY <2>2, FoldExists
  <2>4. Folds(CountOf(k, lua), Threads, iter)
    BY <2>1, <2>3
  <2>5. iter[Threads] = Sum(CountOf(k, lua), Threads)
    <3> HIDE DEF iter
    <3> QED BY <2>2, <2>4, FoldUnique
  <2>6. MapThenSumSet(LAMBDA t : lua[t].n[k], Threads) = iter[Threads]
    BY DEF MapThenSumSet, MapThenFoldSet, Pick
  <2> QED BY <2>5, <2>6
<1> QED BY <1>2 DEF Totals, Sums, TotalOf

\* What the first thread makes of its first request depends on the options only.
LEMMA SameVerified ==
    ASSUME mode' = mode
    PROVE  Outcomes(NewLua, 0)' = Outcomes(NewLua, 0) /\ NewLua' = NewLua
<1>1. NewLua' = NewLua
  BY DEF NewLua, Conns
<1>2. \A st : OutOfIterations(st)' <=> OutOfIterations(st)
  BY DEF OutOfIterations
<1>3. \A s : ClaimNextIteration(s)' = ClaimNextIteration(s)
  BY <1>2 DEF ClaimNextIteration
<1>4. \A s : ClaimIfNone(s)' = ClaimIfNone(s)
  BY <1>3 DEF ClaimIfNone
<1>5. \A s : Attempt(s)' = Attempt(s)
  BY <1>4 DEF Attempt
<1>6. \A S : Attempts(S)' = Attempts(S)
  BY <1>5 DEF Attempts
<1>7. \A s : RequestWithRetries(s)' = RequestWithRetries(s)
  BY <1>4, <1>6 DEF RequestWithRetries
<1> QED BY <1>1, <1>7 DEF Outcomes

-----------------------------------------------------------------------------------
(* What request() and response() do to the counters.                                 *)

Open(st)    == IF st.iteration = 0 THEN 0 ELSE 1
OfStep(req) == IF req \in {<<>>, <<IdleRequest>>} THEN 0 ELSE 1

\* From s to r, what was started is complete, failed or under way as before.
Keeps(s, r) ==
    /\ r.n \in Counters
    /\ r.n.started + s.n.completed + s.n.failed + Open(s.st)
          = s.n.started + r.n.completed + r.n.failed + Open(r.st)

\* ... and every request that was issued is the one that is handed over.
Balanced(s, r) ==
    /\ Keeps(s, r)
    /\ r.n.issued + OfStep(s.req) = s.n.issued + OfStep(r.req)
    /\ r.n.pairs = s.n.pairs

LEMMA OneUp ==
    ASSUME NEW n \in Counters
    PROVE  /\ [n EXCEPT !.started = @ + 1] \in Counters
           /\ [n EXCEPT !.completed = @ + 1] \in Counters
           /\ [n EXCEPT !.failed = @ + 1] \in Counters
           /\ [n EXCEPT !.issued = @ + 1] \in Counters
           /\ [n EXCEPT !.pairs = @ + 1] \in Counters
           /\ [n EXCEPT !.ok = @ + 1] \in Counters
           /\ [n EXCEPT !.other = @ + 1] \in Counters
           /\ [n EXCEPT !.exhausted = @ + 1] \in Counters
           /\ [n EXCEPT !.unresolved = @ + 1] \in Counters
           /\ [n EXCEPT !.unencoded = @ + 1] \in Counters
BY DEF Counters

LEMMA CountsNat ==
    ASSUME NEW n \in Counters
    PROVE  /\ n.started \in Nat /\ n.completed \in Nat /\ n.failed \in Nat
           /\ n.issued \in Nat /\ n.pairs \in Nat
BY DEF Counters

LEMMA OpenOrNot ==
    /\ \A st : Open(st) \in Nat
    /\ \A req : OfStep(req) \in Nat
BY DEF Open, OfStep

LEMMA BalancedSelf ==
    ASSUME NEW s, s.n \in Counters PROVE Balanced(s, s)
BY CountsNat, OpenOrNot DEF Balanced, Keeps

LEMMA EqualsAdded ==
    ASSUME NEW a \in Nat, NEW b \in Nat, NEW c \in Nat, NEW d \in Nat,
           NEW a1 \in Nat, NEW b1 \in Nat, NEW c1 \in Nat, NEW d1 \in Nat,
           NEW a2 \in Nat, NEW b2 \in Nat, NEW c2 \in Nat, NEW d2 \in Nat,
           a1 + b + c + d = a + b1 + c1 + d1, a2 + b1 + c1 + d1 = a1 + b2 + c2 + d2
    PROVE  a2 + b + c + d = a + b2 + c2 + d2
OBVIOUS

LEMMA BalancedOn ==
    ASSUME NEW s, NEW r, NEW q, s.n \in Counters, Balanced(s, r), Balanced(r, q)
    PROVE  Balanced(s, q)
<1>1. r.n \in Counters /\ q.n \in Counters
  BY DEF Balanced, Keeps
<1>2. /\ s.n.started \in Nat /\ s.n.completed \in Nat /\ s.n.failed \in Nat
      /\ s.n.issued \in Nat /\ s.n.pairs \in Nat
      /\ r.n.started \in Nat /\ r.n.completed \in Nat /\ r.n.failed \in Nat
      /\ r.n.issued \in Nat /\ r.n.pairs \in Nat
      /\ q.n.started \in Nat /\ q.n.completed \in Nat /\ q.n.failed \in Nat
      /\ q.n.issued \in Nat /\ q.n.pairs \in Nat
  BY <1>1, CountsNat
<1>3. /\ Open(s.st) \in Nat /\ Open(r.st) \in Nat /\ Open(q.st) \in Nat
      /\ OfStep(s.req) \in Nat /\ OfStep(r.req) \in Nat /\ OfStep(q.req) \in Nat
  BY OpenOrNot
<1>4. /\ r.n.started + s.n.completed + s.n.failed + Open(s.st)
            = s.n.started + r.n.completed + r.n.failed + Open(r.st)
      /\ q.n.started + r.n.completed + r.n.failed + Open(r.st)
            = r.n.started + q.n.completed + q.n.failed + Open(q.st)
  BY DEF Balanced, Keeps
<1>5. q.n.started + s.n.completed + s.n.failed + Open(s.st)
         = s.n.started + q.n.completed + q.n.failed + Open(q.st)
  BY <1>2, <1>3, <1>4, EqualsAdded
<1>6. /\ r.n.issued + OfStep(s.req) = s.n.issued + OfStep(r.req) /\ r.n.pairs = s.n.pairs
      /\ q.n.issued + OfStep(r.req) = r.n.issued + OfStep(q.req) /\ q.n.pairs = r.n.pairs
  BY DEF Balanced
<1>7. q.n.issued + OfStep(s.req) = s.n.issued + OfStep(q.req) /\ q.n.pairs = s.n.pairs
  BY ONLY <1>2, <1>3, <1>6
<1> QED BY <1>1, <1>5, <1>7 DEF Balanced, Keeps

LEMMA ClaimBalanced ==
    ASSUME NEW s, IsTurn(s), IsConn(s.st), s.n \in Counters, s.st.iteration = 0
    PROVE  Balanced(s, ClaimNextIteration(s))
<1> DEFINE r == ClaimNextIteration(s)
<1>1. CASE s.st.exhausted
  <2>1. r = s
    BY <1>1 DEF ClaimNextIteration
  <2> QED BY <2>1, BalancedSelf
<1>2. CASE ~s.st.exhausted /\ OutOfIterations(s.st)
  <2> DEFINE n == [s.n EXCEPT !.exhausted = @ + 1]
             st == [s.st EXCEPT !.exhausted = TRUE]
  <2>1. r = [s EXCEPT !.st.exhausted = TRUE, !.n.exhausted = @ + 1]
    BY <1>2 DEF ClaimNextIteration
  <2>2. r.n = n /\ r.st = st /\ r.req = s.req
    BY <2>1 DEF IsTurn
  <2>3. n \in Counters
    BY OneUp
  <2>4. /\ n.started = s.n.started /\ n.completed = s.n.completed /\ n.failed = s.n.failed
        /\ n.issued = s.n.issued /\ n.pairs = s.n.pairs
    BY DEF Counters
  <2>5. Open(st) = Open(s.st)
    BY DEF Open, IsConn
  <2> HIDE DEF n, st, r
  <2> QED BY <2>2, <2>3, <2>4, <2>5, CountsNat, OpenOrNot DEF Balanced, Keeps, r
<1>3. CASE ~s.st.exhausted /\ ~OutOfIterations(s.st)
  <2> DEFINE n == [s.n EXCEPT !.started = @ + 1]
  <2>1. r = [s EXCEPT !.st = Begun(s.st), !.n.started = @ + 1]
    BY <1>3 DEF ClaimNextIteration
  <2>2. r.n = n /\ r.st = Begun(s.st) /\ r.req = s.req
    BY <2>1 DEF IsTurn
  <2>3. n \in Counters
    BY OneUp
  <2>4. /\ n.started = s.n.started + 1 /\ n.completed = s.n.completed
        /\ n.failed = s.n.failed /\ n.issued = s.n.issued /\ n.pairs = s.n.pairs
    BY DEF Counters
  <2>5. Open(s.st) = 0 /\ Open(Begun(s.st)) = 1
    BY BegunSound DEF Open
  <2> HIDE DEF n, r
  <2> QED BY <2>2, <2>3, <2>4, <2>5, CountsNat, OpenOrNot DEF Balanced, Keeps, r
<1> QED BY <1>1, <1>2, <1>3

LEMMA ClaimedBalanced ==
    ASSUME NEW s, IsTurn(s), Sound(s.st), s.n \in Counters, s.req = <<>>
    PROVE  Balanced(s, IdleIfNone(ClaimIfNone(s)))
<1> DEFINE d == ClaimIfNone(s)
           r == IdleIfNone(d)
<1>1. CASE s.st.iteration # 0
  <2>1. r = s
    BY <1>1 DEF ClaimIfNone, IdleIfNone
  <2> QED BY <2>1, BalancedSelf
<1>2. CASE s.st.iteration = 0
  <2>1. d = ClaimNextIteration(s)
    BY <1>2 DEF ClaimIfNone
  <2>2. IsTurn(d) /\ d.req = <<>> /\ Balanced(s, d) /\ d.n \in Counters
    <3>1. IsConn(s.st)
      BY DEF Sound
    <3>2. Balanced(s, d)
      BY <1>2, <2>1, <3>1, ClaimBalanced
    <3> QED BY <1>2, <2>1, <3>2, ClaimSound DEF Balanced, Keeps
  <2> HIDE DEF d
  <2>3. Balanced(d, r)
    <3>1. CASE d.st.iteration # 0
      <4>1. r = d
        BY <3>1 DEF IdleIfNone
      <4> QED BY <2>2, <4>1, BalancedSelf
    <3>2. CASE d.st.iteration = 0
      <4>1. r = [d EXCEPT !.req = <<IdleRequest>>]
        BY <3>2 DEF IdleIfNone
      <4>2. r.st = d.st /\ r.n = d.n /\ r.req = <<IdleRequest>>
        BY <2>2, <4>1 DEF IsTurn
      <4>3. OfStep(r.req) = 0 /\ OfStep(d.req) = 0
        BY <2>2, <4>2 DEF OfStep
      <4> HIDE DEF r
      <4> QED BY <2>2, <4>2, <4>3, CountsNat, OpenOrNot DEF Balanced, Keeps
    <3> QED BY <3>1, <3>2
  <2> HIDE DEF r
  <2>4. Balanced(s, r)
    BY <2>2, <2>3, BalancedOn
  <2> QED BY <2>4 DEF r, d
<1> QED BY <1>1, <1>2

LEMMA FailedCounts ==
    ASSUME NEW s, s.n \in Counters, IsConn(s.st),
           s \in [st : {s.st}, n : {s.n}] \/ IsTurn(s)
    PROVE  LET f == FailIteration(s) IN
           /\ f.n \in Counters /\ f.n.started = s.n.started /\ f.n.completed = s.n.completed
           /\ f.n.failed = s.n.failed + 1 /\ f.n.issued = s.n.issued /\ f.n.pairs = s.n.pairs
           /\ Open(f.st) = 0
<1> DEFINE f == FailIteration(s)
           n == [s.n EXCEPT !.failed = @ + 1]
<1>1. f.n = n /\ f.st = Ended(s.st)
  BY DEF FailIteration, IsTurn
<1>2. n \in Counters
  BY OneUp
<1>3. /\ n.started = s.n.started /\ n.completed = s.n.completed /\ n.failed = s.n.failed + 1
      /\ n.issued = s.n.issued /\ n.pairs = s.n.pairs
  BY DEF Counters
<1>4. Open(Ended(s.st)) = 0
  BY EndedSound DEF Open
<1> HIDE DEF n, f
<1> QED BY <1>1, <1>2, <1>3, <1>4 DEF f

LEMMA BuildBalanced ==
    ASSUME NEW s, NEW a, Trying(s, a), s.n \in Counters, s.req = <<>>
    PROVE  Balanced(s, BuildRequest(s))
<1> DEFINE r == BuildRequest(s)
           f == FailIteration(s)
<1>1. IsTurn(s) /\ IsConn(s.st) /\ s.st.iteration # 0 /\ Open(s.st) = 1 /\ OfStep(s.req) = 0
  BY DEF Trying, Sound, Open, OfStep
<1>2. /\ f.n \in Counters /\ f.n.started = s.n.started /\ f.n.completed = s.n.completed
      /\ f.n.failed = s.n.failed + 1 /\ f.n.issued = s.n.issued /\ f.n.pairs = s.n.pairs
      /\ Open(f.st) = 0 /\ IsTurn(f) /\ f.req = <<>>
  BY <1>1, FailedCounts, FailedSound
<1>3. CASE \E ref \in StepOf(s.st).refs : ~Resolves(s.st, ref)
  <2> DEFINE n == [f.n EXCEPT !.unresolved = @ + 1]
  <2>1. r = [f EXCEPT !.n.unresolved = @ + 1]
    BY <1>3 DEF BuildRequest
  <2> HIDE DEF f
  <2>2. r.n = n /\ r.st = f.st /\ r.req = <<>>
    BY <1>2, <2>1 DEF IsTurn
  <2>3. n \in Counters
    BY <1>2, OneUp
  <2>4. /\ n.started = f.n.started /\ n.completed = f.n.completed /\ n.failed = f.n.failed
        /\ n.issued = f.n.issued /\ n.pairs = f.n.pairs
    BY <1>2 DEF Counters
  <2> HIDE DEF n, r
  <2> QED BY <1>1, <1>2, <2>2, <2>3, <2>4, CountsNat DEF Balanced, Keeps, r
<1>4. CASE ~(\E ref \in StepOf(s.st).refs : ~Resolves(s.st, ref)) /\ ~StepOf(s.st).encodes
  <2> DEFINE n == [f.n EXCEPT !.unencoded = @ + 1]
  <2>1. r = [f EXCEPT !.n.unencoded = @ + 1]
    BY <1>4 DEF BuildRequest
  <2> HIDE DEF f
  <2>2. r.n = n /\ r.st = f.st /\ r.req = <<>>
    BY <1>2, <2>1 DEF IsTurn
  <2>3. n \in Counters
    BY <1>2, OneUp
  <2>4. /\ n.started = f.n.started /\ n.completed = f.n.completed /\ n.failed = f.n.failed
        /\ n.issued = f.n.issued /\ n.pairs = f.n.pairs
    BY <1>2 DEF Counters
  <2> HIDE DEF n, r
  <2> QED BY <1>1, <1>2, <2>2, <2>3, <2>4, CountsNat DEF Balanced, Keeps, r
<1>5. CASE ~(\E ref \in StepOf(s.st).refs : ~Resolves(s.st, ref)) /\ StepOf(s.st).encodes
  <2> DEFINE q == RequestOf(s.st)
             n == [s.n EXCEPT !.issued = @ + 1]
             st == [s.st EXCEPT !.current = <<q>>]
  <2>1. r = [s EXCEPT !.st.current = <<q>>, !.n.issued = @ + 1, !.req = <<q>>]
    BY <1>5 DEF BuildRequest
  <2>2. q.iteration # 0
    BY <1>1 DEF RequestOf
  <2> HIDE DEF q, r
  <2>3. r.st = st /\ r.n = n /\ r.req = <<q>>
    BY <1>1, <2>1 DEF IsTurn
  <2>4. OfStep(<<q>>) = 1
    <3>1. IdleRequest.iteration = 0 /\ <<q>>[1] = q /\ <<IdleRequest>>[1] = IdleRequest
      BY DEF IdleRequest
    <3>2. <<q>> # <<>> /\ <<q>> # <<IdleRequest>>
      BY <2>2, <3>1
    <3> QED BY <3>2 DEF OfStep
  <2>5. Open(st) = 1
    BY <1>1 DEF Open, IsConn
  <2>6. n \in Counters
    BY OneUp
  <2>7. /\ n.started = s.n.started /\ n.completed = s.n.completed /\ n.failed = s.n.failed
        /\ n.issued = s.n.issued + 1 /\ n.pairs = s.n.pairs
    BY DEF Counters
  <2> HIDE DEF n, st
  <2> QED BY <1>1, <2>3, <2>4, <2>5, <2>6, <2>7, CountsNat DEF Balanced, Keeps, r
<1> QED BY <1>3, <1>4, <1>5

LEMMA AttemptBalanced ==
    ASSUME NEW s, NEW a, Trying(s, a), s.n \in Counters
    PROVE  Balanced(s, Attempt(s))
<1>1. CASE s.req # <<>>
  BY <1>1, BalancedSelf DEF Attempt
<1>2. CASE s.req = <<>>
  <2> DEFINE b == BuildRequest(s)
             r == IdleIfNone(ClaimIfNone(b))
  <2>1. Balanced(s, b) /\ b.n \in Counters
    BY <1>2, BuildBalanced DEF Balanced, Keeps
  <2>2. /\ IsTurn(b) /\ Sound(b.st)
        /\ \/ b.req = <<>> /\ b.st.iteration = 0
           \/ b.req # <<>> /\ b.st.iteration # 0
    BY <1>2, BuildSound
  <2>3. Attempt(s) = r
    BY <1>2 DEF Attempt
  <2> HIDE DEF b
  <2>4. CASE b.req = <<>>
    <3>1. Balanced(b, r)
      BY <2>1, <2>2, <2>4, ClaimedBalanced
    <3> HIDE DEF r
    <3> QED BY <2>1, <2>3, <3>1, BalancedOn
  <2>5. CASE b.req # <<>>
    <3>1. r = b
      BY <2>2, <2>5 DEF ClaimIfNone, IdleIfNone
    <3> QED BY <2>1, <2>3, <3>1
  <2> QED BY <2>4, <2>5
<1> QED BY <1>1, <1>2

LEMMA AttemptsBalanced ==
    ASSUME NEW S, NEW a, NEW s0, s0.n \in Counters,
           \A s \in S : Trying(s, a) /\ Balanced(s0, s)
    PROVE  \A s \in Attempts(S) : Trying(s, a) /\ Balanced(s0, s)
<1> SUFFICES ASSUME NEW s \in S PROVE Trying(Attempt(s), a) /\ Balanced(s0, Attempt(s))
  BY DEF Attempts
<1>1. Trying(Attempt(s), a)
  BY AttemptSound DEF Tried
<1>2. s.n \in Counters
  BY DEF Balanced, Keeps
<1>3. Balanced(s, Attempt(s))
  BY <1>2, AttemptBalanced
<1> QED BY <1>1, <1>3, BalancedOn

LEMMA RequestBalanced ==
    ASSUME NEW l, NEW c, NEW a, Sound(l.conn[c]), Follows(l.conn[c], a), l.n \in Counters
    PROVE  \A s \in Outcomes(l, c) :
              /\ s.n \in Counters
              /\ s.n.started + l.n.completed + l.n.failed + Open(l.conn[c])
                    = l.n.started + s.n.completed + s.n.failed + Open(s.st)
              /\ s.n.issued = l.n.issued + OfStep(s.req) /\ s.n.pairs = l.n.pairs
<1> DEFINE s0 == [st |-> l.conn[c], n |-> l.n, req |-> <<>>]
           s1 == IdleIfNone(ClaimIfNone(s0))
           last == Attempts(Attempts(Attempts({s1})))
<1>1. /\ IsTurn(s0) /\ s0.st = l.conn[c] /\ s0.req = <<>> /\ s0.n = l.n /\ s0.n \in Counters
      /\ OfStep(s0.req) = 0
  BY DEF IsTurn, OfStep
<1>2. Outcomes(l, c) = {IF s.req = <<>> THEN [s EXCEPT !.req = <<IdleRequest>>] ELSE s :
                          s \in last}
  BY DEF Outcomes, RequestWithRetries, Key
<1> HIDE DEF s0
<1>3. Trying(s1, a) /\ Balanced(s0, s1)
  BY <1>1, ClaimedOrIdle, ClaimedBalanced
<1> HIDE DEF s1
<1>4. \A s \in last : Trying(s, a) /\ Balanced(s0, s)
  <2>1. \A s \in Attempts({s1}) : Trying(s, a) /\ Balanced(s0, s)
    BY <1>1, <1>3, AttemptsBalanced
  <2>2. \A s \in Attempts(Attempts({s1})) : Trying(s, a) /\ Balanced(s0, s)
    BY <1>1, <2>1, AttemptsBalanced
  <2> QED BY <1>1, <2>2, AttemptsBalanced
<1> HIDE DEF last
<1>5. ASSUME NEW s \in last
      PROVE  Balanced(s0, IF s.req = <<>> THEN [s EXCEPT !.req = <<IdleRequest>>] ELSE s)
  <2>1. IsTurn(s) /\ Balanced(s0, s) /\ s.n \in Counters
    BY <1>4 DEF Trying, Balanced, Keeps
  <2>2. CASE s.req # <<>>
    BY <2>1, <2>2
  <2>3. CASE s.req = <<>>
    <3> DEFINE r == [s EXCEPT !.req = <<IdleRequest>>]
    <3>1. r.st = s.st /\ r.n = s.n /\ r.req = <<IdleRequest>>
      BY <2>1 DEF IsTurn
    <3>2. OfStep(r.req) = 0 /\ OfStep(s.req) = 0
      BY <2>3, <3>1 DEF OfStep
    <3> HIDE DEF r
    <3>3. Balanced(s0, r)
      BY <2>1, <3>1, <3>2 DEF Balanced, Keeps
    <3> QED BY <2>3, <3>3 DEF r
  <2> QED BY <2>2, <2>3
<1>6. ASSUME NEW s \in Outcomes(l, c) PROVE Balanced(s0, s)
  BY <1>2, <1>5
<1>7. ASSUME NEW s \in Outcomes(l, c)
      PROVE  /\ s.n \in Counters /\ s.n.issued = l.n.issued + OfStep(s.req)
             /\ s.n.pairs = l.n.pairs
             /\ s.n.started + l.n.completed + l.n.failed + Open(l.conn[c])
                   = l.n.started + s.n.completed + s.n.failed + Open(s.st)
  <2>1. /\ s.n \in Counters
        /\ s.n.started + s0.n.completed + s0.n.failed + Open(s0.st)
              = s0.n.started + s.n.completed + s.n.failed + Open(s.st)
        /\ s.n.issued + OfStep(s0.req) = s0.n.issued + OfStep(s.req)
        /\ s.n.pairs = s0.n.pairs
    BY <1>6 DEF Balanced, Keeps
  <2>2. PICK i : i = s.n.issued
    OBVIOUS
  <2>3. i \in Nat /\ i + 0 = l.n.issued + OfStep(s.req)
    BY <1>1, <2>1, <2>2, CountsNat
  <2>4. s.n.issued = l.n.issued + OfStep(s.req)
    BY <2>2, <2>3
  <2> QED BY <1>1, <2>1, <2>4
<1> QED BY <1>7

LEMMA FailKeeps ==
    ASSUME NEW q, IsPair(q), IsConn(q.st), q.st.iteration # 0, q.n \in Counters
    PROVE  LET r == FailIteration(q) IN
           Keeps(q, r) /\ r.n.issued = q.n.issued /\ r.n.pairs = q.n.pairs
<1> DEFINE r == FailIteration(q)
<1>1. /\ r.n \in Counters /\ r.n.started = q.n.started /\ r.n.completed = q.n.completed
      /\ r.n.failed = q.n.failed + 1 /\ r.n.issued = q.n.issued /\ r.n.pairs = q.n.pairs
      /\ Open(r.st) = 0
  BY FailedCounts DEF IsPair
<1>2. Open(q.st) = 1
  BY DEF Open
<1> HIDE DEF r
<1> QED BY <1>1, <1>2, CountsNat DEF Keeps, r

LEMMA NextStepKeeps ==
    ASSUME NEW q, IsPair(q), IsConn(q.st), q.st.iteration # 0, q.n \in Counters
    PROVE  LET r == NextStep(q) IN
           Keeps(q, r) /\ r.n.issued = q.n.issued /\ r.n.pairs = q.n.pairs
<1> DEFINE r == NextStep(q)
<1>1. CASE q.st.step + 1 > Len(Iterations[q.st.iteration])
  <2> DEFINE n == [q.n EXCEPT !.completed = @ + 1]
  <2>1. r.n = n /\ r.st = Ended(q.st)
    BY <1>1 DEF NextStep, Complete, IsPair
  <2>2. n \in Counters
    BY OneUp
  <2>3. /\ n.started = q.n.started /\ n.completed = q.n.completed + 1
        /\ n.failed = q.n.failed /\ n.issued = q.n.issued /\ n.pairs = q.n.pairs
    BY DEF Counters
  <2>4. Open(q.st) = 1 /\ Open(Ended(q.st)) = 0
    BY EndedSound DEF Open
  <2> HIDE DEF n, r
  <2> QED BY <2>1, <2>2, <2>3, <2>4, CountsNat DEF Keeps, r
<1>2. CASE ~(q.st.step + 1 > Len(Iterations[q.st.iteration]))
  <2> DEFINE st == [q.st EXCEPT !.step = @ + 1]
  <2>1. r.n = q.n /\ r.st = st
    BY <1>2 DEF NextStep, IsPair
  <2>2. Open(st) = Open(q.st)
    BY DEF Open, IsConn
  <2> HIDE DEF st, r
  <2> QED BY <2>1, <2>2, CountsNat, OpenOrNot DEF Keeps, r
<1> QED BY <1>1, <1>2

\* Keeps of a pair whose counters of starts and ends, and whose iteration, are those of s.
LEMMA KeepsFrom ==
    ASSUME NEW s, NEW q, NEW r, Keeps(q, r), q.n.started = s.n.started,
           q.n.completed = s.n.completed, q.n.failed = s.n.failed, Open(q.st) = Open(s.st)
    PROVE  Keeps(s, r)
BY DEF Keeps

LEMMA RecordedKeeps ==
    ASSUME NEW s, IsPair(s), Sound(s.st), s.st.iteration # 0, s.n \in Counters,
           NEW ok, NEW parsed
    PROVE  LET r == Logged(Recorded(s, ok, parsed)) IN
           Keeps(s, r) /\ r.n.issued = s.n.issued /\ r.n.pairs = s.n.pairs + 1
<1> DEFINE n == [s.n EXCEPT !.pairs = @ + 1]
           p == [s EXCEPT !.n.pairs = @ + 1]
           r == Recorded(s, ok, parsed)
<1>1. IsPair(p) /\ p.st = s.st /\ p.n = n
  BY DEF IsPair
<1>2. /\ n \in Counters /\ n.started = s.n.started /\ n.completed = s.n.completed
      /\ n.failed = s.n.failed /\ n.issued = s.n.issued /\ n.pairs = s.n.pairs + 1
  BY OneUp DEF Counters
<1>3. IsConn(s.st)
  BY DEF Sound
<1>4. Keeps(s, r) /\ r.n.issued = s.n.issued /\ r.n.pairs = s.n.pairs + 1
  <2>1. CASE ok
    <3> DEFINE o == WithOutput(s.st, parsed)
               q == [p EXCEPT !.n.ok = @ + 1, !.st = o]
               m == [n EXCEPT !.ok = @ + 1]
    <3>1. r = NextStep(q)
      BY <1>1, <2>1 DEF Recorded
    <3>2. IsConn(o) /\ o.iteration = s.st.iteration
      BY WithOutputAnswered DEF Answered
    <3> HIDE DEF p, o, n
    <3>3. IsPair(q) /\ q.st = o /\ q.n = m
      BY <1>1 DEF IsPair
    <3>4. /\ m \in Counters /\ m.started = n.started /\ m.completed = n.completed
          /\ m.failed = n.failed /\ m.issued = n.issued /\ m.pairs = n.pairs
      BY <1>2, OneUp DEF Counters
    <3> HIDE DEF q, m, r
    <3>5. Keeps(q, r) /\ r.n.issued = q.n.issued /\ r.n.pairs = q.n.pairs
      BY <3>1, <3>2, <3>3, <3>4, NextStepKeeps
    <3>6. Open(q.st) = Open(s.st)
      BY <3>2, <3>3 DEF Open
    <3> QED BY <1>2, <3>3, <3>4, <3>5, <3>6, KeepsFrom
  <2>2. CASE ~ok
    <3> DEFINE q == [p EXCEPT !.n.other = @ + 1]
               m == [n EXCEPT !.other = @ + 1]
    <3>1. r = IF mode.failOnNon2xx THEN FailIteration(q) ELSE NextStep(q)
      BY <2>2 DEF Recorded
    <3> HIDE DEF p, n
    <3>2. IsPair(q) /\ q.st = s.st /\ q.n = m
      BY <1>1 DEF IsPair
    <3>3. /\ m \in Counters /\ m.started = n.started /\ m.completed = n.completed
          /\ m.failed = n.failed /\ m.issued = n.issued /\ m.pairs = n.pairs
      BY <1>2, OneUp DEF Counters
    <3> HIDE DEF q, m, r
    <3>4. Keeps(q, r) /\ r.n.issued = q.n.issued /\ r.n.pairs = q.n.pairs
      BY <1>3, <3>1, <3>2, <3>3, NextStepKeeps, FailKeeps
    <3> QED BY <1>2, <3>2, <3>3, <3>4, KeepsFrom
  <2> QED BY <2>1, <2>2
<1>5. IsPair(r)
  BY RecordedLoose
<1> HIDE DEF r, n, p
<1>6. CASE Raises(r)
  BY <1>4, <1>6 DEF Logged, r
<1>7. CASE ~Raises(r)
  <2> DEFINE g == Logged(r)
  <2>1. g.n = r.n /\ g.st = [r.st EXCEPT !.current = <<>>]
    BY <1>5, <1>7 DEF Logged, IsPair
  <2>2. Open(g.st) = Open(r.st)
    <3>1. IsConn(r.st)
      BY RecordedLoose DEF Loose, r
    <3> QED BY <2>1, <3>1 DEF Open, IsConn
  <2> HIDE DEF g
  <2>3. Keeps(s, g)
    BY <1>4, <2>1, <2>2 DEF Keeps
  <2> QED BY <1>4, <2>1, <2>3 DEF g, r
<1> QED BY <1>6, <1>7

-----------------------------------------------------------------------------------
(* What that is for a thread, and for all of them.                                   *)

\* One element comes or goes.
In(x, S) == IF x \in S THEN 1 ELSE 0

LEMMA OneElement ==
    ASSUME NEW S, IsFiniteSet(S), NEW T, IsFiniteSet(T), NEW x, S \ {x} = T \ {x}
    PROVE  /\ Cardinality(T) + In(x, S) = Cardinality(S) + In(x, T)
           /\ Cardinality(S) \in Nat /\ Cardinality(T) \in Nat
<1>1. \A R : IsFiniteSet(R) => /\ Cardinality(R) = Cardinality(R \ {x}) + In(x, R)
                               /\ Cardinality(R) \in Nat /\ Cardinality(R \ {x}) \in Nat
  <2> SUFFICES ASSUME NEW R, IsFiniteSet(R)
               PROVE  /\ Cardinality(R) = Cardinality(R \ {x}) + In(x, R)
                      /\ Cardinality(R) \in Nat /\ Cardinality(R \ {x}) \in Nat
    OBVIOUS
  <2>1. IsFiniteSet(R \ {x}) /\ Cardinality(R \ {x}) = IF x \in R THEN Cardinality(R) - 1
                                                       ELSE Cardinality(R)
    BY FS_RemoveElement
  <2>2. Cardinality(R) \in Nat /\ Cardinality(R \ {x}) \in Nat
    BY <2>1, FS_CardinalityType
  <2> QED BY <2>1, <2>2 DEF In
<1>2. In(x, S) \in Nat /\ In(x, T) \in Nat
  BY DEF In
<1>3. /\ Cardinality(S) = Cardinality(S \ {x}) + In(x, S)
      /\ Cardinality(S) \in Nat /\ Cardinality(S \ {x}) \in Nat
  BY ONLY <1>1, IsFiniteSet(S)
<1>4. /\ Cardinality(T) = Cardinality(S \ {x}) + In(x, T) /\ Cardinality(T) \in Nat
  <2>1. /\ Cardinality(T) = Cardinality(T \ {x}) + In(x, T) /\ Cardinality(T) \in Nat
    BY ONLY <1>1, IsFiniteSet(T)
  <2>2. Cardinality(T \ {x}) = Cardinality(S \ {x})
    OBVIOUS
  <2> QED BY ONLY <2>1, <2>2
<1>5. \A a, b, k, i, j \in Nat : a = k + i /\ b = k + j => b + i = a + j
  OBVIOUS
<1> QED BY ONLY <1>2, <1>3, <1>4, <1>5

ActiveIn(l) == {c \in Conns : l.conn[c].iteration # 0}

\* Every iteration that was started is complete, failed or under way.
Even(l) ==
    /\ l.n \in Counters
    /\ l.n.started = l.n.completed + l.n.failed + Cardinality(ActiveIn(l))

LEMMA EvenKept ==
    ASSUME mode \in Modes, NEW l, NEW r, Even(l), NEW c \in Conns, Others(l, r, c),
           r.n \in Counters,
           r.n.started + l.n.completed + l.n.failed + Open(l.conn[c])
              = l.n.started + r.n.completed + r.n.failed + Open(r.conn[c])
    PROVE  Even(r)
<1> DEFINE S == ActiveIn(l)
           T == ActiveIn(r)
<1>1. IsFiniteSet(S) /\ IsFiniteSet(T)
  BY ThreadsAndConns, FS_Subset DEF ActiveIn
<1>2. S \ {c} = T \ {c}
  BY DEF ActiveIn, Others
<1>3. In(c, S) = Open(l.conn[c]) /\ In(c, T) = Open(r.conn[c])
  BY DEF In, Open, ActiveIn
<1> HIDE DEF S, T
<1>4. /\ Cardinality(T) + Open(l.conn[c]) = Cardinality(S) + Open(r.conn[c])
      /\ Cardinality(S) \in Nat /\ Cardinality(T) \in Nat
  BY <1>1, <1>2, <1>3, OneElement
<1>5. l.n.started = l.n.completed + l.n.failed + Cardinality(S) /\ l.n \in Counters
  BY DEF Even, S
<1>6. /\ l.n.started \in Nat /\ l.n.completed \in Nat /\ l.n.failed \in Nat
      /\ r.n.started \in Nat /\ r.n.completed \in Nat /\ r.n.failed \in Nat
      /\ Open(l.conn[c]) \in Nat /\ Open(r.conn[c]) \in Nat
  BY <1>5, CountsNat, OpenOrNot
<1>7. r.n.started = r.n.completed + r.n.failed + Cardinality(T)
  <2> DEFINE a == l.n.started  k == l.n.completed  d == l.n.failed  e == Open(l.conn[c])
             a1 == r.n.started  k1 == r.n.completed  d1 == r.n.failed  e1 == Open(r.conn[c])
             m == Cardinality(S)  m1 == Cardinality(T)
  <2>1. /\ a \in Nat /\ k \in Nat /\ d \in Nat /\ e \in Nat /\ m \in Nat
        /\ a1 \in Nat /\ k1 \in Nat /\ d1 \in Nat /\ e1 \in Nat /\ m1 \in Nat
    BY <1>4, <1>6
  <2>2. a1 + k + d + e = a + k1 + d1 + e1
    OBVIOUS
  <2>3. m1 + e = m + e1 /\ a = k + d + m
    BY <1>4, <1>5
  <2> HIDE DEF a, k, d, e, a1, k1, d1, e1, m, m1
  <2>4. a1 = k1 + d1 + m1
    BY ONLY <2>1, <2>2, <2>3
  <2> QED BY <2>4 DEF a1, k1, d1, m1
<1> QED BY <1>7 DEF Even, T

\* request() has one outcome.
LEMMA OneOutcome ==
    ASSUME NEW l, NEW c PROVE \E s : Outcomes(l, c) = {s}
<1> DEFINE s1 == IdleIfNone(ClaimIfNone([st |-> l.conn[Key(c)], n |-> l.n, req |-> <<>>]))
           last == Attempt(Attempt(Attempt(s1)))
<1>1. \A s : Attempts({s}) = {Attempt(s)}
  BY DEF Attempts
<1>2. Attempts(Attempts(Attempts({s1}))) = {last}
  <2> HIDE DEF s1
  <2> QED BY <1>1
<1>3. Outcomes(l, c) = {IF s.req = <<>> THEN [s EXCEPT !.req = <<IdleRequest>>] ELSE s :
                          s \in Attempts(Attempts(Attempts({s1})))}
  BY DEF Outcomes, RequestWithRetries
<1> DEFINE f(s) == IF s.req = <<>> THEN [s EXCEPT !.req = <<IdleRequest>>] ELSE s
<1>4. Outcomes(l, c) = {f(s) : s \in {last}}
  BY <1>2, <1>3
<1> HIDE DEF last, s1, f
<1>5. {f(s) : s \in {last}} = {f(last)}
  OBVIOUS
<1> QED BY <1>4, <1>5

\* The request that verifies the script.
LEMMA FirstRequest ==
    ASSUME mode \in Modes
    PROVE  \E s : /\ Outcomes(NewLua, 0) = {s} /\ s.n \in Counters /\ s.n.pairs = 0
                  /\ (CHOOSE r \in Outcomes(NewLua, 0) : TRUE) = s
                  /\ Even(NewLua) /\ Even(After(NewLua, 0, s))
                  /\ NewLua.n.issued = 0 /\ NewLua.n.pairs = 0
                  /\ After(NewLua, 0, s).n = s.n
<1>1. PICK s : Outcomes(NewLua, 0) = {s}
  BY OneOutcome
<1>2. NewLua.n \in Counters /\ NewLua.n.issued = 0 /\ NewLua.n.pairs = 0
      /\ NewLua.n.started = 0 /\ NewLua.n.completed = 0 /\ NewLua.n.failed = 0
  BY DEF NewLua, NoCounts, Counters
<1>3. 0 \in Conns /\ IsLua(NewLua) /\ NewLua.conn[0] = NewConn(0) /\ Sound(NewLua.conn[0])
      /\ Follows(NewLua.conn[0], 0)
  <2>1. 0 \in Conns
    BY FirstConnection
  <2>2. Good(NewLua.conn[0], <<>>, 0)
    BY <2>1, NewLuaGood
  <2>3. IsLua(NewLua) /\ NewLua.conn[0] = NewConn(0)
    BY <2>1, NewLuaGood
  <2> QED BY <2>1, <2>2, <2>3 DEF Good
<1>4. /\ s.n \in Counters /\ s.n.pairs = NewLua.n.pairs
      /\ s.n.started + NewLua.n.completed + NewLua.n.failed + Open(NewLua.conn[0])
            = NewLua.n.started + s.n.completed + s.n.failed + Open(s.st)
  <2>1. \A q \in Outcomes(NewLua, 0) :
           /\ q.n \in Counters
           /\ q.n.started + NewLua.n.completed + NewLua.n.failed + Open(NewLua.conn[0])
                 = NewLua.n.started + q.n.completed + q.n.failed + Open(q.st)
           /\ q.n.issued = NewLua.n.issued + OfStep(q.req) /\ q.n.pairs = NewLua.n.pairs
    <3> HIDE DEF NewLua
    <3> QED BY <1>2, <1>3, RequestBalanced
  <2>2. s \in Outcomes(NewLua, 0)
    BY <1>1
  <2> QED BY ONLY <2>1, <2>2
<1>5. Even(NewLua)
  <2>1. ActiveIn(NewLua) = {}
    <3>1. \A d \in Conns : NewLua.conn[d].iteration = 0
      <4>1. \A d : NewConn(d).iteration = 0
        BY DEF NewConn
      <4> QED BY <4>1, NewLuaGood
    <3> QED BY <3>1 DEF ActiveIn
  <2>2. Cardinality({}) = 0
    BY FS_EmptySet
  <2> QED BY <1>2, <2>1, <2>2 DEF Even
<1> DEFINE r == After(NewLua, 0, s)
<1>6. r.conn[0] = s.st /\ Others(NewLua, r, 0) /\ r.n = s.n
  <2>1. r.conn[0] = s.st /\ Others(NewLua, r, 0)
    BY <1>3, AfterGood
  <2>2. r.n = s.n
    BY <1>3 DEF After, IsLua
  <2> QED BY <2>1, <2>2
<1> HIDE DEF r
<1>7. Even(r)
  BY <1>3, <1>4, <1>5, <1>6, EvenKept
<1>8. (CHOOSE q \in Outcomes(NewLua, 0) : TRUE) = s
  BY <1>1
<1> QED BY <1>1, <1>2, <1>4, <1>5, <1>6, <1>7, <1>8 DEF r

\* The counters, the requests under way and those given up, of Lua states l, connections
\* w and threads s.
First == (CHOOSE s \in Outcomes(NewLua, 0) : TRUE).n.issued
UnderWayIn(w) == {p \in Threads \X Conns : w[p[1]][p[2]] \notin {<<>>, <<IdleRequest>>}}
VerifiedIn(s) == IF s[1] = "new" THEN 0 ELSE First

Books(l, w, s, g) ==
    /\ \A t \in Threads : Even(l[t])
    /\ \A t \in Threads : s[t] = "new" => l[t] = NewLua
    /\ \A t \in Threads : s[t] # "new" => s[1] # "new"
    /\ TotalOf("issued", l)
          = TotalOf("pairs", l) + Cardinality(UnderWayIn(w)) + g + VerifiedIn(s)

\* The inductive invariant: with that of before, the books are in order, and what done()
\* read is final.
CountInd ==
    /\ Ind /\ lost \in Nat /\ Books(lua, wire, status, lost)
    /\ report # <<>> => Joined /\ report = <<Sums>>

LEMMA BooksAfter ==
    ASSUME mode' = mode
    PROVE  /\ Books(lua', wire', status', lost') => Books(lua, wire, status, lost)'
           /\ Threads' = Threads /\ Conns' = Conns
<1>1. Threads' = Threads /\ Conns' = Conns
  BY DEF Threads, Conns
<1>2. NewLua' = NewLua /\ First' = First
  BY SameVerified DEF First
<1>3. ASSUME NEW t \in Threads PROVE Even(lua[t])' <=> Even(lua'[t])
  BY <1>1 DEF Even, ActiveIn
<1>4. \A k : TotalOf(k, lua)' = TotalOf(k, lua')
  BY <1>1 DEF TotalOf, CountOf
<1>5. UnderWayIn(wire)' = UnderWayIn(wire')
  BY <1>1 DEF UnderWayIn
<1>6. VerifiedIn(status)' = VerifiedIn(status')
  BY <1>2 DEF VerifiedIn
<1>7. ASSUME Books(lua', wire', status', lost') PROVE Books(lua, wire, status, lost)'
  BY <1>1, <1>2, <1>3, <1>4, <1>5, <1>6, <1>7 DEF Books
<1> QED BY <1>1, <1>7

\* One thread's Lua state is another one.
Replaced(l, l1, t, x) == \A u \in Threads : l1[u] = IF u = t THEN x ELSE l[u]
Counting(l) == \A u \in Threads : l[u].n \in Counters

LEMMA SumsOfCounts ==
    ASSUME mode \in Modes, NEW l, NEW l1, NEW t \in Threads, NEW x,
           Replaced(l, l1, t, x), Counting(l), x.n \in Counters,
           NEW k \in {"issued", "pairs"}
    PROVE  /\ TotalOf(k, l) \in Nat /\ TotalOf(k, l1) \in Nat
           /\ TotalOf(k, l1) + l[t].n[k] = TotalOf(k, l) + x.n[k]
<1> DEFINE f == CountOf(k, l)
           g == CountOf(k, l1)
<1>1. \A n \in Counters : n[k] \in Nat
  BY DEF Counters
<1>2. /\ \A u \in Threads : f[u] \in Nat /\ g[u] \in Nat
      /\ \A u \in Threads \ {t} : f[u] = g[u]
      /\ f[t] = l[t].n[k] /\ g[t] = x.n[k]
  BY <1>1 DEF CountOf, Replaced, Counting
<1>3. IsFiniteSet(Threads)
  BY ThreadsAndConns
<1> HIDE DEF f, g
<1>4. /\ Sum(f, Threads) \in Nat /\ Sum(g, Threads) \in Nat
      /\ Sum(g, Threads) + f[t] = Sum(f, Threads) + g[t]
  BY <1>2, <1>3, SumChanges
<1> QED BY <1>2, <1>4 DEF TotalOf, f, g

\* One connection's request is another one.
Changed(w, w1, t, c, r) ==
    \A u \in Threads, d \in Conns : w1[u][d] = IF u = t /\ d = c THEN r ELSE w[u][d]

LEMMA FlightsOf ==
    ASSUME mode \in Modes, NEW w, NEW w1, NEW t \in Threads, NEW c \in Conns, NEW r,
           Changed(w, w1, t, c, r)
    PROVE  /\ Cardinality(UnderWayIn(w)) \in Nat /\ Cardinality(UnderWayIn(w1)) \in Nat
           /\ Cardinality(UnderWayIn(w1)) + OfStep(w[t][c])
                 = Cardinality(UnderWayIn(w)) + OfStep(r)
<1> DEFINE S == UnderWayIn(w)
           T == UnderWayIn(w1)
           x == <<t, c>>
<1>1. IsFiniteSet(S) /\ IsFiniteSet(T)
  <2>1. IsFiniteSet(Threads \X Conns)
    BY ThreadsAndConns, FS_Product
  <2>2. S \subseteq Threads \X Conns /\ T \subseteq Threads \X Conns
    BY DEF UnderWayIn
  <2> HIDE DEF S, T
  <2> QED BY <2>1, <2>2, FS_Subset
<1>2. ASSUME NEW p \in Threads \X Conns, p # x PROVE p \in S <=> p \in T
  <2>1. p = <<p[1], p[2]>> /\ p[1] \in Threads /\ p[2] \in Conns
    OBVIOUS
  <2>2. ~(p[1] = t /\ p[2] = c)
    BY <1>2, <2>1
  <2>3. w1[p[1]][p[2]] = w[p[1]][p[2]]
    BY <2>1, <2>2 DEF Changed
  <2> QED BY <2>3 DEF UnderWayIn
<1>3. S \ {x} = T \ {x}
  <2>1. S \subseteq Threads \X Conns /\ T \subseteq Threads \X Conns
    BY DEF UnderWayIn
  <2> HIDE DEF S, T, x
  <2> QED BY <1>2, <2>1
<1>4. In(x, S) = OfStep(w[t][c]) /\ In(x, T) = OfStep(r)
  <2>1. x \in Threads \X Conns /\ x[1] = t /\ x[2] = c /\ w1[t][c] = r
    BY DEF Changed
  <2> HIDE DEF x
  <2> QED BY <2>1 DEF In, OfStep, UnderWayIn
<1> HIDE DEF S, T, x
<1>5. /\ Cardinality(T) + In(x, S) = Cardinality(S) + In(x, T)
      /\ Cardinality(S) \in Nat /\ Cardinality(T) \in Nat
  BY <1>1, <1>3, OneElement
<1> QED BY <1>4, <1>5 DEF S, T

LEMMA BooksAdd ==
    ASSUME NEW I \in Nat, NEW P \in Nat, NEW U \in Nat, NEW G \in Nat, NEW V \in Nat,
           NEW I1 \in Nat, NEW P1 \in Nat, NEW U1 \in Nat, NEW G1 \in Nat, NEW V1 \in Nat,
           NEW i \in Nat, NEW p \in Nat, NEW o \in Nat,
           NEW i1 \in Nat, NEW p1 \in Nat, NEW o1 \in Nat,
           I1 + i = I + i1, P1 + p = P + p1, U1 + o = U + o1, I = P + U + G + V,
           i1 + p + o + G + V = i + p1 + o1 + G1 + V1
    PROVE  I1 = P1 + U1 + G1 + V1
OBVIOUS

\* The books after a step of thread t and connection c.
LEMMA BooksKept ==
    ASSUME mode \in Modes, NEW l, NEW w, NEW s, NEW g \in Nat, Books(l, w, s, g),
           NEW t \in Threads, NEW c \in Conns, NEW x, NEW r, Even(x),
           NEW l1, Replaced(l, l1, t, x),
           NEW w1, Changed(w, w1, t, c, r),
           NEW s1, \A u \in Threads \ {t} : s1[u] = s[u], s1[t] # "new",
           t = 1 \/ s[1] # "new", NEW g1 \in Nat,
           x.n.issued + l[t].n.pairs + OfStep(w[t][c]) + g + VerifiedIn(s)
              = l[t].n.issued + x.n.pairs + OfStep(r) + g1 + VerifiedIn(s1)
    PROVE  Books(l1, w1, s1, g1)
<1>1. \A u \in Threads : Even(l1[u])
  BY DEF Books, Replaced
<1>2. \A u \in Threads : s1[u] = "new" => l1[u] = NewLua
  BY DEF Books, Replaced
<1>3. s1[1] # "new"
  BY ThreadsAndConns
<1>4. x.n \in Counters /\ Counting(l)
  BY DEF Books, Even, Counting
<1>5. /\ TotalOf("issued", l) \in Nat /\ TotalOf("issued", l1) \in Nat
      /\ TotalOf("issued", l1) + l[t].n.issued = TotalOf("issued", l) + x.n.issued
  <2>1. PICK k : k = "issued"
    OBVIOUS
  <2>2. /\ TotalOf(k, l) \in Nat /\ TotalOf(k, l1) \in Nat
        /\ TotalOf(k, l1) + l[t].n[k] = TotalOf(k, l) + x.n[k]
    <3>1. k \in {"issued", "pairs"}
      BY <2>1
    <3> QED BY <1>4, <3>1, SumsOfCounts
  <2> QED BY <2>1, <2>2
<1>6. /\ TotalOf("pairs", l) \in Nat /\ TotalOf("pairs", l1) \in Nat
      /\ TotalOf("pairs", l1) + l[t].n.pairs = TotalOf("pairs", l) + x.n.pairs
  <2>1. PICK k : k = "pairs"
    OBVIOUS
  <2>2. /\ TotalOf(k, l) \in Nat /\ TotalOf(k, l1) \in Nat
        /\ TotalOf(k, l1) + l[t].n[k] = TotalOf(k, l) + x.n[k]
    <3>1. k \in {"issued", "pairs"}
      BY <2>1
    <3> QED BY <1>4, <3>1, SumsOfCounts
  <2> QED BY <2>1, <2>2
<1>7. /\ Cardinality(UnderWayIn(w)) \in Nat /\ Cardinality(UnderWayIn(w1)) \in Nat
      /\ Cardinality(UnderWayIn(w1)) + OfStep(w[t][c])
            = Cardinality(UnderWayIn(w)) + OfStep(r)
  BY FlightsOf
<1>8. TotalOf("issued", l)
         = TotalOf("pairs", l) + Cardinality(UnderWayIn(w)) + g + VerifiedIn(s)
  BY DEF Books
<1>9. VerifiedIn(s) \in Nat /\ VerifiedIn(s1) \in Nat
  <2>1. First \in Nat
    BY FirstRequest, CountsNat DEF First
  <2> QED BY <2>1 DEF VerifiedIn
<1>10. /\ x.n.issued \in Nat /\ x.n.pairs \in Nat /\ OfStep(r) \in Nat
       /\ l[t].n.issued \in Nat /\ l[t].n.pairs \in Nat /\ OfStep(w[t][c]) \in Nat
  BY <1>4, CountsNat, OpenOrNot DEF Counting
<1>11. TotalOf("issued", l1)
          = TotalOf("pairs", l1) + Cardinality(UnderWayIn(w1)) + g1 + VerifiedIn(s1)
  <2> DEFINE I == TotalOf("issued", l)  I1 == TotalOf("issued", l1)
             P == TotalOf("pairs", l)   P1 == TotalOf("pairs", l1)
             U == Cardinality(UnderWayIn(w))  U1 == Cardinality(UnderWayIn(w1))
             V == VerifiedIn(s)         V1 == VerifiedIn(s1)
             i == l[t].n.issued         i1 == x.n.issued
             p == l[t].n.pairs          p1 == x.n.pairs
             o == OfStep(w[t][c])       o1 == OfStep(r)
  <2>1. /\ I \in Nat /\ I1 \in Nat /\ P \in Nat /\ P1 \in Nat /\ U \in Nat /\ U1 \in Nat
        /\ V \in Nat /\ V1 \in Nat /\ i \in Nat /\ i1 \in Nat /\ p \in Nat /\ p1 \in Nat
        /\ o \in Nat /\ o1 \in Nat
    BY <1>5, <1>6, <1>7, <1>9, <1>10
  <2>2. I1 + i = I + i1 /\ P1 + p = P + p1 /\ U1 + o = U + o1 /\ I = P + U + g + V
    BY <1>5, <1>6, <1>7, <1>8
  <2>3. i1 + p + o + g + V = i + p1 + o1 + g1 + V1
    OBVIOUS
  <2>4. g \in Nat /\ g1 \in Nat
    OBVIOUS
  <2> HIDE DEF I, I1, P, P1, U, U1, V, V1, i, i1, p, p1, o, o1
  <2>5. I1 = P1 + U1 + g1 + V1
    BY ONLY <2>1, <2>2, <2>3, <2>4, BooksAdd
  <2> QED BY <2>5 DEF I1, P1, U1, V1
<1> QED BY <1>1, <1>2, <1>3, <1>11 DEF Books

\* A step of the specification.
LEMMA CountStep ==
    ASSUME CountInd, Ind', NEW t \in Threads, NEW c \in Conns, NEW x, NEW r, Even(x),
           mode' = mode, lua' = [lua EXCEPT ![t] = x], wire' = [wire EXCEPT ![t][c] = r],
           status' = [status EXCEPT ![t] = status'[t]], status'[t] # "new",
           status[t] # "ended", t = 1 \/ status[1] # "new", lost' \in Nat, report' = report,
           x.n.issued + lua[t].n.pairs + OfStep(wire[t][c]) + lost + VerifiedIn(status)
              = lua[t].n.issued + x.n.pairs + OfStep(r) + lost' + VerifiedIn(status')
    PROVE  CountInd'
<1>1. mode \in Modes /\ Books(lua, wire, status, lost) /\ lost \in Nat
  BY DEF CountInd, Ind
<1>2. Replaced(lua, lua', t, x)
  BY DEF CountInd, Ind, Replaced
<1>3. Changed(wire, wire', t, c, r)
  BY DEF CountInd, Ind, Changed
<1>4. \A u \in Threads \ {t} : status'[u] = status[u]
  BY DEF CountInd, Ind
<1>5. Books(lua', wire', status', lost')
  <2> DEFINE s1 == status'
  <2>1. (\A u \in Threads \ {t} : s1[u] = status[u]) /\ s1[t] # "new"
    BY <1>4
  <2>2. x.n.issued + lua[t].n.pairs + OfStep(wire[t][c]) + lost + VerifiedIn(status)
           = lua[t].n.issued + x.n.pairs + OfStep(r) + lost' + VerifiedIn(s1)
    OBVIOUS
  <2> HIDE DEF s1
  <2>3. Books(lua', wire', s1, lost')
    BY <1>1, <1>2, <1>3, <2>1, <2>2, BooksKept
  <2> QED BY <2>3 DEF s1
<1>6. Books(lua, wire, status, lost)'
  BY <1>5, BooksAfter
<1>7. report' = <<>>
  BY DEF CountInd, Joined
<1> QED BY <1>6, <1>7 DEF CountInd

\* What the invariant says of one thread and connection.
LEMMA CountsOfThread ==
    ASSUME CountInd, NEW t \in Threads, NEW c \in Conns
    PROVE  /\ mode \in Modes /\ lost \in Nat /\ Even(lua[t]) /\ IsLua(lua[t])
           /\ lua[t].n.issued \in Nat /\ lua[t].n.pairs \in Nat
           /\ Sound(lua[t].conn[c]) /\ Follows(lua[t].conn[c], answered[t][c])
           /\ Carries(wire[t][c], lua[t].conn[c])
           /\ lua = [lua EXCEPT ![t] = lua[t]] /\ wire = [wire EXCEPT ![t][c] = wire[t][c]]
           /\ VerifiedIn(status) \in Nat
           /\ status[t] # "new" => status[1] # "new"
<1>1. Ind /\ lost \in Nat /\ Books(lua, wire, status, lost)
  BY DEF CountInd
<1>2. mode \in Modes /\ IsLua(lua[t]) /\ Good(lua[t].conn[c], wire[t][c], answered[t][c])
  BY <1>1 DEF Ind
<1>3. lua = [lua EXCEPT ![t] = lua[t]] /\ wire = [wire EXCEPT ![t][c] = wire[t][c]]
  BY <1>1 DEF Ind
<1>4. Even(lua[t]) /\ (status[t] # "new" => status[1] # "new")
  BY <1>1 DEF Books
<1>5. lua[t].n.issued \in Nat /\ lua[t].n.pairs \in Nat
  BY <1>4, CountsNat DEF Even
<1>6. VerifiedIn(status) \in Nat
  <2>1. First \in Nat
    BY <1>2, FirstRequest, CountsNat DEF First
  <2> QED BY <2>1 DEF VerifiedIn
<1> QED BY <1>1, <1>2, <1>3, <1>4, <1>5, <1>6 DEF Good

LEMMA AfterCounts ==
    ASSUME NEW l, IsLua(l), NEW c, NEW s PROVE After(l, c, s).n = s.n
BY DEF After, IsLua

LEMMA RequestCounts ==
    ASSUME CountInd, Ind', NEW t \in Threads, NEW c \in Conns, Running(t), Request(t, c),
           UNCHANGED <<mode, status, report>>, lost' = lost + OfStep(wire[t][c])
    PROVE  CountInd'
<1>1. PICK s \in Outcomes(lua[t], c) :
          /\ lua' = [lua EXCEPT ![t] = After(lua[t], c, s)]
          /\ wire' = [wire EXCEPT ![t][c] = s.req]
  BY DEF Request
<1> DEFINE x == After(lua[t], c, s)
<1>2. x.conn[c] = s.st /\ Others(lua[t], x, c) /\ x.n = s.n
  <2>1. IsLua(lua[t])
    BY CountsOfThread
  <2>2. x.conn[c] = s.st /\ Others(lua[t], x, c)
    BY <2>1, AfterGood
  <2>3. x.n = s.n
    BY <2>1, AfterCounts
  <2> QED BY <2>2, <2>3
<1>3. /\ s.n \in Counters
      /\ s.n.started + lua[t].n.completed + lua[t].n.failed + Open(lua[t].conn[c])
            = lua[t].n.started + s.n.completed + s.n.failed + Open(s.st)
      /\ s.n.issued = lua[t].n.issued + OfStep(s.req) /\ s.n.pairs = lua[t].n.pairs
  <2>1. Sound(lua[t].conn[c]) /\ Follows(lua[t].conn[c], answered[t][c])
    BY CountsOfThread
  <2>2. lua[t].n \in Counters
    BY CountsOfThread DEF Even
  <2> QED BY <2>1, <2>2, RequestBalanced
<1> HIDE DEF x
<1>4. Even(x)
  <2>1. mode \in Modes /\ Even(lua[t])
    BY CountsOfThread
  <2> QED BY <1>2, <1>3, <2>1, EvenKept
<1>5. lost' \in Nat
  BY CountsOfThread, OpenOrNot
<1>6. x.n.issued + lua[t].n.pairs + OfStep(wire[t][c]) + lost + VerifiedIn(status)
         = lua[t].n.issued + x.n.pairs + OfStep(s.req) + lost' + VerifiedIn(status')
  <2>1. /\ lua[t].n.issued \in Nat /\ lua[t].n.pairs \in Nat /\ lost \in Nat
        /\ VerifiedIn(status) \in Nat /\ OfStep(wire[t][c]) \in Nat /\ OfStep(s.req) \in Nat
    BY CountsOfThread, OpenOrNot
  <2>2. /\ x.n.issued = lua[t].n.issued + OfStep(s.req) /\ x.n.pairs = lua[t].n.pairs
        /\ VerifiedIn(status') = VerifiedIn(status) /\ lost' = lost + OfStep(wire[t][c])
    BY <1>2, <1>3
  <2> QED BY ONLY <2>1, <2>2
<1>7. /\ status[t] # "ended" /\ status'[t] # "new" /\ status[1] # "new"
      /\ status' = [status EXCEPT ![t] = status'[t]]
  BY CountsOfThread DEF Running, CountInd, Ind
<1> QED BY <1>1, <1>4, <1>5, <1>6, <1>7, CountStep DEF x

\* A request that is given up is one of a step, or an idle one.
LEMMA GivenUpCounts ==
    ASSUME NEW t \in Threads, NEW c \in Conns, wire[t][c] # <<>>, lost \in Nat, GivenUp(t, c)
    PROVE  lost' = lost + OfStep(wire[t][c]) /\ lost' \in Nat
<1>1. CASE wire[t][c] = <<IdleRequest>>
  <2>1. lost' = lost /\ OfStep(wire[t][c]) = 0
    BY <1>1 DEF GivenUp, OfStep
  <2> QED BY <2>1
<1>2. CASE wire[t][c] # <<IdleRequest>>
  <2>1. lost' = lost + 1 /\ OfStep(wire[t][c]) = 1
    BY <1>2 DEF GivenUp, OfStep
  <2> QED BY <2>1
<1> QED BY <1>1, <1>2

LEMMA ResetCounts ==
    ASSUME CountInd, Ind', NEW t \in Threads, NEW c \in Conns, Reset(t, c)
    PROVE  CountInd'
<1>1. /\ wire' = [wire EXCEPT ![t][c] = <<>>] /\ lua' = lua /\ Running(t)
      /\ wire[t][c] # <<>> /\ GivenUp(t, c) /\ UNCHANGED <<mode, status, report>>
  BY DEF Reset
<1>2. /\ Even(lua[t]) /\ lua' = [lua EXCEPT ![t] = lua[t]] /\ lost \in Nat
      /\ status[t] # "ended" /\ status'[t] # "new" /\ status[1] # "new"
      /\ status' = [status EXCEPT ![t] = status'[t]]
  BY <1>1, CountsOfThread DEF Running, CountInd, Ind
<1>3. lost' = lost + OfStep(wire[t][c]) /\ lost' \in Nat
  BY <1>1, <1>2, GivenUpCounts
<1>4. lua[t].n.issued + lua[t].n.pairs + OfStep(wire[t][c]) + lost + VerifiedIn(status)
         = lua[t].n.issued + lua[t].n.pairs + OfStep(<<>>) + lost' + VerifiedIn(status')
  <2>1. /\ lua[t].n.issued \in Nat /\ lua[t].n.pairs \in Nat
        /\ VerifiedIn(status) \in Nat /\ OfStep(wire[t][c]) \in Nat
    BY CountsOfThread, OpenOrNot
  <2>2. OfStep(<<>>) = 0 /\ VerifiedIn(status') = VerifiedIn(status)
    BY <1>1 DEF OfStep
  <2> QED BY ONLY <1>2, <1>3, <2>1, <2>2
<1> QED BY <1>1, <1>2, <1>3, <1>4, CountStep

LEMMA AnswerCounts ==
    ASSUME CountInd, Ind', NEW t \in Threads, NEW c \in Conns, Answer(t, c)
    PROVE  CountInd'
<1> DEFINE st == lua[t].conn[c]
           w  == wire[t][c]
<1>1. PICK ok \in BOOLEAN, parsed \in BOOLEAN :
        /\ Running(t) /\ w # <<>> /\ wire' = [wire EXCEPT ![t][c] = <<>>]
        /\ IF Tracked(st)
           THEN \E r \in {Recorded([st |-> st, n |-> lua[t].n], ok, parsed)} :
                  lua' = [lua EXCEPT ![t] = After(lua[t], c, Logged(r))]
           ELSE lua' = lua
        /\ UNCHANGED <<mode, status, lost, report>>
  BY DEF Answer, Key
<1>2. /\ Even(lua[t]) /\ IsLua(lua[t]) /\ mode \in Modes
      /\ Sound(st) /\ Carries(w, st) /\ lost' = lost /\ lost \in Nat
      /\ status[t] # "ended" /\ status'[t] # "new" /\ status[1] # "new"
      /\ status' = [status EXCEPT ![t] = status'[t]]
  BY <1>1, CountsOfThread DEF Running, CountInd, Ind
<1>3. /\ lua[t].n.issued \in Nat /\ lua[t].n.pairs \in Nat /\ VerifiedIn(status) \in Nat
      /\ OfStep(<<>>) = 0 /\ VerifiedIn(status') = VerifiedIn(status)
  BY <1>1, CountsOfThread DEF OfStep
<1>4. CASE Tracked(st)
  <2> DEFINE s == [st |-> st, n |-> lua[t].n]
             r == Logged(Recorded(s, ok, parsed))
             x == After(lua[t], c, r)
  <2>1. lua' = [lua EXCEPT ![t] = x]
    BY <1>1, <1>4
  <2>2. st.iteration # 0 /\ OfStep(w) = 1
    BY <1>1, <1>2, <1>4 DEF Tracked, Carries, OfStep
  <2>3. IsPair(s) /\ s.st = st /\ s.n = lua[t].n
    BY DEF IsPair
  <2> HIDE DEF s
  <2>4. Keeps(s, r) /\ r.n.issued = s.n.issued /\ r.n.pairs = s.n.pairs + 1
    BY <1>2, <2>2, <2>3, RecordedKeeps DEF Even
  <2> HIDE DEF r
  <2>5. x.conn[c] = r.st /\ Others(lua[t], x, c) /\ x.n = r.n
    <3>1. IsLua(lua[t])
      BY <1>2
    <3>2. x.conn[c] = r.st /\ Others(lua[t], x, c)
      BY <3>1, AfterGood
    <3>3. x.n = r.n
      BY <3>1, AfterCounts
    <3> HIDE DEF x
    <3> QED BY <3>2, <3>3
  <2> HIDE DEF x
  <2>6. Even(x)
    BY <1>2, <2>3, <2>4, <2>5, EvenKept DEF Keeps
  <2>7. x.n.issued + lua[t].n.pairs + OfStep(w) + lost + VerifiedIn(status)
           = lua[t].n.issued + x.n.pairs + OfStep(<<>>) + lost' + VerifiedIn(status')
    <3>1. x.n.issued = lua[t].n.issued /\ x.n.pairs = lua[t].n.pairs + 1
      BY <2>3, <2>4, <2>5
    <3> HIDE DEF w
    <3> QED BY ONLY <1>2, <1>3, <2>2, <3>1
  <2> QED BY <1>1, <1>2, <2>1, <2>6, <2>7, CountStep
<1>5. CASE ~Tracked(st)
  <2>1. lua' = [lua EXCEPT ![t] = lua[t]]
    BY <1>1, <1>5, CountsOfThread
  <2>2. OfStep(w) = 0
    <3>1. st.current = <<>>
      BY <1>2, <1>5 DEF Tracked, Sound
    <3>2. w = <<IdleRequest>>
      BY <1>1, <1>2, <3>1 DEF Carries
    <3> QED BY <3>2 DEF OfStep
  <2>3. lua[t].n.issued + lua[t].n.pairs + OfStep(w) + lost + VerifiedIn(status)
           = lua[t].n.issued + lua[t].n.pairs + OfStep(<<>>) + lost' + VerifiedIn(status')
    <3> HIDE DEF w
    <3> QED BY ONLY <1>2, <1>3, <2>2
  <2> QED BY <1>1, <1>2, <2>1, <2>3, CountStep
<1> QED BY <1>4, <1>5

LEMMA SetUpCounts ==
    ASSUME CountInd, Ind', NEW t \in Threads, SetUp(t)
    PROVE  CountInd'
<1>1. PICK s \in Outcomes(NewLua, 0) :
          lua' = [lua EXCEPT ![t] = IF t = 1 THEN After(NewLua, 0, s) ELSE NewLua]
  BY DEF SetUp
<1>2. /\ status[t] = "new" /\ status' = [status EXCEPT ![t] = "running"]
      /\ UNCHANGED <<mode, wire, lost, report>>
      /\ \A u \in 1 .. (t - 1) : status[u] # "new"
  BY DEF SetUp
<1>3. mode \in Modes /\ 0 \in Conns /\ t \in Nat /\ t >= 1
  <2>1. mode \in Modes
    BY DEF CountInd, Ind
  <2> QED BY <2>1, ThreadsAndConns DEF Threads
<1>4. /\ lost \in Nat /\ wire' = [wire EXCEPT ![t][0] = wire[t][0]]
      /\ lua[t] = NewLua /\ VerifiedIn(status) \in Nat /\ OfStep(wire[t][0]) \in Nat
  <2>1. lua[t] = NewLua
    BY <1>2 DEF CountInd, Books
  <2> QED BY <1>2, <1>3, <2>1, CountsOfThread, OpenOrNot
<1>5. /\ status'[t] = "running" /\ status' = [status EXCEPT ![t] = status'[t]]
      /\ \A u \in Threads \ {t} : status'[u] = status[u]
  BY <1>2 DEF CountInd, Ind
<1> DEFINE x == IF t = 1 THEN After(NewLua, 0, s) ELSE NewLua
<1>6. PICK q : /\ Outcomes(NewLua, 0) = {q} /\ q.n \in Counters /\ q.n.pairs = 0
               /\ (CHOOSE r \in Outcomes(NewLua, 0) : TRUE) = q
               /\ Even(NewLua) /\ Even(After(NewLua, 0, q))
               /\ NewLua.n.issued = 0 /\ NewLua.n.pairs = 0
               /\ After(NewLua, 0, q).n = q.n
  BY <1>3, FirstRequest
<1>7. s = q /\ First = q.n.issued
  BY <1>6 DEF First
<1>8. Even(x)
  BY <1>6, <1>7
<1>9. /\ t = 1 \/ status[1] # "new"
      /\ x.n.issued + NewLua.n.pairs + OfStep(wire[t][0]) + lost + VerifiedIn(status)
            = NewLua.n.issued + x.n.pairs + OfStep(wire[t][0]) + lost' + VerifiedIn(status')
  <2>1. CASE t = 1
    <3>1. x.n.issued = First /\ x.n.pairs = 0 /\ First \in Nat
      BY <1>6, <1>7, <2>1, CountsNat
    <3>2. VerifiedIn(status) = 0 /\ VerifiedIn(status') = First
      BY <1>2, <1>5, <2>1 DEF VerifiedIn
    <3> HIDE DEF x
    <3> QED BY <1>2, <1>4, <1>6, <2>1, <3>1, <3>2
  <2>2. CASE t # 1
    <3>1. 1 \in 1 .. (t - 1)
      BY <1>3, <2>2
    <3>2. 1 \in Threads \ {t}
      BY <1>3, <2>2, ThreadsAndConns
    <3>3. status[1] # "new" /\ status'[1] = status[1]
      BY <1>2, <1>5, <3>1, <3>2
    <3>4. VerifiedIn(status') = VerifiedIn(status)
      BY <3>3 DEF VerifiedIn
    <3>5. x = NewLua
      BY <2>2
    <3> HIDE DEF x
    <3> QED BY <1>2, <1>4, <1>6, <3>3, <3>4, <3>5
  <2> QED BY <2>1, <2>2
<1>10. lua' = [lua EXCEPT ![t] = x]
  BY <1>1
<1> HIDE DEF x
<1>11. status'[t] # "new" /\ status[t] # "ended" /\ lost' \in Nat
  BY <1>2, <1>4, <1>5
<1>12. PICK c, r : c = 0 /\ r = wire[t][c]
  OBVIOUS
<1>13. /\ c \in Conns /\ wire' = [wire EXCEPT ![t][c] = r]
       /\ mode' = mode /\ report' = report
       /\ status' = [status EXCEPT ![t] = status'[t]]
  BY <1>2, <1>3, <1>4, <1>5, <1>12
<1>14. /\ t = 1 \/ status[1] # "new"
       /\ x.n.issued + lua[t].n.pairs + OfStep(wire[t][c]) + lost + VerifiedIn(status)
             = lua[t].n.issued + x.n.pairs + OfStep(r) + lost' + VerifiedIn(status')
  BY <1>4, <1>9, <1>12
<1> QED BY <1>8, <1>10, <1>11, <1>13, <1>14, CountStep

LEMMA StopCounts ==
    ASSUME CountInd, Ind', NEW t \in Threads, Stop(t)
    PROVE  CountInd'
<1>1. /\ Running(t) /\ status' = [status EXCEPT ![t] = "ended"]
      /\ UNCHANGED <<mode, lua, wire, lost, report>>
  BY DEF Stop
<1>2. 0 \in Conns
  BY ThreadsAndConns DEF CountInd, Ind
<1>3. /\ lost' \in Nat /\ wire' = [wire EXCEPT ![t][0] = wire[t][0]]
      /\ lua' = [lua EXCEPT ![t] = lua[t]] /\ Even(lua[t])
      /\ status[1] # "new" /\ status[t] # "ended"
  BY <1>1, <1>2, CountsOfThread DEF Running
<1>4. /\ status'[t] = "ended" /\ status' = [status EXCEPT ![t] = status'[t]]
      /\ status'[1] # "new"
  BY <1>1, <1>3 DEF CountInd, Ind
<1>5. VerifiedIn(status') = VerifiedIn(status)
  BY <1>3, <1>4 DEF VerifiedIn
<1>6. lua[t].n.issued + lua[t].n.pairs + OfStep(wire[t][0]) + lost + VerifiedIn(status)
         = lua[t].n.issued + lua[t].n.pairs + OfStep(wire[t][0]) + lost'
           + VerifiedIn(status')
  BY <1>1, <1>5
<1>7. status'[t] # "new"
  BY <1>4
<1>8. PICK c, r, x : c = 0 /\ r = wire[t][c] /\ x = lua[t]
  OBVIOUS
<1>9. /\ c \in Conns /\ wire' = [wire EXCEPT ![t][c] = r] /\ Even(x)
      /\ mode' = mode /\ report' = report /\ lua' = [lua EXCEPT ![t] = x]
      /\ status' = [status EXCEPT ![t] = status'[t]]
  BY <1>1, <1>2, <1>3, <1>4, <1>8
<1>10. x.n.issued + lua[t].n.pairs + OfStep(wire[t][c]) + lost + VerifiedIn(status)
          = lua[t].n.issued + x.n.pairs + OfStep(r) + lost' + VerifiedIn(status')
  BY <1>6, <1>8
<1> QED BY <1>3, <1>7, <1>9, <1>10, CountStep

\* Only what done() reported may change.
LEMMA ReportCounts ==
    ASSUME CountInd, Ind', UNCHANGED <<mode, lua, status, wire, lost>>,
           report' = report \/ (Joined /\ report' = <<Totals>>)
    PROVE  CountInd'
<1>1. mode \in Modes /\ Books(lua', wire', status', lost') /\ lost' \in Nat
  BY DEF CountInd, Ind
<1>2. Books(lua, wire, status, lost)' /\ Threads' = Threads
  BY <1>1, BooksAfter
<1>3. Totals = Sums
  BY <1>1, TotalsAreSums DEF CountInd, Books, Even
<1>4. Sums' = Sums /\ Joined' = Joined
  BY <1>2 DEF Sums, TotalOf, CountOf, Joined
<1>5. report' # <<>> => Joined' /\ report' = <<Sums'>>
  BY <1>3, <1>4 DEF CountInd
<1> QED BY <1>1, <1>2, <1>5 DEF CountInd

LEMMA InitCountInd == Init => CountInd
<1> SUFFICES ASSUME Init PROVE CountInd
  OBVIOUS
<1>1. /\ mode \in Modes /\ lost = 0 /\ report = <<>> /\ 1 \in Threads
      /\ \A t \in Threads : lua[t] = NewLua /\ status[t] = "new"
      /\ \A t \in Threads, c \in Conns : wire[t][c] = <<>>
  BY ThreadsAndConns DEF Init
<1>2. Even(NewLua) /\ NewLua.n.issued = 0 /\ NewLua.n.pairs = 0
  BY <1>1, FirstRequest
<1>3. TotalOf("issued", lua) = 0 /\ TotalOf("pairs", lua) = 0
  <2>1. \A t \in Threads : CountOf("issued", lua)[t] = 0 /\ CountOf("pairs", lua)[t] = 0
    BY <1>1, <1>2 DEF CountOf
  <2> QED BY <2>1, SumOfZeros DEF TotalOf
<1>4. Cardinality(UnderWayIn(wire)) = 0
  <2>1. UnderWayIn(wire) = {}
    BY <1>1 DEF UnderWayIn
  <2> QED BY <2>1, FS_EmptySet
<1>5. VerifiedIn(status) = 0
  BY <1>1 DEF VerifiedIn
<1>6. Books(lua, wire, status, lost)
  BY <1>1, <1>2, <1>3, <1>4, <1>5 DEF Books
<1> QED BY <1>1, <1>6, InitInd DEF CountInd

LEMMA NextCountInd == CountInd /\ [Next]_vars => CountInd'
<1> SUFFICES ASSUME CountInd, [Next]_vars PROVE CountInd'
  OBVIOUS
<1>1. Ind'
  BY NextInd DEF CountInd
<1>2. ASSUME NEW t \in Threads, SetUp(t) PROVE CountInd'
  BY <1>1, <1>2, SetUpCounts
<1>3. ASSUME NEW t \in Threads, Stop(t) PROVE CountInd'
  BY <1>1, <1>3, StopCounts
<1>4. ASSUME NEW t \in Threads, NEW c \in Conns, Send(t, c) PROVE CountInd'
  <2>1. /\ Running(t) /\ Request(t, c) /\ UNCHANGED <<mode, status, report, lost>>
        /\ wire[t][c] = <<>>
    BY <1>4 DEF Send
  <2>2. lost \in Nat /\ OfStep(wire[t][c]) = 0
    BY <2>1 DEF CountInd, OfStep
  <2>3. lost' = lost + OfStep(wire[t][c])
    BY <2>1, <2>2
  <2> QED BY <1>1, <2>1, <2>3, RequestCounts
<1>5. ASSUME NEW t \in Threads, NEW c \in Conns, SendAgain(t, c) PROVE CountInd'
  <2>1. /\ Running(t) /\ Request(t, c) /\ UNCHANGED <<mode, status, report>>
        /\ wire[t][c] # <<>> /\ GivenUp(t, c) /\ lost \in Nat
    BY <1>5 DEF SendAgain, CountInd
  <2>2. lost' = lost + OfStep(wire[t][c])
    BY <2>1, GivenUpCounts
  <2> QED BY <1>1, <2>1, <2>2, RequestCounts
<1>6. ASSUME NEW t \in Threads, NEW c \in Conns, Reset(t, c) PROVE CountInd'
  BY <1>1, <1>6, ResetCounts
<1>7. ASSUME NEW t \in Threads, NEW c \in Conns, Answer(t, c) PROVE CountInd'
  BY <1>1, <1>7, AnswerCounts
<1>8. CASE Done
  BY <1>1, <1>8, ReportCounts DEF Done
<1>9. CASE Terminated \/ UNCHANGED vars
  BY <1>1, <1>9, ReportCounts DEF Terminated, vars
<1> QED BY <1>2, <1>3, <1>4, <1>5, <1>6, <1>7, <1>8, <1>9 DEF Next

\* Every iteration that was started is complete, failed or under way, every request of a
\* step was answered, is under way, was given up or was made to verify the script, and
\* done() reports the final counts, however the threads interleave.
THEOREM CountsAlwaysAddUp == Spec => []CountsAddUp
<1>1. CountInd => CountsAddUp
  <2> SUFFICES ASSUME CountInd PROVE CountsAddUp
    OBVIOUS
  <2>1. mode \in Modes /\ Books(lua, wire, status, lost)
    BY DEF CountInd, Ind
  <2>2. Totals = Sums
    BY <2>1, TotalsAreSums DEF Books, Even
  <2>3. ASSUME NEW t \in Threads
        PROVE  LET n == lua[t].n IN
               n.started = n.completed + n.failed + Cardinality(Active(t))
    BY <2>1 DEF Books, Even, ActiveIn, Active
  <2>4. VerifiedIn(status) = Verified
    <3>1. SetUpThreads = {} <=> status[1] = "new"
      BY <2>1, ThreadsAndConns DEF Books, SetUpThreads
    <3> QED BY <3>1 DEF Verified, VerifiedIn, First
  <2>5. UnderWayIn(wire) = UnderWay
    BY DEF UnderWayIn, UnderWay
  <2>6. Sums.issued = TotalOf("issued", lua) /\ Sums.pairs = TotalOf("pairs", lua)
    BY DEF Sums, NoCounts
  <2>7. Totals.issued = Totals.pairs + Cardinality(UnderWay) + lost + Verified
    BY <2>1, <2>2, <2>4, <2>5, <2>6 DEF Books
  <2>8. report # <<>> => report[1] = Totals
    BY <2>2 DEF CountInd
  <2> QED BY <2>3, <2>7, <2>8 DEF CountsAddUp
<1> QED BY InitCountInd, NextCountInd, <1>1, PTL DEF Spec
===================================================================================
