--------------------------------- MODULE AeTimers ---------------------------------
(***********************************************************************************)
(* The time events of the ae event loop (src/ae.c): the list of aeTimeEvents, the  *)
(* sleep that aeProcessEvents computes from it, and processTimeEvents, which walks *)
(* the list while the procedures it calls change it and the clock moves.           *)
(*                                                                                 *)
(* The clock counts milliseconds; the code keeps it, and the due time of an event, *)
(* as a pair of seconds and milliseconds, and may see it set by someone else.      *)
(* Every procedure may create events, and returns AE_NOMORE or a wait.             *)
(***********************************************************************************)
EXTENDS Integers, Sequences, SequencesExt

CONSTANTS
    MsPerSec,       \* 1000
    Waits,          \* waits events are created with, in milliseconds
    FirstClock,     \* the clock when the loop is created
    MaxClock,       \* bound: the last value of the clock
    MaxIds,         \* bound: events created in all
    MaxSkews        \* bound: how often the clock is set

ASSUME TimersAssumption ==
    /\ MsPerSec \in Nat \ {0} /\ Waits \subseteq Nat
    /\ FirstClock \in Nat /\ MaxClock \in Nat /\ FirstClock >= MsPerSec
    /\ MaxIds \in Nat /\ MaxSkews \in Nat

VARIABLES
    clock,      \* gettimeofday(), in milliseconds
    list,       \* timeEventHead: the events, the newest first
    nextId,     \* timeEventNextId
    lastTime,   \* lastTime: the second in which the last pass looked at its events
    step,       \* where the loop is
    te, maxId,  \* of processTimeEvents: the event looked at, the last id of the pass
    sleep,      \* what is left of the timeout of the poll; Forever without events
    owed,       \* events this pass has to call
    called,     \* events this pass has called
    born,       \* events created since this pass began
    skews       \* how often the clock may still be set (bound)

vars == <<clock, list, nextId, lastTime, step, te, maxId, sleep, owed, called,
          born, skews>>

Null    == -1       \* no event
Forever == -1       \* no timeout

Steps == {"setup", "top", "poll", "files", "time", "walk"}

-----------------------------------------------------------------------------------
Sec(t) == t \div MsPerSec
Ms(t)  == t % MsPerSec

\* aeAddMillisecondsToNow.  Mutant: no second is carried.
AddMsNoCarry(ms) == [sec |-> Sec(clock) + Sec(ms), ms |-> (Ms(clock) + Ms(ms)) % MsPerSec]
AddMillisecondsToNow(ms) ==
    LET sum == Ms(clock) + Ms(ms) IN
    IF sum >= MsPerSec
    THEN [sec |-> Sec(clock) + Sec(ms) + 1, ms |-> sum - MsPerSec]
    ELSE [sec |-> Sec(clock) + Sec(ms),     ms |-> sum]

\* An event to come ms from now.  due is not in the code: the moment that was asked.
Event(id, ms) == [id |-> id, when |-> AddMillisecondsToNow(ms), due |-> clock + ms]

Due(e, t) == Sec(t) > e.when.sec \/ (Sec(t) = e.when.sec /\ Ms(t) >= e.when.ms)

Events == {list[i] : i \in DOMAIN list}
At(id) == CHOOSE i \in DOMAIN list : list[i].id = id

HeadId(evs) == IF evs = <<>> THEN Null ELSE evs[1].id
NextTe == IF At(te) = Len(list) THEN Null ELSE list[At(te) + 1].id

\* aeCreateTimeEvent, into the list evs.
Created(evs) == \E ms \in Waits :
    /\ nextId < MaxIds
    /\ list' = <<Event(nextId, ms)>> \o evs
    /\ nextId' = nextId + 1

-----------------------------------------------------------------------------------
(* aeProcessEvents up to the poll.                                                  *)

Earlier(e, f) ==
    e.when.sec < f.when.sec \/ (e.when.sec = f.when.sec /\ e.when.ms < f.when.ms)

SearchNearestTimer == CHOOSE e \in Events : \A f \in Events : ~Earlier(f, e)

\* The timeout: seconds and milliseconds are subtracted apart, with a borrow, and
\* seconds below zero are taken for zero.
TimeoutNoBorrow(e) ==   \* mutant
    LET sec == e.when.sec - Sec(clock)
        ms  == e.when.ms - Ms(clock) IN
    (IF sec < 0 THEN 0 ELSE sec) * MsPerSec + (IF ms < 0 THEN ms + MsPerSec ELSE ms)
Timeout(e) ==
    LET borrow == e.when.ms < Ms(clock)
        sec    == e.when.sec - Sec(clock) - (IF borrow THEN 1 ELSE 0)
        ms     == e.when.ms - Ms(clock) + (IF borrow THEN MsPerSec ELSE 0) IN
    (IF sec < 0 THEN 0 ELSE sec) * MsPerSec + ms

\* Mutant: time events are not looked at.
BlockInPoll == Forever
PollTimeout == IF list = <<>> THEN Forever ELSE Timeout(SearchNearestTimer)

\* aeMain comes back to aeProcessEvents, which goes to sleep.
Sleep ==
    /\ step \in {"setup", "top"}
    /\ step' = "poll"
    /\ sleep' = PollTimeout
    /\ UNCHANGED <<clock, list, nextId, lastTime, te, maxId, owed, called, born, skews>>

\* The poll returns by its timeout, or with file events.
PollReturns(next) ==
    /\ step = "poll"
    /\ step' = next /\ sleep' = 0
    /\ UNCHANGED <<clock, list, nextId, lastTime, te, maxId, owed, called, born, skews>>

TimesOut   == sleep = 0 /\ PollReturns("time")
FilesReady == PollReturns("files")

\* The program before aeMain, and the handlers of file events, create time events.
CreateTimeEvent ==
    /\ step \in {"setup", "files"}
    /\ Created(list)
    /\ UNCHANGED <<clock, lastTime, step, te, maxId, sleep, owed, called, born, skews>>

-----------------------------------------------------------------------------------
(* processTimeEvents.                                                               *)

Skewed == Sec(clock) < lastTime

\* A clock that was set back by seconds makes every event due at once.
Forced == [i \in DOMAIN list |-> [list[i] EXCEPT !.when.sec = 0]]

\* The last identifier given out.  Mutant: the one that comes next.
LastIdAndNext == nextId
LastId == nextId - 1

BeginTimeEvents ==
    /\ step \in {"files", "time"}
    /\ step' = "walk"
    /\ list' = IF Skewed THEN Forced ELSE list
    /\ lastTime' = Sec(clock)
    /\ te' = HeadId(list) /\ maxId' = LastId
    /\ owed' = {e.id : e \in {d \in Events : Skewed \/ Due(d, clock)}}
    /\ called' = {} /\ born' = {}
    /\ UNCHANGED <<clock, nextId, sleep, skews>>

New(e) == e.id > maxId

Looking == step = "walk" /\ te # Null

PassOver ==
    /\ Looking
    /\ New(list[At(te)]) \/ ~Due(list[At(te)], clock)
    /\ te' = NextTe
    /\ UNCHANGED <<clock, list, nextId, lastTime, step, maxId, sleep, owed, called, born,
                   skews>>

\* The list once the procedure of te has returned a wait, or AE_NOMORE; evs: the list
\* without the events the procedure created.  Events are created with a wait of 0 (the
\* first connection's), but no procedure returns one.
Rearmed(evs, ms) == [evs EXCEPT ![At(te)] = Event(te, ms)]
Deleted(evs)     == RemoveAt(evs, At(te))

\* Where the walk goes on.  Mutants: it ends with the first event called; it goes on
\* with the event called, which may be gone.
StopWalk == Null
KeepTe   == te
Restart  == HeadId(list')

CallTimeProc ==
    /\ Looking
    /\ ~New(list[At(te)]) /\ Due(list[At(te)], clock)
    /\ \E evs \in {Deleted(list)} \cup {Rearmed(list, ms) : ms \in Waits \ {0}} :
          \/ list' = evs /\ UNCHANGED <<nextId, born>>
          \/ Created(evs) /\ born' = born \cup {nextId}
    /\ called' = called \cup {te}
    /\ te' = Restart
    /\ UNCHANGED <<clock, lastTime, step, maxId, sleep, owed, skews>>

EndTimeEvents ==
    /\ step = "walk" /\ te = Null
    /\ step' = "top"
    /\ maxId' = Null /\ owed' = {} /\ called' = {} /\ born' = {}
    /\ UNCHANGED <<clock, list, nextId, lastTime, te, sleep, skews>>

-----------------------------------------------------------------------------------
\* A millisecond passes, also for the poll (and for the poll alone at the bound).
Tick ==
    /\ clock < MaxClock \/ (step = "poll" /\ sleep > 0)
    /\ clock' = IF clock < MaxClock THEN clock + 1 ELSE clock
    /\ sleep' = IF step = "poll" /\ sleep > 0 THEN sleep - 1 ELSE sleep
    /\ UNCHANGED <<list, nextId, lastTime, step, te, maxId, owed, called, born, skews>>

\* Someone sets the clock.  A pass then owes only what is due by the new clock.
SetClock == \E t \in FirstClock .. MaxClock :
    /\ skews > 0 /\ t # clock
    /\ clock' = t
    /\ skews' = skews - 1
    /\ owed' = {id \in owed : \A e \in Events : e.id = id => Due(e, t)}
    /\ UNCHANGED <<list, nextId, lastTime, step, te, maxId, sleep, called, born>>

Init ==
    /\ clock = FirstClock
    /\ list = <<>> /\ nextId = 0
    /\ lastTime = Sec(FirstClock)
    /\ step = "setup" /\ te = Null /\ maxId = Null
    /\ sleep = 0
    /\ owed = {} /\ called = {} /\ born = {}
    /\ skews = MaxSkews

Loop ==
    \/ Sleep \/ TimesOut \/ BeginTimeEvents \/ PassOver \/ CallTimeProc \/ EndTimeEvents

Next == Loop \/ FilesReady \/ CreateTimeEvent \/ Tick \/ SetClock

Spec == Init /\ [][Next]_vars

\* The loop goes on and time passes; nothing makes file events happen.
Fairness == WF_vars(Loop) /\ WF_vars(Tick)

FairSpec == Spec /\ Fairness

-----------------------------------------------------------------------------------
\* The type of the loop's variables; that te is an event of the list is what keeps the
\* walk from using an event that was freed.
TypeOK ==
    /\ clock \in Nat /\ nextId \in Nat /\ lastTime \in Nat /\ skews \in Nat
    /\ list \in Seq([id : Nat, when : [sec : Nat, ms : Nat], due : Nat])
    /\ step \in Steps
    /\ maxId \in Nat \cup {Null} /\ sleep \in Nat \cup {Forever}
    /\ owed \subseteq Nat /\ called \subseteq Nat /\ born \subseteq Nat
    /\ te \in {e.id : e \in Events} \cup {Null}

\* No procedure is called before the moment that was asked for it, but for the events
\* that a pass which saw the clock set back has made due at once.  While nobody sets the
\* clock there is no exception.
NeverEarly ==
    [][\A e \in Events : e.id \in called' \ called =>
          clock >= e.due \/ (skews # MaxSkews /\ e.when.sec = 0)]_vars

\* processTimeEvents does not call events "registered by event handlers itself in order
\* to don't loop forever": whatever the identifiers are, an event that is created while
\* the list is walked waits for the next pass, though it may be due at once and the walk
\* starts again from the head, where it stands.
NewWaitsForNextPass == step = "walk" => born \cap called = {}

\* A pass calls every event that was due when it began, and all of them if it saw the
\* clock set back, however the procedures change the list under it.
DueIsCalled == (step = "walk" /\ te = Null) => owed \subseteq called

\* While the clock is not set: the poll never sleeps a second longer than it may.
OversleepsUnderASecond ==
    (step = "poll" /\ sleep # Forever /\ skews = MaxSkews) =>
        \A e \in Events : sleep < MsPerSec + (IF e.due > clock THEN e.due - clock ELSE 0)

\* aeProcessEvents "sleeps until some file event fires, or when the next time event
\* occurrs": the timeout ends when the first event is due, or before.
SleepsUntilNextEvent ==
    (step = "poll" /\ skews = MaxSkews) =>
        \A e \in Events : sleep <= (IF e.due > clock THEN e.due - clock ELSE 0)

\* While the clock is not set: every event that is due gets called, and is then deleted
\* or not due any more.
Overdue(id) == \E e \in Events : e.id = id /\ e.due <= clock

DueGetsCalled == \A id \in 0 .. (MaxIds - 1) :
    Overdue(id) ~> (~Overdue(id) \/ skews # MaxSkews)
===================================================================================
