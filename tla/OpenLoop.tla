--------------------------------- MODULE OpenLoop ---------------------------------
(***********************************************************************************)
(* What the load generator promises of its connections, whatever the event loop,   *)
(* the timers and the sockets do (README.md, "A note about wrk2's latency          *)
(* measurement technique"): each connection has a plan, a planned start for every  *)
(* request; it sends one batch of requests at a time, never before the planned     *)
(* start of the batch; and the latency of a response counts from the planned start *)
(* of its batch, so that it is never less than the time since the real start.      *)
(***********************************************************************************)
EXTENDS Integers

CONSTANTS
    Conns,          \* connections
    Batch,          \* requests sent together
    Offset(_)       \* Offset(n): when, after its first connect, request n is due

VARIABLES
    clock,
    opened,         \* opened[c]: time of the first connect, 0 before
    served,         \* served[c]: responses counted
    outstanding,    \* outstanding[c]: responses the current batch still waits for
    base,           \* base[c]: served[c] when the current or last batch began
    sent,           \* sent[c]: time the current or last batch began
    sample          \* the latencies recorded last

vars == <<clock, opened, served, outstanding, base, sent, sample>>

Init ==
    /\ clock > 0
    /\ opened = [c \in Conns |-> 0]
    /\ served = [c \in Conns |-> 0]
    /\ outstanding = [c \in Conns |-> 0]
    /\ base = [c \in Conns |-> 0]
    /\ sent = [c \in Conns |-> 0]
    /\ sample = [corrected |-> 0, uncorrected |-> 0]

Open(c) ==
    /\ opened[c] = 0
    /\ opened' = [opened EXCEPT ![c] = clock]
    /\ UNCHANGED <<clock, served, outstanding, base, sent, sample>>

Begin(c) ==
    /\ opened[c] # 0 /\ outstanding[c] = 0
    /\ opened[c] + Offset(served[c]) <= clock
    /\ outstanding' = [outstanding EXCEPT ![c] = Batch]
    /\ base' = [base EXCEPT ![c] = served[c]]
    /\ sent' = [sent EXCEPT ![c] = clock]
    /\ UNCHANGED <<clock, opened, served, sample>>

\* A response of the current batch; its latency may go unrecorded unless it is the
\* last of the batch.
Respond(c) ==
    /\ outstanding[c] > 0
    /\ outstanding' = [outstanding EXCEPT ![c] = @ - 1]
    /\ served' = [served EXCEPT ![c] = @ + 1]
    /\ \/ sample' = [corrected   |-> clock - (opened[c] + Offset(base[c])),
                     uncorrected |-> clock - sent[c]]
       \/ outstanding[c] > 1 /\ sample' = sample
    /\ UNCHANGED <<clock, opened, base, sent>>

Pass ==
    /\ clock' = clock + 1
    /\ UNCHANGED <<opened, served, outstanding, base, sent, sample>>

Next == Pass \/ \E c \in Conns : Open(c) \/ Begin(c) \/ Respond(c)

Spec == Init /\ [][Next]_vars
===================================================================================
