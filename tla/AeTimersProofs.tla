------------------------------ MODULE AeTimersProofs ------------------------------
(***********************************************************************************)
(* Proofs, for every length of a second, any waits, any number of events and any    *)
(* setting of the clock, that the walk of the list of time events calls all that is *)
(* due and nothing before it is, and of how long the poll may sleep.                *)
(***********************************************************************************)
EXTENDS AeTimers, SequenceTheorems, WellFoundedInduction, TLAPS

-----------------------------------------------------------------------------------
(* Seconds and milliseconds.                                                         *)

Moment(w) == w.sec * MsPerSec + w.ms

IsMoment(w) == w.sec \in Nat /\ w.ms \in Nat /\ w.ms < MsPerSec

LEMMA Product ==
    ASSUME NEW a \in Nat, NEW b \in Nat
    PROVE  a * b \in Nat
  BY SMT

LEMMA LaterSecond ==
    ASSUME NEW a \in Nat, NEW b \in Nat, a < b
    PROVE  a * MsPerSec + MsPerSec <= b * MsPerSec
<1> DEFINE d == b - a - 1
<1>1. d \in Nat /\ b = a + 1 + d
  OBVIOUS
<1> HIDE DEF d
<1>2. MsPerSec \in Nat
  BY TimersAssumption
<1>3. b * MsPerSec = a * MsPerSec + MsPerSec + d * MsPerSec
  BY <1>1, <1>2
<1>4. d * MsPerSec \in Nat /\ a * MsPerSec \in Nat
  BY <1>1, <1>2, Product
<1> QED BY <1>2, <1>3, <1>4

LEMMA Split ==
    ASSUME NEW t \in Nat
    PROVE  /\ Sec(t) \in Nat /\ Ms(t) \in Nat /\ Ms(t) < MsPerSec
           /\ Sec(t) * MsPerSec \in Nat /\ t = Sec(t) * MsPerSec + Ms(t)
<1>1. MsPerSec \in Nat \ {0}
  BY TimersAssumption
<1>2. \A b \in Nat \ {0} : /\ t \div b \in Nat /\ t % b \in Nat /\ t % b < b
                           /\ t = (t \div b) * b + (t % b)
  BY SMT
<1> QED BY <1>1, <1>2, Product DEF Sec, Ms

\* An event is due when its moment has come.
LEMMA DueIff ==
    ASSUME NEW e, IsMoment(e.when), NEW t \in Nat
    PROVE  Due(e, t) <=> Moment(e.when) <= t
<1> DEFINE s == e.when.sec
           m == e.when.ms
           S == Sec(t)
           T == Ms(t)
<1>1. /\ S \in Nat /\ T \in Nat /\ T < MsPerSec
      /\ S * MsPerSec \in Nat /\ t = S * MsPerSec + T
  BY Split
<1>2. s \in Nat /\ m \in Nat /\ m < MsPerSec /\ MsPerSec \in Nat
  BY TimersAssumption DEF IsMoment
<1>3. s * MsPerSec \in Nat
  BY <1>2, Product
<1>4. Due(e, t) <=> (S > s \/ (S = s /\ T >= m))
  BY DEF Due
<1>5. Moment(e.when) = s * MsPerSec + m
  BY DEF Moment
<1> HIDE DEF s, m, S, T
<1>6. CASE S > s
  BY <1>1, <1>2, <1>3, <1>4, <1>5, <1>6, LaterSecond
<1>7. CASE S = s
  BY <1>1, <1>2, <1>3, <1>4, <1>5, <1>7
<1>8. CASE S < s
  BY <1>1, <1>2, <1>3, <1>4, <1>5, <1>8, LaterSecond
<1> QED BY <1>1, <1>2, <1>6, <1>7, <1>8

\* aeAddMillisecondsToNow carries at most one second.
LEMMA Added ==
    ASSUME clock \in Nat, NEW ms \in Nat
    PROVE  LET w == AddMillisecondsToNow(ms) IN
           /\ w \in [sec : Nat, ms : Nat] /\ IsMoment(w)
           /\ Moment(w) = clock + ms
<1> DEFINE w   == AddMillisecondsToNow(ms)
           sum == Ms(clock) + Ms(ms)
           sec == Sec(clock) + Sec(ms)
<1>1. /\ Sec(clock) \in Nat /\ Ms(clock) \in Nat /\ Ms(clock) < MsPerSec
      /\ clock = Sec(clock) * MsPerSec + Ms(clock)
  BY Split
<1>2. /\ Sec(ms) \in Nat /\ Ms(ms) \in Nat /\ Ms(ms) < MsPerSec
      /\ ms = Sec(ms) * MsPerSec + Ms(ms)
  BY Split
<1>3. MsPerSec \in Nat
  BY TimersAssumption
<1>4. /\ sec \in Nat /\ sum \in Nat /\ sum < MsPerSec + MsPerSec
      /\ clock + ms = sec * MsPerSec + sum
  BY <1>1, <1>2, <1>3
<1>5. w = IF sum >= MsPerSec THEN [sec |-> sec + 1, ms |-> sum - MsPerSec]
          ELSE [sec |-> sec, ms |-> sum]
  BY DEF AddMillisecondsToNow
<1>6. (sec + 1) * MsPerSec = sec * MsPerSec + MsPerSec
  BY <1>3, <1>4
<1>7. sec * MsPerSec \in Nat
  BY <1>3, <1>4, Product
<1> HIDE DEF w, sum, sec
<1>8. CASE sum >= MsPerSec
  <2>1. w.sec = sec + 1 /\ w.ms = sum - MsPerSec /\ w \in [sec : Nat, ms : Nat]
    BY <1>3, <1>4, <1>5, <1>8
  <2> QED BY <1>3, <1>4, <1>6, <1>7, <1>8, <2>1 DEF IsMoment, Moment, w
<1>9. CASE ~(sum >= MsPerSec)
  <2>1. w.sec = sec /\ w.ms = sum /\ w \in [sec : Nat, ms : Nat]
    BY <1>3, <1>4, <1>5, <1>9
  <2> QED BY <1>3, <1>4, <1>7, <1>9, <2>1 DEF IsMoment, Moment, w
<1> QED BY <1>8, <1>9

\* The timeout is what is left until the event, or less than a second.
LEMMA TimeoutBound ==
    ASSUME clock \in Nat, NEW e, IsMoment(e.when)
    PROVE  /\ Timeout(e) \in Nat
           /\ Timeout(e) < MsPerSec \/ Timeout(e) <= Moment(e.when) - clock
<1> DEFINE b  == e.when.ms < Ms(clock)
           s  == e.when.sec - Sec(clock) - (IF b THEN 1 ELSE 0)
           m  == e.when.ms - Ms(clock) + (IF b THEN MsPerSec ELSE 0)
<1>1. /\ Sec(clock) \in Nat /\ Ms(clock) \in Nat /\ Ms(clock) < MsPerSec
      /\ Sec(clock) * MsPerSec \in Nat /\ clock = Sec(clock) * MsPerSec + Ms(clock)
  BY Split
<1>2. e.when.sec \in Nat /\ e.when.ms \in Nat /\ e.when.ms < MsPerSec /\ MsPerSec \in Nat
  BY TimersAssumption DEF IsMoment
<1>3. s \in Int /\ m \in Nat /\ m < MsPerSec
  BY <1>1, <1>2
<1>4. s * MsPerSec + m = Moment(e.when) - clock
  <2>1. CASE b
    BY <1>1, <1>2, <2>1 DEF Moment
  <2>2. CASE ~b
    BY <1>1, <1>2, <2>2 DEF Moment
  <2> QED BY <2>1, <2>2
<1>5. Timeout(e) = (IF s < 0 THEN 0 ELSE s) * MsPerSec + m
  BY DEF Timeout
<1> HIDE DEF b, s, m
<1>6. CASE s < 0
  BY <1>2, <1>3, <1>5, <1>6
<1>7. CASE s >= 0
  <2>1. s \in Nat /\ s * MsPerSec \in Nat
    BY <1>2, <1>3, <1>7, Product
  <2>2. Timeout(e) = s * MsPerSec + m
    BY <1>3, <1>5, <1>7
  <2> QED BY <1>3, <1>4, <2>1, <2>2
<1> QED BY <1>3, <1>6, <1>7

-----------------------------------------------------------------------------------
(* Lists of events.                                                                  *)

TimeEvent == [id : Nat, when : [sec : Nat, ms : Nat], due : Nat]

\* A list whose events have identifiers of their own, below n.
Listed(l, n) ==
    /\ l \in Seq(TimeEvent)
    /\ \A i \in 1 .. Len(l) : l[i].id < n /\ IsMoment(l[i].when)
    /\ \A i, j \in 1 .. Len(l) : l[i].id = l[j].id => i = j

Exact(e)  == Moment(e.when) = e.due
OnTime(e) == Exact(e) \/ e.when.sec = 0

\* r is l with new events, and without the event id that l had.
Changed(r, l, id) ==
    /\ \A i \in 1 .. Len(r) : Exact(r[i]) \/ \E j \in 1 .. Len(l) : r[i] = l[j]
    /\ \A j \in 1 .. Len(l) : l[j].id # id => \E i \in 1 .. Len(r) : r[i] = l[j]

LEMMA NewEvent ==
    ASSUME clock \in Nat, NEW ms \in Waits, NEW id \in Nat
    PROVE  LET e == Event(id, ms) IN
           e \in TimeEvent /\ e.id = id /\ IsMoment(e.when) /\ Exact(e)
<1> DEFINE w == AddMillisecondsToNow(ms)
           e == Event(id, ms)
<1>1. ms \in Nat
  BY TimersAssumption
<1>2. w \in [sec : Nat, ms : Nat] /\ IsMoment(w) /\ Moment(w) = clock + ms
  BY <1>1, Added
<1>3. e = [id |-> id, when |-> w, due |-> clock + ms]
  BY DEF Event
<1> HIDE DEF w
<1>4. e \in TimeEvent /\ e.id = id /\ e.when = w /\ e.due = clock + ms
  BY <1>1, <1>2, <1>3 DEF TimeEvent
<1> QED BY <1>2, <1>4 DEF Exact

LEMMA Elements ==
    ASSUME NEW l, NEW n, Listed(l, n)
    PROVE  /\ Len(l) \in Nat /\ DOMAIN l = 1 .. Len(l)
           /\ \A i \in 1 .. Len(l) :
                 l[i] \in TimeEvent /\ l[i].id \in Nat /\ l[i].due \in Nat
                 /\ IsMoment(l[i].when) /\ l[i].id < n
<1>1. /\ l \in Seq(TimeEvent)
      /\ \A i \in 1 .. Len(l) : IsMoment(l[i].when) /\ l[i].id < n
  BY DEF Listed
<1>2. \A i \in 1 .. Len(l) : l[i] \in TimeEvent
  BY <1>1, ElementOfSeq
<1>3. \A e \in TimeEvent : e.id \in Nat /\ e.due \in Nat
  BY DEF TimeEvent
<1> QED BY <1>1, <1>2, <1>3, LenProperties

LEMMA Prepended ==
    ASSUME NEW n \in Nat, NEW l, Listed(l, n), NEW e \in TimeEvent, e.id = n,
           IsMoment(e.when), Exact(e)
    PROVE  LET r == <<e>> \o l IN Listed(r, n + 1) /\ Changed(r, l, Null)
<1> DEFINE r == <<e>> \o l
<1>1. l \in Seq(TimeEvent) /\ Len(l) \in Nat
  BY LenProperties DEF Listed
<1>2. <<e>> \in Seq(TimeEvent) /\ Len(<<e>>) = 1 /\ <<e>>[1] = e
  OBVIOUS
<1>3. /\ r \in Seq(TimeEvent) /\ Len(r) = 1 + Len(l)
      /\ \A i \in 1 .. 1 + Len(l) : r[i] = IF i <= 1 THEN <<e>>[i] ELSE l[i - 1]
  BY <1>1, <1>2, ConcatProperties
<1> HIDE DEF r
<1>4. r[1] = e /\ \A i \in 2 .. Len(r) : r[i] = l[i - 1] /\ i - 1 \in 1 .. Len(l)
  BY <1>1, <1>2, <1>3
<1>5. \A i \in 1 .. Len(l) : l[i].id \in Nat /\ l[i].id < n /\ IsMoment(l[i].when)
  BY Elements
<1>6. \A i \in 1 .. Len(r) : r[i].id < n + 1 /\ IsMoment(r[i].when)
  <2> SUFFICES ASSUME NEW i \in 1 .. Len(r)
               PROVE  r[i].id < n + 1 /\ IsMoment(r[i].when)
    OBVIOUS
  <2>1. CASE i = 1
    BY <1>4, <2>1
  <2>2. CASE i \in 2 .. Len(r)
    <3>1. r[i] = l[i - 1] /\ i - 1 \in 1 .. Len(l)
      BY <1>4, <2>2
    <3>2. PICK k, m : k = i - 1 /\ m = l[k].id
      OBVIOUS
    <3>3. m \in Nat /\ m < n /\ IsMoment(l[k].when)
      BY <1>5, <3>1, <3>2
    <3>4. m < n + 1
      BY <3>3
    <3> QED BY <3>1, <3>2, <3>3, <3>4
  <2> QED BY <1>1, <1>3, <2>1, <2>2
<1>7. \A i, j \in 1 .. Len(r) : r[i].id = r[j].id => i = j
  <2>4. ASSUME NEW j \in 2 .. Len(r) PROVE r[j].id # r[1].id
    <3>1. r[j] = l[j - 1] /\ j - 1 \in 1 .. Len(l) /\ r[1].id = n
      BY <1>4, <2>4
    <3>2. PICK k, m : k = j - 1 /\ m = l[k].id
      OBVIOUS
    <3>3. m \in Nat /\ m < n
      BY <1>5, <3>1, <3>2
    <3>4. m # n
      BY <3>3
    <3> QED BY <3>1, <3>2, <3>4
  <2> SUFFICES ASSUME NEW i \in 1 .. Len(r), NEW j \in 1 .. Len(r), r[i].id = r[j].id
               PROVE  i = j
    OBVIOUS
  <2>1. CASE i = 1 /\ j \in 2 .. Len(r)
    BY <2>1, <2>4
  <2>2. CASE j = 1 /\ i \in 2 .. Len(r)
    BY <2>2, <2>4
  <2>3. CASE i \in 2 .. Len(r) /\ j \in 2 .. Len(r)
    <3>1. i - 1 = j - 1
      BY <1>4, <2>3 DEF Listed
    <3> QED BY <2>3, <3>1
  <2> QED BY <1>1, <1>3, <2>1, <2>2, <2>3
<1>8. \A i \in 1 .. Len(r) : Exact(r[i]) \/ \E j \in 1 .. Len(l) : r[i] = l[j]
  <2> SUFFICES ASSUME NEW i \in 1 .. Len(r)
               PROVE  Exact(r[i]) \/ \E j \in 1 .. Len(l) : r[i] = l[j]
    OBVIOUS
  <2>1. CASE i = 1
    BY <1>4, <2>1
  <2>2. CASE i \in 2 .. Len(r)
    BY <1>4, <2>2
  <2> QED BY <1>1, <1>3, <2>1, <2>2
<1>9. \A j \in 1 .. Len(l) : \E i \in 1 .. Len(r) : r[i] = l[j]
  <2> SUFFICES ASSUME NEW j \in 1 .. Len(l)
               PROVE  \E i \in 1 .. Len(r) : r[i] = l[j]
    OBVIOUS
  <2>1. j + 1 \in 1 .. Len(r) /\ r[j + 1] = l[j]
    BY <1>1, <1>3, <1>4
  <2> QED BY <2>1
<1> QED BY <1>3, <1>6, <1>7, <1>8, <1>9 DEF Listed, Changed, r

LEMMA RemovedAt ==
    ASSUME NEW n \in Nat, NEW l, Listed(l, n), NEW k \in 1 .. Len(l)
    PROVE  LET r == RemoveAt(l, k) IN Listed(r, n) /\ Changed(r, l, l[k].id)
<1> DEFINE p == SubSeq(l, 1, k - 1)
           q == SubSeq(l, k + 1, Len(l))
           r == RemoveAt(l, k)
<1>1. /\ l \in Seq(TimeEvent) /\ Len(l) \in Nat /\ k \in Nat
      /\ \A i \in 1 .. Len(l) : l[i] \in TimeEvent
  BY LenProperties, ElementOfSeq DEF Listed
<1>2. /\ p \in Seq(TimeEvent) /\ Len(p) = k - 1
      /\ \A i \in 1 .. k - 1 : p[i] = l[i]
  <2>1. /\ 1 \in Int /\ k - 1 \in Int /\ \A i \in 1 .. k - 1 : l[i] \in TimeEvent
    BY <1>1
  <2>2. /\ p \in Seq(TimeEvent) /\ Len(p) = IF 1 <= k - 1 THEN k - 1 - 1 + 1 ELSE 0
        /\ \A i \in 1 .. k - 1 - 1 + 1 : p[i] = l[1 + i - 1]
    BY <2>1, SubSeqProperties
  <2> HIDE DEF p
  <2> QED BY <1>1, <2>2
<1>3. /\ q \in Seq(TimeEvent) /\ Len(q) = Len(l) - k
      /\ \A i \in 1 .. Len(l) - k : q[i] = l[k + i]
  <2>1. k + 1 \in Int /\ Len(l) \in Int /\ \A i \in k + 1 .. Len(l) : l[i] \in TimeEvent
    BY <1>1
  <2>2. /\ q \in Seq(TimeEvent)
        /\ Len(q) = IF k + 1 <= Len(l) THEN Len(l) - (k + 1) + 1 ELSE 0
        /\ \A i \in 1 .. Len(l) - (k + 1) + 1 : q[i] = l[k + 1 + i - 1]
    BY <2>1, SubSeqProperties
  <2> HIDE DEF q
  <2> QED BY <1>1, <2>2
<1>4. r = p \o q
  BY DEF RemoveAt
<1> HIDE DEF p, q, r
<1>5. /\ r \in Seq(TimeEvent) /\ Len(r) = Len(p) + Len(q)
      /\ \A i \in 1 .. Len(p) + Len(q) : r[i] = IF i <= Len(p) THEN p[i] ELSE q[i - Len(p)]
  BY <1>2, <1>3, <1>4, ConcatProperties
<1>6. Len(r) = Len(l) - 1
  BY <1>1, <1>2, <1>3, <1>5
<1>7. \A i \in 1 .. Len(r) : r[i] = IF i < k THEN l[i] ELSE l[i + 1]
  <2> SUFFICES ASSUME NEW i \in 1 .. Len(r)
               PROVE  r[i] = IF i < k THEN l[i] ELSE l[i + 1]
    OBVIOUS
  <2>1. CASE i < k
    BY <1>1, <1>2, <1>3, <1>5, <1>6, <2>1
  <2>2. CASE ~(i < k)
    <3>1. r[i] = q[i - (k - 1)] /\ i - (k - 1) \in 1 .. Len(l) - k
      BY <1>1, <1>2, <1>3, <1>5, <1>6, <2>2
    <3>2. k + (i - (k - 1)) = i + 1
      BY <1>1, <1>6
    <3> QED BY <1>3, <2>2, <3>1, <3>2
  <2> QED BY <2>1, <2>2
<1>8. \A i \in 1 .. Len(r) : LET j == IF i < k THEN i ELSE i + 1 IN
                             j \in 1 .. Len(l) /\ r[i] = l[j]
  BY <1>1, <1>6, <1>7
<1>9. \A i, j \in 1 .. Len(r) : r[i].id = r[j].id => i = j
  <2> SUFFICES ASSUME NEW i \in 1 .. Len(r), NEW j \in 1 .. Len(r), r[i].id = r[j].id
               PROVE  i = j
    OBVIOUS
  <2>1. (IF i < k THEN i ELSE i + 1) = (IF j < k THEN j ELSE j + 1)
    BY <1>8 DEF Listed
  <2> QED BY <1>1, <1>6, <2>1
<1>10. Listed(r, n)
  <2>1. \A i \in 1 .. Len(r) : r[i].id < n /\ IsMoment(r[i].when)
    BY <1>8 DEF Listed
  <2> QED BY <1>5, <1>9, <2>1 DEF Listed
<1>11. \A j \in 1 .. Len(l) : l[j].id # l[k].id => \E i \in 1 .. Len(r) : r[i] = l[j]
  <2> SUFFICES ASSUME NEW j \in 1 .. Len(l), j # k
               PROVE  \E i \in 1 .. Len(r) : r[i] = l[j]
    OBVIOUS
  <2>1. CASE j < k
    BY <1>1, <1>6, <1>7, <2>1
  <2>2. CASE j > k
    <3>1. j - 1 \in 1 .. Len(r) /\ r[j - 1] = l[j]
      BY <1>1, <1>6, <1>7, <2>2
    <3> QED BY <3>1
  <2> QED BY <1>1, <2>1, <2>2
<1>12. Changed(r, l, l[k].id)
  BY <1>8, <1>11 DEF Changed
<1> QED BY <1>10, <1>12 DEF r

LEMMA ReplacedAt ==
    ASSUME NEW n \in Nat, NEW l, Listed(l, n), NEW k \in 1 .. Len(l), NEW e \in TimeEvent,
           e.id = l[k].id, IsMoment(e.when), Exact(e)
    PROVE  LET r == [l EXCEPT ![k] = e] IN Listed(r, n) /\ Changed(r, l, l[k].id)
<1> DEFINE r == [l EXCEPT ![k] = e]
<1>1. l \in Seq(TimeEvent)
  BY DEF Listed
<1>2. /\ r \in Seq(TimeEvent) /\ Len(r) = Len(l)
      /\ \A j \in 1 .. Len(l) : r[j] = IF j = k THEN e ELSE l[j]
  BY <1>1, ExceptSeq
<1> HIDE DEF r
<1>3. \A i \in 1 .. Len(r) : r[i].id = l[i].id /\ r[i].id < n /\ IsMoment(r[i].when)
  BY <1>2 DEF Listed
<1>4. Listed(r, n)
  BY <1>2, <1>3 DEF Listed
<1>5. Changed(r, l, l[k].id)
  BY <1>2 DEF Changed
<1> QED BY <1>4, <1>5 DEF r

LEMMA ChangedTwice ==
    ASSUME NEW l, NEW q, NEW r, NEW id, NEW n, Listed(q, n),
           Changed(q, l, id), Changed(r, q, Null)
    PROVE  Changed(r, l, id)
<1>1. \A i \in 1 .. Len(q) : q[i].id # Null
  BY Elements DEF Null
<1>2. ASSUME NEW i \in 1 .. Len(r)
      PROVE  Exact(r[i]) \/ \E j \in 1 .. Len(l) : r[i] = l[j]
  <2>1. CASE \E k \in 1 .. Len(q) : r[i] = q[k]
    <3>1. PICK k \in 1 .. Len(q) : r[i] = q[k]
      BY <2>1
    <3> QED BY <3>1 DEF Changed
  <2> QED BY <2>1 DEF Changed
<1>3. ASSUME NEW j \in 1 .. Len(l), l[j].id # id
      PROVE  \E i \in 1 .. Len(r) : r[i] = l[j]
  <2>1. PICK k \in 1 .. Len(q) : q[k] = l[j]
    BY <1>3 DEF Changed
  <2>2. PICK i \in 1 .. Len(r) : r[i] = q[k]
    BY <1>1 DEF Changed
  <2> QED BY <2>1, <2>2
<1> QED BY <1>2, <1>3 DEF Changed

\* A clock that was set back: events due at the beginning of time.
LEMMA ForcedListed ==
    ASSUME NEW n, Listed(list, n)
    PROVE  /\ Listed(Forced, n) /\ Len(Forced) = Len(list)
           /\ \A i \in 1 .. Len(list) : Forced[i].id = list[i].id /\ Forced[i].when.sec = 0
<1>1. /\ Len(list) \in Nat /\ DOMAIN list = 1 .. Len(list)
      /\ \A i \in 1 .. Len(list) : list[i] \in TimeEvent /\ IsMoment(list[i].when)
  BY Elements
<1>2. \A e \in TimeEvent : LET f == [e EXCEPT !.when.sec = 0] IN
        /\ f \in TimeEvent /\ f.id = e.id /\ f.when.sec = 0 /\ f.when.ms = e.when.ms
  BY DEF TimeEvent
<1>3. /\ Forced \in [1 .. Len(list) -> TimeEvent]
      /\ \A i \in 1 .. Len(list) :
            /\ Forced[i].id = list[i].id /\ Forced[i].when.sec = 0
            /\ Forced[i].when.ms = list[i].when.ms
  BY <1>1, <1>2 DEF Forced
<1> HIDE DEF Forced
<1>4. Forced \in Seq(TimeEvent) /\ Len(Forced) = Len(list)
  BY <1>1, <1>3
<1>5. \A i \in 1 .. Len(list) : IsMoment(Forced[i].when)
  BY <1>1, <1>3 DEF IsMoment
<1> QED BY <1>3, <1>4, <1>5 DEF Listed

LEMMA EarlierIff ==
    ASSUME NEW e, NEW f, IsMoment(e.when), IsMoment(f.when)
    PROVE  /\ Moment(e.when) \in Nat /\ Moment(f.when) \in Nat
           /\ Earlier(e, f) <=> Moment(e.when) < Moment(f.when)
<1> DEFINE s == e.when.sec
           m == e.when.ms
           S == f.when.sec
           T == f.when.ms
<1>1. /\ s \in Nat /\ m \in Nat /\ m < MsPerSec /\ MsPerSec \in Nat
      /\ S \in Nat /\ T \in Nat /\ T < MsPerSec
  BY TimersAssumption DEF IsMoment
<1>2. s * MsPerSec \in Nat /\ S * MsPerSec \in Nat
  BY <1>1, Product
<1>3. Earlier(e, f) <=> (s < S \/ (s = S /\ m < T))
  BY DEF Earlier
<1>4. Moment(e.when) = s * MsPerSec + m /\ Moment(f.when) = S * MsPerSec + T
  BY DEF Moment
<1> HIDE DEF s, m, S, T
<1>5. CASE s < S
  BY <1>1, <1>2, <1>3, <1>4, <1>5, LaterSecond
<1>6. CASE S = s
  BY <1>1, <1>2, <1>3, <1>4, <1>6
<1>7. CASE S < s
  BY <1>1, <1>2, <1>3, <1>4, <1>7, LaterSecond
<1> QED BY <1>1, <1>5, <1>6, <1>7

\* aeSearchNearestTimer finds an event that no event is before.
LEMMA Nearest ==
    ASSUME NEW n, Listed(list, n), list # <<>>
    PROVE  LET e == SearchNearestTimer IN
           /\ IsMoment(e.when)
           /\ \A i \in 1 .. Len(list) : Moment(e.when) <= Moment(list[i].when)
<1>1. /\ Len(list) \in Nat /\ DOMAIN list = 1 .. Len(list)
      /\ \A i \in 1 .. Len(list) : IsMoment(list[i].when)
  BY Elements
<1>2. \A e \in Events : \E i \in 1 .. Len(list) : e = list[i]
  BY <1>1 DEF Events
<1>3. \A e \in Events : IsMoment(e.when)
  BY <1>1, <1>2
<1> DEFINE T == {Moment(e.when) : e \in Events}
<1>4. T \subseteq Nat
  BY <1>3, EarlierIff
<1>5. list[1] \in Events
  BY <1>1 DEF Events, Listed
<1>6. T # {}
  BY <1>5
<1>7. \E x \in T : \A y \in T : ~(<<y, x>> \in OpToRel(<, Nat))
  <2> HIDE DEF T
  <2> QED BY <1>4, <1>6, NatLessThanWellFounded, WFMin
<1>8. PICK x \in T : \A y \in T : ~(y < x)
  <2>1. PICK x \in T : \A y \in T : ~(<<y, x>> \in OpToRel(<, Nat))
    BY <1>7
  <2>2. \A y \in T : ~(y < x)
    BY <1>4, <2>1 DEF OpToRel
  <2> QED BY <2>2
<1>9. PICK e \in Events : x = Moment(e.when)
  BY <1>8
<1>10. \A f \in Events : ~Earlier(f, e)
  BY <1>3, <1>8, <1>9, EarlierIff
<1>11. SearchNearestTimer \in Events /\ \A f \in Events : ~Earlier(f, SearchNearestTimer)
  BY <1>10 DEF SearchNearestTimer
<1> HIDE DEF T
<1>12. \A i \in 1 .. Len(list) : list[i] \in Events
  BY <1>1 DEF Events
<1>13. ASSUME NEW i \in 1 .. Len(list)
       PROVE  Moment(SearchNearestTimer.when) <= Moment(list[i].when)
  <2>1. ~Earlier(list[i], SearchNearestTimer)
    BY <1>11, <1>12
  <2> QED BY <1>1, <1>3, <1>11, <2>1, EarlierIff
<1> QED BY <1>3, <1>11, <1>13

-----------------------------------------------------------------------------------
(* The inductive invariant.                                                           *)

\* What the list l holds; exact: the clock was never set.
Held(l, n, exact) ==
    /\ Listed(l, n)
    /\ \A i \in 1 .. Len(l) : OnTime(l[i]) /\ (exact => Exact(l[i]))

\* t is an event of l, or none.
Stands(l, t) == t = Null \/ \E i \in 1 .. Len(l) : l[i].id = t

\* The walk at t, of the events up to m, has yet to come to every event of ids.
Awaited(l, t, m, c, ids) ==
    \A id \in ids : \E i, j \in 1 .. Len(l) :
        l[j].id = t /\ j <= i /\ l[i].id = id /\ id <= m /\ Due(l[i], c)

\* A poll of s milliseconds sleeps less than a second longer than to the first event.
SleepsTo(l, c, s) ==
    s # Forever => \A i \in 1 .. Len(l) :
        s < MsPerSec + (IF l[i].due > c THEN l[i].due - c ELSE 0)

TimesInv ==
    /\ clock \in Nat /\ clock >= FirstClock /\ nextId \in Nat /\ lastTime \in Nat
    /\ skews \in 0 .. MaxSkews /\ (skews = MaxSkews => lastTime <= Sec(clock))
    /\ step \in Steps /\ maxId \in Nat \cup {Null} /\ sleep \in Nat \cup {Forever}
    /\ owed \subseteq Nat /\ called \subseteq Nat /\ born \subseteq Nat
ListInv == Held(list, nextId, skews = MaxSkews) /\ Stands(list, te)
WalkInv ==
    step = "walk" => /\ maxId < nextId /\ \A id \in called : id <= maxId
                     /\ \A id \in born : maxId < id
                     /\ Awaited(list, te, maxId, clock, owed \ called)
PollInv == (step = "poll" /\ skews = MaxSkews) => SleepsTo(list, clock, sleep)

Ind == TimesInv /\ ListInv /\ WalkInv /\ PollInv

\* Time passes: what is due stays due, and the second does not go back.
LEMMA Later ==
    ASSUME NEW t \in Nat, NEW u \in Nat, t <= u
    PROVE  /\ Sec(t) <= Sec(u)
           /\ \A e : IsMoment(e.when) /\ Due(e, t) => Due(e, u)
<1>1. /\ Sec(t) \in Nat /\ Ms(t) \in Nat /\ Sec(t) * MsPerSec \in Nat
      /\ t = Sec(t) * MsPerSec + Ms(t)
      /\ Sec(u) \in Nat /\ Ms(u) \in Nat /\ Ms(u) < MsPerSec
      /\ Sec(u) * MsPerSec \in Nat /\ u = Sec(u) * MsPerSec + Ms(u)
  BY Split
<1>2. Sec(t) <= Sec(u)
  <2>1. SUFFICES ASSUME Sec(u) < Sec(t) PROVE FALSE
    BY <1>1
  <2>2. Sec(u) * MsPerSec + MsPerSec <= Sec(t) * MsPerSec
    BY <1>1, <2>1, LaterSecond
  <2>3. MsPerSec \in Nat
    BY TimersAssumption
  <2> QED BY <1>1, <2>2, <2>3
<1>3. ASSUME NEW e, IsMoment(e.when), Due(e, t) PROVE Due(e, u)
  <2>1. Moment(e.when) \in Nat
    BY <1>3, EarlierIff
  <2> QED BY <1>3, <2>1, DueIff
<1> QED BY <1>2, <1>3

\* The event te is found in the list.
LEMMA Found ==
    ASSUME ListInv, te # Null
    PROVE  /\ At(te) \in 1 .. Len(list) /\ list[At(te)].id = te /\ te \in Nat
           /\ \A i \in 1 .. Len(list) : list[i].id = te => i = At(te)
<1>1. Listed(list, nextId) /\ \E i \in 1 .. Len(list) : list[i].id = te
  BY DEF ListInv, Held, Stands
<1>2. DOMAIN list = 1 .. Len(list) /\ \A i \in 1 .. Len(list) : list[i].id \in Nat
  BY <1>1, Elements
<1>3. At(te) \in 1 .. Len(list) /\ list[At(te)].id = te
  BY <1>1, <1>2 DEF At
<1> QED BY <1>1, <1>2, <1>3 DEF Listed

\* A list whose events are those of another, or new.
LEMMA ChangedHeld ==
    ASSUME NEW l, NEW n, NEW r, NEW m, NEW id, NEW exact,
           Held(l, n, exact), Listed(r, m), Changed(r, l, id)
    PROVE  Held(r, m, exact)
<1>1. ASSUME NEW i \in 1 .. Len(r)
      PROVE  OnTime(r[i]) /\ (exact => Exact(r[i]))
  <2>1. CASE Exact(r[i])
    BY <2>1 DEF OnTime
  <2>2. CASE \E j \in 1 .. Len(l) : r[i] = l[j]
    BY <2>2 DEF Held
  <2> QED BY <2>1, <2>2 DEF Changed
<1> QED BY <1>1 DEF Held

\* aeCreateTimeEvent, into a list whose identifiers it does not use.
LEMMA CreatedListed ==
    ASSUME clock \in Nat, nextId \in Nat, NEW evs, Listed(evs, nextId), Created(evs)
    PROVE  /\ nextId' = nextId + 1
           /\ Listed(list', nextId') /\ Changed(list', evs, Null)
<1>1. PICK ms \in Waits : list' = <<Event(nextId, ms)>> \o evs /\ nextId' = nextId + 1
  BY DEF Created
<1> DEFINE e == Event(nextId, ms)
<1>2. e \in TimeEvent /\ e.id = nextId /\ IsMoment(e.when) /\ Exact(e)
  BY NewEvent
<1> HIDE DEF e
<1>3. Listed(<<e>> \o evs, nextId + 1) /\ Changed(<<e>> \o evs, evs, Null)
  BY <1>2, Prepended
<1> QED BY <1>1, <1>3 DEF e

LEMMA InitInd == Init => Ind
<1> SUFFICES ASSUME Init PROVE Ind
  OBVIOUS
<1>1. list = <<>> /\ Len(list) = 0
  BY DEF Init
<1>2. Listed(list, nextId)
  BY <1>1 DEF Listed
<1>3. ListInv
  BY <1>1, <1>2 DEF Init, ListInv, Held, Stands
<1>4. FirstClock \in Nat /\ Sec(FirstClock) \in Nat /\ MaxSkews \in Nat
  BY TimersAssumption, Split
<1>5. TimesInv
  BY <1>4 DEF Init, TimesInv, Steps
<1> QED BY <1>3, <1>5 DEF Init, Ind, WalkInv, PollInv

LEMMA SleepInd ==
    ASSUME Ind, Sleep PROVE Ind'
<1>1. /\ step' = "poll" /\ sleep' = PollTimeout
      /\ UNCHANGED <<clock, list, nextId, lastTime, te, maxId, owed, called, born, skews>>
  BY DEF Sleep
<1>2. clock \in Nat /\ Listed(list, nextId)
  BY DEF Ind, TimesInv, ListInv, Held
<1>3. CASE list = <<>>
  <2>1. sleep' = Forever
    BY <1>1, <1>3 DEF PollTimeout
  <2> QED BY <1>1, <2>1 DEF Ind, TimesInv, ListInv, WalkInv, PollInv, SleepsTo, Steps
<1>4. CASE list # <<>>
  <2> DEFINE e == SearchNearestTimer
  <2>1. sleep' = Timeout(e)
    BY <1>1, <1>4 DEF PollTimeout
  <2>2. /\ IsMoment(e.when)
        /\ \A i \in 1 .. Len(list) : Moment(e.when) <= Moment(list[i].when)
    BY <1>2, <1>4, Nearest
  <2>3. Moment(e.when) \in Nat
    BY <2>2, EarlierIff
  <2> HIDE DEF e
  <2>4. /\ Timeout(e) \in Nat
        /\ Timeout(e) < MsPerSec \/ Timeout(e) <= Moment(e.when) - clock
    BY <1>2, <2>2, TimeoutBound
  <2>5. ASSUME skews = MaxSkews, NEW i \in 1 .. Len(list)
        PROVE  sleep' < MsPerSec + (IF list[i].due > clock THEN list[i].due - clock ELSE 0)
    <3>1. Moment(e.when) <= list[i].due
      BY <2>2, <2>5 DEF Ind, ListInv, Held, Exact
    <3>2. list[i].due \in Nat /\ MsPerSec \in Nat \ {0}
      BY <1>2, Elements, TimersAssumption
    <3> QED BY <1>2, <2>1, <2>3, <2>4, <3>1, <3>2
  <2>6. PollInv'
    BY <1>1, <2>5 DEF PollInv, SleepsTo
  <2> QED BY <1>1, <2>1, <2>4, <2>6 DEF Ind, TimesInv, ListInv, WalkInv, Steps
<1> QED BY <1>3, <1>4

LEMMA PollReturnsInd ==
    ASSUME Ind, TimesOut \/ FilesReady PROVE Ind'
<1>1. /\ step' \in {"time", "files"} /\ sleep' = 0
      /\ UNCHANGED <<clock, list, nextId, lastTime, te, maxId, owed, called, born, skews>>
  BY DEF TimesOut, FilesReady, PollReturns
<1> QED BY <1>1 DEF Ind, TimesInv, ListInv, WalkInv, PollInv, Steps

LEMMA CreateInd ==
    ASSUME Ind, CreateTimeEvent PROVE Ind'
<1>1. /\ step \notin {"walk", "poll"} /\ Created(list)
      /\ UNCHANGED <<clock, lastTime, step, te, maxId, sleep, owed, called, born, skews>>
  BY DEF CreateTimeEvent
<1>2. clock \in Nat /\ nextId \in Nat /\ Listed(list, nextId)
  BY DEF Ind, TimesInv, ListInv, Held
<1>3. nextId' = nextId + 1 /\ Listed(list', nextId') /\ Changed(list', list, Null)
  BY <1>1, <1>2, CreatedListed
<1>4. Held(list', nextId', skews = MaxSkews)
  BY <1>3, ChangedHeld DEF Ind, ListInv
<1>5. Stands(list', te)
  <2>1. CASE te = Null
    BY <2>1 DEF Stands
  <2>2. CASE te # Null
    BY <1>3, <2>2, Found DEF Ind, Changed, Stands
  <2> QED BY <2>1, <2>2
<1>6. ListInv'
  BY <1>1, <1>4, <1>5 DEF ListInv
<1>7. TimesInv'
  BY <1>1, <1>2, <1>3 DEF Ind, TimesInv
<1> QED BY <1>1, <1>6, <1>7 DEF Ind, WalkInv, PollInv

LEMMA BeginInd ==
    ASSUME Ind, BeginTimeEvents PROVE Ind'
<1>1. /\ step' = "walk" /\ list' = (IF Skewed THEN Forced ELSE list)
      /\ lastTime' = Sec(clock) /\ te' = HeadId(list) /\ maxId' = nextId - 1
      /\ owed' = {e.id : e \in {d \in Events : Skewed \/ Due(d, clock)}} /\ called' = {} /\ born' = {}
      /\ UNCHANGED <<clock, nextId, sleep, skews>>
  BY DEF BeginTimeEvents, LastId
<1>2. /\ clock \in Nat /\ clock >= FirstClock /\ nextId \in Nat /\ Listed(list, nextId)
      /\ Sec(clock) \in Nat
  BY Split DEF Ind, TimesInv, ListInv, Held
<1>3. /\ Len(list) \in Nat /\ DOMAIN list = 1 .. Len(list)
      /\ \A i \in 1 .. Len(list) :
            list[i].id \in Nat /\ list[i].id < nextId /\ IsMoment(list[i].when)
  BY <1>2, Elements
<1>4. /\ Listed(list', nextId) /\ Len(list') = Len(list)
      /\ \A i \in 1 .. Len(list) : list'[i].id = list[i].id
      /\ Skewed => \A i \in 1 .. Len(list) : list'[i].when.sec = 0
      /\ ~Skewed => list' = list
  BY <1>1, <1>2, ForcedListed
<1>5. skews = MaxSkews => ~Skewed
  <2>1. lastTime \in Nat
    BY DEF Ind, TimesInv
  <2> QED BY <1>2, <2>1 DEF Ind, TimesInv, Skewed
<1>6. Held(list', nextId, skews = MaxSkews)
  <2>1. CASE Skewed
    BY <1>4, <1>5, <2>1 DEF Held, OnTime
  <2>2. CASE ~Skewed
    BY <1>4, <2>2 DEF Ind, ListInv
  <2> QED BY <2>1, <2>2
<1>7. te' = Null \/ (1 \in 1 .. Len(list) /\ te' = list[1].id)
  BY <1>1, <1>2, <1>3 DEF HeadId, Listed
<1>8. ListInv'
  BY <1>1, <1>4, <1>6, <1>7 DEF ListInv, Stands
<1>9. ASSUME NEW id \in owed'
      PROVE  /\ id \in Nat
             /\ \E i, j \in 1 .. Len(list') :
                   /\ list'[j].id = te' /\ j <= i /\ list'[i].id = id /\ id <= maxId'
                   /\ Due(list'[i], clock)
  <2>1. PICK i \in 1 .. Len(list) : id = list[i].id /\ (Skewed \/ Due(list[i], clock))
    BY <1>1, <1>3 DEF Events
  <2>2. list # <<>> /\ 1 \in 1 .. Len(list) /\ 1 <= i
    BY <1>3
  <2>3. te' = list[1].id
    BY <1>1, <2>2 DEF HeadId
  <2>4. id \in Nat /\ id <= maxId'
    BY <1>1, <1>2, <1>3, <2>1
  <2>5. Due(list'[i], clock)
    <3>1. CASE Skewed
      <4>1. IsMoment(list'[i].when) /\ list'[i].when.sec = 0
        BY <1>4, <3>1, Elements
      <4>2. Moment(list'[i].when) <= clock
        BY <1>2, <4>1, TimersAssumption DEF Moment, IsMoment
      <4> QED BY <1>2, <4>1, <4>2, DueIff
    <3>2. CASE ~Skewed
      BY <1>4, <2>1, <3>2
    <3> QED BY <3>1, <3>2
  <2> QED BY <1>4, <2>1, <2>2, <2>3, <2>4, <2>5
<1>10. WalkInv'
  <2>1. \A id \in owed' \ called' : id \in owed'
    OBVIOUS
  <2>2. Awaited(list', te', maxId', clock, owed' \ called')
    BY <1>9, <2>1 DEF Awaited
  <2>3. maxId' < nextId' /\ called' = {} /\ born' = {} /\ clock' = clock
    BY <1>1, <1>2
  <2> QED BY <2>2, <2>3 DEF WalkInv
<1>11. TimesInv'
  BY <1>1, <1>2, <1>9 DEF Ind, TimesInv, Steps, Null
<1> QED BY <1>1, <1>8, <1>10, <1>11 DEF Ind, PollInv

LEMMA PassOverInd ==
    ASSUME Ind, PassOver PROVE Ind'
<1> DEFINE k == At(te)
<1>1. /\ step = "walk" /\ te # Null /\ te' = NextTe
      /\ list[k].id > maxId \/ ~Due(list[k], clock)
      /\ UNCHANGED <<clock, list, nextId, lastTime, step, maxId, sleep, owed, called, born, skews>>
  BY DEF PassOver, Looking, New
<1>2. /\ k \in 1 .. Len(list) /\ list[k].id = te
      /\ \A i \in 1 .. Len(list) : list[i].id = te => i = k
  BY <1>1, Found DEF Ind
<1>3. te' = IF k = Len(list) THEN Null ELSE list[k + 1].id
  BY <1>1 DEF NextTe
<1>4. Len(list) \in Nat /\ k \in Nat /\ maxId \in Int
  BY <1>2, Elements DEF Ind, ListInv, Held, TimesInv, Null
<1> HIDE DEF k
<1>5. k # Len(list) => k + 1 \in 1 .. Len(list)
  BY <1>2, <1>4
<1>6. Stands(list, te')
  BY <1>3, <1>5 DEF Stands
<1>7. ASSUME NEW id \in owed \ called
      PROVE  \E i, j \in 1 .. Len(list) :
                list[j].id = te' /\ j <= i /\ list[i].id = id /\ id <= maxId
                /\ Due(list[i], clock)
  <2>1. PICK i \in 1 .. Len(list), j \in 1 .. Len(list) :
            list[j].id = te /\ j <= i /\ list[i].id = id /\ id <= maxId
            /\ Due(list[i], clock)
    BY <1>1 DEF Ind, WalkInv, Awaited
  <2>2. j = k /\ i # k
    <3>1. id \in Nat
      BY DEF Ind, TimesInv
    <3> QED BY <1>1, <1>2, <1>4, <2>1, <3>1
  <2>3. k # Len(list) /\ k + 1 <= i
    BY <1>2, <1>4, <2>1, <2>2
  <2> QED BY <1>3, <1>5, <2>1, <2>3
<1>8. WalkInv'
  BY <1>1, <1>7 DEF Ind, WalkInv, Awaited
<1>9. ListInv' /\ TimesInv' /\ PollInv'
  BY <1>1, <1>6 DEF Ind, ListInv, TimesInv, PollInv
<1> QED BY <1>8, <1>9 DEF Ind

LEMMA CallInd ==
    ASSUME Ind, CallTimeProc PROVE Ind'
<1> DEFINE k == At(te)
<1>1. /\ step = "walk" /\ te # Null /\ te' = HeadId(list')
      /\ ~(list[k].id > maxId) /\ called' = called \cup {te}
      /\ UNCHANGED <<clock, lastTime, step, maxId, sleep, owed, skews>>
  BY DEF CallTimeProc, Looking, New, Restart
<1>2. /\ k \in 1 .. Len(list) /\ list[k].id = te /\ te \in Nat
  BY <1>1, Found DEF Ind
<1>3. clock \in Nat /\ nextId \in Nat /\ Listed(list, nextId) /\ maxId \in Int
  BY DEF Ind, TimesInv, ListInv, Held, Null
<1>4. PICK evs \in {Deleted(list)} \cup {Rearmed(list, ms) : ms \in Waits \ {0}} :
          \/ list' = evs /\ nextId' = nextId /\ born' = born
          \/ Created(evs) /\ born' = born \cup {nextId}
  BY DEF CallTimeProc
<1>5. Listed(evs, nextId) /\ Changed(evs, list, te)
  <2>1. CASE evs = Deleted(list)
    BY <1>2, <1>3, <2>1, RemovedAt DEF Deleted
  <2>2. CASE evs \in {Rearmed(list, ms) : ms \in Waits \ {0}}
    <3>1. PICK ms \in Waits : evs = [list EXCEPT ![k] = Event(te, ms)]
      BY <2>2 DEF Rearmed
    <3> DEFINE e == Event(te, ms)
    <3>2. e \in TimeEvent /\ e.id = te /\ IsMoment(e.when) /\ Exact(e)
      BY <1>2, <1>3, NewEvent
    <3> HIDE DEF e, k
    <3>3. LET r == [list EXCEPT ![k] = e] IN Listed(r, nextId) /\ Changed(r, list, list[k].id)
      BY <1>2, <1>3, <3>2, ReplacedAt
    <3> QED BY <1>2, <3>1, <3>3 DEF e
  <2> QED BY <2>1, <2>2
<1>6. /\ nextId' \in Nat /\ nextId <= nextId'
      /\ Listed(list', nextId') /\ Changed(list', list, te)
  <2>1. CASE list' = evs /\ nextId' = nextId
    BY <1>3, <1>5, <2>1
  <2>2. CASE Created(evs)
    BY <1>3, <1>5, <2>2, CreatedListed, ChangedTwice
  <2> QED BY <1>4, <2>1, <2>2
<1> HIDE DEF k
<1>7. Held(list', nextId', skews = MaxSkews)
  BY <1>6, ChangedHeld DEF Ind, ListInv
<1>8. /\ Len(list') \in Nat
      /\ te' = Null \/ (1 \in 1 .. Len(list') /\ te' = list'[1].id)
      /\ Len(list') > 0 => te' = list'[1].id
  BY <1>1, <1>6, Elements DEF HeadId, Listed
<1>9. ListInv'
  BY <1>1, <1>7, <1>8 DEF ListInv, Stands
<1>10. ASSUME NEW id \in owed' \ called'
       PROVE  \E i, j \in 1 .. Len(list') :
                 list'[j].id = te' /\ j <= i /\ list'[i].id = id /\ id <= maxId
                 /\ Due(list'[i], clock)
  <2>1. id \in owed \ called /\ id # te
    BY <1>1
  <2>2. PICK i \in 1 .. Len(list) :
            list[i].id = id /\ id <= maxId /\ Due(list[i], clock)
    BY <1>1, <2>1 DEF Ind, WalkInv, Awaited
  <2>3. PICK m \in 1 .. Len(list') : list'[m] = list[i]
    BY <1>6, <2>1, <2>2 DEF Changed
  <2>4. 1 \in 1 .. Len(list') /\ 1 <= m /\ te' = list'[1].id
    BY <1>8
  <2> QED BY <2>2, <2>3, <2>4
<1>11. maxId' < nextId' /\ \A id \in called' : id <= maxId'
  BY <1>1, <1>2, <1>3, <1>6 DEF Ind, WalkInv
<1>12. born' \in SUBSET Nat /\ \A id \in born' : maxId' < id
  <2>1. born \in SUBSET Nat /\ maxId < nextId /\ \A id \in born : maxId < id
    BY <1>1 DEF Ind, TimesInv, WalkInv
  <2>2. born' = born \/ born' = born \cup {nextId}
    BY <1>4
  <2> QED BY <1>1, <1>3, <2>1, <2>2
<1>13. WalkInv'
  BY <1>1, <1>10, <1>11, <1>12 DEF WalkInv, Awaited
<1>14. TimesInv'
  BY <1>1, <1>2, <1>6, <1>12 DEF Ind, TimesInv
<1> QED BY <1>1, <1>9, <1>13, <1>14 DEF Ind, PollInv

LEMMA EndInd ==
    ASSUME Ind, EndTimeEvents PROVE Ind'
<1>1. /\ step' = "top" /\ maxId' = Null /\ owed' = {} /\ called' = {} /\ born' = {}
      /\ UNCHANGED <<clock, list, nextId, lastTime, te, sleep, skews>>
  BY DEF EndTimeEvents
<1> QED BY <1>1 DEF Ind, TimesInv, ListInv, WalkInv, PollInv, Steps

LEMMA TickInd ==
    ASSUME Ind, Tick PROVE Ind'
<1>1. /\ clock < MaxClock \/ (step = "poll" /\ sleep > 0)
      /\ clock' = IF clock < MaxClock THEN clock + 1 ELSE clock
      /\ sleep' = IF step = "poll" /\ sleep > 0 THEN sleep - 1 ELSE sleep
      /\ UNCHANGED <<list, nextId, lastTime, step, te, maxId, owed, called, born, skews>>
  BY DEF Tick
<1>2. /\ clock \in Nat /\ clock >= FirstClock /\ sleep \in Nat \cup {Forever}
      /\ Listed(list, nextId) /\ lastTime \in Nat
  BY DEF Ind, TimesInv, ListInv, Held
<1>3. clock' \in Nat /\ clock <= clock' /\ sleep' \in Nat \cup {Forever}
  BY <1>1, <1>2 DEF Forever
<1>4. /\ Sec(clock) <= Sec(clock') /\ Sec(clock) \in Nat /\ Sec(clock') \in Nat
      /\ \A e : IsMoment(e.when) /\ Due(e, clock) => Due(e, clock')
  BY <1>2, <1>3, Later, Split
<1>5. TimesInv'
  <2>1. skews = MaxSkews => lastTime <= Sec(clock')
    BY <1>2, <1>4 DEF Ind, TimesInv
  <2>2. clock' >= FirstClock
    BY <1>2, <1>3, TimersAssumption
  <2> QED BY <1>1, <1>3, <2>1, <2>2 DEF Ind, TimesInv
<1>6. ListInv'
  BY <1>1 DEF Ind, ListInv
<1>7. \A i \in 1 .. Len(list) : list[i].due \in Nat /\ IsMoment(list[i].when)
  BY <1>2, Elements
<1>8. WalkInv'
  BY <1>1, <1>4, <1>7 DEF Ind, WalkInv, Awaited
<1>9. ASSUME step = "poll", skews = MaxSkews, sleep' # Forever, NEW i \in 1 .. Len(list)
      PROVE  sleep' < MsPerSec + (IF list[i].due > clock' THEN list[i].due - clock' ELSE 0)
  <2>1. MsPerSec \in Nat \ {0} /\ list[i].due \in Nat /\ MaxClock \in Nat
    BY <1>7, TimersAssumption
  <2>2. sleep \in Nat /\ sleep' = IF sleep > 0 THEN sleep - 1 ELSE sleep
    BY <1>1, <1>2, <1>9 DEF Forever
  <2>3. sleep < MsPerSec + (IF list[i].due > clock THEN list[i].due - clock ELSE 0)
    BY <1>9, <2>2 DEF Ind, PollInv, SleepsTo, Forever
  <2> QED BY <1>1, <1>2, <2>1, <2>2, <2>3
<1>10. PollInv'
  BY <1>1, <1>9 DEF PollInv, SleepsTo
<1> QED BY <1>5, <1>6, <1>8, <1>10 DEF Ind

LEMMA SetClockInd ==
    ASSUME Ind, SetClock PROVE Ind'
<1>1. PICK t \in FirstClock .. MaxClock :
        /\ skews > 0 /\ clock' = t /\ skews' = skews - 1
        /\ owed' = {id \in owed : \A e \in Events : e.id = id => Due(e, t)}
        /\ UNCHANGED <<list, nextId, lastTime, step, te, maxId, sleep, called, born>>
  BY DEF SetClock
<1>2. t \in Nat /\ t >= FirstClock /\ MaxSkews \in Nat
  BY TimersAssumption
<1>3. skews' \in 0 .. MaxSkews /\ skews' # MaxSkews
  BY <1>1, <1>2 DEF Ind, TimesInv
<1>4. TimesInv'
  BY <1>1, <1>2, <1>3 DEF Ind, TimesInv
<1>5. ListInv'
  BY <1>1, <1>3 DEF Ind, ListInv, Held
<1>6. \A i \in 1 .. Len(list) : list[i] \in Events
  BY Elements DEF Ind, ListInv, Held, Events
<1>7. WalkInv'
  BY <1>1, <1>6 DEF Ind, WalkInv, Awaited
<1> QED BY <1>3, <1>4, <1>5, <1>7 DEF Ind, PollInv

LEMMA NextInd == Ind /\ [Next]_vars => Ind'
<1> SUFFICES ASSUME Ind, [Next]_vars PROVE Ind'
  OBVIOUS
<1>1. CASE UNCHANGED vars
  BY <1>1 DEF vars, Ind, TimesInv, ListInv, WalkInv, PollInv
<1> QED BY <1>1, SleepInd, PollReturnsInd, CreateInd, BeginInd, PassOverInd, CallInd,
           EndInd, TickInd, SetClockInd DEF Next, Loop

LEMMA Inductive == Spec => []Ind
BY InitInd, NextInd, PTL DEF Spec

-----------------------------------------------------------------------------------
\* The variables of the loop keep their types, and the walk never stands on an event that
\* was deleted.
THEOREM TypeCorrect == Spec => []TypeOK
<1>1. Ind => TypeOK
  <2> SUFFICES ASSUME Ind PROVE TypeOK
    OBVIOUS
  <2>1. Listed(list, nextId) /\ Stands(list, te) /\ TimesInv
    BY DEF Ind, ListInv, Held
  <2>2. list \in Seq([id : Nat, when : [sec : Nat, ms : Nat], due : Nat])
    BY <2>1 DEF Listed, TimeEvent
  <2>3. te \in {e.id : e \in Events} \cup {Null}
    BY <2>1, Elements DEF Stands, Events
  <2>4. skews \in Nat
    BY <2>1, TimersAssumption DEF TimesInv
  <2> QED BY <2>1, <2>2, <2>3, <2>4 DEF TimesInv, TypeOK
<1> QED BY Inductive, <1>1, PTL

\* An event that a procedure creates while the list is walked is not called in that pass:
\* the last identifier that processTimeEvents takes before the walk is below those that are
\* given out in it, however many, and no event above it is called.
THEOREM NewWaits == Spec => []NewWaitsForNextPass
<1>1. Ind => NewWaitsForNextPass
  <2> SUFFICES ASSUME Ind, step = "walk", NEW id \in born, id \in called
               PROVE  FALSE
    BY DEF NewWaitsForNextPass
  <2>1. id \in Nat /\ maxId \in Int
    BY DEF Ind, TimesInv, Null
  <2>2. maxId < id /\ id <= maxId
    BY DEF Ind, WalkInv
  <2> QED BY <2>1, <2>2
<1> QED BY Inductive, <1>1, PTL

\* A pass does not end before it has called all that was due when it began.
THEOREM WalkCallsDue == Spec => []DueIsCalled
<1>1. Ind => DueIsCalled
  <2> SUFFICES ASSUME Ind, step = "walk", te = Null, NEW id \in owed, id \notin called
               PROVE  FALSE
    BY DEF DueIsCalled
  <2>1. \E j \in 1 .. Len(list) : list[j].id = Null
    BY DEF Ind, WalkInv, Awaited
  <2>2. \A j \in 1 .. Len(list) : list[j].id \in Nat
    BY Elements DEF Ind, ListInv, Held
  <2> QED BY <2>1, <2>2 DEF Null
<1> QED BY Inductive, <1>1, PTL

\* The poll sleeps less than a second past the first event.
THEOREM PollIsBounded == Spec => []OversleepsUnderASecond
<1>1. Ind => OversleepsUnderASecond
  <2> SUFFICES ASSUME Ind, step = "poll", sleep # Forever, skews = MaxSkews, NEW e \in Events
               PROVE  sleep < MsPerSec + (IF e.due > clock THEN e.due - clock ELSE 0)
    BY DEF OversleepsUnderASecond
  <2>1. PICK i \in 1 .. Len(list) : e = list[i]
    BY Elements DEF Ind, ListInv, Held, Events
  <2> QED BY <2>1 DEF Ind, PollInv, SleepsTo
<1> QED BY Inductive, <1>1, PTL

\* No procedure is called before its moment while nobody sets the clock; once it was set,
\* only the events that a pass made due at once because it saw the clock go back.
THEOREM NoneEarly == Spec => NeverEarly
<1>1. ASSUME Ind, [Next]_vars, NEW e \in Events, e.id \in called' \ called
      PROVE  clock >= e.due \/ (skews # MaxSkews /\ e.when.sec = 0)
  <2>1. PICK i \in 1 .. Len(list) : e = list[i]
    BY <1>1, Elements DEF Ind, ListInv, Held, Events
  <2>2. /\ clock \in Nat /\ IsMoment(e.when) /\ OnTime(e)
        /\ skews = MaxSkews => Exact(e)
    BY <1>1, <2>1, Elements DEF Ind, TimesInv, ListInv, Held
  <2>3. CASE CallTimeProc
    <3>1. te # Null /\ Due(list[At(te)], clock) /\ called' = called \cup {te}
      BY <2>3 DEF CallTimeProc, Looking
    <3>2. e = list[At(te)]
      BY <1>1, <2>1, <3>1, Found DEF Ind
    <3> QED BY <2>2, <3>1, <3>2, DueIff DEF OnTime, Exact
  <2>4. CASE ~CallTimeProc
    <3>1. called' \ called = {}
      BY <1>1, <2>4 DEF Next, Loop, vars, Sleep, TimesOut, FilesReady, PollReturns,
            BeginTimeEvents, PassOver, EndTimeEvents, CreateTimeEvent, Tick, SetClock
    <3> QED BY <1>1, <3>1
  <2> QED BY <2>3, <2>4
<1>2. Ind /\ [Next]_vars =>
        [\A e \in Events : e.id \in called' \ called =>
              clock >= e.due \/ (skews # MaxSkews /\ e.when.sec = 0)]_vars
  BY <1>1
<1> QED BY Inductive, <1>2, PTL DEF Spec, NeverEarly
===================================================================================
