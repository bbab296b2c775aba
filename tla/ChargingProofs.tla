--------------------------- MODULE ChargingProofs ---------------------------
(* Proofs about Charging for every number of URRs, units, handlers, timers   *)
(* and faults: its volume limit timers, the quotas at the UPF, and the way   *)
(* of each unit of usage from its measurement to the CHF.                    *)
EXTENDS Charging, TLAPS, FiniteSetTheorems

TimerRecords == [kind : {"volume", "event"}, urr : Urrs, step : Steps, stopped : BOOLEAN]

TimersTyped ==
  /\ timer \in Seq(TimerRecords)
  /\ cur \in [Urrs -> 0..Len(timer)]

\* Two handlers never forget the timer of one URR at the same time, a timer that is
\* to be forgotten was stopped, and one that runs is the URR's.
LimitInv ==
  /\ TimersTyped
  /\ \A t \in DOMAIN timer :
       /\ /\ timer[t].kind = "volume" /\ ~timer[t].stopped
          /\ timer[t].step \in {"new", "waiting", "running", "once"}
          => cur[timer[t].urr] = t
       /\ timer[t].step = "clear"
          => cur[timer[t].urr] # 0 /\ timer[cur[timer[t].urr]].stopped
  /\ \A s, t \in DOMAIN timer :
       timer[s].step = "clear" /\ timer[t].step = "clear" /\ timer[s].urr = timer[t].urr => s = t

-----------------------------------------------------------------------------
(* Sequences of timers *)

\* An element of a sequence.
LEMMA SeqElement ==
  ASSUME NEW S, NEW q \in Seq(S), NEW i \in DOMAIN q
  PROVE  q[i] \in S
  OBVIOUS

\* A function with the domain of a sequence is one.
LEMMA SeqLike ==
  ASSUME NEW S, NEW T, NEW q \in Seq(T), NEW r \in [DOMAIN q -> S]
  PROVE  r \in Seq(S) /\ Len(r) = Len(q) /\ DOMAIN r = DOMAIN q
  OBVIOUS

\* What a timer keeps when it makes a step.
LEMMA RecordStep ==
  ASSUME NEW x \in TimerRecords, NEW p \in Steps
  PROVE  LET y == [x EXCEPT !.step = p]
         IN  /\ y \in TimerRecords /\ y.step = p
             /\ y.kind = x.kind /\ y.urr = x.urr /\ y.stopped = x.stopped
  BY DEF TimerRecords

\* The same for one that is stopped.
LEMMA RecordStop ==
  ASSUME NEW x \in TimerRecords
  PROVE  LET y == [x EXCEPT !.stopped = TRUE]
         IN  /\ y \in TimerRecords /\ y.stopped
             /\ y.kind = x.kind /\ y.urr = x.urr /\ y.step = x.step
  BY DEF TimerRecords

\* The timers that LimitInv is about.
LEMMA TimerFacts ==
  ASSUME LimitInv
  PROVE  /\ timer \in Seq(TimerRecords) /\ cur \in [Urrs -> 0..Len(timer)]
         /\ Len(timer) \in Nat /\ DOMAIN timer = 1..Len(timer)
         /\ \A t \in DOMAIN timer : timer[t] \in TimerRecords /\ timer[t].urr \in Urrs
         /\ \A u \in Urrs : cur[u] # 0 => cur[u] \in DOMAIN timer
<1>1. timer \in Seq(TimerRecords) /\ cur \in [Urrs -> 0..Len(timer)]
  BY DEF LimitInv, TimersTyped
<1>2. \A t \in DOMAIN timer : timer[t] \in TimerRecords
  BY <1>1, SeqElement
<1>3. \A x \in TimerRecords : x.urr \in Urrs
  BY DEF TimerRecords
<1> QED
  BY <1>1, <1>2, <1>3

-----------------------------------------------------------------------------
(* Volume limit timers *)

\* The steps that touch no timer.
LEMMA OtherTimers ==
  ASSUME [Next]_vars
  PROVE  \/ UNCHANGED timers
         \/ \E u \in Urrs : GrantVolumeLimit(u) \/ GrantEventLimit(u)
         \/ \E t \in DOMAIN timer :
              TimerHandler(t) \/ TimerStops(t) \/ Tick(t) \/ Cancel(t) \/ CancelClears(t)
  BY DEF Next, Measure, ReportRequest, ReportRejected, QueryReport, Queried, Release, Modify,
         Notification, LocationChange, QueryFails, LateRead, LateWrite, BuildMultiUnitUsage,
         ResetReports, ChargingUpdate, ChargingRelease, ChargingFails, GrantQuota,
         NothingToUpdate, UpdateUrrs, UpdateRefused, UpdateUnanswered, Updates, LoseUpf,
         Reassociate, vars

\* A step of a timer, after which none is newly stopped, forgotten or made.
LEMMA TimerMoves ==
  ASSUME LimitInv, cur' = cur, timer' \in Seq(TimerRecords), Len(timer') = Len(timer),
         \A t \in DOMAIN timer :
           /\ timer'[t].kind = timer[t].kind /\ timer'[t].urr = timer[t].urr
           /\ timer'[t].stopped = timer[t].stopped
           /\ timer'[t].step \in {"new", "waiting", "running", "once"}
                => timer[t].step \in {"new", "waiting", "running", "once"}
           /\ timer'[t].step = "clear" => timer[t].step = "clear"
  PROVE  LimitInv'
<1>1. DOMAIN timer' = DOMAIN timer
  BY DEF LimitInv, TimersTyped
<1>2. TimersTyped'
  BY DEF LimitInv, TimersTyped
<1>3. \A u \in Urrs : cur[u] # 0 => cur[u] \in DOMAIN timer
  BY DEF LimitInv, TimersTyped
<1>4. \A t \in DOMAIN timer : timer[t].urr \in Urrs
  BY TimerFacts
<1> QED
  BY <1>1, <1>2, <1>3, <1>4 DEF LimitInv

\* A new timer of URR u, whose old one is stopped or of another kind.
LEMMA NewTimerMade ==
  ASSUME LimitInv, NEW u \in Urrs, NEW kind \in {"volume", "event"},
         NEW old \in Seq(TimerRecords), Len(old) = Len(timer),
         \A t \in DOMAIN timer :
           /\ old[t].kind = timer[t].kind /\ old[t].urr = timer[t].urr
           /\ old[t].step = timer[t].step
           /\ old[t].stopped = timer[t].stopped \/ old[t].stopped,
         timer' = Append(old, NewTimer(kind, u)),
         \/ kind = "event" /\ cur' = cur
         \/ /\ kind = "volume" /\ cur' = [cur EXCEPT ![u] = Len(timer) + 1]
            /\ cur[u] # 0 => ~timer[cur[u]].stopped /\ old[cur[u]].stopped
  PROVE  LimitInv'
<1> DEFINE n == Len(timer) + 1
<1>1. NewTimer(kind, u) \in TimerRecords
  BY DEF NewTimer, TimerRecords, Steps
<1>2. /\ timer' \in Seq(TimerRecords) /\ DOMAIN timer' = DOMAIN timer \cup {n}
      /\ timer'[n] = NewTimer(kind, u) /\ \A t \in DOMAIN timer : timer'[t] = old[t]
      /\ n \notin DOMAIN timer /\ Len(timer') = n /\ n # 0
  <2>1. /\ timer' \in Seq(TimerRecords) /\ DOMAIN timer' = 1..n /\ Len(timer') = n
        /\ timer'[n] = NewTimer(kind, u) /\ \A t \in 1..Len(timer) : timer'[t] = old[t]
    BY <1>1, TimerFacts
  <2> QED
    BY <2>1, TimerFacts
<1>3. cur' \in [Urrs -> 0..Len(timer')]
  BY <1>2 DEF LimitInv, TimersTyped
<1>4. \A v \in Urrs : cur[v] # 0 => cur[v] \in DOMAIN timer
  BY TimerFacts
<1>5. \A t \in DOMAIN timer : timer[t].urr \in Urrs
  BY TimerFacts
<1>6. timer'[n].step = "new" /\ timer'[n].urr = u /\ timer'[n].kind = kind
  BY <1>2 DEF NewTimer
<1> HIDE DEF n
<1>7. ASSUME NEW t \in DOMAIN timer', timer'[t].kind = "volume", ~timer'[t].stopped,
             timer'[t].step \in {"new", "waiting", "running", "once"}
      PROVE  cur'[timer'[t].urr] = t
  <2>1. CASE t = n
    BY <1>2, <1>6, <1>7, <2>1 DEF LimitInv, TimersTyped, n
  <2>2. CASE t # n
    <3>1. /\ t \in DOMAIN timer /\ cur[timer[t].urr] = t /\ timer'[t].urr = timer[t].urr
          /\ t # 0
      BY <1>2, <1>7, <2>2 DEF LimitInv, TimersTyped
    <3>2. timer[t].urr # u \/ kind = "event"
      BY <1>2, <1>7, <3>1
    <3> QED
      BY <1>5, <3>1, <3>2 DEF LimitInv, TimersTyped
  <2> QED
    BY <2>1, <2>2
<1>8. ASSUME NEW t \in DOMAIN timer', timer'[t].step = "clear"
      PROVE  /\ cur'[timer'[t].urr] # 0 /\ timer'[cur'[timer'[t].urr]].stopped
             /\ t \in DOMAIN timer /\ timer[t].step = "clear" /\ timer[t].urr = timer'[t].urr
  <2>1. t # n
    BY <1>6, <1>8
  <2>2. /\ t \in DOMAIN timer /\ timer[t].step = "clear" /\ timer[t].urr = timer'[t].urr
    BY <1>2, <1>8, <2>1
  <2>3. cur[timer[t].urr] # 0 /\ timer[cur[timer[t].urr]].stopped
    BY <2>2 DEF LimitInv
  <2>4. timer[t].urr # u \/ kind = "event"
    BY <2>3
  <2>5. cur'[timer[t].urr] = cur[timer[t].urr]
    BY <1>5, <2>2, <2>4 DEF LimitInv, TimersTyped
  <2>6. timer'[cur[timer[t].urr]].stopped
    BY <1>2, <1>4, <1>5, <2>2, <2>3
  <2> QED
    BY <2>2, <2>3, <2>5, <2>6
<1>9. \A s, t \in DOMAIN timer' :
        timer'[s].step = "clear" /\ timer'[t].step = "clear" /\ timer'[s].urr = timer'[t].urr
          => s = t
  BY <1>8 DEF LimitInv
<1>10. TimersTyped'
  BY <1>2, <1>3 DEF TimersTyped
<1> QED
  BY <1>7, <1>8, <1>9, <1>10 DEF LimitInv

\* Every step keeps LimitInv.
LEMMA LimitStep == LimitInv /\ [Next]_vars => LimitInv'
<1> SUFFICES ASSUME LimitInv, [Next]_vars PROVE LimitInv'
  OBVIOUS
<1>0. /\ timer \in Seq(TimerRecords) /\ cur \in [Urrs -> 0..Len(timer)]
      /\ \A t \in DOMAIN timer : timer[t] \in TimerRecords /\ timer[t].urr \in Urrs
      /\ \A u \in Urrs : cur[u] # 0 => cur[u] \in DOMAIN timer
  BY TimerFacts
<1>9. ASSUME NEW t \in DOMAIN timer, NEW p \in Steps, timer' = [timer EXCEPT ![t].step = p]
      PROVE  /\ timer' \in Seq(TimerRecords) /\ Len(timer') = Len(timer)
             /\ DOMAIN timer' = DOMAIN timer
             /\ \A s \in DOMAIN timer :
                  /\ timer'[s].kind = timer[s].kind /\ timer'[s].urr = timer[s].urr
                  /\ timer'[s].stopped = timer[s].stopped
                  /\ timer'[s].step = IF s = t THEN p ELSE timer[s].step
  <2> DEFINE y == [timer[t] EXCEPT !.step = p]
  <2>1. timer' = [timer EXCEPT ![t] = y]
    BY <1>9
  <2>2. /\ y \in TimerRecords /\ y.step = p
        /\ y.kind = timer[t].kind /\ y.urr = timer[t].urr /\ y.stopped = timer[t].stopped
    BY <1>0, <1>9, RecordStep
  <2> HIDE DEF y
  <2>3. timer' \in [DOMAIN timer -> TimerRecords]
    BY <1>0, <2>1, <2>2
  <2>4. \A s \in DOMAIN timer : timer'[s] = IF s = t THEN y ELSE timer[s]
    BY <1>9, <2>1
  <2> QED
    BY <1>0, <2>2, <2>3, <2>4, SeqLike
<1>1. CASE UNCHANGED timers
  BY <1>1 DEF timers, LimitInv, TimersTyped
<1>2. ASSUME NEW u \in Urrs, GrantVolumeLimit(u) PROVE LimitInv'
  <2>1. CASE cur[u] # 0 /\ timer[cur[u]].stopped
    BY <1>2, <2>1 DEF GrantVolumeLimit, timers, LimitInv, TimersTyped
  <2>2. CASE ~(cur[u] # 0 /\ timer[cur[u]].stopped)
    <3>1. /\ timer' = Append(StopTimer(u), NewTimer("volume", u))
          /\ cur' = [cur EXCEPT ![u] = Len(timer')]
      BY <1>2, <2>2 DEF GrantVolumeLimit
    <3>2. /\ StopTimer(u) \in Seq(TimerRecords) /\ Len(StopTimer(u)) = Len(timer)
          /\ \A t \in DOMAIN timer :
               /\ StopTimer(u)[t].kind = timer[t].kind /\ StopTimer(u)[t].urr = timer[t].urr
               /\ StopTimer(u)[t].step = timer[t].step
               /\ StopTimer(u)[t].stopped = timer[t].stopped \/ StopTimer(u)[t].stopped
          /\ cur[u] # 0 => StopTimer(u)[cur[u]].stopped
      <4>1. CASE cur[u] = 0
        BY <1>0, <4>1 DEF StopTimer
      <4>2. CASE cur[u] # 0
        <5> DEFINE c == cur[u]
                   y == [timer[c] EXCEPT !.stopped = TRUE]
        <5>1. c \in DOMAIN timer /\ StopTimer(u) = [timer EXCEPT ![c] = y]
          BY <1>0, <4>2 DEF StopTimer
        <5>2. y \in TimerRecords /\ y.stopped /\ y.kind = timer[c].kind
              /\ y.urr = timer[c].urr /\ y.step = timer[c].step
          BY <1>0, <5>1, RecordStop
        <5> HIDE DEF c, y
        <5>3. StopTimer(u) \in [DOMAIN timer -> TimerRecords]
          BY <1>0, <5>1, <5>2
        <5>4. StopTimer(u) \in Seq(TimerRecords) /\ Len(StopTimer(u)) = Len(timer)
          BY <1>0, <5>3, SeqLike
        <5>5. \A t \in DOMAIN timer : StopTimer(u)[t] = IF t = c THEN y ELSE timer[t]
          BY <5>1
        <5> QED
          BY <5>1, <5>2, <5>4, <5>5 DEF c
      <4> QED
        BY <4>1, <4>2
    <3>3. Len(timer') = Len(timer) + 1
      BY <3>1, <3>2
    <3> QED
      BY <2>2, <3>1, <3>2, <3>3, NewTimerMade
  <2> QED
    BY <2>1, <2>2
<1>3. ASSUME NEW u \in Urrs, GrantEventLimit(u) PROVE LimitInv'
  BY <1>0, <1>3, NewTimerMade DEF GrantEventLimit
<1>4. ASSUME NEW t \in DOMAIN timer, TimerHandler(t) PROVE LimitInv'
  <2>1. /\ cur' = cur /\ timer[t].step = "waiting"
        /\ timer' = [s \in DOMAIN timer |->
                       IF s = t THEN [timer[s] EXCEPT !.step = "running"]
                       ELSE IF timer[s].step = "running" THEN [timer[s] EXCEPT !.step = "once"]
                       ELSE timer[s]]
    BY <1>4 DEF TimerHandler
  <2>2. \A s \in DOMAIN timer : timer'[s] \in TimerRecords
    BY <1>0, <2>1, RecordStep DEF Steps
  <2>3. timer' \in Seq(TimerRecords) /\ Len(timer') = Len(timer)
    <3>1. timer' \in [DOMAIN timer -> TimerRecords]
      BY <2>1, <2>2
    <3> QED
      BY <1>0, <3>1, SeqLike
  <2>4. \A s \in DOMAIN timer :
           /\ timer'[s].kind = timer[s].kind /\ timer'[s].urr = timer[s].urr
           /\ timer'[s].stopped = timer[s].stopped
           /\ timer'[s].step \in {"new", "waiting", "running", "once"}
                => timer[s].step \in {"new", "waiting", "running", "once"}
           /\ timer'[s].step = "clear" => timer[s].step = "clear"
    BY <1>0, <2>1, RecordStep DEF Steps
  <2> QED
    BY <2>1, <2>3, <2>4, TimerMoves
<1>5. ASSUME NEW t \in DOMAIN timer, NEW st1 \in {"waiting", "cancel", "end"}, Step(t, st1),
             st1 = "waiting" => timer[t].step = "new", cur' = cur
      PROVE  LimitInv'
  <2>1. /\ timer' \in Seq(TimerRecords) /\ Len(timer') = Len(timer)
        /\ \A s \in DOMAIN timer :
             /\ timer'[s].kind = timer[s].kind /\ timer'[s].urr = timer[s].urr
             /\ timer'[s].stopped = timer[s].stopped
             /\ timer'[s].step \in {"new", "waiting", "running", "once"}
                  => timer[s].step \in {"new", "waiting", "running", "once"}
             /\ timer'[s].step = "clear" => timer[s].step = "clear"
    <3>1. timer' = [timer EXCEPT ![t].step = st1] /\ st1 \in Steps
      BY <1>5 DEF Step, Steps
    <3>2. /\ timer' \in Seq(TimerRecords) /\ Len(timer') = Len(timer)
          /\ \A s \in DOMAIN timer :
               /\ timer'[s].kind = timer[s].kind /\ timer'[s].urr = timer[s].urr
               /\ timer'[s].stopped = timer[s].stopped
               /\ timer'[s].step = IF s = t THEN st1 ELSE timer[s].step
      BY <1>5, <1>9, <3>1
    <3> QED
      BY <1>5, <3>2
  <2> QED
    BY <1>5, <2>1, TimerMoves
<1>6. ASSUME NEW t \in DOMAIN timer, TimerStops(t) \/ Tick(t) PROVE LimitInv'
  BY <1>5, <1>6 DEF TimerStops, Tick
<1>7. ASSUME NEW t \in DOMAIN timer, Cancel(t) PROVE LimitInv'
  <2> DEFINE u == timer[t].urr
  <2>1. CASE timer[t].kind = "event" /\ Step(t, "end")
    BY <1>5, <1>7, <2>1 DEF Cancel
  <2>2. CASE UNCHANGED timer
    BY <1>7, <2>2 DEF Cancel, LimitInv, TimersTyped
  <2>3. ASSUME Stoppable(u), timer[t].step = "cancel", cur' = cur,
               timer' = [timer EXCEPT ![cur[u]].stopped = TRUE, ![t].step = "clear"]
        PROVE  LimitInv'
    <3>1. u \in Urrs /\ cur[u] \in DOMAIN timer /\ ~timer[cur[u]].stopped /\ cur[u] # 0
      BY <1>0, <2>3 DEF Stoppable
    <3> DEFINE c == cur[u]
               y == [timer[c] EXCEPT !.stopped = TRUE]
               z == [timer EXCEPT ![c] = y][t]
               w == [z EXCEPT !.step = "clear"]
    <3>8. timer' = [[timer EXCEPT ![c] = y] EXCEPT ![t] = w]
      BY <1>7, <2>3, <3>1
    <3>9. /\ y \in TimerRecords /\ y.stopped /\ y.kind = timer[c].kind
          /\ y.urr = timer[c].urr /\ y.step = timer[c].step
      BY <1>0, <3>1, RecordStop
    <3> HIDE DEF y
    <3>10. z = IF t = c THEN y ELSE timer[t]
      BY <1>7, <3>1
    <3> HIDE DEF z
    <3>11. z \in TimerRecords
      BY <1>0, <1>7, <3>9, <3>10
    <3>12. /\ w \in TimerRecords /\ w.step = "clear"
           /\ w.kind = z.kind /\ w.urr = z.urr /\ w.stopped = z.stopped
      BY <3>11, RecordStep DEF Steps
    <3> HIDE DEF w, c
    <3>13. timer' \in [DOMAIN timer -> TimerRecords]
      BY <1>0, <3>8, <3>9, <3>12
    <3>2. /\ timer' \in Seq(TimerRecords) /\ Len(timer') = Len(timer)
          /\ DOMAIN timer' = DOMAIN timer
      BY <1>0, <3>13, SeqLike
    <3>14. \A s \in DOMAIN timer :
             timer'[s] = IF s = t THEN w ELSE IF s = c THEN y ELSE timer[s]
      BY <1>7, <3>1, <3>8
    <3>15. \A s \in DOMAIN timer : timer[s].stopped \in BOOLEAN
      BY <1>0 DEF TimerRecords
    <3>3. \A s \in DOMAIN timer :
            /\ timer'[s].kind = timer[s].kind /\ timer'[s].urr = timer[s].urr
            /\ timer'[s].stopped = (timer[s].stopped \/ s = cur[u])
            /\ timer'[s].step = IF s = t THEN "clear" ELSE timer[s].step
      BY <3>9, <3>10, <3>12, <3>14, <3>15 DEF c
    <3>4. \A s \in DOMAIN timer : timer[s].step = "clear" => timer[s].urr # u
      BY <3>1 DEF LimitInv
    <3>5. \A s \in DOMAIN timer : timer[s].urr \in Urrs
      BY <1>0
    <3>6. TimersTyped'
      BY <1>0, <2>3, <3>2 DEF TimersTyped
    <3>7. ASSUME NEW s \in DOMAIN timer', timer'[s].step = "clear"
          PROVE  cur'[timer'[s].urr] # 0 /\ timer'[cur'[timer'[s].urr]].stopped
      <4>1. CASE s = t
        BY <2>3, <3>1, <3>2, <3>3, <4>1
      <4>2. CASE s # t
        <5>1. cur[timer[s].urr] # 0 /\ timer[cur[timer[s].urr]].stopped
          BY <3>2, <3>3, <3>7, <4>2 DEF LimitInv
        <5>2. s \in DOMAIN timer /\ cur[timer[s].urr] \in DOMAIN timer
          BY <1>0, <3>2, <3>5, <3>7, <5>1
        <5>3. timer'[cur[timer[s].urr]].stopped
          BY <3>3, <5>1, <5>2
        <5>4. cur'[timer'[s].urr] = cur[timer[s].urr]
          BY <2>3, <3>3, <5>2
        <5> QED
          BY <5>1, <5>3, <5>4
      <4> QED
        BY <4>1, <4>2
    <3>16. ASSUME NEW s \in DOMAIN timer', timer'[s].kind = "volume", ~timer'[s].stopped,
                  timer'[s].step \in {"new", "waiting", "running", "once"}
           PROVE  cur'[timer'[s].urr] = s
      <4>1. s # t /\ ~timer[s].stopped /\ timer[s].kind = "volume"
            /\ timer[s].step = timer'[s].step /\ timer[s].urr = timer'[s].urr
        BY <3>2, <3>3, <3>16
      <4>2. cur[timer[s].urr] = s
        BY <3>2, <3>16, <4>1 DEF LimitInv
      <4> QED
        BY <2>3, <4>1, <4>2
    <3>17. ASSUME NEW r \in DOMAIN timer', NEW s \in DOMAIN timer', timer'[r].step = "clear",
                  timer'[s].step = "clear", timer'[r].urr = timer'[s].urr
           PROVE  r = s
      <4>1. timer[r].urr = timer[s].urr
        BY <3>2, <3>3, <3>17
      <4>2. CASE r # t /\ s # t
        BY <3>2, <3>3, <3>17, <4>1, <4>2 DEF LimitInv
      <4>3. CASE r = t \/ s = t
        BY <3>2, <3>3, <3>4, <3>17, <4>1, <4>3
      <4> QED
        BY <4>2, <4>3
    <3> QED
      BY <3>6, <3>7, <3>16, <3>17 DEF LimitInv
  <2> QED
    BY <1>7, <2>1, <2>2, <2>3 DEF Cancel
<1>8. ASSUME NEW t \in DOMAIN timer, CancelClears(t) PROVE LimitInv'
  <2>1. /\ timer[t].step = "clear" /\ timer' = [timer EXCEPT ![t].step = "end"]
        /\ cur' = [cur EXCEPT ![timer[t].urr] = 0]
    BY <1>8 DEF CancelClears, Step
  <2>2. /\ timer' \in Seq(TimerRecords) /\ Len(timer') = Len(timer)
        /\ DOMAIN timer' = DOMAIN timer
        /\ \A s \in DOMAIN timer :
             /\ timer'[s].kind = timer[s].kind /\ timer'[s].urr = timer[s].urr
             /\ timer'[s].stopped = timer[s].stopped
             /\ timer'[s].step = IF s = t THEN "end" ELSE timer[s].step
    BY <1>9, <2>1 DEF Steps
  <2>3. TimersTyped'
    <3>1. cur' \in [Urrs -> 0..Len(timer)]
      BY <1>0, <2>1
    <3> QED
      BY <2>2, <3>1 DEF TimersTyped
  <2>4. \A s \in DOMAIN timer : timer[s].urr \in Urrs
    BY <1>0
  <2>5. ASSUME NEW s \in DOMAIN timer', timer'[s].kind = "volume", ~timer'[s].stopped,
               timer'[s].step \in {"new", "waiting", "running", "once"}
        PROVE  cur'[timer'[s].urr] = s
    <3>1. cur[timer[s].urr] = s /\ ~timer[s].stopped
      BY <2>2, <2>5 DEF LimitInv
    <3>2. cur[timer[t].urr] # 0 /\ timer[cur[timer[t].urr]].stopped
      BY <2>1 DEF LimitInv
    <3>3. timer[s].urr # timer[t].urr
      BY <3>1, <3>2
    <3> QED
      BY <1>0, <2>1, <2>2, <2>4, <3>1, <3>3
  <2>6. ASSUME NEW s \in DOMAIN timer', timer'[s].step = "clear"
        PROVE  cur'[timer'[s].urr] # 0 /\ timer'[cur'[timer'[s].urr]].stopped
    <3>1. s # t /\ timer[s].step = "clear"
      BY <2>2, <2>6
    <3>2. timer[s].urr # timer[t].urr
      BY <2>1, <2>2, <3>1 DEF LimitInv
    <3>3. cur[timer[s].urr] # 0 /\ timer[cur[timer[s].urr]].stopped
      BY <2>2, <3>1 DEF LimitInv
    <3> QED
      BY <1>0, <2>1, <2>2, <2>4, <3>2, <3>3
  <2> QED
    BY <2>2, <2>3, <2>5, <2>6 DEF LimitInv
<1> QED
  BY <1>1, <1>2, <1>3, <1>4, <1>6, <1>7, <1>8, OtherTimers

\* However expiries, cancellations and new quotas meet, a URR has one volume limit
\* timer that runs and was not stopped.
THEOREM LimitSafe == Spec => []OneLimitTimer
<1>1. Init => LimitInv
  BY DEF Init, LimitInv, TimersTyped
<1>2. LimitInv => OneLimitTimer
  BY DEF LimitInv, OneLimitTimer
<1> QED
  BY <1>1, <1>2, LimitStep, PTL DEF Spec

-----------------------------------------------------------------------------
(* Quotas *)

\* While the quotas of an answer are taken over, the URRs that still wait are toGrant;
\* every other URR has its last quota, or it is to be sent, or its update may be lost.
QuotaInv ==
  /\ st \in [Urrs -> {"CREATE", "UPDATE", "QUERY"}]
  /\ granted \in [Urrs -> Nat] /\ atUpf \in [Urrs -> Nat] /\ quota \in [Groups -> Nat]
  /\ pc \notin {"grant", "crashed"} => toGrant = {}
  /\ \A u \in Urrs :
       \/ u \in toGrant
       \/ /\ granted[u] = quota[Group[u]]
          /\ u \in spoiled \/ atUpf[u] = quota[Group[u]] \/ st[u] = "UPDATE"

quotas == <<st, granted, atUpf, quota, toGrant, spoiled>>

\* The steps that touch no quota, and do not take over those of an answer.
LEMMA OtherQuotas ==
  ASSUME [Next]_vars
  PROVE  \/ /\ UNCHANGED quotas
            /\ pc' \in {"grant", "crashed"} \/ toGrant = {} \/ pc \notin {"grant", "crashed"}
         \/ \E us, full : QueryReport(us, full)
         \/ \E us : Modify(us)
         \/ \E answerLost \in BOOLEAN : QueryFails(answerLost)
         \/ \E G \in SUBSET Groups : ChargingUpdate(G)
         \/ \E u \in Urrs : Grant(u) /\ pc' \in {pc, "crashed"}
         \/ UpdateUrrs \/ UpdateRefused \/ UpdateUnanswered
<1>1. CASE UNCHANGED vars
  BY <1>1 DEF vars, upf, handler, urrTable, chf, history, quotas
<1>2. ASSUME \/ \E u \in Urrs : Measure(u)
             \/ \E us, full : (\E typed : ReportRequest(us, full, typed)) \/ Release(us, full)
             \/ \E us : ReportRejected(us)
             \/ \E g \in Groups : Notification(g)
             \/ LocationChange
             \/ BuildMultiUnitUsage \/ ResetReports \/ ChargingRelease \/ ChargingFails
             \/ NothingToUpdate
      PROVE  UNCHANGED quotas /\ (toGrant = {} \/ pc \notin {"grant", "crashed"} \/ pc' = pc)
  BY <1>2
  DEF Measure, ReportRequest, Release, ReportRejected, Notification, LocationChange, Starts,
      BuildMultiUnitUsage, ResetReports, ChargingRelease, ChargingFails, NothingToUpdate,
      Leaves, Write, upf, handler, urrTable, chf, history, quotas
<1>3. ASSUME \/ LateRead \/ LateWrite \/ LoseUpf \/ Reassociate
             \/ \E t \in DOMAIN timer :
                  TimerHandler(t) \/ TimerStops(t) \/ Tick(t) \/ Cancel(t) \/ CancelClears(t)
      PROVE  UNCHANGED quotas /\ (pc' \in {pc, "crashed"} \/ pc = "idle")
  BY <1>3
  DEF LateRead, LateWrite, LoseUpf, Reassociate, TimerHandler, Starts, TimerStops, Tick, Cancel,
      CancelClears, TimersOnly, upf, handler, urrTable, chf, history, quotas
<1>4. ASSUME NEW u \in Urrs, GrantQuota(u) \/ GrantVolumeLimit(u) \/ GrantEventLimit(u)
      PROVE  Grant(u) /\ pc' \in {pc, "crashed"}
  BY <1>4 DEF GrantQuota, GrantVolumeLimit, GrantEventLimit
<1> QED
  BY <1>1, <1>2, <1>3, <1>4 DEF Next

\* Every step keeps QuotaInv.
LEMMA QuotaStep == QuotaInv /\ [Next]_vars => QuotaInv'
<1> SUFFICES ASSUME QuotaInv, [Next]_vars PROVE QuotaInv'
  OBVIOUS
<1> USE DEF QuotaInv
<1>1. ASSUME UNCHANGED quotas,
             pc' \in {"grant", "crashed"} \/ toGrant = {} \/ pc \notin {"grant", "crashed"}
      PROVE  QuotaInv'
  BY <1>1 DEF quotas
<1>2. ASSUME NEW us, NEW full, QueryReport(us, full) PROVE QuotaInv'
  <2>1. /\ UNCHANGED <<granted, atUpf, quota, toGrant>> /\ pc = "query"
        /\ st' = [u \in Urrs |-> IF u \in asked THEN "CREATE" ELSE st[u]]
        /\ spoiled' = spoiled \cup {u \in asked : st[u] = "UPDATE"}
    BY <1>2 DEF QueryReport, Queried, chf
  <2> QED
    BY <2>1
<1>3. ASSUME NEW us, Modify(us) PROVE QuotaInv'
  <2>1. /\ UNCHANGED <<granted, quota, toGrant, spoiled>> /\ pc = "idle"
        /\ st' = [u \in Urrs |-> "CREATE"]
        /\ atUpf' = [u \in Urrs |-> IF st[u] = "UPDATE" THEN granted[u] ELSE atUpf[u]]
    BY <1>3 DEF Modify, handler, chf
  <2> QED
    BY <2>1
<1>4. ASSUME NEW answerLost \in BOOLEAN, QueryFails(answerLost) PROVE QuotaInv'
  <2>1. /\ UNCHANGED <<granted, atUpf, quota, toGrant>> /\ pc = "query"
        /\ st' = [u \in Urrs |-> IF u \in asked THEN (IF assoc THEN "CREATE" ELSE "QUERY")
                                 ELSE st[u]]
        /\ spoiled' = spoiled \cup {u \in asked : st[u] = "UPDATE"}
    BY <1>4 DEF QueryFails, Queried, chf
  <2> QED
    BY <2>1
<1>5. ASSUME NEW G \in SUBSET Groups, ChargingUpdate(G) PROVE QuotaInv'
  <2>1. /\ UNCHANGED <<st, granted, atUpf, spoiled>> /\ pc = "chf" /\ pc' = "grant"
        /\ quota' = [g \in Groups |-> IF g \in G THEN quota[g] + 1 ELSE quota[g]]
        /\ toGrant' = UNION {UrrsOf(g) : g \in G}
    BY <1>5 DEF ChargingUpdate, upf, urrTable, history
  <2>2. \A u \in Urrs : Group[u] \in G => u \in toGrant'
    BY <2>1 DEF UrrsOf
  <2>3. \A u \in Urrs : Group[u] \in Groups
    BY ChargingAssumption DEF Groups, Range
  <2>4. quota' \in [Groups -> Nat]
    BY <2>1
  <2> QED
    BY <2>1, <2>2, <2>3, <2>4
<1>6. ASSUME NEW u \in Urrs, Grant(u), pc' \in {pc, "crashed"} PROVE QuotaInv'
  <2>1. /\ pc = "grant" /\ toGrant' = toGrant \ {u} /\ st' = [st EXCEPT ![u] = "UPDATE"]
        /\ granted' = [granted EXCEPT ![u] = quota[Group[u]]]
        /\ UNCHANGED <<atUpf, quota, spoiled>>
    BY <1>6 DEF Grant, upf, chf, history
  <2>2. quota[Group[u]] \in Nat
    BY ChargingAssumption DEF Groups, Range
  <2> QED
    BY <1>6, <2>1, <2>2
<1>7. ASSUME UpdateUrrs \/ UpdateRefused \/ UpdateUnanswered PROVE QuotaInv'
  <2>1. /\ UNCHANGED <<granted, quota, toGrant>> /\ toGrant = {}
    BY <1>7 DEF UpdateUrrs, UpdateRefused, UpdateUnanswered, Updates, chf
  <2>2. CASE UpdateUrrs
    <3>1. /\ st' = [u \in Urrs |-> "CREATE"] /\ spoiled' = spoiled
          /\ atUpf' = [u \in Urrs |-> IF u \in ToUpdate THEN granted[u] ELSE atUpf[u]]
      BY <2>2 DEF UpdateUrrs
    <3> QED
      BY <2>1, <3>1 DEF ToUpdate
  <2>3. CASE UpdateRefused \/ UpdateUnanswered
    <3>1. /\ atUpf' = atUpf /\ spoiled' = spoiled \cup ToUpdate
          /\ st' \in [Urrs -> {"CREATE", "UPDATE", "QUERY"}]
          /\ \A u \in Urrs \ ToUpdate : st'[u] = st[u]
      BY <2>3 DEF UpdateRefused, UpdateUnanswered
    <3> QED
      BY <2>1, <3>1 DEF ToUpdate
  <2> QED
    BY <1>7, <2>2, <2>3
<1> QED
  BY <1>1, <1>2, <1>3, <1>4, <1>5, <1>6, <1>7, OtherQuotas

\* Between the handlers the UPF has every URR's last quota, or gets it with the next
\* request, unless a request that carried it failed or a query was built first.
THEOREM QuotaSafe == Spec => []QuotaAtUpf
<1>1. Init => QuotaInv
  <2>1. \A u \in Urrs : Group[u] \in Groups
    BY ChargingAssumption DEF Groups, Range
  <2> QED
    BY <2>1 DEF Init, QuotaInv
<1>2. QuotaInv => QuotaAtUpf
  BY DEF QuotaInv, QuotaAtUpf
<1> QED
  BY <1>1, <1>2, QuotaStep, PTL DEF Spec

-----------------------------------------------------------------------------
(* Reports *)

\* A report, as HandleReports makes it.
Reports == [urr : Urrs, typed : BOOLEAN, units : SUBSET Units]

\* A report of a sequence, or of a part of one, has unit x.
Has(rep, x) == \E i \in DOMAIN rep : x \in rep[i].units

\* Not two of its reports do.
Unique(rep, x) == \A i, j \in DOMAIN rep : x \in rep[i].units /\ x \in rep[j].units => i = j

\* Unit x is at the UPF.
Measured(x) == \E u \in Urrs : x \in usage[u]

\* What the charging data request took from the cache is gone when the request has
\* ended, and reports wait only for a goroutine that is under way.
ReportsTyped ==
  /\ usage \in [Urrs -> SUBSET Units] /\ measured \in 0..MaxUnits
  /\ reports \in Seq(Reports)
  /\ late \in [step : {"none", "start", "read"}, rep : Seq(Reports), snap : Seq(Reports)]
  /\ late.step = "none" => late = NoLate
  /\ IsFiniteSet(DOMAIN taken) /\ \A i \in DOMAIN taken : taken[i] \in Reports /\ taken[i].typed
  /\ pc \notin {"reset", "chf", "crashed"} => taken = <<>>
  /\ charged \in [Units -> Nat]

-----------------------------------------------------------------------------
(* Messages of reports *)

\* The units of reports.
LEMMA UnitsHas ==
  ASSUME NEW rep, NEW x
  PROVE  x \in UnitsOf(rep) <=> Has(rep, x)
  BY DEF UnitsOf, Has, Range

\* URRs in some order are a sequence without repetition.
LEMMA OrdersSeq ==
  ASSUME NEW U \in SUBSET Urrs, NEW us \in Orders(U)
  PROVE  /\ us \in Seq(Urrs) /\ Range(us) \subseteq Urrs
         /\ \A i, j \in DOMAIN us : us[i] = us[j] => i = j
<1>1. Cardinality(U) \in Nat
  BY ChargingAssumption, FS_Subset, FS_CardinalityType
<1>2. us \in [1..Cardinality(U) -> U] /\ IsInjective(us)
  BY DEF Orders
<1>3. us \in Seq(Urrs)
  BY <1>1, <1>2
<1> QED
  BY <1>2, <1>3 DEF IsInjective, Range

\* The reports of a message: they have all that the URRs with their measurement
\* have measured and, if none lacks it, each what its URR has.
LEMMA ReportedIs ==
  ASSUME usage \in [Urrs -> SUBSET Units], NEW us \in Seq(Urrs), NEW full, NEW typed \in BOOLEAN
  PROVE  /\ Reported(us, full, typed) \in Seq(Reports)
         /\ DOMAIN Reported(us, full, typed) = DOMAIN us
         /\ \A i \in DOMAIN us : Reported(us, full, typed)[i].typed = typed
         /\ \A i \in DOMAIN us : us[i] \in full
                => usage[us[i]] \subseteq Reported(us, full, typed)[i].units
         /\ Range(us) = full
              => \A i \in DOMAIN us : Reported(us, full, typed)[i].units = usage[us[i]]
<1> DEFINE rep == Reported(us, full, typed)
<1>1. /\ DOMAIN us = 1..Len(us) /\ Len(us) \in Nat /\ \A i \in DOMAIN us : us[i] \in Urrs
  OBVIOUS
<1>2. \A i \in DOMAIN us :
        Volumes(us, full)[i] =
          UNION {usage[us[j]] : j \in {k \in 1..i : /\ us[k] \in full
                                                    /\ \A l \in (k + 1)..i : us[l] \notin full}}
  BY DEF Volumes
<1>3. \A i \in DOMAIN us : Volumes(us, full)[i] \subseteq Units
  BY <1>1, <1>2
<1>4. ASSUME NEW i \in DOMAIN us, us[i] \in full PROVE usage[us[i]] \subseteq Volumes(us, full)[i]
  <2>1. i \in {k \in 1..i : us[k] \in full /\ \A l \in (k + 1)..i : us[l] \notin full}
    BY <1>1, <1>4
  <2> QED
    BY <1>2, <2>1
<1>5. ASSUME NEW i \in DOMAIN us, Range(us) = full
      PROVE  Volumes(us, full)[i] = usage[us[i]]
  <2>1. \A k \in 1..i : us[k] \in full
    BY <1>1, <1>5 DEF Range
  <2>2. \A k \in 1..i : (\A l \in (k + 1)..i : us[l] \notin full) => k = i
    <3> SUFFICES ASSUME NEW k \in 1..i, k # i
                 PROVE  ~ \A l \in (k + 1)..i : us[l] \notin full
      OBVIOUS
    <3>1. i \in (k + 1)..i
      BY <1>1
    <3> QED
      BY <1>1, <2>1, <3>1
  <2>3. Volumes(us, full)[i] \subseteq usage[us[i]]
    BY <1>2, <2>2
  <2>4. usage[us[i]] \subseteq Volumes(us, full)[i]
    BY <1>1, <1>4, <2>1
  <2> QED
    BY <2>3, <2>4
<1>6. /\ DOMAIN rep = DOMAIN us
      /\ \A i \in DOMAIN us : rep[i] = [urr |-> us[i], typed |-> typed, units |-> Volumes(us, full)[i]]
  BY DEF Reported
<1>7. \A i \in DOMAIN us : rep[i] \in Reports /\ rep[i].typed = typed
                           /\ rep[i].units = Volumes(us, full)[i]
  BY <1>1, <1>3, <1>6 DEF Reports
<1>8. rep \in Seq(Reports)
  <2>1. rep \in [DOMAIN us -> Reports]
    <3>1. rep = [i \in DOMAIN us |-> rep[i]]
      BY <1>6 DEF Reported
    <3> QED
      BY <1>7, <3>1
  <2> HIDE DEF rep
  <2> QED
    BY <2>1, SeqLike
<1> QED
  BY <1>4, <1>5, <1>6, <1>7, <1>8

\* Reports that are appended.
LEMMA HasAppended ==
  ASSUME NEW a \in Seq(Reports), NEW b \in Seq(Reports), NEW x
  PROVE  /\ Appended(a, b) \in Seq(Reports)
         /\ Has(Appended(a, b), x) <=> Has(a, x) \/ Has(b, x)
         /\ Unique(a, x) /\ Unique(b, x) /\ ~(Has(a, x) /\ Has(b, x)) => Unique(Appended(a, b), x)
<1>1. /\ a \o b \in Seq(Reports) /\ Len(a) \in Nat /\ Len(b) \in Nat
      /\ DOMAIN (a \o b) = 1..(Len(a) + Len(b)) /\ DOMAIN a = 1..Len(a) /\ DOMAIN b = 1..Len(b)
      /\ \A i \in 1..(Len(a) + Len(b)) :
           (a \o b)[i] = IF i <= Len(a) THEN a[i] ELSE b[i - Len(a)]
  OBVIOUS
<1>2. \A i \in DOMAIN a : i \in DOMAIN (a \o b) /\ (a \o b)[i] = a[i]
  BY <1>1
<1>3. \A i \in DOMAIN b : Len(a) + i \in DOMAIN (a \o b) /\ (a \o b)[Len(a) + i] = b[i]
  BY <1>1
<1>4. \A i \in DOMAIN (a \o b) :
        \/ i \in DOMAIN a
        \/ i - Len(a) \in DOMAIN b /\ i \notin DOMAIN a /\ (a \o b)[i] = b[i - Len(a)]
  BY <1>1
<1>5. Has(a \o b, x) <=> Has(a, x) \/ Has(b, x)
  BY <1>2, <1>3, <1>4 DEF Has
<1>6. ASSUME Unique(a, x), Unique(b, x), ~(Has(a, x) /\ Has(b, x)) PROVE Unique(a \o b, x)
  <2> SUFFICES ASSUME NEW i \in DOMAIN (a \o b), NEW j \in DOMAIN (a \o b),
                      x \in (a \o b)[i].units, x \in (a \o b)[j].units
               PROVE  i = j
    BY DEF Unique
  <2>1. CASE i \in DOMAIN a /\ j \in DOMAIN a
    BY <1>2, <1>6, <2>1 DEF Unique
  <2>2. CASE i \notin DOMAIN a /\ j \notin DOMAIN a
    <3>1. i - Len(a) = j - Len(a)
      BY <1>4, <1>6, <2>2 DEF Unique
    <3> QED
      BY <1>1, <3>1
  <2>3. CASE ~(i \in DOMAIN a <=> j \in DOMAIN a)
    BY <1>2, <1>4, <1>6, <2>3 DEF Has
  <2> QED
    BY <2>1, <2>2, <2>3
<1> QED
  BY <1>1, <1>5, <1>6 DEF Appended

\* The message leaves a unit at the UPF, or takes it along, or has lost it.  One with
\* all measurements takes each unit once.
LEMMA MessageUnits ==
  ASSUME usage \in [Urrs -> SUBSET Units], NEW us \in Seq(Urrs), NEW full, NEW typed \in BOOLEAN,
         \A i, j \in DOMAIN us : us[i] = us[j] => i = j,
         Leaves(us, full), NEW x
  PROVE  LET rep == Reported(us, full, typed)
         IN  /\ usage' \in [Urrs -> SUBSET Units]
             /\ \A u \in Urrs : x \in usage'[u] => x \in usage[u]
             /\ Measured(x) => Measured(x)' \/ Has(rep, x) \/ x \in excused'
             /\ /\ Range(us) = full
                /\ \A u, v \in Urrs : x \in usage[u] /\ x \in usage[v] => u = v
                => /\ Has(rep, x) => Measured(x) /\ ~Measured(x)'
                   /\ Unique(rep, x)
<1> DEFINE rep == Reported(us, full, typed)
<1>1. /\ usage' = [u \in Urrs |-> IF u \in Range(us) THEN {} ELSE usage[u]]
      /\ excused' = excused \cup UNION {usage[u] : u \in Range(us) \ full}
  BY DEF Leaves
<1>2. /\ DOMAIN rep = DOMAIN us
      /\ \A i \in DOMAIN us : us[i] \in full => usage[us[i]] \subseteq rep[i].units
      /\ Range(us) = full => \A i \in DOMAIN us : rep[i].units = usage[us[i]]
  BY ReportedIs
<1>3. \A i \in DOMAIN us : us[i] \in Urrs /\ us[i] \in Range(us)
  BY DEF Range
<1> HIDE DEF rep
<1>4. ASSUME Measured(x), ~Measured(x)', ~Has(rep, x) PROVE x \in excused'
  <2>1. PICK u \in Urrs : x \in usage[u]
    BY <1>4 DEF Measured
  <2>2. u \in Range(us)
    BY <1>1, <1>4, <2>1 DEF Measured
  <2>3. PICK i \in DOMAIN us : us[i] = u
    BY <2>2 DEF Range
  <2>4. u \notin full
    BY <1>2, <1>4, <2>1, <2>3 DEF Has
  <2> QED
    BY <1>1, <2>1, <2>2, <2>4
<1>5. ASSUME Range(us) = full, \A u, v \in Urrs : x \in usage[u] /\ x \in usage[v] => u = v
      PROVE  (Has(rep, x) => Measured(x) /\ ~Measured(x)') /\ Unique(rep, x)
  <2>1. ASSUME NEW i \in DOMAIN rep, x \in rep[i].units
        PROVE  x \in usage[us[i]] /\ us[i] \in Urrs /\ us[i] \in Range(us) /\ i \in DOMAIN us
    BY <1>2, <1>3, <1>5, <2>1
  <2>2. ASSUME Has(rep, x) PROVE Measured(x) /\ ~Measured(x)'
    BY <1>1, <1>5, <2>1, <2>2 DEF Has, Measured
  <2>3. Unique(rep, x)
    BY <1>5, <2>1 DEF Unique
  <2> QED
    BY <2>2, <2>3
<1>6. usage' \in [Urrs -> SUBSET Units] /\ \A u \in Urrs : x \in usage'[u] => x \in usage[u]
  BY <1>1
<1> QED
  BY <1>4, <1>5, <1>6 DEF rep

-----------------------------------------------------------------------------
(* The steps that move units *)

uses == <<usage, measured, reports, late, taken, charged, excused, raced, unmeasured>>

\* The charging data request is not under way before the step, nor after it.
NotCharging == pc \in {"idle", "query", "grant"} /\ pc' \notin {"reset", "chf", "crashed"}

\* What the URRs F have measured gets lost.
Lost(F) ==
  /\ usage' = [u \in Urrs |-> IF u \in F THEN {} ELSE usage[u]]
  /\ excused' = excused \cup UNION {usage[u] : u \in F}
  /\ UNCHANGED <<measured, reports, late, taken, charged, raced, unmeasured>>
  /\ pc' = pc \/ NotCharging

\* The handler gets an answer, whose reports wait for their goroutine.
Awaited(us, full, typed) ==
  /\ Leaves(us, full)
  /\ late = NoLate
  /\ \/ late' = NoLate /\ Range(us) = {}
     \/ late' = [step |-> "start", rep |-> Reported(us, full, typed), snap |-> <<>>]
  /\ UNCHANGED <<measured, reports, taken, charged, raced>>
  /\ NotCharging

\* The steps that leave the units where they are, and the others.
LEMMA UnitSteps ==
  ASSUME [Next]_vars
  PROVE  \/ UNCHANGED uses /\ (pc' \in {pc, "crashed"} \/ NotCharging)
         \/ \E u \in Urrs : Measure(u)
         \/ \E F : Lost(F)
         \/ \E U \in SUBSET Urrs : \E us \in Orders(U), full \in SUBSET U, typed \in BOOLEAN :
              ReportRequest(us, full, typed) \/ Awaited(us, full, typed)
         \/ LateRead \/ LateWrite
         \/ BuildMultiUnitUsage \/ ResetReports
         \/ \E G \in SUBSET Groups : ChargingUpdate(G)
         \/ ChargingRelease \/ ChargingFails
<1>1. CASE UNCHANGED vars
  BY <1>1 DEF vars, upf, handler, chf, history, uses
<1>2. ASSUME NEW U \in SUBSET Urrs, NEW us \in Orders(U), ReportRejected(us)
      PROVE  \E F : Lost(F)
  <2>1. Lost(Range(us))
    BY <1>2 DEF ReportRejected, Lost, handler, chf
  <2> QED
    BY <2>1
<1>3. ASSUME NEW answerLost \in BOOLEAN, QueryFails(answerLost)
      PROVE  \E F : Lost(F)
  <2>1. /\ usage' = [u \in Urrs |-> IF answerLost /\ u \in asked THEN {} ELSE usage[u]]
        /\ excused' = IF answerLost THEN excused \cup UNION {usage[u] : u \in asked} ELSE excused
        /\ UNCHANGED <<measured, reports, late, taken, charged, raced, unmeasured>>
        /\ NotCharging
    BY <1>3 DEF QueryFails, Queried, NotCharging, chf, timers
  <2>2. CASE answerLost
    BY <2>1, <2>2 DEF Lost
  <2>3. CASE ~answerLost
    <3>1. Lost({})
      BY <2>1, <2>3 DEF Lost
    <3> QED
      BY <3>1
  <2> QED
    BY <2>2, <2>3
<1>4. ASSUME NEW U \in SUBSET Urrs, NEW us \in Orders(U), NEW full \in SUBSET U, QueryReport(us, full)
      PROVE  Awaited(us, full, TRUE)
  BY <1>4 DEF QueryReport, Queried, Awaited, NotCharging, chf, timers
<1>5. ASSUME NEW U \in SUBSET Urrs, NEW us \in Orders(U), NEW full \in SUBSET U, Release(us, full)
      PROVE  Awaited(us, full, TRUE)
  BY <1>5 DEF Release, Starts, Awaited, NotCharging, chf, timers
<1>6. ASSUME NEW U \in SUBSET Urrs, NEW us \in Orders(U), Modify(us)
      PROVE  \E full \in SUBSET U : Awaited(us, full, FALSE)
  <2> DEFINE Q == {u \in Urrs : st[u] = "QUERY"}
  <2>1. /\ Range(us) = Q /\ Leaves(us, Q) /\ late = NoLate /\ pc = "idle" /\ pc' = pc
        /\ late' = IF Q = {} THEN NoLate
                   ELSE [step |-> "start", rep |-> Reported(us, Q, FALSE), snap |-> <<>>]
        /\ UNCHANGED <<measured, reports, taken, charged, raced>>
    BY <1>6 DEF Modify, handler, chf
  <2>2. Range(us) \subseteq U
    BY DEF Orders, Range
  <2> HIDE DEF Q
  <2>3. Awaited(us, Q, FALSE)
    BY <2>1 DEF Awaited, NotCharging
  <2> QED
    BY <2>1, <2>2, <2>3
<1>7. ASSUME \/ \E g \in Groups : Notification(g)
             \/ LocationChange
             \/ \E u \in Urrs : GrantQuota(u) \/ GrantVolumeLimit(u) \/ GrantEventLimit(u)
             \/ NothingToUpdate
      PROVE  UNCHANGED uses /\ (pc' \in {pc, "crashed"} \/ NotCharging)
  BY <1>7
  DEF Notification, LocationChange, Starts, GrantQuota, GrantVolumeLimit, GrantEventLimit, Grant,
      NothingToUpdate, Ends, upf, handler, chf, history, uses, NotCharging
<1>8. ASSUME UpdateUrrs \/ UpdateRefused \/ UpdateUnanswered
      PROVE  UNCHANGED uses /\ (pc' \in {pc, "crashed"} \/ NotCharging)
  <2>1. /\ pc = "grant" /\ UNCHANGED <<usage, measured, reports, late, taken, charged>>
        /\ UNCHANGED <<excused, raced, unmeasured>>
    BY <1>8 DEF UpdateUrrs, UpdateRefused, UpdateUnanswered, Updates, chf
  <2>2. pc' = "idle" \/ pc' = "crashed"
    BY <1>8 DEF UpdateUrrs, UpdateRefused, UpdateUnanswered, Ends
  <2> QED
    BY <2>1, <2>2 DEF uses, NotCharging
<1>9. ASSUME \/ LoseUpf \/ Reassociate
             \/ \E t \in DOMAIN timer :
                  TimerHandler(t) \/ TimerStops(t) \/ Tick(t) \/ Cancel(t) \/ CancelClears(t)
      PROVE  UNCHANGED uses /\ (pc' \in {pc, "crashed"} \/ NotCharging)
  BY <1>9
  DEF LoseUpf, Reassociate, TimerHandler, Starts, TimerStops, Tick, Cancel,
      CancelClears, TimersOnly, upf, handler, chf, history, uses, NotCharging
<1>10. CASE Next
  <2>1. \/ \E u \in Urrs : Measure(u)
        \/ \E U \in SUBSET Urrs : \E us \in Orders(U) :
             \/ \E full \in SUBSET U, typed \in BOOLEAN : ReportRequest(us, full, typed)
             \/ ReportRejected(us)
             \/ \E full \in SUBSET U : QueryReport(us, full) \/ Release(us, full)
             \/ Modify(us)
        \/ \E g \in Groups : Notification(g)
        \/ LocationChange
        \/ \E answerLost \in BOOLEAN : QueryFails(answerLost)
        \/ LateRead \/ LateWrite
        \/ BuildMultiUnitUsage \/ ResetReports
        \/ \E G \in SUBSET Groups : ChargingUpdate(G)
        \/ ChargingRelease \/ ChargingFails
        \/ \E u \in Urrs : GrantQuota(u) \/ GrantVolumeLimit(u) \/ GrantEventLimit(u)
        \/ NothingToUpdate \/ UpdateUrrs \/ UpdateRefused \/ UpdateUnanswered
        \/ \E t \in DOMAIN timer :
             TimerHandler(t) \/ TimerStops(t) \/ Tick(t) \/ Cancel(t) \/ CancelClears(t)
        \/ LoseUpf \/ Reassociate
    BY <1>10 DEF Next
  <2>2. ASSUME NEW U \in SUBSET Urrs, NEW us \in Orders(U),
               \/ \E full \in SUBSET U, typed \in BOOLEAN : ReportRequest(us, full, typed)
               \/ \E full \in SUBSET U : QueryReport(us, full) \/ Release(us, full)
               \/ Modify(us)
        PROVE  \E full \in SUBSET U, typed \in BOOLEAN :
                 ReportRequest(us, full, typed) \/ Awaited(us, full, typed)
    <3> DEFINE A == \E full \in SUBSET U, typed \in BOOLEAN : Awaited(us, full, typed)
    <3>1. ASSUME NEW full \in SUBSET U, QueryReport(us, full) \/ Release(us, full) PROVE A
      BY <1>4, <1>5, <3>1
    <3>2. ASSUME Modify(us) PROVE A
      BY <1>6, <3>2
    <3> QED
      BY <2>2, <3>1, <3>2
  <2>3. CASE \E U \in SUBSET Urrs : \E us \in Orders(U) :
               \/ \E full \in SUBSET U, typed \in BOOLEAN : ReportRequest(us, full, typed)
               \/ ReportRejected(us)
               \/ \E full \in SUBSET U : QueryReport(us, full) \/ Release(us, full)
               \/ Modify(us)
    BY <1>2, <2>2, <2>3
  <2>4. CASE \E g \in Groups : Notification(g)
    BY <1>7, <2>4
  <2>5. CASE \E u \in Urrs : GrantQuota(u) \/ GrantVolumeLimit(u) \/ GrantEventLimit(u)
    BY <1>7, <2>5
  <2>6. CASE \E t \in DOMAIN timer :
               TimerHandler(t) \/ TimerStops(t) \/ Tick(t) \/ Cancel(t) \/ CancelClears(t)
    BY <1>9, <2>6
  <2> QED
    BY <1>3, <1>7, <1>8, <1>9, <2>1, <2>3, <2>4, <2>5, <2>6
<1> QED
  BY <1>1, <1>10

-----------------------------------------------------------------------------
(* What the reports are *)

\* What the CHF has counted stays a number.
LEMMA CountedTyped ==
  ASSUME ReportsTyped
  PROVE  Counted \in [Units -> Nat]
<1>1. ASSUME NEW x \in Units
      PROVE  Cardinality({i \in DOMAIN taken : x \in taken[i].units}) \in Nat
  <2>1. IsFiniteSet({i \in DOMAIN taken : x \in taken[i].units})
    <3>1. {i \in DOMAIN taken : x \in taken[i].units} \subseteq DOMAIN taken
      OBVIOUS
    <3> QED
      BY <3>1, FS_Subset DEF ReportsTyped
  <2> QED
    BY <2>1, FS_CardinalityType
<1> DEFINE n(x) == Cardinality({i \in DOMAIN taken : x \in taken[i].units})
<1>2. Counted = [x \in Units |-> charged[x] + n(x)]
  BY DEF Counted
<1>3. \A x \in Units : n(x) \in Nat /\ charged[x] \in Nat
  BY <1>1 DEF ReportsTyped
<1> HIDE DEF n
<1>4. \A x \in Units : charged[x] + n(x) \in Nat
  BY <1>3
<1> QED
  BY <1>2, <1>4

\* Every step keeps ReportsTyped.
LEMMA ReportsStep == ReportsTyped /\ [Next]_vars => ReportsTyped'
<1> SUFFICES ASSUME ReportsTyped, [Next]_vars PROVE ReportsTyped'
  OBVIOUS
<1>0. /\ DOMAIN <<>> = {} /\ <<>> \in Seq(Reports) /\ IsFiniteSet({})
      /\ MaxUnits \in Nat /\ Units = 1..MaxUnits
  BY ChargingAssumption, FS_EmptySet DEF Units
<1>1. ASSUME UNCHANGED uses, pc' \in {pc, "crashed"} \/ NotCharging PROVE ReportsTyped'
  BY <1>1 DEF uses, NotCharging, ReportsTyped
<1>2. ASSUME NEW u \in Urrs, Measure(u) PROVE ReportsTyped'
  <2>1. /\ measured < MaxUnits /\ measured' = measured + 1
        /\ usage' = [usage EXCEPT ![u] = @ \cup {measured + 1}]
        /\ UNCHANGED <<reports, late, taken, charged, pc>>
    BY <1>2 DEF Measure, handler, chf
  <2>2. measured + 1 \in Units /\ measured + 1 \in 0..MaxUnits
    BY <1>0, <2>1 DEF ReportsTyped
  <2> QED
    BY <2>1, <2>2 DEF ReportsTyped
<1>3. ASSUME NEW F, Lost(F) PROVE ReportsTyped'
  BY <1>3 DEF Lost, NotCharging, ReportsTyped
<1>4. ASSUME NEW U \in SUBSET Urrs, NEW us \in Orders(U), NEW full \in SUBSET U,
             NEW typed \in BOOLEAN, ReportRequest(us, full, typed)
      PROVE  ReportsTyped'
  <2>1. /\ pc = "idle" /\ pc' = "build" /\ Leaves(us, full)
        /\ reports' = Appended(reports, Reported(us, full, typed))
        /\ UNCHANGED <<measured, late, taken, charged>>
    BY <1>4 DEF ReportRequest, Starts, Write, chf
  <2>2. usage' \in [Urrs -> SUBSET Units]
    BY <2>1 DEF Leaves, ReportsTyped
  <2>3. reports' \in Seq(Reports)
    BY <2>1, OrdersSeq, ReportedIs, HasAppended DEF ReportsTyped
  <2> QED
    BY <2>1, <2>2, <2>3 DEF ReportsTyped
<1>5. ASSUME NEW U \in SUBSET Urrs, NEW us \in Orders(U), NEW full \in SUBSET U,
             NEW typed \in BOOLEAN, Awaited(us, full, typed)
      PROVE  ReportsTyped'
  <2>1. Reported(us, full, typed) \in Seq(Reports)
    BY OrdersSeq, ReportedIs DEF ReportsTyped
  <2>2. usage' \in [Urrs -> SUBSET Units]
    BY <1>5 DEF Awaited, Leaves, ReportsTyped
  <2>3. /\ late' = NoLate \/ late' = [step |-> "start", rep |-> Reported(us, full, typed), snap |-> <<>>]
        /\ UNCHANGED <<measured, reports, taken, charged>>
        /\ NotCharging
    BY <1>5 DEF Awaited
  <2>4. /\ late' \in [step : {"none", "start", "read"}, rep : Seq(Reports), snap : Seq(Reports)]
        /\ late'.step = "none" => late' = NoLate
    <3>1. CASE late' = NoLate
      BY <1>0, <3>1 DEF NoLate
    <3>2. CASE late' = [step |-> "start", rep |-> Reported(us, full, typed), snap |-> <<>>]
      <4> DEFINE rep == Reported(us, full, typed)
      <4>1. rep \in Seq(Reports) /\ late' = [step |-> "start", rep |-> rep, snap |-> <<>>]
        BY <2>1, <3>2
      <4> HIDE DEF rep
      <4> QED
        BY <1>0, <4>1
    <3> QED
      BY <2>3, <3>1, <3>2
  <2> QED
    BY <2>2, <2>3, <2>4 DEF ReportsTyped, NotCharging
<1>6. CASE LateRead
  <2>1. /\ late' = [late EXCEPT !.step = "read", !.snap = reports]
        /\ UNCHANGED <<usage, measured, reports, taken, charged, pc>>
    BY <1>6 DEF LateRead, upf, handler, chf
  <2> QED
    BY <2>1 DEF ReportsTyped
<1>7. CASE LateWrite
  <2>1. /\ late' = NoLate /\ reports' = Appended(late.snap, late.rep)
        /\ UNCHANGED <<usage, measured, taken, charged, pc>>
    BY <1>7 DEF LateWrite, upf, handler, chf
  <2>2. reports' \in Seq(Reports)
    BY <2>1, HasAppended DEF ReportsTyped
  <2> QED
    BY <1>0, <2>1, <2>2 DEF ReportsTyped, NoLate
<1>8. CASE BuildMultiUnitUsage
  <2> DEFINE D == {i \in DOMAIN reports : IsTyped(reports[i])}
  <2>1. /\ taken' = Restrict(reports, D) /\ pc' = "reset"
        /\ UNCHANGED <<usage, measured, reports, late, charged>>
    BY <1>8 DEF BuildMultiUnitUsage, upf, chf
  <2>2. IsFiniteSet(D)
    <3>1. D \subseteq 1..Len(reports) /\ Len(reports) \in Nat
      BY DEF ReportsTyped
    <3> QED
      BY <3>1, FS_Interval, FS_Subset
  <2>3. DOMAIN taken' = D /\ \A i \in D : taken'[i] = reports[i]
    BY <2>1 DEF Restrict
  <2>4. \A i \in D : reports[i] \in Reports /\ reports[i].typed
    BY DEF IsTyped, ReportsTyped
  <2> QED
    BY <2>1, <2>2, <2>3, <2>4 DEF ReportsTyped
<1>9. CASE ResetReports
  <2>1. /\ reports' = <<>> /\ UNCHANGED <<usage, measured, late, taken, charged>>
        /\ pc' = IF taken = <<>> /\ job # "release" THEN "idle" ELSE "chf"
    BY <1>9 DEF ResetReports, EmptyReports, upf, chf
  <2> QED
    BY <1>0, <2>1 DEF ReportsTyped
<1>10. ASSUME (\E G \in SUBSET Groups : ChargingUpdate(G)) \/ ChargingRelease PROVE ReportsTyped'
  <2>1. /\ charged' = Counted /\ taken' = <<>>
        /\ UNCHANGED <<usage, measured, reports, late>>
    BY <1>10 DEF ChargingUpdate, ChargingRelease, upf
  <2> QED
    BY <1>0, <2>1, CountedTyped DEF ReportsTyped
<1>11. CASE ChargingFails
  <2>1. /\ taken' = <<>> /\ UNCHANGED <<usage, measured, reports, late, charged>>
    BY <1>11 DEF ChargingFails, upf, chf
  <2> QED
    BY <1>0, <2>1 DEF ReportsTyped
<1> QED
  BY <1>1, <1>2, <1>3, <1>4, <1>5, <1>6, <1>7, <1>8, <1>9, <1>10, <1>11, UnitSteps

\* UrrReports as the query's goroutine has read it, when it was not written since.
SnapInv == raced \/ (late.step = "read" => late.snap = reports)

\* Every step keeps SnapInv.
LEMMA SnapStep == ReportsTyped /\ SnapInv /\ [Next]_vars => SnapInv'
<1> SUFFICES ASSUME ReportsTyped, SnapInv, [Next]_vars, ~raced', late'.step = "read"
             PROVE  late'.snap = reports'
  BY DEF SnapInv
<1>1. CASE UNCHANGED uses \/ (\E u \in Urrs : Measure(u)) \/ (\E F : Lost(F))
  BY <1>1 DEF uses, Measure, Lost, SnapInv, history
<1>2. ASSUME NEW us, NEW full, NEW typed, ReportRequest(us, full, typed)
      PROVE  late'.snap = reports'
  BY <1>2 DEF ReportRequest, Write
<1>3. ASSUME NEW us, NEW full, NEW typed, Awaited(us, full, typed)
      PROVE  late'.snap = reports'
  BY <1>3 DEF Awaited, NoLate
<1>4. CASE LateRead
  BY <1>4 DEF LateRead, ReportsTyped
<1>5. CASE LateWrite
  BY <1>5 DEF LateWrite, NoLate
<1>6. CASE \/ BuildMultiUnitUsage \/ ChargingRelease \/ ChargingFails
           \/ \E G \in SUBSET Groups : ChargingUpdate(G)
  BY <1>6 DEF BuildMultiUnitUsage, ChargingRelease, ChargingFails, ChargingUpdate, SnapInv, history
<1>7. CASE ResetReports
  BY <1>7 DEF ResetReports, EmptyReports
<1> QED
  BY <1>1, <1>2, <1>3, <1>4, <1>5, <1>6, <1>7, UnitSteps

-----------------------------------------------------------------------------
(* No unit is counted twice *)

\* Unit x is in one place at a time: at one URR, in one report of the cache, of a
\* query's answer or of a request (which has copies of the cache's until the cache is
\* emptied), or counted once.
OncePlace(x) ==
  /\ Measured(x) \/ Has(reports, x) \/ Has(late.rep, x) \/ Has(taken, x) \/ charged[x] > 0
     => x <= measured
  /\ \A u, v \in Urrs : x \in usage[u] /\ x \in usage[v] => u = v
  /\ Unique(reports, x) /\ Unique(late.rep, x) /\ Unique(taken, x)
  /\ Measured(x) => ~Has(reports, x) /\ ~Has(late.rep, x) /\ ~Has(taken, x)
  /\ Has(late.rep, x) => ~Has(reports, x) /\ ~Has(taken, x)
  /\ Has(reports, x) /\ Has(taken, x) => pc \in {"reset", "crashed"}
  /\ charged[x] > 0 => ~Measured(x) /\ ~Has(reports, x) /\ ~Has(late.rep, x) /\ ~Has(taken, x)
  /\ charged[x] <= 1

OnceInv == raced \/ unmeasured \/ \A x \in Units : OncePlace(x)

\* Nothing is in an empty sequence of reports.
LEMMA HasNone == ASSUME NEW x PROVE ~Has(<<>>, x) /\ Unique(<<>>, x)
<1>1. DOMAIN <<>> = {}
  OBVIOUS
<1> QED
  BY <1>1 DEF Has, Unique

\* A unit that the request has once is counted once.
LEMMA CountedOnce ==
  ASSUME ReportsTyped, NEW x \in Units
  PROVE  /\ Counted[x] \in Nat /\ charged[x] \in Nat
         /\ ~Has(taken, x) => Counted[x] = charged[x]
         /\ Has(taken, x) => Counted[x] > charged[x]
         /\ Has(taken, x) /\ Unique(taken, x) => Counted[x] = charged[x] + 1
<1> DEFINE I == {i \in DOMAIN taken : x \in taken[i].units}
<1>1. Counted[x] = charged[x] + Cardinality(I)
  BY DEF Counted
<1>2. IsFiniteSet(I) /\ Cardinality(I) \in Nat
  <2>1. I \subseteq DOMAIN taken
    OBVIOUS
  <2> QED
    BY <2>1, FS_Subset, FS_CardinalityType DEF ReportsTyped
<1>3. charged[x] \in Nat
  BY DEF ReportsTyped
<1>4. ASSUME ~Has(taken, x) PROVE Cardinality(I) = 0
  <2>1. I = {}
    BY <1>4 DEF Has
  <2> QED
    BY <2>1, FS_EmptySet
<1>5. ASSUME Has(taken, x) PROVE Cardinality(I) # 0
  <2>1. I # {}
    BY <1>5 DEF Has
  <2> HIDE DEF I
  <2> QED
    BY <1>2, <2>1, FS_EmptySet
<1>6. ASSUME Has(taken, x), Unique(taken, x) PROVE Cardinality(I) = 1
  <2>1. PICK i \in DOMAIN taken : x \in taken[i].units
    BY <1>6 DEF Has
  <2>2. I = {i}
    BY <1>6, <2>1 DEF Unique
  <2> QED
    BY <2>2, FS_Singleton
<1> HIDE DEF I
<1> QED
  BY <1>1, <1>2, <1>3, <1>4, <1>5, <1>6

\* A request takes the reports with a trigger from the cache, and no others.
LEMMA TakenFrom ==
  ASSUME BuildMultiUnitUsage, NEW x
  PROVE  /\ Has(taken', x) => Has(reports, x)
         /\ Unique(reports, x) => Unique(taken', x)
         /\ Has(reports, x) => Has(taken', x) \/ x \in excused'
<1> DEFINE D == {i \in DOMAIN reports : IsTyped(reports[i])}
<1>1. taken' = Restrict(reports, D)
      /\ excused' = excused \cup UNION {r.units : r \in {y \in Range(reports) : ~y.typed}}
  BY DEF BuildMultiUnitUsage
<1>2. DOMAIN taken' = D /\ \A i \in D : taken'[i] = reports[i] /\ i \in DOMAIN reports
  BY <1>1 DEF Restrict
<1>3. ASSUME NEW i \in DOMAIN reports, x \in reports[i].units, ~Has(taken', x)
      PROVE  x \in excused'
  <2>1. i \notin D
    BY <1>2, <1>3 DEF Has
  <2>2. ~reports[i].typed /\ reports[i] \in Range(reports)
    BY <1>3, <2>1 DEF IsTyped, Range
  <2> QED
    BY <1>1, <1>3, <2>2
<1> HIDE DEF D
<1>4. Has(taken', x) => Has(reports, x)
  BY <1>2 DEF Has
<1>5. Unique(reports, x) => Unique(taken', x)
  BY <1>2 DEF Unique
<1>6. Has(reports, x) => Has(taken', x) \/ x \in excused'
  BY <1>3 DEF Has
<1> QED
  BY <1>4, <1>5, <1>6

\* Every step keeps OnceInv.
LEMMA OnceStep == ReportsTyped /\ SnapInv /\ OnceInv /\ [Next]_vars => OnceInv'
<1> SUFFICES ASSUME ReportsTyped, SnapInv, OnceInv, [Next]_vars, ~raced', ~unmeasured',
                    NEW x \in Units
             PROVE  OncePlace(x)'
  BY DEF OnceInv, Units
<1>0. x \in Nat /\ measured \in Nat /\ charged[x] \in Nat
  BY ChargingAssumption DEF Units, ReportsTyped
<1>a. ASSUME ~raced, ~unmeasured PROVE OncePlace(x)
  BY <1>a DEF OnceInv
<1>1. ASSUME UNCHANGED uses, pc' \in {pc, "crashed"} \/ NotCharging PROVE OncePlace(x)'
  <2>1. /\ UNCHANGED <<usage, measured, reports, late, taken, charged>>
        /\ UNCHANGED <<raced, unmeasured>>
    BY <1>1 DEF uses
  <2>2. OncePlace(x)
    BY <1>a, <2>1
  <2>3. pc \in {"reset", "crashed"} => pc' \in {"reset", "crashed"}
    BY <1>1 DEF NotCharging
  <2> QED
    BY <2>1, <2>2, <2>3 DEF OncePlace, Measured, Has, Unique
<1>2. ASSUME NEW u \in Urrs, Measure(u) PROVE OncePlace(x)'
  <2>1. /\ measured' = measured + 1
        /\ usage' = [usage EXCEPT ![u] = @ \cup {measured + 1}]
        /\ UNCHANGED <<reports, late, taken, charged, pc, raced, unmeasured>>
    BY <1>2 DEF Measure, handler, chf, history
  <2>2. OncePlace(x)
    BY <1>a, <2>1
  <2>3. /\ UNCHANGED <<Has(reports, x), Has(late.rep, x), Has(taken, x)>>
        /\ UNCHANGED <<Unique(reports, x), Unique(late.rep, x), Unique(taken, x)>>
    BY <2>1 DEF Has, Unique
  <2>4. CASE x # measured + 1
    <3>1. \A v \in Urrs : x \in usage'[v] <=> x \in usage[v]
      BY <2>1, <2>4 DEF ReportsTyped
    <3>2. Measured(x)' <=> Measured(x)
      BY <3>1 DEF Measured
    <3> QED
      BY <1>0, <2>1, <2>2, <2>3, <3>1, <3>2 DEF OncePlace
  <2>5. CASE x = measured + 1
    <3>1. /\ ~Measured(x) /\ ~Has(reports, x) /\ ~Has(late.rep, x) /\ ~Has(taken, x)
          /\ ~(charged[x] > 0)
      BY <1>0, <2>2, <2>5 DEF OncePlace
    <3>2. \A v \in Urrs : x \in usage'[v] => v = u
      BY <2>1, <3>1 DEF Measured, ReportsTyped
    <3> QED
      BY <1>0, <2>1, <2>2, <2>3, <2>5, <3>1, <3>2 DEF OncePlace
  <2> QED
    BY <2>4, <2>5
<1>3. ASSUME NEW F, Lost(F) PROVE OncePlace(x)'
  <2>1. /\ usage' = [u \in Urrs |-> IF u \in F THEN {} ELSE usage[u]]
        /\ UNCHANGED <<measured, reports, late, taken, charged, raced, unmeasured>>
        /\ pc' = pc \/ NotCharging
    BY <1>3 DEF Lost
  <2>2. OncePlace(x)
    BY <1>a, <2>1
  <2>3. /\ UNCHANGED <<Has(reports, x), Has(late.rep, x), Has(taken, x)>>
        /\ UNCHANGED <<Unique(reports, x), Unique(late.rep, x), Unique(taken, x)>>
    BY <2>1 DEF Has, Unique
  <2>4. \A v \in Urrs : x \in usage'[v] => x \in usage[v]
    BY <2>1
  <2>5. Measured(x)' => Measured(x)
    BY <2>4 DEF Measured
  <2>6. pc \in {"reset", "crashed"} => pc' \in {"reset", "crashed"}
    BY <2>1 DEF NotCharging
  <2> QED
    BY <2>1, <2>2, <2>3, <2>4, <2>5, <2>6 DEF OncePlace
<1>4. ASSUME NEW U \in SUBSET Urrs, NEW us \in Orders(U), NEW full \in SUBSET U,
             NEW typed \in BOOLEAN, ReportRequest(us, full, typed) \/ Awaited(us, full, typed)
      PROVE  OncePlace(x)'
  <2> DEFINE rep == Reported(us, full, typed)
  <2>1. /\ pc' \notin {"reset", "chf", "crashed"} /\ pc \notin {"reset", "chf", "crashed"}
        /\ Leaves(us, full)
        /\ UNCHANGED <<measured, taken, charged>>
        /\ ~raced /\ ~unmeasured /\ Range(us) = full
        /\ \/ reports' = Appended(reports, rep) /\ late' = late
           \/ /\ late = NoLate /\ reports' = reports
              /\ late' = NoLate \/ late'.rep = rep
    <3>1. CASE ReportRequest(us, full, typed)
      BY <3>1 DEF ReportRequest, Starts, Write, Leaves, chf
    <3>2. CASE Awaited(us, full, typed)
      <4>1. /\ late' = NoLate \/ late' = [step |-> "start", rep |-> rep, snap |-> <<>>]
            /\ late = NoLate /\ Leaves(us, full) /\ NotCharging
            /\ UNCHANGED <<measured, reports, taken, charged, raced>>
        BY <3>2 DEF Awaited
      <4>2. ~unmeasured /\ Range(us) = full
        BY <4>1 DEF Leaves
      <4> HIDE DEF rep
      <4> QED
        BY <4>1, <4>2 DEF NotCharging
    <3> QED
      BY <1>4, <3>1, <3>2
  <2>2. OncePlace(x)
    BY <1>a, <2>1
  <2>3. us \in Seq(Urrs) /\ \A i, j \in DOMAIN us : us[i] = us[j] => i = j
    BY OrdersSeq
  <2>4. /\ \A u \in Urrs : x \in usage'[u] => x \in usage[u]
        /\ Has(rep, x) => Measured(x) /\ ~Measured(x)'
        /\ Unique(rep, x)
    BY <2>1, <2>2, <2>3, MessageUnits DEF OncePlace, ReportsTyped
  <2>5. rep \in Seq(Reports)
    BY <2>3, ReportedIs DEF ReportsTyped
  <2>6. ~Has(taken, x) /\ ~Has(taken', x) /\ Unique(taken', x)
    BY <2>1, HasNone DEF ReportsTyped
  <2>7. Measured(x)' => Measured(x)
    BY <2>4 DEF Measured
  <2> HIDE DEF rep
  <2>8. CASE reports' = Appended(reports, rep) /\ late' = late
    <3>1. /\ Has(reports', x) <=> Has(reports, x) \/ Has(rep, x)
          /\ Unique(reports', x)
      BY <2>2, <2>4, <2>5, <2>8, HasAppended DEF OncePlace, ReportsTyped
    <3> QED
      BY <2>1, <2>2, <2>4, <2>6, <2>7, <2>8, <3>1 DEF OncePlace
  <2>9. CASE late = NoLate /\ reports' = reports /\ (late' = NoLate \/ late'.rep = rep)
    <3>1. /\ ~Has(late.rep, x)
          /\ Has(late'.rep, x) => Has(rep, x)
          /\ Unique(late'.rep, x)
      BY <2>4, <2>9, HasNone DEF NoLate
    <3> QED
      BY <2>1, <2>2, <2>4, <2>6, <2>7, <2>9, <3>1 DEF OncePlace
  <2> QED
    BY <2>1, <2>8, <2>9
<1>5. CASE LateRead
  <2>1. /\ late' = [late EXCEPT !.step = "read", !.snap = reports]
        /\ UNCHANGED <<usage, measured, reports, taken, charged, pc, raced, unmeasured>>
    BY <1>5 DEF LateRead, upf, handler, chf, history
  <2>2. OncePlace(x)
    BY <1>a, <2>1
  <2>3. late'.rep = late.rep
    BY <2>1 DEF ReportsTyped
  <2> QED
    BY <2>1, <2>2, <2>3 DEF OncePlace, Measured
<1>6. CASE LateWrite
  <2>1. /\ late' = NoLate /\ reports' = Appended(late.snap, late.rep) /\ late.step = "read"
        /\ UNCHANGED <<usage, measured, taken, charged, pc, unmeasured>>
        /\ ~raced /\ pc # "reset"
    BY <1>6 DEF LateWrite, upf, handler, chf
  <2>2. OncePlace(x)
    BY <1>a, <2>1
  <2>3. late.snap = reports
    BY <2>1 DEF SnapInv
  <2>4. /\ Has(reports', x) <=> Has(reports, x) \/ Has(late.rep, x)
        /\ Unique(reports', x)
    BY <2>1, <2>2, <2>3, HasAppended DEF OncePlace, ReportsTyped
  <2>5. ~Has(late'.rep, x) /\ Unique(late'.rep, x)
    BY <2>1, HasNone DEF NoLate
  <2>6. Measured(x)' <=> Measured(x)
    BY <2>1 DEF Measured
  <2> QED
    BY <2>1, <2>2, <2>4, <2>5, <2>6 DEF OncePlace
<1>7. CASE BuildMultiUnitUsage
  <2>1. /\ pc = "build" /\ pc' = "reset"
        /\ UNCHANGED <<usage, measured, reports, late, charged, raced, unmeasured>>
    BY <1>7 DEF BuildMultiUnitUsage, upf, chf
  <2>2. OncePlace(x)
    BY <1>a, <2>1
  <2>3. Measured(x)' <=> Measured(x)
    BY <2>1 DEF Measured
  <2>4. (Has(taken', x) => Has(reports, x)) /\ Unique(taken', x)
    BY <1>7, <2>2, TakenFrom DEF OncePlace
  <2> QED
    BY <2>1, <2>2, <2>3, <2>4 DEF OncePlace
<1>8. CASE ResetReports
  <2>1. /\ reports' = <<>> /\ UNCHANGED <<usage, measured, late, taken, charged, unmeasured>>
        /\ ~raced
    BY <1>8 DEF ResetReports, EmptyReports, upf, chf
  <2>2. OncePlace(x)
    BY <1>a, <2>1
  <2>3. ~Has(reports', x) /\ Unique(reports', x)
    BY <2>1, HasNone
  <2>4. Measured(x)' <=> Measured(x)
    BY <2>1 DEF Measured
  <2> QED
    BY <2>1, <2>2, <2>3, <2>4 DEF OncePlace
<1>9. ASSUME (\E G \in SUBSET Groups : ChargingUpdate(G)) \/ ChargingRelease
      PROVE  OncePlace(x)'
  <2>1. /\ charged' = Counted /\ taken' = <<>>
        /\ UNCHANGED <<usage, measured, reports, late, raced, unmeasured>>
        /\ pc = "chf"
    BY <1>9 DEF ChargingUpdate, ChargingRelease, upf, history
  <2>2. OncePlace(x)
    BY <1>a, <2>1
  <2>3. ~Has(taken', x) /\ Unique(taken', x)
    BY <2>1, HasNone
  <2>4. Measured(x)' <=> Measured(x)
    BY <2>1 DEF Measured
  <2>5. charged'[x] = IF Has(taken, x) THEN charged[x] + 1 ELSE charged[x]
    BY <2>1, <2>2, CountedOnce DEF OncePlace
  <2> QED
    BY <1>0, <2>1, <2>2, <2>3, <2>4, <2>5 DEF OncePlace
<1>10. CASE ChargingFails
  <2>1. /\ taken' = <<>>
        /\ UNCHANGED <<usage, measured, reports, late, charged, raced, unmeasured>>
    BY <1>10 DEF ChargingFails, upf, chf
  <2>2. OncePlace(x)
    BY <1>a, <2>1
  <2>3. ~Has(taken', x) /\ Unique(taken', x)
    BY <2>1, HasNone
  <2>4. Measured(x)' <=> Measured(x)
    BY <2>1 DEF Measured
  <2> QED
    BY <2>1, <2>2, <2>3, <2>4 DEF OncePlace
<1> QED
  BY <1>1, <1>2, <1>3, <1>4, <1>5, <1>6, <1>7, <1>8, <1>9, <1>10, UnitSteps

\* At first nothing was measured.
LEMMA ReportsInit == Init => ReportsTyped /\ SnapInv
<1> SUFFICES ASSUME Init PROVE ReportsTyped /\ SnapInv
  OBVIOUS
<1>1. /\ usage = [u \in Urrs |-> {}] /\ measured = 0 /\ reports = <<>> /\ taken = <<>>
      /\ late = NoLate /\ charged = [x \in Units |-> 0]
  BY DEF Init
<1>2. DOMAIN <<>> = {} /\ <<>> \in Seq(Reports) /\ IsFiniteSet({}) /\ 0 \in 0..MaxUnits
  BY ChargingAssumption, FS_EmptySet
<1>3. ReportsTyped
  BY <1>1, <1>2 DEF ReportsTyped, NoLate
<1>4. SnapInv
  BY <1>1 DEF SnapInv, NoLate
<1> QED
  BY <1>3, <1>4

\* The CHF counts no unit twice, unless UrrReports was raced for, or a report came
\* without its measurement: a unit is in one place at a time, and a goroutine that
\* appends late appends to the cache as it is.
THEOREM OnceSafe == Spec => []ChargedOnce
<1> DEFINE Inv == ReportsTyped /\ SnapInv /\ OnceInv
<1>1. Init => Inv
  <2> SUFFICES ASSUME Init PROVE Inv
    OBVIOUS
  <2>1. /\ usage = [u \in Urrs |-> {}] /\ measured = 0 /\ reports = <<>> /\ taken = <<>>
        /\ late = NoLate /\ charged = [x \in Units |-> 0]
    BY DEF Init
  <2>2. ReportsTyped /\ SnapInv
    BY ReportsInit
  <2>4. ASSUME NEW x \in Units PROVE OncePlace(x)
    BY <2>1, HasNone DEF OncePlace, Measured, NoLate
  <2> QED
    BY <2>2, <2>4 DEF OnceInv
<1>2. Inv /\ [Next]_vars => Inv'
  BY ReportsStep, SnapStep, OnceStep
<1>3. Inv => ChargedOnce
  BY DEF OnceInv, OncePlace, ChargedOnce
<1> QED
  BY <1>1, <1>2, <1>3, PTL DEF Spec

\* Every unit that was measured is in some place, or excused; the cache that is about
\* to be emptied has nothing that the request has not taken.
Accounted(x) ==
  \/ charged[x] > 0 \/ x \in excused \/ Measured(x)
  \/ Has(reports, x) \/ Has(taken, x) \/ Has(late.rep, x)

AccountInv ==
  raced \/ /\ \A x \in 1..measured : Accounted(x)
           /\ pc = "reset" => \A x \in Units : Has(reports, x) => Has(taken, x) \/ x \in excused

\* Every step keeps AccountInv.
LEMMA AccountStep == ReportsTyped /\ SnapInv /\ AccountInv /\ [Next]_vars => AccountInv'
<1> SUFFICES ASSUME ReportsTyped, SnapInv, AccountInv, [Next]_vars PROVE AccountInv'
  OBVIOUS
<1> SUFFICES ASSUME ~raced', NEW x \in Units
             PROVE  /\ x \in 1..measured' => Accounted(x)'
                    /\ pc' = "reset" /\ Has(reports', x) => Has(taken', x) \/ x \in excused'
  <2>1. ReportsTyped' /\ MaxUnits \in Nat
    BY ReportsStep, ChargingAssumption
  <2>2. \A x \in 1..measured' : x \in Units
    BY <2>1 DEF ReportsTyped, Units
  <2> QED
    BY <2>2 DEF AccountInv, Units
<1>0. x \in Nat /\ measured \in Nat /\ charged[x] \in Nat
  BY ChargingAssumption DEF Units, ReportsTyped
<1>a. ASSUME ~raced
      PROVE  /\ x \in 1..measured => Accounted(x)
             /\ pc = "reset" /\ Has(reports, x) => Has(taken, x) \/ x \in excused
  BY <1>a DEF AccountInv
<1>1. ASSUME UNCHANGED uses, pc' \in {pc, "crashed"} \/ NotCharging
      PROVE  /\ x \in 1..measured' => Accounted(x)'
             /\ pc' = "reset" /\ Has(reports', x) => Has(taken', x) \/ x \in excused'
  <2>1. UNCHANGED <<usage, measured, reports, late, taken, charged, excused, raced>>
    BY <1>1 DEF uses
  <2>2. pc' = "reset" => pc = "reset"
    BY <1>1 DEF NotCharging
  <2> QED
    BY <1>a, <2>1, <2>2 DEF Accounted, Measured
<1>2. ASSUME NEW u \in Urrs, Measure(u)
      PROVE  /\ x \in 1..measured' => Accounted(x)'
             /\ pc' = "reset" /\ Has(reports', x) => Has(taken', x) \/ x \in excused'
  <2>1. /\ measured' = measured + 1
        /\ usage' = [usage EXCEPT ![u] = @ \cup {measured + 1}]
        /\ UNCHANGED <<reports, late, taken, charged, pc, raced, excused>>
    BY <1>2 DEF Measure, handler, chf, history
  <2>2. \A v \in Urrs : x \in usage[v] => x \in usage'[v]
    BY <2>1 DEF ReportsTyped
  <2>3. x = measured + 1 => x \in usage'[u]
    BY <2>1 DEF ReportsTyped
  <2> QED
    BY <1>0, <1>a, <2>1, <2>2, <2>3 DEF Accounted, Measured
<1>3. ASSUME NEW F, Lost(F)
      PROVE  /\ x \in 1..measured' => Accounted(x)'
             /\ pc' = "reset" /\ Has(reports', x) => Has(taken', x) \/ x \in excused'
  <2>1. /\ usage' = [u \in Urrs |-> IF u \in F THEN {} ELSE usage[u]]
        /\ excused' = excused \cup UNION {usage[u] : u \in F}
        /\ UNCHANGED <<measured, reports, late, taken, charged, raced>>
        /\ pc' = "reset" => pc = "reset"
    BY <1>3 DEF Lost, NotCharging
  <2>2. Measured(x) => Measured(x)' \/ x \in excused'
    BY <2>1 DEF Measured
  <2> QED
    BY <1>a, <2>1, <2>2 DEF Accounted
<1>4. ASSUME NEW U \in SUBSET Urrs, NEW us \in Orders(U), NEW full \in SUBSET U,
             NEW typed \in BOOLEAN, ReportRequest(us, full, typed) \/ Awaited(us, full, typed)
      PROVE  /\ x \in 1..measured' => Accounted(x)'
             /\ pc' = "reset" /\ Has(reports', x) => Has(taken', x) \/ x \in excused'
  <2> DEFINE rep == Reported(us, full, typed)
  <2>1. us \in Seq(Urrs) /\ \A i, j \in DOMAIN us : us[i] = us[j] => i = j
    BY OrdersSeq
  <2>2. rep \in Seq(Reports) /\ DOMAIN rep = DOMAIN us
    BY <2>1, ReportedIs DEF ReportsTyped
  <2>3. Leaves(us, full) /\ pc' # "reset"
    BY <1>4 DEF ReportRequest, Starts, Awaited, NotCharging
  <2>4. /\ Measured(x) => Measured(x)' \/ Has(rep, x) \/ x \in excused'
        /\ excused \subseteq excused'
    BY <2>1, <2>3, MessageUnits DEF ReportsTyped, Leaves
  <2> HIDE DEF rep
  <2>5. CASE ReportRequest(us, full, typed)
    <3>1. /\ reports' = Appended(reports, rep) /\ ~raced
          /\ UNCHANGED <<measured, late, taken, charged>>
      BY <2>5 DEF ReportRequest, Write, chf, rep
    <3>2. Has(reports', x) <=> Has(reports, x) \/ Has(rep, x)
      BY <2>2, <3>1, HasAppended DEF ReportsTyped
    <3> QED
      BY <1>a, <2>3, <2>4, <3>1, <3>2 DEF Accounted
  <2>6. CASE Awaited(us, full, typed)
    <3>1. /\ \/ late' = NoLate /\ Range(us) = {}
             \/ late' = [step |-> "start", rep |-> rep, snap |-> <<>>]
          /\ late = NoLate /\ ~raced
          /\ UNCHANGED <<measured, reports, taken, charged>>
      BY <2>6 DEF Awaited, rep
    <3>2. ~Has(late.rep, x)
      BY <3>1, HasNone DEF NoLate
    <3>3. Has(rep, x) => Has(late'.rep, x)
      <4>1. Range(us) = {} => ~Has(rep, x)
        BY <2>2 DEF Has, Range
      <4> QED
        BY <3>1, <4>1
    <3> QED
      BY <1>a, <2>3, <2>4, <3>1, <3>2, <3>3 DEF Accounted
  <2> QED
    BY <1>4, <2>5, <2>6
<1>5. CASE LateRead
  <2>1. /\ late' = [late EXCEPT !.step = "read", !.snap = reports]
        /\ UNCHANGED <<usage, measured, reports, taken, charged, pc, raced, excused>>
    BY <1>5 DEF LateRead, upf, handler, chf, history
  <2>2. late'.rep = late.rep
    BY <2>1 DEF ReportsTyped
  <2> QED
    BY <1>a, <2>1, <2>2 DEF Accounted, Measured
<1>6. CASE LateWrite
  <2>1. /\ reports' = Appended(late.snap, late.rep) /\ late.step = "read"
        /\ UNCHANGED <<usage, measured, taken, charged, pc, excused>>
        /\ ~raced /\ pc # "reset"
    BY <1>6 DEF LateWrite, upf, handler, chf
  <2>2. late.snap = reports
    BY <2>1 DEF SnapInv
  <2>3. Has(reports', x) <=> Has(reports, x) \/ Has(late.rep, x)
    BY <2>1, <2>2, HasAppended DEF ReportsTyped
  <2> QED
    BY <1>a, <2>1, <2>3 DEF Accounted, Measured
<1>7. CASE BuildMultiUnitUsage
  <2>1. /\ pc = "build" /\ UNCHANGED <<usage, measured, reports, late, charged, raced>>
        /\ excused \subseteq excused' /\ taken = <<>>
    BY <1>7 DEF BuildMultiUnitUsage, upf, chf, ReportsTyped
  <2>2. Has(reports, x) => Has(taken', x) \/ x \in excused'
    BY <1>7, TakenFrom
  <2>3. ~Has(taken, x)
    BY <2>1, HasNone
  <2> QED
    BY <1>a, <2>1, <2>2, <2>3 DEF Accounted, Measured
<1>8. CASE ResetReports
  <2>1. /\ reports' = <<>> /\ UNCHANGED <<usage, measured, late, taken, charged, excused>>
        /\ ~raced /\ pc = "reset" /\ pc' # "reset"
    BY <1>8 DEF ResetReports, EmptyReports, upf, chf
  <2> QED
    BY <1>a, <2>1 DEF Accounted, Measured
<1>9. ASSUME (\E G \in SUBSET Groups : ChargingUpdate(G)) \/ ChargingRelease
      PROVE  /\ x \in 1..measured' => Accounted(x)'
             /\ pc' = "reset" /\ Has(reports', x) => Has(taken', x) \/ x \in excused'
  <2>1. /\ charged' = Counted
        /\ UNCHANGED <<usage, measured, reports, late, raced, excused>>
        /\ pc' # "reset"
    BY <1>9 DEF ChargingUpdate, ChargingRelease, upf, history
  <2>2. charged[x] > 0 \/ Has(taken, x) => charged'[x] > 0
    BY <1>0, <2>1, CountedOnce
  <2> QED
    BY <1>a, <2>1, <2>2 DEF Accounted, Measured
<1>10. CASE ChargingFails
  <2>1. /\ excused' = excused \cup UnitsOf(taken)
        /\ UNCHANGED <<usage, measured, reports, late, charged, raced>> /\ pc' # "reset"
    BY <1>10 DEF ChargingFails, upf, chf
  <2>2. Has(taken, x) => x \in excused'
    BY <2>1, UnitsHas
  <2> QED
    BY <1>a, <2>1, <2>2 DEF Accounted, Measured
<1> QED
  BY <1>1, <1>2, <1>3, <1>4, <1>5, <1>6, <1>7, <1>8, <1>9, <1>10, UnitSteps

\* Unless UrrReports is raced for, no usage gets lost but with a message, with a
\* failed charging request, or without a trigger: what was measured is counted, or at
\* the UPF, under way, or in the cache.
THEOREM UsageSafe == Spec => []UsageAccounted
<1> DEFINE Inv == ReportsTyped /\ SnapInv /\ AccountInv
<1>1. Init => Inv
  <2> SUFFICES ASSUME Init PROVE Inv
    OBVIOUS
  <2>1. /\ usage = [u \in Urrs |-> {}] /\ measured = 0 /\ reports = <<>> /\ taken = <<>>
        /\ late = NoLate /\ charged = [x \in Units |-> 0] /\ pc = "idle"
    BY DEF Init
  <2>2. ReportsTyped /\ SnapInv
    BY ReportsInit
  <2> QED
    BY <2>1, <2>2 DEF AccountInv
<1>2. Inv /\ [Next]_vars => Inv'
  BY ReportsStep, SnapStep, AccountStep
<1>3. Inv => UsageAccounted
  <2> SUFFICES ASSUME Inv, ~raced, NEW x \in 1..measured
               PROVE  \/ charged[x] > 0 \/ x \in excused
                      \/ \E u \in Urrs : x \in usage[u]
                      \/ x \in UnitsOf(reports) \cup UnitsOf(taken) \cup UnitsOf(late.rep)
    BY DEF UsageAccounted
  <2>1. Accounted(x)
    BY DEF AccountInv
  <2> QED
    BY <2>1, UnitsHas DEF Accounted, Measured
<1> QED
  BY <1>1, <1>2, <1>3, PTL DEF Spec

-----------------------------------------------------------------------------
(* Types *)

\* What a handler does, and for which URRs, and the quotas of a URR, which the UPF and
\* the SMF never know before the CHF has granted them.
HandlerTyped ==
  /\ assoc \in BOOLEAN
  /\ pc \in {"idle", "query", "build", "reset", "chf", "grant", "released", "crashed"}
  /\ job \in {"none", "report", "notify", "location", "limit", "deferred", "release"}
  /\ (pc = "crashed" \/ (pc = "idle") = (job = "none"))
  /\ asked \subseteq Urrs /\ toGrant \subseteq Urrs /\ state \in {"Active", "PFCPModification"}
  /\ \A u \in Urrs : atUpf[u] <= granted[u] /\ granted[u] <= quota[Group[u]]

\* Every step keeps HandlerTyped.
LEMMA HandlerStep == HandlerTyped /\ QuotaInv /\ LimitInv /\ [Next]_vars => HandlerTyped'
<1> SUFFICES ASSUME HandlerTyped, QuotaInv, LimitInv, [Next]_vars PROVE HandlerTyped'
  OBVIOUS
<1>0. /\ \A u \in Urrs : Group[u] \in Groups
      /\ granted \in [Urrs -> Nat] /\ atUpf \in [Urrs -> Nat] /\ quota \in [Groups -> Nat]
  BY ChargingAssumption DEF Groups, Range, QuotaInv
<1> USE DEF HandlerTyped
<1>1. CASE UNCHANGED vars
  BY <1>1 DEF vars, upf, handler, urrTable, chf
<1>2. ASSUME \/ \E u \in Urrs : Measure(u)
             \/ \E us : ReportRejected(us)
             \/ LateRead \/ LateWrite \/ LoseUpf \/ Reassociate
             \/ BuildMultiUnitUsage \/ ResetReports \/ ChargingFails \/ NothingToUpdate
      PROVE  HandlerTyped'
  BY <1>2
  DEF Measure, ReportRejected, LateRead, LateWrite, LoseUpf, Reassociate, BuildMultiUnitUsage,
      ResetReports, ChargingFails, NothingToUpdate, Ends, upf, handler, urrTable, chf
<1>3. ASSUME \E us, full : (\E typed : ReportRequest(us, full, typed)) \/ Release(us, full)
      PROVE  HandlerTyped'
  BY <1>3 DEF ReportRequest, Release, Starts, urrTable, chf
<1>4. ASSUME NEW g, Notification(g) \/ LocationChange PROVE HandlerTyped'
  BY <1>4, ChargingAssumption DEF Notification, LocationChange, Starts, upf, urrTable, chf
<1>5. ASSUME NEW t \in DOMAIN timer, TimerHandler(t) PROVE HandlerTyped'
  <2>1. timer[t].urr \in Urrs
    BY TimerFacts
  <2>2. /\ pc' = "query" /\ job' \in {"limit", "deferred"} /\ asked' = {timer[t].urr}
        /\ UNCHANGED <<assoc, atUpf, toGrant, state, granted, quota>>
    BY <1>5 DEF TimerHandler, Starts, upf, urrTable, chf
  <2> QED
    BY <2>1, <2>2
<1>6. ASSUME NEW t \in DOMAIN timer, TimerStops(t) \/ Tick(t) \/ Cancel(t) \/ CancelClears(t)
      PROVE  HandlerTyped'
  <2>1. pc' \in {pc, "crashed"} /\ TimersOnly
    BY <1>6 DEF TimerStops, Tick, Cancel, CancelClears
  <2>2. UNCHANGED <<assoc, job, asked, toGrant, state, atUpf, granted, quota>>
    BY <2>1 DEF TimersOnly, upf, urrTable, chf
  <2> QED
    BY <2>1, <2>2
<1>7. ASSUME \/ \E us, full : QueryReport(us, full)
             \/ \E answerLost \in BOOLEAN : QueryFails(answerLost)
      PROVE  HandlerTyped'
  <2>1. Queried
    BY <1>7 DEF QueryReport, QueryFails
  <2> QED
    BY <2>1 DEF Queried, chf
<1>8. ASSUME NEW us, Modify(us) PROVE HandlerTyped'
  <2>1. /\ UNCHANGED <<assoc, granted, quota>> /\ UNCHANGED handler
        /\ atUpf' = [u \in Urrs |-> IF st[u] = "UPDATE" THEN granted[u] ELSE atUpf[u]]
    BY <1>8 DEF Modify, chf
  <2> QED
    BY <1>0, <2>1 DEF handler
<1>9. ASSUME NEW G \in SUBSET Groups, ChargingUpdate(G) PROVE HandlerTyped'
  <2>1. /\ quota' = [g \in Groups |-> IF g \in G THEN quota[g] + 1 ELSE quota[g]]
        /\ toGrant' = UNION {UrrsOf(g) : g \in G} /\ state' = "PFCPModification"
        /\ pc = "chf" /\ pc' = "grant"
        /\ UNCHANGED <<assoc, atUpf, granted, job, asked>>
    BY <1>9 DEF ChargingUpdate, upf, urrTable
  <2>2. toGrant' \subseteq Urrs
    BY <2>1 DEF UrrsOf
  <2>3. \A u \in Urrs : quota[Group[u]] <= quota'[Group[u]] /\ quota'[Group[u]] \in Nat
    BY <1>0, <2>1
  <2> QED
    BY <1>0, <2>1, <2>2, <2>3
<1>10. CASE ChargingRelease
  BY <1>10 DEF ChargingRelease, upf, urrTable
<1>11. ASSUME NEW u \in Urrs, GrantQuota(u) \/ GrantVolumeLimit(u) \/ GrantEventLimit(u)
       PROVE  HandlerTyped'
  <2>1. Grant(u) /\ pc' \in {pc, "crashed"}
    BY <1>11 DEF GrantQuota, GrantVolumeLimit, GrantEventLimit
  <2>2. /\ toGrant' = toGrant \ {u} /\ granted' = [granted EXCEPT ![u] = quota[Group[u]]]
        /\ pc = "grant" /\ UNCHANGED <<assoc, atUpf, job, asked, state, quota>>
    BY <2>1 DEF Grant, upf, chf
  <2>3. \A v \in Urrs : atUpf[v] <= quota[Group[v]]
    BY <1>0
  <2> QED
    BY <1>0, <2>1, <2>2, <2>3
<1>12. ASSUME UpdateUrrs \/ UpdateRefused \/ UpdateUnanswered PROVE HandlerTyped'
  <2>1. /\ pc = "grant" /\ UNCHANGED <<assoc, asked, toGrant, granted, quota>>
    BY <1>12 DEF UpdateUrrs, UpdateRefused, UpdateUnanswered, Updates, chf
  <2>2. /\ state' \in {state, "Active"}
        /\ (pc' = "idle" /\ job' = "none") \/ (pc' = "crashed" /\ job' = job)
        /\ atUpf' = atUpf \/ atUpf' = [u \in Urrs |-> IF u \in ToUpdate THEN granted[u] ELSE atUpf[u]]
    BY <1>12 DEF UpdateUrrs, UpdateRefused, UpdateUnanswered, Ends
  <2> QED
    BY <1>0, <2>1, <2>2
<1> HIDE DEF HandlerTyped
<1>13. CASE Next
  <2>1. CASE \E U \in SUBSET Urrs : \E us \in Orders(U) :
               \/ U # {} /\ \E full \in SUBSET U, typed \in BOOLEAN : ReportRequest(us, full, typed)
               \/ U # {} /\ ReportRejected(us)
               \/ \E full \in SUBSET U : QueryReport(us, full) \/ Release(us, full)
               \/ Modify(us)
    BY <1>2, <1>3, <1>7, <1>8, <2>1
  <2> QED
    BY <1>2, <1>4, <1>5, <1>6, <1>7, <1>9, <1>10, <1>11, <1>12, <1>13, <2>1 DEF Next
<1> QED
  BY <1>1, <1>13

\* Every variable keeps its type.
THEOREM TypesSafe == Spec => []TypeOK
<1> DEFINE Inv == ReportsTyped /\ LimitInv /\ QuotaInv /\ HandlerTyped
<1>1. Init => Inv
  <2> SUFFICES ASSUME Init PROVE Inv
    OBVIOUS
  <2>1. \A u \in Urrs : Group[u] \in Groups
    BY ChargingAssumption DEF Groups, Range
  <2>2. QuotaInv /\ HandlerTyped
    BY <2>1 DEF Init, QuotaInv, HandlerTyped
  <2>3. LimitInv
    BY DEF Init, LimitInv, TimersTyped
  <2> QED
    BY <2>2, <2>3, ReportsInit
<1>2. Inv /\ [Next]_vars => Inv'
  BY ReportsStep, LimitStep, QuotaStep, HandlerStep
<1>3. Inv => TypeOK
  <2> SUFFICES ASSUME Inv PROVE TypeOK
    OBVIOUS
  <2>1. ASSUME NEW rep \in Seq(Reports) PROVE IsReports(rep)
    <3>1. \A i \in DOMAIN rep : rep[i] \in Reports
      OBVIOUS
    <3> QED
      BY <3>1 DEF IsReports, Reports, Range
  <2>2. /\ IsReports(reports) /\ IsReports(late.rep) /\ IsReports(late.snap)
        /\ late.step \in {"none", "start", "read"}
    BY <2>1 DEF ReportsTyped
  <2>3. IsReports(taken) /\ \A r \in Range(taken) : r.typed
    BY DEF ReportsTyped, IsReports, Reports, Range
  <2>4. \A t \in DOMAIN timer : timer[t].step \in Steps /\ timer[t].urr \in Urrs
    BY TimerFacts DEF TimerRecords
  <2>5. cur \in [Urrs -> 0..Len(timer)]
    BY TimerFacts
  <2> QED
    BY <2>2, <2>3, <2>4, <2>5 DEF TypeOK, ReportsTyped, QuotaInv, HandlerTyped
<1> QED
  BY <1>1, <1>2, <1>3, PTL DEF Spec
=============================================================================
