------------------------------ MODULE Charging ------------------------------
(* The charging of one PDU session: the usage that its UPF measures comes as *)
(* reports, in session reports of the UPF or when the SMF queries its URRs,  *)
(* the reports are cached until a charging data request takes them to the    *)
(* CHF, and the quotas of the CHF's answer go back to the UPF.  The handlers *)
(* run under SMLock, but the goroutine of a query caches its reports without *)
(* it, and quota timers stop without it.  PFCP exchanges and charging        *)
(* requests fail, and the UPF loses its association.                         *)
EXTENDS Naturals, FiniteSets, Sequences, SequencesExt

CONSTANTS
  Urrs,           \* the URRs of charged rules at the session's anchor
  PduLevel,       \* those that charge the whole session
  Group,          \* the rating group of each URR
  MaxUnits,       \* a bound: the units of usage
  MaxJobs,        \* a bound: the handlers that run
  MaxTimers,      \* a bound: the timers that are ever made
  MaxFaults       \* a bound: the faults

Units == 1..MaxUnits
Timers == 1..MaxTimers
Groups == Range(Group)

ASSUME ChargingAssumption ==
  /\ IsFiniteSet(Urrs) /\ PduLevel \subseteq Urrs /\ DOMAIN Group = Urrs
  /\ MaxUnits \in Nat /\ MaxJobs \in Nat /\ MaxTimers \in Nat /\ MaxFaults \in Nat

VARIABLES
  usage,          \* external: what a URR has measured and not reported
  measured,       \* external: the units that were measured so far
  assoc,          \* the UPF is associated
  pc,             \* the handler that holds SMLock: how far it is
  job,            \* and what it is
  asked,          \* the URRs that it queries
  state,          \* the session's state
  st,             \* UrrTable: the state of each URR
  granted,        \* the quota of a URR, as the SMF knows it
  atUpf,          \* external: and as the UPF knows it
  reports,        \* UrrReports: [urr, typed, units]
  taken,          \* what the charging data request reports, at its places in UrrReports
  toGrant,        \* the URRs whose quota is still to be taken over
  late,           \* the goroutine of a query: [step, rep, snap]
  charged,        \* external: how often the CHF has counted a unit
  quota,          \* external: the last quota that the CHF has granted to a rating group
  timer,          \* every timer made: [kind, urr, step, stopped]
  cur,            \* VolumeLimitExpiryTimer, 0: nil
  excused,        \* history: units that got lost for a known reason
  raced,          \* history: UrrReports was written between a read and its write
  unmeasured,     \* history: a report came without its VolumeMeasurement
  spoiled,        \* history: URRs whose update the UPF may not have
  jobs, faults    \* history: the number of handlers and of faults

upf == <<usage, measured, assoc, atUpf>>
handler == <<pc, job, asked, taken, toGrant, state>>
urrTable == <<st, granted>>
chf == <<charged, quota>>
timers == <<timer, cur>>
history == <<excused, raced, unmeasured, spoiled, jobs, faults>>
vars == <<upf, handler, urrTable, reports, late, chf, timers, history>>

NoLate == [step |-> "none", rep |-> <<>>, snap |-> <<>>]

Init ==
  /\ usage = [u \in Urrs |-> {}] /\ measured = 0
  /\ assoc = TRUE
  /\ pc = "idle" /\ job = "none" /\ asked = {} /\ state = "Active"
  /\ st = [u \in Urrs |-> "CREATE"]
  /\ granted = [u \in Urrs |-> 0] /\ atUpf = granted
  /\ reports = <<>> /\ taken = <<>> /\ toGrant = {}
  /\ late = NoLate
  /\ charged = [x \in Units |-> 0] /\ quota = [g \in Groups |-> 0]
  /\ timer = <<>> /\ cur = [u \in Urrs |-> 0]
  /\ excused = {} /\ raced = FALSE /\ unmeasured = FALSE /\ spoiled = {}
  /\ jobs = 0 /\ faults = 0

UnitsOf(rep) == UNION {r.units : r \in Range(rep)}
Fault == faults < MaxFaults /\ faults' = faults + 1

\* External: a URR measures another unit.
Measure(u) ==
  /\ measured < MaxUnits /\ pc \notin {"released", "crashed"}
  /\ measured' = measured + 1
  /\ usage' = [usage EXCEPT ![u] = @ \cup {measured + 1}]
  /\ UNCHANGED <<assoc, atUpf, handler, urrTable, reports, late, chf, timers, history>>

-----------------------------------------------------------------------------
(* UrrReports *)

\* Mutant: the cached reports are overwritten.
LastOnly(old, rep) == rep

\* HandleReports appends to UrrReports.
Appended(old, rep) == old \o rep

\* A write to UrrReports, while some goroutine has read it and not yet written.
Write(new) ==
  /\ reports' = new
  /\ raced' = (raced \/ late.step = "read" \/ pc = "reset")

\* The volumes of a message's reports: one that lacks its measurement gets the
\* volumes of the last report before it that has one.
Volumes(us, full) ==
  [i \in DOMAIN us |->
     UNION {usage[us[j]] : j \in {k \in 1..i : /\ us[k] \in full
                                            /\ \A l \in (k + 1)..i : us[l] \notin full}}]

\* The reports of the URRs in sequence us, those in full with their volumes.
\* identityTriggerType knows some triggers; a query's reason is a trigger too.
Reported(us, full, typed) ==
  [i \in DOMAIN us |-> [urr |-> us[i], typed |-> typed, units |-> Volumes(us, full)[i]]]

\* What was measured leaves the UPF with its report; without its volume it is lost.
Leaves(us, full) ==
  /\ usage' = [u \in Urrs |-> IF u \in Range(us) THEN {} ELSE usage[u]]
  /\ excused' = excused \cup UNION {usage[u] : u \in Range(us) \ full}
  /\ unmeasured' = (unmeasured \/ Range(us) # full)

Orders(U) == {us \in [1..Cardinality(U) -> U] : IsInjective(us)}

-----------------------------------------------------------------------------
(* Handlers *)

\* SMLock is free for the next handler.
Starts(j, p) == /\ pc = "idle" /\ jobs < MaxJobs
                /\ jobs' = jobs + 1
                /\ pc' = p /\ job' = j

\* A report of the UPF (HandlePfcpSessionReportRequest): its triggers are known to
\* the charging or not.
ReportRequest(us, full, typed) ==
  /\ Starts("report", "build") /\ assoc
  /\ Leaves(us, full)
  /\ Write(Appended(reports, Reported(us, full, typed)))
  /\ UNCHANGED <<measured, assoc, atUpf, asked, taken, toGrant, state, urrTable, late, chf,
                 timers, spoiled, faults>>

\* A report that is not handled: the UPF is not associated, or the downlink data
\* report of the same message could not be passed on to the AMF.
ReportRejected(us) ==
  /\ pc = "idle" /\ Fault
  /\ usage' = [u \in Urrs |-> IF u \in Range(us) THEN {} ELSE usage[u]]
  /\ excused' = excused \cup UNION {usage[u] : u \in Range(us)}
  /\ UNCHANGED <<measured, assoc, atUpf, handler, urrTable, reports, late, chf, timers, raced,
                 unmeasured, spoiled, jobs>>

\* chargingNotificationProcedure: the CHF asks for the URRs of a rating group, and
\* gets those of the session too.
Notification(g) ==
  /\ Starts("notify", "query")
  /\ asked' = {u \in Urrs : Group[u] = g} \cup PduLevel
  /\ UNCHANGED <<upf, taken, toGrant, state, urrTable, reports, late, chf, timers, excused, raced,
                 unmeasured, spoiled, faults>>

\* The user plane is deactivated, and the UE has moved: every URR is queried.
LocationChange ==
  /\ Starts("location", "query")
  /\ asked' = Urrs
  /\ UNCHANGED <<upf, taken, toGrant, state, urrTable, reports, late, chf, timers, excused, raced,
                 unmeasured, spoiled, faults>>

\* The first expiry of a quota timer: the URR is queried; the usage of a flow waits
\* for the next request.
TimerHandler(t) ==
  /\ timer[t].step = "waiting"
  /\ Starts(IF timer[t].urr \in PduLevel THEN "limit" ELSE "deferred", "query")
  /\ asked' = {timer[t].urr}
  /\ timer' = [s \in DOMAIN timer |->
                 IF s = t THEN [timer[s] EXCEPT !.step = "running"]
                 ELSE IF timer[s].step = "running" THEN [timer[s] EXCEPT !.step = "once"]
                 ELSE timer[s]]
  /\ UNCHANGED <<upf, taken, toGrant, state, urrTable, reports, late, chf, cur, excused, raced,
                 unmeasured, spoiled, faults>>

\* QueryReport: the URRs are in state QUERY until the request is built.  Its answer
\* wakes the handler before the reports are cached.
Queried == /\ pc = "query"
           /\ pc' = IF job = "deferred" THEN "idle" ELSE "build"
           /\ job' = IF job = "deferred" THEN "none" ELSE job
           /\ asked' = {}
           /\ UNCHANGED <<measured, assoc, atUpf, taken, toGrant, state, granted, reports, chf,
                          timers, raced, jobs>>

QueryReport(us, full) ==
  /\ Queried /\ assoc /\ late = NoLate
  /\ Range(us) = asked
  /\ st' = [u \in Urrs |-> IF u \in asked THEN "CREATE" ELSE st[u]]
  /\ spoiled' = spoiled \cup {u \in asked : st[u] = "UPDATE"}
  /\ Leaves(us, full)
  /\ late' = [step |-> "start", rep |-> Reported(us, full, TRUE), snap |-> <<>>]
  /\ UNCHANGED faults

\* The request is not built, is refused, or it or its answer gets lost.
QueryFails(answerLost) ==
  /\ Queried /\ Fault
  /\ st' = [u \in Urrs |-> IF u \in asked THEN (IF assoc THEN "CREATE" ELSE "QUERY") ELSE st[u]]
  /\ spoiled' = spoiled \cup {u \in asked : st[u] = "UPDATE"}
  /\ answerLost => assoc
  /\ usage' = [u \in Urrs |-> IF answerLost /\ u \in asked THEN {} ELSE usage[u]]
  /\ excused' = IF answerLost THEN excused \cup UNION {usage[u] : u \in asked} ELSE excused
  /\ UNCHANGED <<late, unmeasured>>

\* The query's goroutine: append reads UrrReports, and writes it.
LateRead ==
  /\ late.step = "start"
  /\ late' = [late EXCEPT !.step = "read", !.snap = reports]
  /\ UNCHANGED <<upf, handler, urrTable, reports, chf, timers, history>>

LateWrite ==
  /\ late.step = "read"
  /\ reports' = Appended(late.snap, late.rep)
  /\ raced' = (raced \/ pc = "reset")
  /\ late' = NoLate
  /\ UNCHANGED <<upf, handler, urrTable, chf, timers, excused, unmeasured, spoiled, jobs, faults>>

\* A request of other handlers to the UPF: a URR whose quota has changed is updated,
\* one that is still to be queried is; that report has no trigger.
Modify(us) ==
  LET Q == {u \in Urrs : st[u] = "QUERY"}
  IN  /\ pc = "idle" /\ assoc /\ late = NoLate
      /\ Range(us) = Q
      /\ \E u \in Urrs : st[u] # "CREATE"
      /\ st' = [u \in Urrs |-> "CREATE"]
      /\ atUpf' = [u \in Urrs |-> IF st[u] = "UPDATE" THEN granted[u] ELSE atUpf[u]]
      /\ Leaves(us, Q)
      /\ late' = IF Q = {} THEN NoLate
                 ELSE [step |-> "start", rep |-> Reported(us, Q, FALSE), snap |-> <<>>]
      /\ UNCHANGED <<measured, assoc, handler, granted, reports, chf, timers, raced, spoiled,
                     jobs, faults>>

-----------------------------------------------------------------------------
(* The charging data request *)

\* Mutant: whether the charging knows the trigger is not looked at.
AnyReport(r) == TRUE

\* A report with a trigger that the charging knows.
IsTyped(r) == r.typed

\* buildMultiUnitUsageFromUsageReport: reports with a trigger are charged, the
\* others are dropped.
BuildMultiUnitUsage ==
  /\ pc = "build"
  /\ taken' = Restrict(reports, {i \in DOMAIN reports : IsTyped(reports[i])})
  /\ excused' = excused \cup UNION {r.units : r \in {x \in Range(reports) : ~x.typed}}
  /\ pc' = "reset"
  /\ UNCHANGED <<upf, job, asked, toGrant, state, urrTable, reports, late, chf, timers, raced,
                 unmeasured, spoiled, jobs, faults>>

\* Mutant: the reports stay in the cache.
KeepReports == UNCHANGED <<reports, raced>>

\* UrrReports is emptied.
EmptyReports ==
  /\ reports' = <<>>
  /\ raced' = (raced \/ late.step = "read")

\* Without usage to be charged there is no update; a release is always sent.
ResetReports ==
  /\ pc = "reset"
  /\ EmptyReports
  /\ pc' = IF taken = <<>> /\ job # "release" THEN "idle" ELSE "chf"
  /\ job' = IF pc' = "idle" THEN "none" ELSE job
  /\ UNCHANGED <<upf, asked, taken, toGrant, state, urrTable, late, chf, timers, excused,
                 unmeasured, spoiled, jobs, faults>>

Counted == [x \in Units |->
              charged[x] + Cardinality({i \in DOMAIN taken : x \in taken[i].units})]

\* Mutant: only one URR of a rating group gets the quota.
FirstUrrOf(g) == {CHOOSE u \in Urrs : Group[u] = g}

\* getUrrsByRg.
UrrsOf(g) == {u \in Urrs : Group[u] = g}

\* SendConvergedChargingRequest: the CHF counts the usage, and its answer has new
\* quotas for some of the rating groups.
ChargingUpdate(G) ==
  /\ pc = "chf" /\ job # "release"
  /\ G \subseteq {Group[r.urr] : r \in Range(taken)}
  /\ charged' = Counted
  /\ quota' = [g \in Groups |-> IF g \in G THEN quota[g] + 1 ELSE quota[g]]
  /\ taken' = <<>>
  /\ toGrant' = UNION {UrrsOf(g) : g \in G}
  /\ state' = "PFCPModification"
  /\ pc' = "grant"
  /\ UNCHANGED <<upf, job, asked, urrTable, reports, late, timers, history>>

ChargingRelease ==
  /\ pc = "chf" /\ job = "release"
  /\ charged' = Counted
  /\ taken' = <<>>
  /\ pc' = "released"
  /\ UNCHANGED <<upf, quota, job, asked, toGrant, state, urrTable, reports, late, timers, history>>

\* There is no token, no CHF, or no good answer: the usage was taken from the cache.
ChargingFails ==
  /\ pc = "chf" /\ Fault
  /\ excused' = excused \cup UnitsOf(taken)
  /\ taken' = <<>>
  /\ pc' = IF job = "release" THEN "released" ELSE "idle"
  /\ job' = IF job = "release" THEN job ELSE "none"
  /\ UNCHANGED <<upf, asked, toGrant, state, urrTable, reports, late, chf, timers, raced,
                 unmeasured, spoiled, jobs>>

-----------------------------------------------------------------------------
(* Quotas and their timers *)

NewTimer(kind, u) == [kind |-> kind, urr |-> u, step |-> "new", stopped |-> FALSE]

\* Mutant: the timer that runs is not stopped.
StopsNothing(u) == timer

\* The URR's timer is stopped.
StopTimer(u) == IF cur[u] = 0 THEN timer ELSE [timer EXCEPT ![cur[u]].stopped = TRUE]

\* updateGrantedQuota, one URR: its quota is new, and so is its timer.
Grant(u) ==
  /\ pc = "grant" /\ u \in toGrant
  /\ toGrant' = toGrant \ {u}
  /\ st' = [st EXCEPT ![u] = "UPDATE"]
  /\ granted' = [granted EXCEPT ![u] = quota[Group[u]]]
  /\ UNCHANGED <<upf, job, asked, taken, state, reports, late, chf, history>>

GrantQuota(u) ==
  /\ Grant(u)
  /\ UNCHANGED <<pc, timers>>

\* VOLUME_LIMIT: a second Stop of a timer sends on a closed channel.
GrantVolumeLimit(u) ==
  /\ Len(timer) < MaxTimers
  /\ Grant(u)
  /\ IF cur[u] # 0 /\ timer[cur[u]].stopped
       THEN pc' = "crashed" /\ UNCHANGED timers
       ELSE /\ timer' = Append(StopTimer(u), NewTimer("volume", u))
            /\ cur' = [cur EXCEPT ![u] = Len(timer')]
            /\ UNCHANGED pc

\* MAX_NUMBER_OF_CHANGES_IN_CHARGING_CONDITIONS: a timer, whether one runs or not.
GrantEventLimit(u) ==
  /\ Len(timer) < MaxTimers /\ u \in PduLevel
  /\ Grant(u)
  /\ timer' = Append(timer, NewTimer("event", u))
  /\ UNCHANGED <<pc, cur>>

ToUpdate == {u \in Urrs : st[u] = "UPDATE"}
Ends == pc' = "idle" /\ job' = "none"

\* No URR is to be updated: the session's state stays as it is.
NothingToUpdate ==
  /\ pc = "grant" /\ toGrant = {} /\ ToUpdate = {}
  /\ Ends
  /\ UNCHANGED <<upf, asked, taken, toGrant, state, urrTable, reports, late, chf, timers, history>>

Updates == /\ pc = "grant" /\ toGrant = {} /\ ToUpdate # {}
           /\ UNCHANGED <<usage, measured, assoc, asked, taken, toGrant, granted, reports, late,
                          chf, timers, excused, raced, unmeasured, jobs>>

\* The UPF accepts the URRs' update.
UpdateUrrs ==
  /\ Updates /\ assoc /\ Ends
  /\ st' = [u \in Urrs |-> "CREATE"]
  /\ atUpf' = [u \in Urrs |-> IF u \in ToUpdate THEN granted[u] ELSE atUpf[u]]
  /\ state' = "Active"
  /\ UNCHANGED <<spoiled, faults>>

\* The UPF refuses it.
UpdateRefused ==
  /\ Updates /\ assoc /\ Ends /\ Fault
  /\ st' = [u \in Urrs |-> IF u \in ToUpdate THEN "CREATE" ELSE st[u]]
  /\ spoiled' = spoiled \cup ToUpdate
  /\ state' = "Active"
  /\ UNCHANGED atUpf

\* There is no answer, whose cause is read nevertheless: a handler of the HTTP server
\* dies, a timer's or the UPF's report takes the program with it.
UpdateUnanswered ==
  /\ Updates
  /\ assoc => Fault
  /\ ~assoc => UNCHANGED faults
  /\ st' = [u \in Urrs |-> IF assoc /\ u \in ToUpdate THEN "CREATE" ELSE st[u]]
  /\ spoiled' = spoiled \cup ToUpdate
  /\ IF job \in {"notify", "location"} THEN Ends ELSE pc' = "crashed" /\ UNCHANGED job
  /\ UNCHANGED <<atUpf, state>>

Step(t, s) == timer' = [timer EXCEPT ![t].step = s]
TimersOnly == UNCHANGED <<upf, job, asked, taken, toGrant, state, urrTable, reports, late, chf, history>>
Running == pc \notin {"released", "crashed"}

\* The timer's first expiry has been handled.
Handled(t) == \/ timer[t].step = "once"
              \/ timer[t].step = "running" /\ job \notin {"limit", "deferred"}

\* A stopped timer ends; its tick may come first.
TimerStops(t) ==
  /\ Running /\ timer[t].stopped /\ (timer[t].step = "new" \/ Handled(t))
  /\ Step(t, "end")
  /\ UNCHANGED <<pc, cur>> /\ TimersOnly

\* The first tick, which waits for SMLock, and the second, which cancels the timer.
Tick(t) ==
  /\ Running
  /\ \/ timer[t].step = "new" /\ Step(t, "waiting")
     \/ Handled(t) /\ Step(t, "cancel")
  /\ UNCHANGED <<pc, cur>> /\ TimersOnly

\* The URR has a timer that was not stopped.
Stoppable(u) == cur[u] # 0 /\ ~timer[cur[u]].stopped

\* cancelFunc stops whatever timer the URR has, without SMLock.
Cancel(t) ==
  /\ Running /\ timer[t].step = "cancel"
  /\ LET u == timer[t].urr
     IN  \/ /\ timer[t].kind = "event"
            /\ Step(t, "end")
            /\ UNCHANGED pc
         \/ /\ timer[t].kind = "volume" /\ ~Stoppable(u)
            /\ pc' = "crashed"
            /\ UNCHANGED timer
         \/ /\ timer[t].kind = "volume" /\ Stoppable(u)
            /\ timer' = [timer EXCEPT ![cur[u]].stopped = TRUE, ![t].step = "clear"]
            /\ UNCHANGED pc
  /\ UNCHANGED cur /\ TimersOnly

\* And forgets it.
CancelClears(t) ==
  /\ Running /\ timer[t].step = "clear"
  /\ Step(t, "end")
  /\ cur' = [cur EXCEPT ![timer[t].urr] = 0]
  /\ UNCHANGED pc /\ TimersOnly

-----------------------------------------------------------------------------
(* Release, and the UPF *)

\* releaseSession and ReleaseChargingSession: the answer to the deletion wakes the
\* handler before its reports are cached.
Release(us, full) ==
  /\ Starts("release", "build") /\ assoc /\ late = NoLate
  /\ Range(us) = Urrs
  /\ Leaves(us, full)
  /\ late' = [step |-> "start", rep |-> Reported(us, full, TRUE), snap |-> <<>>]
  /\ UNCHANGED <<measured, assoc, atUpf, asked, taken, toGrant, state, urrTable, reports, chf,
                 timers, raced, spoiled, faults>>

\* External: the UPF loses its association, and gets it back.
LoseUpf ==
  /\ assoc /\ Running /\ Fault
  /\ assoc' = FALSE
  /\ UNCHANGED <<usage, measured, atUpf, handler, urrTable, reports, late, chf, timers, excused,
                 raced, unmeasured, spoiled, jobs>>

Reassociate ==
  /\ ~assoc
  /\ assoc' = TRUE
  /\ UNCHANGED <<usage, measured, atUpf, handler, urrTable, reports, late, chf, timers, history>>

Next ==
  \/ \E u \in Urrs : Measure(u)
  \/ \E U \in SUBSET Urrs : \E us \in Orders(U) :
       \/ U # {} /\ \E full \in SUBSET U, typed \in BOOLEAN : ReportRequest(us, full, typed)
       \/ U # {} /\ ReportRejected(us)
       \/ \E full \in SUBSET U : QueryReport(us, full) \/ Release(us, full)
       \/ Modify(us)
  \/ \E g \in Groups : Notification(g)
  \/ LocationChange
  \/ \E answerLost \in BOOLEAN : QueryFails(answerLost)
  \/ LateRead \/ LateWrite
  \/ BuildMultiUnitUsage \/ ResetReports
  \/ \E G \in SUBSET Groups : ChargingUpdate(G)
  \/ ChargingRelease \/ ChargingFails
  \/ \E u \in Urrs : GrantQuota(u) \/ GrantVolumeLimit(u) \/ GrantEventLimit(u)
  \/ NothingToUpdate \/ UpdateUrrs \/ UpdateRefused \/ UpdateUnanswered
  \/ \E t \in DOMAIN timer :
       TimerHandler(t) \/ TimerStops(t) \/ Tick(t) \/ Cancel(t) \/ CancelClears(t)
  \/ LoseUpf \/ Reassociate

Spec == Init /\ [][Next]_vars

-----------------------------------------------------------------------------
(* Properties *)

Steps == {"new", "waiting", "running", "once", "cancel", "clear", "end"}
IsReports(rep) ==
  \A r \in Range(rep) : r.urr \in Urrs /\ r.typed \in BOOLEAN /\ r.units \subseteq Units

\* Every variable keeps its type.
TypeOK ==
  /\ usage \in [Urrs -> SUBSET Units] /\ measured \in 0..MaxUnits /\ assoc \in BOOLEAN
  /\ pc \in {"idle", "query", "build", "reset", "chf", "grant", "released", "crashed"}
  /\ job \in {"none", "report", "notify", "location", "limit", "deferred", "release"}
  /\ (pc = "crashed" \/ (pc = "idle") = (job = "none"))
  /\ asked \subseteq Urrs /\ toGrant \subseteq Urrs /\ state \in {"Active", "PFCPModification"}
  /\ st \in [Urrs -> {"CREATE", "UPDATE", "QUERY"}]
  /\ \A u \in Urrs : atUpf[u] <= granted[u] /\ granted[u] <= quota[Group[u]]
  /\ IsReports(reports) /\ IsReports(late.rep) /\ IsReports(late.snap)
  /\ IsReports(taken) /\ \A r \in Range(taken) : r.typed
  /\ late.step \in {"none", "start", "read"}
  /\ charged \in [Units -> Nat]
  /\ \A t \in DOMAIN timer : timer[t].step \in Steps /\ timer[t].urr \in Urrs
  /\ cur \in [Urrs -> 0..Len(timer)]

\* Charging (buildMultiUnitUsageFromUsageReport): whichever handlers and timers ask
\* for usage, and however late reports come, the CHF counts no unit twice, unless
\* two goroutines raced for UrrReports, or a report without a measurement took over
\* the volumes of the one before it.
ChargedOnce == raced \/ unmeasured \/ \A x \in Units : charged[x] <= 1

\* "Those information will be included in CDR" (sm_context.go): measured usage is at
\* the UPF, under way, cached, or counted; it gets lost only with a message, with a
\* failed charging request, without a trigger, or in a race for UrrReports.
UsageAccounted ==
  raced \/ \A x \in 1..measured :
    \/ charged[x] > 0 \/ x \in excused
    \/ \E u \in Urrs : x \in usage[u]
    \/ x \in UnitsOf(reports) \cup UnitsOf(taken) \cup UnitsOf(late.rep)

\* Quotas (updateGrantedQuota, RULE_UPDATE): between the handlers, the UPF
\* has the last quota of its rating group for every URR, or gets it with the next
\* request, unless that request failed or the URR was queried first.
QuotaAtUpf ==
  pc = "idle" => \A u \in Urrs :
    \/ u \in spoiled
    \/ atUpf[u] = quota[Group[u]]
    \/ granted[u] = quota[Group[u]] /\ st[u] = "UPDATE"

\* Quota timers (VolumeLimitExpiryTimer): however expiries, cancellations and new
\* quotas meet, no URR has two volume limit timers that both run.
OneLimitTimer ==
  \A s, t \in DOMAIN timer :
    /\ timer[s].urr = timer[t].urr
    /\ \A x \in {s, t} : /\ timer[x].kind = "volume" /\ ~timer[x].stopped
                         /\ timer[x].step \in {"new", "waiting", "running", "once"}
    => s = t
=============================================================================
