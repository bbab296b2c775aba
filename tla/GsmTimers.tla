----------------------------- MODULE GsmTimers -----------------------------
(* The timers of a session's NAS commands: T3591 guards a PDU Session        *)
(* Modification Command, T3592 a PDU Session Release Command.  Every timer   *)
(* is a goroutine of its own that retransmits the command a bounded number   *)
(* of times and then gives up.  It shares the SMLock of the context with the *)
(* handlers, which start a timer, stop it when the UE answers, and may hold  *)
(* the lock just when it expires.                                            *)
EXTENDS Integers, FiniteSets

CONSTANTS
  Timers,         \* the timers ever made for the session (a bound)
  MaxRetryTimes,  \* configured
  FailingKinds,   \* the commands whose transfer to the AMF may fail
  MaxRequests,    \* a bound: how often a handler takes the lock
  None            \* no timer, or nobody

Kinds == {"T3591", "T3592"}

ASSUME TimerAssumption ==
  /\ MaxRetryTimes \in Nat /\ MaxRequests \in Nat
  /\ FailingKinds \subseteq Kinds
  /\ None \notin Timers \cup {"handler"} /\ "handler" \notin Timers

VARIABLES
  current,        \* the context's T3591 and T3592
  kind,           \* the command that a timer guards
  pc,             \* where a timer's goroutine is
  expireTimes,
  tries,          \* how often a timer's expiredFunc has sent its command
  stopped,        \* the timers whose done channel has been written to
  lock,           \* who holds SMLock: None, "handler" or a timer
  handler,        \* a handler of the session: "idle", "waiting", "locked"
  requests        \* how often a handler has come

vars == <<current, kind, pc, expireTimes, tries, stopped, lock, handler, requests>>

Pcs == {"unmade", "select", "expired", "sending", "givingUp", "aborting", "off"}

Running == {t \in Timers : pc[t] \notin {"unmade", "off"}}

Init ==
  /\ current = [k \in Kinds |-> None]
  /\ kind = [t \in Timers |-> "T3591"]
  /\ pc = [t \in Timers |-> "unmade"]
  /\ expireTimes = [t \in Timers |-> 0]
  /\ tries = [t \in Timers |-> 0]
  /\ stopped = {}
  /\ lock = None
  /\ handler = "idle"
  /\ requests = 0

-----------------------------------------------------------------------------
(* The goroutine of a timer *)

Goto(t, p) == pc' = [pc EXCEPT ![t] = p]

\* Mutants: the retries never run out, or one is left out.
NeverExhausted(n) == n < 0
ExhaustedEarly(n) == n >= MaxRetryTimes

Exhausted(n) == n > MaxRetryTimes

\* The ticker fires, and the select takes it even if done is ready as well.
Tick(t) ==
  /\ pc[t] = "select"
  /\ expireTimes' = [expireTimes EXCEPT ![t] = @ + 1]
  /\ \/ Exhausted(expireTimes'[t])  /\ Goto(t, "givingUp")
     \/ ~Exhausted(expireTimes'[t]) /\ Goto(t, "expired")
  /\ UNCHANGED <<current, kind, tries, stopped, lock, handler, requests>>

\* The select takes the message of Stop.
Done(t) ==
  /\ pc[t] = "select" /\ t \in stopped
  /\ Goto(t, "off")
  /\ UNCHANGED <<current, kind, expireTimes, tries, stopped, lock, handler, requests>>

\* expiredFunc and cancelFunc both begin with SMLock.
TakeLock(t) ==
  /\ lock = None /\ lock' = t
  /\ \/ pc[t] = "expired"  /\ Goto(t, "sending")
     \/ pc[t] = "givingUp" /\ Goto(t, "aborting")
  /\ UNCHANGED <<current, kind, expireTimes, tries, stopped, handler, requests>>

\* expiredFunc sends the command again, and the AMF takes it.
Retransmit(t) ==
  /\ pc[t] = "sending"
  /\ tries' = [tries EXCEPT ![t] = @ + 1]
  /\ lock' = None
  /\ Goto(t, "select")
  /\ UNCHANGED <<current, kind, expireTimes, stopped, handler, requests>>

\* Mutant: no function releases SMLock when the transfer fails.
KeepLock(t) == UNCHANGED lock

\* T3591's function defers the release of SMLock; T3592's returns without it.
UnlockOnError(t) ==
  \/ kind[t] = "T3591" /\ lock' = None
  \/ kind[t] = "T3592" /\ UNCHANGED lock

TransferFails(t) ==
  /\ pc[t] = "sending" /\ kind[t] \in FailingKinds
  /\ tries' = [tries EXCEPT ![t] = @ + 1]
  /\ UnlockOnError(t)
  /\ Goto(t, "select")
  /\ UNCHANGED <<current, kind, expireTimes, stopped, handler, requests>>

\* cancelFunc: the context's timer is forgotten, whichever it is by now, and for
\* T3592 the AMF is notified of the release.
Abort(t) ==
  /\ pc[t] = "aborting"
  /\ current' = [current EXCEPT ![kind[t]] = None]
  /\ lock' = None
  /\ Goto(t, "off")
  /\ UNCHANGED <<kind, expireTimes, tries, stopped, handler, requests>>

-----------------------------------------------------------------------------
(* The handlers of the session: one at a time has the lock *)

Arrive ==
  /\ handler = "idle" /\ requests < MaxRequests
  /\ handler' = "waiting"
  /\ requests' = requests + 1
  /\ UNCHANGED <<current, kind, pc, expireTimes, tries, stopped, lock>>

TakeOver ==
  /\ handler = "waiting" /\ lock = None
  /\ handler' = "locked"
  /\ lock' = "handler"
  /\ UNCHANGED <<current, kind, pc, expireTimes, tries, stopped, requests>>

Leave == handler = "locked" /\ handler' = "idle" /\ lock' = None

\* Mutant: the timer that is replaced goes on.
StopNone(ks) == UNCHANGED stopped

\* Stop the timers of these kinds that the context has.
Stop(ks) == stopped' = stopped \cup ({current[k] : k \in ks} \ {None})

\* Mutant: the context keeps a timer that was stopped.
KeepStopped(ks) == current

Forget(ks) == [k \in Kinds |-> IF k \in ks THEN None ELSE current[k]]

\* sendGSMPDUSession{Modification,Release}Command: the last timer is stopped and
\* a new one made, unless there is no token for the AMF.
SendCommand(k) ==
  /\ Leave
  /\ Stop({k})
  /\ \/ \E t \in Timers :
          /\ pc[t] = "unmade"
          /\ Goto(t, "select")
          /\ kind' = [kind EXCEPT ![t] = k]
          /\ current' = [current EXCEPT ![k] = t]
     \/ current' = Forget({k}) /\ UNCHANGED <<kind, pc>>
  /\ UNCHANGED <<expireTimes, tries, requests>>

\* StopT3591 and StopT3592: by the UE's Modification Complete or Reject, by its
\* Release Complete, and both by the release of the context.
StopTimers(ks) ==
  /\ Leave
  /\ Stop(ks)
  /\ current' = Forget(ks)
  /\ UNCHANGED <<kind, pc, expireTimes, tries, requests>>

\* Every other handler leaves the timers alone.
OtherHandler ==
  /\ Leave
  /\ UNCHANGED <<current, kind, pc, expireTimes, tries, stopped, requests>>

-----------------------------------------------------------------------------
TimerStep(t) ==
  Tick(t) \/ Done(t) \/ TakeLock(t) \/ Retransmit(t) \/ TransferFails(t) \/ Abort(t)

HandlerStep ==
  \/ TakeOver
  \/ \E k \in Kinds : SendCommand(k) \/ StopTimers({k})
  \/ StopTimers(Kinds) \/ OtherHandler

Next == Arrive \/ HandlerStep \/ \E t \in Timers : TimerStep(t)

Spec == Init /\ [][Next]_vars

\* Goroutines run, tickers fire, the AMF answers or its answer times out, and
\* Go's mutexes do not starve a waiter.
FairSpec == Spec /\ SF_vars(HandlerStep) /\ \A t \in Timers : SF_vars(TimerStep(t))

-----------------------------------------------------------------------------
(* Properties *)

TypeOK ==
  /\ current \in [Kinds -> Timers \cup {None}]
  /\ kind \in [Timers -> Kinds]
  /\ pc \in [Timers -> Pcs]
  /\ expireTimes \in [Timers -> 0 .. MaxRetryTimes + 1]
  /\ tries \in [Timers -> 0 .. MaxRetryTimes]
  /\ stopped \subseteq Timers
  /\ lock \in Timers \cup {None, "handler"}
  /\ handler \in {"idle", "waiting", "locked"}
  /\ requests \in 0 .. MaxRequests

\* A timer gives up, and for T3592 tells the AMF that the session is released,
\* only after it has sent its command MaxRetryTimes times.
AllRetriesMade ==
  \A t \in Timers : pc[t] \in {"givingUp", "aborting"} => tries[t] = MaxRetryTimes

\* Stop is called only once for a timer, a second call would hang or panic: the
\* context does not keep one that was stopped, whoever replaced or aborted it.
StopOnce == \A k \in Kinds : current[k] \notin stopped

\* A running timer that can no longer be stopped has lost its place in the
\* context to an older timer of its kind that gave up although it was stopped.
\* Otherwise the context has every timer that runs and was not stopped.
RunningIsReachable ==
  \A t \in Running \ stopped :
    \/ current[kind[t]] = t
    \/ \E s \in stopped : s # t /\ kind[s] = kind[t] /\ pc[s] = "off"
                          /\ expireTimes[s] = MaxRetryTimes + 1

\* A timer ends, by Stop or by giving up: none retransmits for ever and none
\* waits for ever for the SMLock.
TimersEnd == \A t \in Timers : t \in Running ~> pc[t] = "off"

\* No handler waits for ever for the lock that the timers share with it.
HandlersFinish == handler = "waiting" ~> handler = "idle"

\* "After Stop, no more timeout event will be triggered": a timer that was
\* stopped neither sends its command again nor gives up.
NoEventAfterStop ==
  [][\A t \in stopped : tries'[t] = tries[t] /\ expireTimes'[t] = expireTimes[t]]_vars
=============================================================================
