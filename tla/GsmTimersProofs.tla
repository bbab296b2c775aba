-------------------------- MODULE GsmTimersProofs --------------------------
(* Proofs about GsmTimers for any number of timers and retransmissions: the  *)
(* type invariant, the number of retransmissions, and that a context has     *)
(* every running timer that was not stopped and none that was.               *)
EXTENDS GsmTimers, TLAPS

\* How many commands a timer has sent follows from where its goroutine is.
TriesCounted ==
  \A t \in Timers :
    /\ pc[t] = "unmade" => tries[t] = 0 /\ expireTimes[t] = 0 /\ t \notin stopped
    /\ pc[t] = "select" => tries[t] = expireTimes[t]
                           /\ expireTimes[t] <= MaxRetryTimes
    /\ pc[t] \in {"expired", "sending"} => tries[t] = expireTimes[t] - 1
                                           /\ expireTimes[t] <= MaxRetryTimes
    /\ pc[t] \in {"givingUp", "aborting"} => tries[t] = MaxRetryTimes
                                             /\ expireTimes[t] = MaxRetryTimes + 1

\* A timer of the context is one of its kind that was made.
CurrentMade ==
  \A k \in Kinds : current[k] # None => /\ kind[current[k]] = k
                                        /\ pc[current[k]] # "unmade"

IInv == /\ TypeOK
        /\ TriesCounted
        /\ CurrentMade
        /\ StopOnce
        /\ RunningIsReachable

\* What the goroutine of a timer keeps.
LEMMA TimerStepKeeps ==
  ASSUME IInv, NEW t \in Timers, TimerStep(t) PROVE IInv'
<1> USE TimerAssumption
    DEF IInv, TypeOK, TriesCounted, CurrentMade, StopOnce, RunningIsReachable,
        Running, Kinds, Pcs, Goto
<1>1. CASE Tick(t)
  BY <1>1 DEF Tick, Exhausted
<1>2. CASE Done(t)
  BY <1>2 DEF Done
<1>3. CASE TakeLock(t)
  BY <1>3 DEF TakeLock
<1>4. CASE Retransmit(t)
  BY <1>4 DEF Retransmit
<1>5. CASE TransferFails(t)
  BY <1>5 DEF TransferFails, UnlockOnError
<1>6. CASE Abort(t)
  BY <1>6 DEF Abort
<1> QED
  BY <1>1, <1>2, <1>3, <1>4, <1>5, <1>6 DEF TimerStep

\* What the handlers keep.
LEMMA HandlerStepKeeps == ASSUME IInv, Arrive \/ HandlerStep PROVE IInv'
<1> USE TimerAssumption
    DEF IInv, TypeOK, TriesCounted, CurrentMade, StopOnce, RunningIsReachable,
        Running, Kinds, Pcs, Goto
<1>1. CASE Arrive
  BY <1>1 DEF Arrive
<1>2. CASE TakeOver
  BY <1>2 DEF TakeOver
<1>3. ASSUME NEW k \in Kinds, SendCommand(k) PROVE IInv'
  BY <1>3 DEF SendCommand, Leave, Stop, Forget
<1>4. ASSUME NEW ks \in SUBSET Kinds, StopTimers(ks) PROVE IInv'
  BY <1>4 DEF StopTimers, Leave, Stop, Forget
<1>5. CASE OtherHandler
  BY <1>5 DEF OtherHandler, Leave
<1> QED
  BY <1>1, <1>2, <1>3, <1>4, <1>5 DEF HandlerStep

\* The inductive invariant always holds.
LEMMA Invariance == Spec => []IInv
<1>1. Init => IInv
  BY TimerAssumption
  DEF Init, IInv, TypeOK, TriesCounted, CurrentMade, StopOnce, RunningIsReachable,
      Running, Kinds, Pcs
<1>2. IInv /\ [Next]_vars => IInv'
  <2>1. CASE UNCHANGED vars
    BY <2>1 DEF vars, IInv, TypeOK, TriesCounted, CurrentMade, StopOnce,
                RunningIsReachable, Running
  <2> QED
    BY <2>1, TimerStepKeeps, HandlerStepKeeps DEF Next
<1> QED
  BY <1>1, <1>2, PTL DEF Spec

\* Every variable keeps its type; a timer never sends its command more than
\* MaxRetryTimes times, however its expiry races with the handlers.
THEOREM TypeCorrect == Spec => []TypeOK
<1>1. IInv => TypeOK
  BY DEF IInv
<1> QED
  BY <1>1, Invariance, PTL

\* cancelFunc is called only after all retransmissions were made.
THEOREM RetriesSafe == Spec => []AllRetriesMade
<1>1. IInv => AllRetriesMade
  BY DEF IInv, TriesCounted, AllRetriesMade
<1> QED
  BY <1>1, Invariance, PTL

\* Timer.Stop is never called twice for one timer, which would hang or panic.
THEOREM StopSafe == Spec => []StopOnce
<1>1. IInv => StopOnce
  BY DEF IInv
<1> QED
  BY <1>1, Invariance, PTL

\* A running timer that nobody can stop any more was displaced by the
\* cancelFunc of an older one that had been stopped too late.
THEOREM ReachableSafe == Spec => []RunningIsReachable
<1>1. IInv => RunningIsReachable
  BY DEF IInv
<1> QED
  BY <1>1, Invariance, PTL
=============================================================================
