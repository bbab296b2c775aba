-------------------------- MODULE SmContextProofs --------------------------
(* Proofs about SmContext for every number of contexts, keys, addresses and  *)
(* UPFs: its type invariant, the accounting of the UE addresses, the         *)
(* soundness of the index, that an accepted session is installed, and what   *)
(* the end of a session leaves behind.                                       *)
EXTENDS SmContext, TLAPS

\* The handlers that hold the SMLock of their context between two of their steps,
\* and those of a Create whose context has just been made.
Locking  == {"setup", "policy", "paths", "localAnswer", "releaseAnswer",
             "dupAnswer", "smReleaseAnswer"}
Creating == {"setup", "policy", "paths"}

\* A handler works on a context of its own key, one at a time under its lock,
\* so nobody else can remove it, or give it an address, while it is set up.
HandlersOwn ==
  \A k \in Keys :
    /\ amf[k].ctx # None => key[amf[k].ctx] = k
    /\ amf[k].pc \notin {"idle", "new"} => amf[k].ctx # None
    /\ amf[k].pc \in Locking => lock[amf[k].ctx] = "amf"
    /\ amf[k].pc \in Creating => amf[k].ctx \in pool
    /\ amf[k].pc = "setup" => addr[amf[k].ctx] = None

\* A policy update holds the lock until the UPFs have answered.
PoliciesOwn == \A c \in Ctxs : pcf[c] = "applied" => lock[c] = "pcf"

\* A context that NewSMContext has not made yet is not in the pool.
FreshUnused == \A c \in Ctxs : key[c] = None => c \notin pool /\ addr[c] = None

IInv == /\ TypeOK
        /\ HandlersOwn
        /\ PoliciesOwn
        /\ FreshUnused
        /\ AddressesAccounted
        /\ IndexSound

-----------------------------------------------------------------------------
(* Types: what each helper assigns, then every action *)

\* Each helper assigns values of the right types.
LEMMA GotoType ==
  ASSUME TypeOK, NEW k \in Keys, NEW p \in AmfPcs, Goto(k, p)
  PROVE  amf' \in [Keys -> [pc : AmfPcs, ctx : Ctxs \cup {None}]]
  BY DEF TypeOK, Goto

\* The answers to the PFCP deletions keep sess, done and troubled typed.
LEMMA DeletionType ==
  ASSUME TypeOK, NEW c \in Ctxs, DeletionSucceeds(c) \/ DeletionFails(c)
  PROVE  /\ sess' \in [Ctxs -> SUBSET UPFs]
         /\ done' \in [Ctxs -> BOOLEAN]
         /\ troubled' \subseteq Ctxs
<1>1. CASE DeletionSucceeds(c)
  BY <1>1 DEF TypeOK, DeletionSucceeds
<1>2. CASE DeletionFails(c)
  <2>1. PICK gone \in SUBSET (sess[c] \cap seid[c]) :
                sess' = [sess EXCEPT ![c] = @ \ gone]
    BY <1>2 DEF DeletionFails
  <2>2. sess[c] \subseteq UPFs
    BY DEF TypeOK
  <2>3. sess' \in [Ctxs -> SUBSET UPFs]
    BY <2>1, <2>2 DEF TypeOK
  <2> QED
    BY <1>2, <2>3 DEF TypeOK, DeletionFails
<1> QED
  BY <1>1, <1>2

\* releaseSession's first half keeps done and active typed.
LEMMA StartDeletionType ==
  ASSUME TypeOK, NEW c \in Ctxs, StartDeletion(c)
  PROVE  /\ done' \in [Ctxs -> BOOLEAN]
         /\ active' \in [Ctxs -> SUBSET UPFs]
  BY DEF TypeOK, StartDeletion

\* What is given back is an address, never None.
LEMMA GiveBackType ==
  ASSUME TypeOK, NEW c \in Ctxs, GiveBack(c)
  PROVE  /\ free' \subseteq Addrs
         /\ addr' \in [Ctxs -> Addrs \cup {None}]
  BY DEF TypeOK, GiveBack

\* Whether the PCF answers or not, SMPolicyID stays typed.
LEMMA TerminatePolicyType ==
  ASSUME TypeOK, NEW c \in Ctxs, TerminatePolicy(c)
  PROVE  policy' \in [Ctxs -> {"none", "bound", "stale"}]
  BY DEF TypeOK, TerminatePolicy

\* A handler that returns has no context any more.
LEMMA FinishType ==
  ASSUME TypeOK, NEW k \in Keys, Finish(k)
  PROVE  amf' \in [Keys -> [pc : AmfPcs, ctx : Ctxs \cup {None}]]
  BY DEF TypeOK, Finish, AmfPcs

\* A context that is to be removed is one, and becomes InActive.
LEMMA RemoveFromAllNFType ==
  ASSUME TypeOK, NEW c \in Ctxs, RemoveFromAllNF(c)
  PROVE  /\ state' \in [Ctxs -> States]
         /\ policy' \in [Ctxs -> {"none", "bound", "stale"}]
         /\ removing' \subseteq Ctxs
  BY DEF TypeOK, RemoveFromAllNF, TerminatePolicy, States

\* The end of an update keeps what it assigns typed.
LEMMA EndUpdateType ==
  ASSUME TypeOK, NEW k \in Keys, amf[k].ctx \in Ctxs, NEW s \in States,
         NEW r, EndUpdate(k, s, r)
  PROVE  /\ state' \in [Ctxs -> States]
         /\ policy' \in [Ctxs -> {"none", "bound", "stale"}]
         /\ removing' \subseteq Ctxs
         /\ amf' \in [Keys -> [pc : AmfPcs, ctx : Ctxs \cup {None}]]
<1>1. Finish(k)
  BY DEF EndUpdate
<1>2. CASE RemoveFromAllNF(amf[k].ctx)
  BY <1>1, <1>2, RemoveFromAllNFType, FinishType
<1>3. CASE ~RemoveFromAllNF(amf[k].ctx)
  BY <1>1, <1>3, FinishType DEF EndUpdate, TypeOK
<1> QED
  BY <1>2, <1>3

\* A handler that is past its lookup has a context.
LEMMA HandlerContext ==
  ASSUME IInv, NEW k \in Keys, amf[k].pc \notin {"idle", "new"}
  PROVE  amf[k].ctx \in Ctxs
  BY DEF IInv, TypeOK, HandlersOwn

\* No action breaks the types.
LEMMA TypeStep == IInv /\ [Next]_vars => TypeOK'
<1> SUFFICES ASSUME IInv, [Next]_vars PROVE TypeOK'
  OBVIOUS
<1> USE ConstAssumption DEF TypeOK, States, AmfPcs, ctxVars, extVars
<1>0. TypeOK
  BY DEF IInv
<1>1. ASSUME NEW k \in Keys, CreateRequest(k) PROVE TypeOK'
  BY <1>0, <1>1, IInv DEF CreateRequest, Arrive, IndexSound, IInv
<1>2. ASSUME NEW k \in Keys, LocalRelease(k) PROVE TypeOK'
  <2>1. amf[k].ctx \in Ctxs
    BY <1>2, HandlerContext DEF LocalRelease
  <2> QED
    BY <1>0, <1>2, <2>1, RemoveFromAllNFType, TerminatePolicyType,
          StartDeletionType, GotoType DEF LocalRelease, Lock
<1>3. ASSUME NEW k \in Keys, LocalReleaseAnswer(k) PROVE TypeOK'
  <2>1. amf[k].ctx \in Ctxs
    BY <1>3, HandlerContext DEF LocalReleaseAnswer
  <2> QED
    BY <1>0, <1>3, <2>1, RemoveFromAllNFType, DeletionType, GotoType
    DEF LocalReleaseAnswer, Unlock
<1>4. ASSUME NEW k \in Keys, NewContext(k) PROVE TypeOK'
  BY <1>0, <1>4 DEF NewContext, Lock
<1>5. ASSUME NEW k \in Keys, CreateReject(k) PROVE TypeOK'
  <2>1. amf[k].ctx \in Ctxs
    BY <1>5, HandlerContext DEF CreateReject
  <2> QED
    BY <1>0, <1>5, <2>1, RemoveFromAllNFType, FinishType
    DEF CreateReject, Unlock
<1>6. ASSUME NEW k \in Keys, CreateNoToken(k) PROVE TypeOK'
  <2>1. amf[k].ctx \in Ctxs
    BY <1>6, HandlerContext DEF CreateNoToken
  <2> QED
    BY <1>0, <1>6, <2>1, FinishType DEF CreateNoToken, Unlock
<1>7. ASSUME NEW k \in Keys, AllocUeIP(k) PROVE TypeOK'
  <2>1. amf[k].ctx \in Ctxs
    BY <1>7, HandlerContext DEF AllocUeIP
  <2> QED
    BY <1>0, <1>7, <2>1, GotoType DEF AllocUeIP
<1>8. ASSUME NEW k \in Keys, PolicyAssociated(k) PROVE TypeOK'
  <2>1. amf[k].ctx \in Ctxs
    BY <1>8, HandlerContext DEF PolicyAssociated
  <2> QED
    BY <1>0, <1>8, <2>1, GotoType DEF PolicyAssociated
<1>9. ASSUME NEW k \in Keys, StartEstablishment(k) PROVE TypeOK'
  <2>1. amf[k].ctx \in Ctxs
    BY <1>9, HandlerContext DEF StartEstablishment
  <2> QED
    BY <1>0, <1>9, <2>1, FinishType DEF StartEstablishment
<1>10. ASSUME NEW k \in Keys, UeReleaseRequest(k) PROVE TypeOK'
  <2>1. amf[k].ctx \in Ctxs
    BY <1>10, HandlerContext DEF UeReleaseRequest
  <2> QED
    BY <1>0, <1>10, <2>1, GiveBackType, TerminatePolicyType,
          StartDeletionType, GotoType DEF UeReleaseRequest, Lock
<1>11. ASSUME NEW k \in Keys, UeReleaseAnswer(k) PROVE TypeOK'
  <2>1. amf[k].ctx \in Ctxs
    BY <1>11, HandlerContext DEF UeReleaseAnswer
  <2> QED
    BY <1>0, <1>11, <2>1, DeletionType, EndUpdateType
    DEF UeReleaseAnswer, Unlock
<1>12. ASSUME NEW k \in Keys, UeReleaseComplete(k) PROVE TypeOK'
  <2>1. amf[k].ctx \in Ctxs
    BY <1>12, HandlerContext DEF UeReleaseComplete, ShortUpdate
  <2> QED
    BY <1>0, <1>12, <2>1, EndUpdateType DEF UeReleaseComplete, ShortUpdate
<1>13. ASSUME NEW k \in Keys, AnReleaseResponse(k) PROVE TypeOK'
  <2>1. amf[k].ctx \in Ctxs
    BY <1>13, HandlerContext DEF AnReleaseResponse, ShortUpdate
  <2> QED
    BY <1>0, <1>13, <2>1, EndUpdateType DEF AnReleaseResponse, ShortUpdate
<1>14. ASSUME NEW k \in Keys, ModifySession(k) PROVE TypeOK'
  <2>1. amf[k].ctx \in Ctxs
    BY <1>14, HandlerContext DEF ModifySession, ShortUpdate
  <2> QED
    BY <1>0, <1>14, <2>1, EndUpdateType DEF ModifySession, ShortUpdate
<1>15. ASSUME NEW k \in Keys, EarlyReturn(k) PROVE TypeOK'
  <2>1. amf[k].ctx \in Ctxs
    BY <1>15, HandlerContext DEF EarlyReturn, ShortUpdate
  <2> QED
    BY <1>0, <1>15, <2>1, FinishType DEF EarlyReturn, ShortUpdate
<1>16. ASSUME NEW k \in Keys, Deactivate(k) PROVE TypeOK'
  <2>1. amf[k].ctx \in Ctxs
    BY <1>16, HandlerContext DEF Deactivate, ShortUpdate
  <2> QED
    BY <1>0, <1>16, <2>1, EndUpdateType DEF Deactivate, ShortUpdate
<1>17. ASSUME NEW k \in Keys, PlainUpdate(k) PROVE TypeOK'
  <2>1. amf[k].ctx \in Ctxs
    BY <1>17, HandlerContext DEF PlainUpdate, ShortUpdate
  <2>2. PICK s \in States : EndUpdate(k, s, FALSE)
    <3>1. CASE state[amf[k].ctx] = "ModificationPending"
      BY <1>17, <3>1 DEF PlainUpdate
    <3>2. CASE state[amf[k].ctx] # "ModificationPending"
      BY <1>0, <1>17, <2>1, <3>2 DEF PlainUpdate
    <3> QED
      BY <3>1, <3>2
  <2>3. /\ state' \in [Ctxs -> States]
        /\ policy' \in [Ctxs -> {"none", "bound", "stale"}]
        /\ removing' \subseteq Ctxs
        /\ amf' \in [Keys -> [pc : AmfPcs, ctx : Ctxs \cup {None}]]
    <3> HIDE DEF TypeOK, States, AmfPcs
    <3> QED
      BY <1>0, <2>1, <2>2, EndUpdateType
  <2> QED
    BY <1>0, <1>17, <2>3 DEF PlainUpdate, ShortUpdate
<1>18. ASSUME NEW k \in Keys, DupRelease(k) PROVE TypeOK'
  <2>1. amf[k].ctx \in Ctxs
    BY <1>18, HandlerContext DEF DupRelease
  <2> QED
    BY <1>0, <1>18, <2>1, RemoveFromAllNFType, StartDeletionType, GotoType,
          FinishType DEF DupRelease, Lock
<1>19. ASSUME NEW k \in Keys, DupReleaseAnswer(k) PROVE TypeOK'
  <2>1. amf[k].ctx \in Ctxs
    BY <1>19, HandlerContext DEF DupReleaseAnswer
  <2> QED
    BY <1>0, <1>19, <2>1, RemoveFromAllNFType, DeletionType, FinishType
    DEF DupReleaseAnswer, Unlock
<1>20. ASSUME NEW k \in Keys, Release(k) PROVE TypeOK'
  <2>1. amf[k].ctx \in Ctxs
    BY <1>20, HandlerContext DEF Release
  <2> QED
    BY <1>0, <1>20, <2>1, RemoveFromAllNFType, TerminatePolicyType,
          StartDeletionType, GotoType, FinishType DEF Release, Lock
<1>21. ASSUME NEW k \in Keys, ReleaseAnswer(k) PROVE TypeOK'
  <2>1. amf[k].ctx \in Ctxs
    BY <1>21, HandlerContext DEF ReleaseAnswer
  <2> QED
    BY <1>0, <1>21, <2>1, RemoveFromAllNFType, DeletionType, FinishType
    DEF ReleaseAnswer, Unlock
<1>22. ASSUME NEW k \in Keys, NEW c \in Ctxs, UpdateRequest(k, c) PROVE TypeOK'
  BY <1>0, <1>22 DEF UpdateRequest, Arrive
<1>23. ASSUME NEW k \in Keys, NEW c \in Ctxs, ReleaseRequest(k, c) PROVE TypeOK'
  BY <1>0, <1>23 DEF ReleaseRequest, Arrive
<1>24. ASSUME NEW c \in Ctxs, NEW u \in UPFs, EstablishAnswer(c, u)
       PROVE  TypeOK'
  <2>1. wait' \in [Ctxs -> SUBSET UPFs] /\ ok' \in [Ctxs -> BOOLEAN]
    BY <1>0, <1>24 DEF EstablishAnswer, Collect
  <2>2. PICK s \in {{}, {u}} : sess' = [sess EXCEPT ![c] = @ \cup s]
    BY <1>24 DEF EstablishAnswer
  <2>3. sess' \in [Ctxs -> SUBSET UPFs]
    BY <1>0, <2>2
  <2>4. /\ seid' \in {seid, [seid EXCEPT ![c] = @ \cup {u}]}
        /\ troubled' \in {troubled, troubled \cup {c}}
    <3> HIDE DEF TypeOK
    <3> QED
      BY <1>24 DEF EstablishAnswer
  <2>5. seid' \in [Ctxs -> SUBSET UPFs]
    BY <1>0, <2>4
  <2>6. troubled' \subseteq Ctxs
    BY <1>0, <2>4
  <2> QED
    BY <1>0, <1>24, <2>1, <2>3, <2>5, <2>6 DEF EstablishAnswer
<1>25. ASSUME NEW c \in Ctxs, EstablishAccept(c) PROVE TypeOK'
  BY <1>0, <1>25 DEF EstablishAccept, Unlock
<1>26. ASSUME NEW c \in Ctxs, EstablishReject(c) PROVE TypeOK'
  BY <1>0, <1>26, RemoveFromAllNFType DEF EstablishReject, Unlock
<1>27. ASSUME NEW c \in Ctxs, Remove(c) PROVE TypeOK'
  <2>1. canonical' \in [Keys -> Ctxs \cup {None}]
    BY <1>0, <1>27 DEF Remove, DropIndex
  <2>2. free' \subseteq Addrs /\ upf' \in [Ctxs -> BOOLEAN]
    <3>1. CASE addr[c] # None /\ free' = free \cup {addr[c]}
               /\ upf' = [upf EXCEPT ![c] = FALSE]
      BY <1>0, <3>1
    <3>2. CASE UNCHANGED <<free, upf>>
      BY <1>0, <3>2
    <3> QED
      BY <1>27, <3>1, <3>2 DEF Remove
  <2> QED
    BY <1>0, <1>27, <2>1, <2>2 DEF Remove
<1>28. ASSUME NEW c \in Ctxs, PolicyNotify(c) PROVE TypeOK'
  BY <1>0, <1>28 DEF PolicyNotify, Arrive
<1>29. ASSUME NEW c \in Ctxs, PolicyRefused(c) PROVE TypeOK'
  BY <1>0, <1>29 DEF PolicyRefused
<1>30. ASSUME NEW c \in Ctxs, PolicyApply(c) PROVE TypeOK'
  BY <1>0, <1>30 DEF PolicyApply, Lock
<1>31. ASSUME NEW c \in Ctxs, PolicyAnswers(c) PROVE TypeOK'
  BY <1>0, <1>31 DEF PolicyAnswers, Unlock
<1>32. ASSUME NEW c \in Ctxs, VisitContext(c) PROVE TypeOK'
  BY <1>0, <1>32 DEF VisitContext, Arrive
<1>33. ASSUME ReleaseLostSession PROVE TypeOK'
  BY <1>0, <1>33, RemoveFromAllNFType DEF ReleaseLostSession
<1>34. ASSUME NEW c \in Ctxs, UsageReport(c) PROVE TypeOK'
  BY <1>0, <1>34 DEF UsageReport, Arrive, AfterCharging
<1>35. CASE UNCHANGED vars
  BY <1>0, <1>35 DEF vars
<1> QED
  BY <1>1, <1>2, <1>3, <1>4, <1>5, <1>6, <1>7, <1>8, <1>9, <1>10, <1>11,
        <1>12, <1>13, <1>14, <1>15, <1>16, <1>17, <1>18, <1>19, <1>20, <1>21,
        <1>22, <1>23, <1>24, <1>25, <1>26, <1>27, <1>28, <1>29, <1>30, <1>31,
        <1>32, <1>33, <1>34, <1>35
      DEF Next, HandlerStep, EstablishStep, PolicyStep

-----------------------------------------------------------------------------
(* Which actions change the index, and which the addresses *)

\* Only NewSMContext and RemoveSMContext change the pool and the index.
LEMMA PoolSteps ==
  ASSUME [Next]_vars
  PROVE  \/ UNCHANGED <<pool, canonical, key>>
         \/ \E k \in Keys : NewContext(k)
         \/ \E c \in Ctxs : Remove(c)
<1> USE DEF ctxVars
<1>1. ASSUME NEW k \in Keys, HandlerStep(k), ~NewContext(k)
      PROVE  UNCHANGED <<pool, canonical, key>>
  BY <1>1 DEF HandlerStep, LocalRelease, LocalReleaseAnswer, CreateReject,
      CreateNoToken, AllocUeIP, PolicyAssociated, StartEstablishment,
      UeReleaseRequest, UeReleaseAnswer, UeReleaseComplete, AnReleaseResponse,
      ModifySession, EarlyReturn, Deactivate, PlainUpdate, DupRelease,
      DupReleaseAnswer, Release, ReleaseAnswer, ShortUpdate
<1>2. ASSUME NEW c \in Ctxs, EstablishStep(c)
      PROVE  UNCHANGED <<pool, canonical, key>>
  BY <1>2 DEF EstablishStep, EstablishAnswer, EstablishAccept, EstablishReject
<1>3. ASSUME NEW c \in Ctxs, PolicyStep(c)
      PROVE  UNCHANGED <<pool, canonical, key>>
  BY <1>3 DEF PolicyStep, PolicyRefused, PolicyApply, PolicyAnswers
<1>4. ASSUME NEW k \in Keys,
             CreateRequest(k) \/ \E c \in Ctxs : UpdateRequest(k, c) \/ ReleaseRequest(k, c)
      PROVE  UNCHANGED <<pool, canonical, key>>
  BY <1>4 DEF CreateRequest, UpdateRequest, ReleaseRequest
<1>5. ASSUME NEW c \in Ctxs, PolicyNotify(c) \/ VisitContext(c) \/ UsageReport(c)
      PROVE  UNCHANGED <<pool, canonical, key>>
  BY <1>5 DEF PolicyNotify, VisitContext, UsageReport
<1>6. ASSUME ReleaseLostSession PROVE UNCHANGED <<pool, canonical, key>>
  BY <1>6 DEF ReleaseLostSession
<1>7. CASE UNCHANGED vars
  BY <1>7 DEF vars
<1> QED
  BY <1>1, <1>2, <1>3, <1>4, <1>5, <1>6, <1>7 DEF Next

\* Only AllocUeIP, the N1 release request and RemoveSMContext move addresses.
LEMMA AddressSteps ==
  ASSUME [Next]_vars
  PROVE  \/ UNCHANGED <<addr, upf, free>>
         \/ \E k \in Keys : AllocUeIP(k) \/ UeReleaseRequest(k)
         \/ \E c \in Ctxs : Remove(c)
<1> USE DEF ctxVars
<1>1. ASSUME NEW k \in Keys, HandlerStep(k), ~AllocUeIP(k), ~UeReleaseRequest(k)
      PROVE  UNCHANGED <<addr, upf, free>>
  BY <1>1 DEF HandlerStep, LocalRelease, LocalReleaseAnswer, NewContext,
      CreateReject, CreateNoToken, PolicyAssociated, StartEstablishment,
      UeReleaseAnswer, UeReleaseComplete, AnReleaseResponse, ModifySession,
      EarlyReturn, Deactivate, PlainUpdate, DupRelease, DupReleaseAnswer,
      Release, ReleaseAnswer, ShortUpdate
<1>2. ASSUME NEW c \in Ctxs, EstablishStep(c)
      PROVE  UNCHANGED <<addr, upf, free>>
  BY <1>2 DEF EstablishStep, EstablishAnswer, EstablishAccept, EstablishReject
<1>3. ASSUME NEW c \in Ctxs, PolicyStep(c) PROVE UNCHANGED <<addr, upf, free>>
  BY <1>3 DEF PolicyStep, PolicyRefused, PolicyApply, PolicyAnswers
<1>4. ASSUME NEW k \in Keys,
             CreateRequest(k) \/ \E c \in Ctxs : UpdateRequest(k, c) \/ ReleaseRequest(k, c)
      PROVE  UNCHANGED <<addr, upf, free>>
  BY <1>4 DEF CreateRequest, UpdateRequest, ReleaseRequest
<1>5. ASSUME NEW c \in Ctxs, PolicyNotify(c) \/ VisitContext(c) \/ UsageReport(c)
      PROVE  UNCHANGED <<addr, upf, free>>
  BY <1>5 DEF PolicyNotify, VisitContext, UsageReport
<1>6. ASSUME ReleaseLostSession PROVE UNCHANGED <<addr, upf, free>>
  BY <1>6 DEF ReleaseLostSession
<1>7. CASE UNCHANGED vars
  BY <1>7 DEF vars
<1> QED
  BY <1>1, <1>2, <1>3, <1>4, <1>5, <1>6, <1>7 DEF Next

\* No action makes the index lead astray.
LEMMA IndexStep == IInv /\ [Next]_vars => IndexSound'
<1> SUFFICES ASSUME IInv, [Next]_vars PROVE IndexSound'
  OBVIOUS
<1>1. CASE UNCHANGED <<pool, canonical, key>>
  BY <1>1 DEF IInv, IndexSound
<1>2. ASSUME NEW k \in Keys, NewContext(k) PROVE IndexSound'
  BY <1>2, ConstAssumption DEF IInv, IndexSound, TypeOK, FreshUnused, NewContext
<1>3. ASSUME NEW c \in Ctxs, Remove(c) PROVE IndexSound'
  BY <1>3, ConstAssumption
  DEF IInv, IndexSound, TypeOK, FreshUnused, Remove, DropIndex
<1> QED
  BY <1>1, <1>2, <1>3, PoolSteps

\* No action gives something to a context that is not made yet.
LEMMA FreshStep == IInv /\ [Next]_vars => FreshUnused'
<1> SUFFICES ASSUME IInv, [Next]_vars, NEW c \in Ctxs, key'[c] = None
             PROVE  c \notin pool' /\ addr'[c] = None
  BY DEF FreshUnused
<1>1. key[c] = None /\ c \notin pool'
  <2>1. CASE UNCHANGED <<pool, canonical, key>>
    BY <2>1 DEF IInv, FreshUnused
  <2>2. ASSUME NEW k \in Keys, NewContext(k)
        PROVE  key[c] = None /\ c \notin pool'
    BY <2>2, ConstAssumption DEF IInv, FreshUnused, TypeOK, NewContext
  <2>3. ASSUME NEW d \in Ctxs, Remove(d) PROVE key[c] = None /\ c \notin pool'
    BY <2>3 DEF IInv, FreshUnused, Remove
  <2> QED
    BY <2>1, <2>2, <2>3, PoolSteps
<1>2. addr[c] = None
  BY <1>1 DEF IInv, FreshUnused
<1>3. addr'[c] = None
  <2>1. CASE UNCHANGED <<addr, upf, free>>
    BY <1>2, <2>1
  <2>2. ASSUME NEW k \in Keys, AllocUeIP(k) PROVE addr'[c] = None
    BY <1>1, <1>2, <2>2, ConstAssumption
    DEF IInv, HandlersOwn, TypeOK, AllocUeIP
  <2>3. ASSUME NEW k \in Keys, UeReleaseRequest(k) PROVE addr'[c] = None
    BY <1>2, <2>3 DEF IInv, TypeOK, UeReleaseRequest, GiveBack
  <2>4. ASSUME NEW d \in Ctxs, Remove(d) PROVE addr'[c] = None
    BY <1>2, <2>4 DEF Remove
  <2> QED
    BY <2>1, <2>2, <2>3, <2>4, AddressSteps
<1> QED
  BY <1>1, <1>3

-----------------------------------------------------------------------------
(* Who holds a lock *)

\* No action takes a handler's lock, context or pool entry away from it.
LEMMA HandlersStep == IInv /\ [Next]_vars => HandlersOwn'
<1> SUFFICES ASSUME IInv, [Next]_vars PROVE HandlersOwn'
  OBVIOUS
<1>0. /\ amf \in [Keys -> [pc : AmfPcs, ctx : Ctxs \cup {None}]]
      /\ lock \in [Ctxs -> {None, "amf", "est", "pcf"}]
      /\ key \in [Ctxs -> Keys \cup {None}]
      /\ addr \in [Ctxs -> Addrs \cup {None}]
      /\ canonical \in [Keys -> Ctxs \cup {None}]
      /\ HandlersOwn /\ PoliciesOwn /\ FreshUnused /\ IndexSound
  BY DEF IInv, TypeOK
<1> USE ConstAssumption DEF
        HandlersOwn, PoliciesOwn, FreshUnused, Locking, Creating, AmfPcs, ctxVars
<1>1. ASSUME NEW k \in Keys, CreateRequest(k) PROVE HandlersOwn'
  BY <1>0, <1>1 DEF CreateRequest, IndexSound
<1>2. ASSUME NEW k \in Keys, LocalRelease(k) PROVE HandlersOwn'
  BY <1>0, <1>2 DEF LocalRelease, Goto, Lock
<1>3. ASSUME NEW k \in Keys, LocalReleaseAnswer(k) PROVE HandlersOwn'
  BY <1>0, <1>3 DEF LocalReleaseAnswer, Unlock, Goto
<1>4. ASSUME NEW k \in Keys, NewContext(k) PROVE HandlersOwn'
  BY <1>0, <1>4 DEF NewContext, Lock
<1>5. ASSUME NEW k \in Keys, CreateReject(k) PROVE HandlersOwn'
  BY <1>0, <1>5 DEF CreateReject, Unlock, Finish
<1>6. ASSUME NEW k \in Keys, CreateNoToken(k) PROVE HandlersOwn'
  BY <1>0, <1>6 DEF CreateNoToken, Unlock, Finish
<1>7. ASSUME NEW k \in Keys, AllocUeIP(k) PROVE HandlersOwn'
  BY <1>0, <1>7 DEF AllocUeIP, Goto
<1>8. ASSUME NEW k \in Keys, PolicyAssociated(k) PROVE HandlersOwn'
  BY <1>0, <1>8 DEF PolicyAssociated, Goto
<1>9. ASSUME NEW k \in Keys, StartEstablishment(k) PROVE HandlersOwn'
  BY <1>0, <1>9 DEF StartEstablishment, Finish
<1>10. ASSUME NEW k \in Keys, UeReleaseRequest(k) PROVE HandlersOwn'
  BY <1>0, <1>10 DEF UeReleaseRequest, Lock, GiveBack, Goto
<1>11. ASSUME NEW k \in Keys, UeReleaseAnswer(k) PROVE HandlersOwn'
  <2>1. /\ amf[k].pc = "releaseAnswer" /\ UNCHANGED <<pool, key, addr>>
        /\ amf' = [amf EXCEPT ![k] = [pc |-> "idle", ctx |-> None]]
        /\ lock' = [lock EXCEPT ![amf[k].ctx] = None]
    BY <1>11 DEF UeReleaseAnswer, EndUpdate, Unlock, Finish
  <2> QED
    BY <1>0, <2>1
<1>12. ASSUME NEW k \in Keys, UeReleaseComplete(k) PROVE HandlersOwn'
  BY <1>0, <1>12 DEF UeReleaseComplete, ShortUpdate, EndUpdate, Finish
<1>13. ASSUME NEW k \in Keys, AnReleaseResponse(k) PROVE HandlersOwn'
  BY <1>0, <1>13 DEF AnReleaseResponse, ShortUpdate, EndUpdate, Finish
<1>14. ASSUME NEW k \in Keys, ModifySession(k) PROVE HandlersOwn'
  BY <1>0, <1>14 DEF ModifySession, ShortUpdate, EndUpdate, Finish
<1>15. ASSUME NEW k \in Keys, EarlyReturn(k) PROVE HandlersOwn'
  BY <1>0, <1>15 DEF EarlyReturn, ShortUpdate, Finish
<1>16. ASSUME NEW k \in Keys, Deactivate(k) PROVE HandlersOwn'
  BY <1>0, <1>16 DEF Deactivate, ShortUpdate, EndUpdate, Finish
<1>17. ASSUME NEW k \in Keys, PlainUpdate(k) PROVE HandlersOwn'
  BY <1>0, <1>17 DEF PlainUpdate, ShortUpdate, EndUpdate, Finish
<1>18. ASSUME NEW k \in Keys, DupRelease(k) PROVE HandlersOwn'
  BY <1>0, <1>18 DEF DupRelease, Lock, Goto, Finish
<1>19. ASSUME NEW k \in Keys, DupReleaseAnswer(k) PROVE HandlersOwn'
  BY <1>0, <1>19 DEF DupReleaseAnswer, Finish, Unlock
<1>20. ASSUME NEW k \in Keys, Release(k) PROVE HandlersOwn'
  BY <1>0, <1>20 DEF Release, Finish, Lock, Goto
<1>21. ASSUME NEW k \in Keys, ReleaseAnswer(k) PROVE HandlersOwn'
  BY <1>0, <1>21 DEF ReleaseAnswer, Finish, Unlock
<1>22. ASSUME NEW k \in Keys, NEW c \in Ctxs, UpdateRequest(k, c)
       PROVE  HandlersOwn'
  BY <1>0, <1>22 DEF UpdateRequest
<1>23. ASSUME NEW k \in Keys, NEW c \in Ctxs, ReleaseRequest(k, c)
       PROVE  HandlersOwn'
  BY <1>0, <1>23 DEF ReleaseRequest
<1>24. ASSUME NEW c \in Ctxs, NEW u \in UPFs, EstablishAnswer(c, u)
       PROVE  HandlersOwn'
  BY <1>0, <1>24 DEF EstablishAnswer
<1>25. ASSUME NEW c \in Ctxs, EstablishAccept(c) PROVE HandlersOwn'
  BY <1>0, <1>25 DEF EstablishAccept, Unlock
<1>26. ASSUME NEW c \in Ctxs, EstablishReject(c) PROVE HandlersOwn'
  BY <1>0, <1>26 DEF EstablishReject, Unlock
<1>27. ASSUME NEW c \in Ctxs, Remove(c) PROVE HandlersOwn'
  BY <1>0, <1>27 DEF Remove
<1>28. ASSUME NEW c \in Ctxs, PolicyNotify(c) PROVE HandlersOwn'
  BY <1>0, <1>28 DEF PolicyNotify
<1>29. ASSUME NEW c \in Ctxs, PolicyRefused(c) PROVE HandlersOwn'
  BY <1>0, <1>29 DEF PolicyRefused
<1>30. ASSUME NEW c \in Ctxs, PolicyApply(c) PROVE HandlersOwn'
  BY <1>0, <1>30 DEF PolicyApply, Lock
<1>31. ASSUME NEW c \in Ctxs, PolicyAnswers(c) PROVE HandlersOwn'
  BY <1>0, <1>31 DEF PolicyAnswers, Unlock
<1>32. ASSUME NEW c \in Ctxs, VisitContext(c) PROVE HandlersOwn'
  BY <1>0, <1>32 DEF VisitContext
<1>33. ASSUME ReleaseLostSession PROVE HandlersOwn'
  BY <1>0, <1>33 DEF ReleaseLostSession
<1>34. ASSUME NEW c \in Ctxs, UsageReport(c) PROVE HandlersOwn'
  BY <1>0, <1>34 DEF UsageReport
<1>35. CASE UNCHANGED vars
  BY <1>0, <1>35 DEF vars
<1> QED
  BY <1>1, <1>2, <1>3, <1>4, <1>5, <1>6, <1>7, <1>8, <1>9, <1>10, <1>11,
     <1>12, <1>13, <1>14, <1>15, <1>16, <1>17, <1>18, <1>19, <1>20, <1>21,
     <1>22, <1>23, <1>24, <1>25, <1>26, <1>27, <1>28, <1>29, <1>30, <1>31,
     <1>32, <1>33, <1>34, <1>35
     DEF Next, HandlerStep, EstablishStep, PolicyStep

\* No action takes the lock of a policy update away from it.
LEMMA PoliciesStep == IInv /\ [Next]_vars => PoliciesOwn'
<1> SUFFICES ASSUME IInv, [Next]_vars PROVE PoliciesOwn'
  OBVIOUS
<1>0. /\ lock \in [Ctxs -> {None, "amf", "est", "pcf"}]
      /\ pcf \in [Ctxs -> {"idle", "notified", "applied"}]
      /\ amf \in [Keys -> [pc : AmfPcs, ctx : Ctxs \cup {None}]]
      /\ HandlersOwn /\ PoliciesOwn
  BY DEF IInv, TypeOK
<1> USE ConstAssumption DEF HandlersOwn, PoliciesOwn, Locking
<1>1. CASE UNCHANGED <<lock, pcf>>
  BY <1>0, <1>1
<1>2. ASSUME NEW k \in Keys, LocalRelease(k) PROVE PoliciesOwn'
  BY <1>0, <1>2 DEF LocalRelease, Lock
<1>3. ASSUME NEW k \in Keys, LocalReleaseAnswer(k) PROVE PoliciesOwn'
  BY <1>0, <1>3 DEF LocalReleaseAnswer, Unlock
<1>4. ASSUME NEW k \in Keys, NewContext(k) PROVE PoliciesOwn'
  BY <1>0, <1>4 DEF NewContext, Lock
<1>5. ASSUME NEW k \in Keys, CreateReject(k) PROVE PoliciesOwn'
  BY <1>0, <1>5 DEF CreateReject, Unlock
<1>6. ASSUME NEW k \in Keys, CreateNoToken(k) PROVE PoliciesOwn'
  BY <1>0, <1>6 DEF CreateNoToken, Unlock
<1>7. ASSUME NEW k \in Keys, StartEstablishment(k) PROVE PoliciesOwn'
  BY <1>0, <1>7 DEF StartEstablishment
<1>8. ASSUME NEW k \in Keys, UeReleaseRequest(k) PROVE PoliciesOwn'
  BY <1>0, <1>8 DEF UeReleaseRequest, Lock
<1>9. ASSUME NEW k \in Keys, UeReleaseAnswer(k) PROVE PoliciesOwn'
  BY <1>0, <1>9 DEF UeReleaseAnswer, Unlock
<1>10. ASSUME NEW k \in Keys, DupRelease(k) PROVE PoliciesOwn'
  BY <1>0, <1>10 DEF DupRelease, Lock
<1>11. ASSUME NEW k \in Keys, DupReleaseAnswer(k) PROVE PoliciesOwn'
  BY <1>0, <1>11 DEF DupReleaseAnswer, Unlock
<1>12. ASSUME NEW k \in Keys, Release(k) PROVE PoliciesOwn'
  BY <1>0, <1>12 DEF Release, Lock
<1>13. ASSUME NEW k \in Keys, ReleaseAnswer(k) PROVE PoliciesOwn'
  BY <1>0, <1>13 DEF ReleaseAnswer, Unlock
<1>14. ASSUME NEW c \in Ctxs, EstablishAccept(c) PROVE PoliciesOwn'
  BY <1>0, <1>14 DEF EstablishAccept, Unlock
<1>15. ASSUME NEW c \in Ctxs, EstablishReject(c) PROVE PoliciesOwn'
  BY <1>0, <1>15 DEF EstablishReject, Unlock
<1>16. ASSUME NEW c \in Ctxs, PolicyNotify(c) PROVE PoliciesOwn'
  BY <1>0, <1>16 DEF PolicyNotify
<1>17. ASSUME NEW c \in Ctxs, PolicyRefused(c) PROVE PoliciesOwn'
  BY <1>0, <1>17 DEF PolicyRefused
<1>18. ASSUME NEW c \in Ctxs, PolicyApply(c) PROVE PoliciesOwn'
  BY <1>0, <1>18 DEF PolicyApply, Lock
<1>19. ASSUME NEW c \in Ctxs, PolicyAnswers(c) PROVE PoliciesOwn'
  BY <1>0, <1>19 DEF PolicyAnswers, Unlock
<1>20. ASSUME NEW k \in Keys,
              \/ AllocUeIP(k) \/ PolicyAssociated(k) \/ UeReleaseComplete(k)
              \/ AnReleaseResponse(k) \/ ModifySession(k) \/ EarlyReturn(k)
              \/ Deactivate(k) \/ PlainUpdate(k)
       PROVE  UNCHANGED <<lock, pcf>>
  BY <1>20
  DEF AllocUeIP, PolicyAssociated, UeReleaseComplete, AnReleaseResponse,
               ModifySession, EarlyReturn, Deactivate, PlainUpdate, ShortUpdate
<1>21. ASSUME NEW k \in Keys,
             CreateRequest(k) \/ \E c \in Ctxs : UpdateRequest(k, c) \/ ReleaseRequest(k, c)
      PROVE  UNCHANGED <<lock, pcf>>
  BY <1>21 DEF CreateRequest, UpdateRequest, ReleaseRequest
<1>22. ASSUME NEW c \in Ctxs,
             \/ VisitContext(c) \/ Remove(c) \/ UsageReport(c)
             \/ \E u \in UPFs : EstablishAnswer(c, u)
      PROVE  UNCHANGED <<lock, pcf>>
  BY <1>22 DEF VisitContext, Remove, UsageReport, EstablishAnswer
<1>23. ASSUME ReleaseLostSession \/ UNCHANGED vars PROVE UNCHANGED <<lock, pcf>>
  BY <1>23 DEF ReleaseLostSession, vars
<1> QED
  BY <1>1, <1>2, <1>3, <1>4, <1>5, <1>6, <1>7, <1>8, <1>9, <1>10, <1>11,
     <1>12, <1>13, <1>14, <1>15, <1>16, <1>17, <1>18, <1>19, <1>20, <1>21,
     <1>22, <1>23
     DEF Next, HandlerStep, EstablishStep, PolicyStep

-----------------------------------------------------------------------------
(* The UE addresses *)

\* No action loses or doubles an address.
LEMMA AddressStep == IInv /\ [Next]_vars => AddressesAccounted'
<1> SUFFICES ASSUME IInv, [Next]_vars PROVE AddressesAccounted'
  OBVIOUS
<1>0. /\ addr \in [Ctxs -> Addrs \cup {None}]
      /\ upf \in [Ctxs -> BOOLEAN]
      /\ free \subseteq Addrs
      /\ AddressesAccounted
  BY DEF IInv, TypeOK
<1> USE ConstAssumption DEF AddressesAccounted, Holds
<1>1. ASSUME NEW c \in Ctxs, Remove(c) PROVE AddressesAccounted'
  BY <1>0, <1>1 DEF Remove
<1>2. CASE ~\E c \in Ctxs : Remove(c)
  <2>1. pool \subseteq pool'
    BY <1>2, PoolSteps DEF NewContext
  <2>2. CASE UNCHANGED <<addr, upf, free>>
    BY <1>0, <2>1, <2>2
  <2>3. ASSUME NEW k \in Keys, AllocUeIP(k) PROVE AddressesAccounted'
    <3>1. amf[k].ctx \in pool /\ addr[amf[k].ctx] = None /\ amf[k].ctx \in Ctxs
      BY <2>3, HandlerContext DEF IInv, HandlersOwn, Creating, AllocUeIP
    <3> QED
      BY <1>0, <2>1, <2>3, <3>1 DEF AllocUeIP
  <2>4. ASSUME NEW k \in Keys, UeReleaseRequest(k) PROVE AddressesAccounted'
    <3>1. amf[k].ctx \in Ctxs
      BY <2>4, HandlerContext DEF UeReleaseRequest
    <3> QED
      BY <1>0, <2>1, <2>4, <3>1 DEF UeReleaseRequest, GiveBack
  <2> QED
    BY <1>2, <2>2, <2>3, <2>4, AddressSteps
<1> QED
  BY <1>1, <1>2

-----------------------------------------------------------------------------
(* The inductive invariant, and the theorems that follow from it *)

\* The initial state satisfies the inductive invariant.
LEMMA InitHolds == Init => IInv
  BY ConstAssumption
  DEF Init, IInv, TypeOK, States, AmfPcs, HandlersOwn, PoliciesOwn, FreshUnused,
      Locking, Creating, AddressesAccounted, Holds, IndexSound

\* Every step keeps the inductive invariant.
LEMMA NextHolds == IInv /\ [Next]_vars => IInv'
  BY TypeStep, HandlersStep, PoliciesStep, FreshStep, AddressStep, IndexStep
  DEF IInv

\* The inductive invariant always holds.
LEMMA Invariance == Spec => []IInv
  BY InitHolds, NextHolds, PTL DEF Spec

\* Every variable keeps its type, for any number of contexts, keys and UPFs: a
\* handler never works on "no context", and nothing that is not an address ever
\* enters the pool of addresses.
THEOREM TypeCorrect == Spec => []TypeOK
<1>1. IInv => TypeOK
  BY DEF IInv
<1> QED
  BY <1>1, Invariance, PTL

\* No sequence of handlers and goroutines loses an address, gives it back twice
\* or gives one to two contexts (ReleaseUEIP in the update handler and in
\* RemoveSMContext, AllocUeIP in the create handler).
THEOREM AddressesSafe == Spec => []AddressesAccounted
<1>1. IInv => AddressesAccounted
  BY DEF IInv
<1> QED
  BY <1>1, Invariance, PTL

\* canonicalRef never leads to a removed context or to one of another session
\* (NewSMContext stores, RemoveSMContext deletes whatever is under the key).
THEOREM IndexSafe == Spec => []IndexSound
<1>1. IInv => IndexSound
  BY DEF IInv
<1> QED
  BY <1>1, Invariance, PTL

-----------------------------------------------------------------------------
(* Establishment *)

\* While the establishment goroutine has the lock, and as long as nobody refused,
\* the UPFs that have answered hold the session and the SMF knows their SEIDs.
InstalledSoFar ==
  \A c \in Ctxs : lock[c] = "est" /\ ok[c]
     => path[c] \ wait[c] \subseteq sess[c] \cap seid[c]

\* No action takes a session away from an establishment that is under way.
LEMMA InstalledStep == IInv /\ InstalledSoFar /\ [Next]_vars => InstalledSoFar'
<1> SUFFICES ASSUME IInv, InstalledSoFar, [Next]_vars PROVE InstalledSoFar'
  OBVIOUS
<1>0. /\ lock \in [Ctxs -> {None, "amf", "est", "pcf"}]
      /\ path \in [Ctxs -> SUBSET UPFs]
      /\ wait \in [Ctxs -> SUBSET UPFs]
      /\ sess \in [Ctxs -> SUBSET UPFs]
      /\ seid \in [Ctxs -> SUBSET UPFs]
      /\ ok \in [Ctxs -> BOOLEAN]
      /\ HandlersOwn /\ PoliciesOwn
  BY DEF IInv, TypeOK
<1> USE ConstAssumption DEF HandlersOwn, PoliciesOwn, Locking, InstalledSoFar
<1>1. CASE UNCHANGED <<lock, ok, path, wait, sess, seid>>
  BY <1>0, <1>1
<1>2. ASSUME NEW k \in Keys, LocalRelease(k) PROVE InstalledSoFar'
  BY <1>0, <1>2 DEF LocalRelease, Lock, ctxVars, extVars
<1>3. ASSUME NEW k \in Keys, LocalReleaseAnswer(k) PROVE InstalledSoFar'
  BY <1>0, <1>3
  DEF LocalReleaseAnswer, Unlock, DeletionSucceeds, DeletionFails, ctxVars, extVars
<1>4. ASSUME NEW k \in Keys, NewContext(k) PROVE InstalledSoFar'
  BY <1>0, <1>4 DEF NewContext, Lock, ctxVars, extVars
<1>5. ASSUME NEW k \in Keys, CreateReject(k) PROVE InstalledSoFar'
  BY <1>0, <1>5 DEF CreateReject, Unlock, ctxVars, extVars
<1>6. ASSUME NEW k \in Keys, CreateNoToken(k) PROVE InstalledSoFar'
  BY <1>0, <1>6 DEF CreateNoToken, Unlock, ctxVars, extVars
<1>7. ASSUME NEW k \in Keys, PolicyAssociated(k) PROVE InstalledSoFar'
  BY <1>0, <1>7 DEF PolicyAssociated, ctxVars, extVars
<1>8. ASSUME NEW k \in Keys, StartEstablishment(k) PROVE InstalledSoFar'
  BY <1>0, <1>8 DEF StartEstablishment, ctxVars, extVars
<1>9. ASSUME NEW k \in Keys, UeReleaseRequest(k) PROVE InstalledSoFar'
  BY <1>0, <1>9 DEF UeReleaseRequest, Lock, ctxVars, extVars
<1>10. ASSUME NEW k \in Keys, UeReleaseAnswer(k) PROVE InstalledSoFar'
  <2> DEFINE d == amf[k].ctx
  <2>1. /\ lock[d] = "amf" /\ lock' = [lock EXCEPT ![d] = None]
        /\ UNCHANGED <<ok, path, wait, seid>>
    BY <1>0, <1>10 DEF UeReleaseAnswer, Unlock
  <2>2. \A c \in Ctxs \ {d} : sess'[c] = sess[c]
    <3>1. CASE DeletionSucceeds(d)
      BY <1>0, <3>1 DEF DeletionSucceeds
    <3>2. CASE DeletionFails(d)
      BY <1>0, <3>2 DEF DeletionFails
    <3> QED
      BY <1>10, <3>1, <3>2 DEF UeReleaseAnswer
  <2> QED
    BY <1>0, <2>1, <2>2
<1>11. ASSUME NEW k \in Keys, DupRelease(k) PROVE InstalledSoFar'
  BY <1>0, <1>11 DEF DupRelease, Lock, ctxVars, extVars
<1>12. ASSUME NEW k \in Keys, DupReleaseAnswer(k) PROVE InstalledSoFar'
  BY <1>0, <1>12
  DEF DupReleaseAnswer, Unlock, DeletionSucceeds, DeletionFails, ctxVars, extVars
<1>13. ASSUME NEW k \in Keys, Release(k) PROVE InstalledSoFar'
  BY <1>0, <1>13 DEF Release, Lock, ctxVars, extVars
<1>14. ASSUME NEW k \in Keys, ReleaseAnswer(k) PROVE InstalledSoFar'
  BY <1>0, <1>14
  DEF ReleaseAnswer, Unlock, DeletionSucceeds, DeletionFails, ctxVars, extVars
<1>15. ASSUME NEW c \in Ctxs, NEW u \in UPFs, EstablishAnswer(c, u)
       PROVE  InstalledSoFar'
  <2>1. /\ wait' = [wait EXCEPT ![c] = @ \ {u}]
        /\ UNCHANGED <<lock, path>>
    BY <1>15 DEF EstablishAnswer, ctxVars
  <2>2. CASE /\ sess' = [sess EXCEPT ![c] = @ \cup {u}]
             /\ seid' = [seid EXCEPT ![c] = @ \cup {u}]
             /\ Collect(c, TRUE)
    BY <1>0, <2>1, <2>2 DEF Collect
  <2>3. CASE Collect(c, FALSE) /\ UNCHANGED seid
    <3>1. ok' = [ok EXCEPT ![c] = FALSE]
      BY <1>0, <2>3 DEF Collect
    <3>2. \A d \in Ctxs \ {c} : sess'[d] = sess[d]
      BY <1>0, <1>15 DEF EstablishAnswer
    <3> QED
      BY <1>0, <2>1, <2>3, <3>1, <3>2
  <2> QED
    BY <1>15, <2>2, <2>3 DEF EstablishAnswer
<1>16. ASSUME NEW c \in Ctxs, EstablishAccept(c) PROVE InstalledSoFar'
  BY <1>0, <1>16 DEF EstablishAccept, Unlock, ctxVars, extVars
<1>17. ASSUME NEW c \in Ctxs, EstablishReject(c) PROVE InstalledSoFar'
  BY <1>0, <1>17 DEF EstablishReject, Unlock, ctxVars, extVars
<1>18. ASSUME NEW c \in Ctxs, PolicyApply(c) PROVE InstalledSoFar'
  BY <1>0, <1>18 DEF PolicyApply, Lock, ctxVars, extVars
<1>19. ASSUME NEW c \in Ctxs, PolicyAnswers(c) PROVE InstalledSoFar'
  BY <1>0, <1>19 DEF PolicyAnswers, Unlock, ctxVars, extVars
<1>20. ASSUME NEW k \in Keys,
              \/ AllocUeIP(k) \/ UeReleaseComplete(k) \/ AnReleaseResponse(k)
              \/ ModifySession(k) \/ EarlyReturn(k) \/ Deactivate(k) \/ PlainUpdate(k)
       PROVE  UNCHANGED <<lock, ok, path, wait, sess, seid>>
  BY <1>20 DEF AllocUeIP, UeReleaseComplete, AnReleaseResponse, ModifySession,
               EarlyReturn, Deactivate, PlainUpdate, ShortUpdate, extVars
<1>21. ASSUME NEW k \in Keys,
              \/ CreateRequest(k)
              \/ \E c \in Ctxs : UpdateRequest(k, c) \/ ReleaseRequest(k, c)
       PROVE  UNCHANGED <<lock, ok, path, wait, sess, seid>>
  BY <1>21 DEF CreateRequest, UpdateRequest, ReleaseRequest, ctxVars
<1>22. ASSUME NEW c \in Ctxs,
              \/ VisitContext(c) \/ Remove(c) \/ UsageReport(c)
              \/ PolicyNotify(c) \/ PolicyRefused(c)
       PROVE  UNCHANGED <<lock, ok, path, wait, sess, seid>>
  BY <1>22
  DEF VisitContext, Remove, UsageReport, PolicyNotify, PolicyRefused, ctxVars, extVars
<1>23. ASSUME ReleaseLostSession \/ UNCHANGED vars
       PROVE  UNCHANGED <<lock, ok, path, wait, sess, seid>>
  BY <1>23 DEF ReleaseLostSession, vars, ctxVars, extVars
<1> QED
  BY <1>1, <1>2, <1>3, <1>4, <1>5, <1>6, <1>7, <1>8, <1>9, <1>10, <1>11,
     <1>12, <1>13, <1>14, <1>15, <1>16, <1>17, <1>18, <1>19, <1>20, <1>21,
     <1>22, <1>23
     DEF Next, HandlerStep, EstablishStep, PolicyStep

\* A step makes a context Active under the establishment's lock only when it is
\* EstablishAccept: every other handler would need the lock.
LEMMA AcceptedStep ==
  ASSUME IInv, InstalledSoFar, [Next]_vars, NEW c \in Ctxs,
         lock[c] = "est", state[c] # "Active", state'[c] = "Active"
  PROVE  path[c] \subseteq sess[c] \cap seid[c]
<1>0. /\ lock \in [Ctxs -> {None, "amf", "est", "pcf"}]
      /\ state \in [Ctxs -> States]
      /\ path \in [Ctxs -> SUBSET UPFs]
      /\ HandlersOwn
  BY DEF IInv, TypeOK
<1> USE ConstAssumption DEF HandlersOwn, Locking
<1>1. ASSUME NEW k \in Keys, LocalRelease(k) PROVE FALSE
  BY <1>0, <1>1 DEF LocalRelease, Lock, RemoveFromAllNF
<1>2. ASSUME NEW k \in Keys, LocalReleaseAnswer(k) PROVE FALSE
  BY <1>0, <1>2 DEF LocalReleaseAnswer, RemoveFromAllNF
<1>3. ASSUME NEW k \in Keys, NewContext(k) PROVE FALSE
  BY <1>0, <1>3 DEF NewContext, Lock
<1>4. ASSUME NEW k \in Keys, CreateReject(k) PROVE FALSE
  BY <1>0, <1>4 DEF CreateReject, RemoveFromAllNF
<1>5. ASSUME NEW k \in Keys, UeReleaseRequest(k) PROVE FALSE
  BY <1>0, <1>5 DEF UeReleaseRequest, Lock
<1>6. ASSUME NEW k \in Keys, UeReleaseAnswer(k) PROVE FALSE
  BY <1>0, <1>6 DEF UeReleaseAnswer, EndUpdate, RemoveFromAllNF
<1>7. ASSUME NEW k \in Keys, UeReleaseComplete(k) PROVE FALSE
  BY <1>0, <1>7 DEF UeReleaseComplete, ShortUpdate, EndUpdate, RemoveFromAllNF
<1>8. ASSUME NEW k \in Keys, AnReleaseResponse(k) PROVE FALSE
  BY <1>0, <1>8 DEF AnReleaseResponse, ShortUpdate, EndUpdate, RemoveFromAllNF
<1>9. ASSUME NEW k \in Keys, ModifySession(k) PROVE FALSE
  BY <1>0, <1>9 DEF ModifySession, ShortUpdate, EndUpdate, RemoveFromAllNF
<1>10. ASSUME NEW k \in Keys, Deactivate(k) PROVE FALSE
  BY <1>0, <1>10 DEF Deactivate, ShortUpdate, EndUpdate, RemoveFromAllNF
<1>11. ASSUME NEW k \in Keys, PlainUpdate(k) PROVE FALSE
  BY <1>0, <1>11 DEF PlainUpdate, ShortUpdate, EndUpdate, RemoveFromAllNF
<1>12. ASSUME NEW k \in Keys, DupRelease(k) PROVE FALSE
  BY <1>0, <1>12 DEF DupRelease, Lock, RemoveFromAllNF
<1>13. ASSUME NEW k \in Keys, DupReleaseAnswer(k) PROVE FALSE
  BY <1>0, <1>13 DEF DupReleaseAnswer, RemoveFromAllNF
<1>14. ASSUME NEW k \in Keys, Release(k) PROVE FALSE
  BY <1>0, <1>14 DEF Release, Lock, RemoveFromAllNF
<1>15. ASSUME NEW k \in Keys, ReleaseAnswer(k) PROVE FALSE
  BY <1>0, <1>15 DEF ReleaseAnswer, RemoveFromAllNF
<1>16. ASSUME NEW k \in Keys,
              \/ CreateNoToken(k) \/ AllocUeIP(k) \/ PolicyAssociated(k)
              \/ StartEstablishment(k) \/ EarlyReturn(k) \/ CreateRequest(k)
              \/ \E d \in Ctxs : UpdateRequest(k, d) \/ ReleaseRequest(k, d)
       PROVE  FALSE
  BY <1>16 DEF CreateNoToken, AllocUeIP, PolicyAssociated, StartEstablishment,
               EarlyReturn, CreateRequest, UpdateRequest, ReleaseRequest, ctxVars
<1>17. ASSUME NEW d \in Ctxs, EstablishAccept(d)
       PROVE  path[c] \subseteq sess[c] \cap seid[c]
  <2>1. d = c /\ wait[c] = {} /\ ok[c]
    BY <1>0, <1>17 DEF EstablishAccept
  <2> QED
    BY <1>0, <2>1 DEF InstalledSoFar
<1>18. ASSUME NEW d \in Ctxs, EstablishReject(d) \/ PolicyApply(d) \/ PolicyRefused(d)
       PROVE  FALSE
  BY <1>0, <1>18
  DEF EstablishReject, RemoveFromAllNF, PolicyApply, PolicyRefused
<1>19. ASSUME NEW d \in Ctxs,
              \/ Remove(d) \/ PolicyNotify(d) \/ PolicyAnswers(d) \/ VisitContext(d)
              \/ \E u \in UPFs : EstablishAnswer(d, u)
       PROVE  FALSE
  BY <1>19
  DEF Remove, PolicyNotify, PolicyAnswers, VisitContext, EstablishAnswer, ctxVars
<1>20. ASSUME ReleaseLostSession PROVE FALSE
  BY <1>0, <1>20 DEF ReleaseLostSession, RemoveFromAllNF
<1>21. ASSUME NEW d \in Ctxs, UsageReport(d) PROVE FALSE
  BY <1>0, <1>21 DEF UsageReport
<1>22. CASE UNCHANGED vars
  BY <1>22 DEF vars, ctxVars
<1> QED
  BY <1>1, <1>2, <1>3, <1>4, <1>5, <1>6, <1>7, <1>8, <1>9, <1>10, <1>11,
     <1>12, <1>13, <1>14, <1>15, <1>16, <1>17, <1>18, <1>19, <1>20, <1>21, <1>22
     DEF Next, HandlerStep, EstablishStep, PolicyStep

\* The UE is sent a PDU Session Establishment Accept only when every UPF of the
\* session's data paths has accepted it, whatever order waitAllPfcpRsp gets the
\* answers in and whatever handlers are waiting for the lock.
THEOREM AcceptedSafe == Spec => AcceptedIsInstalled
<1>1. Init => InstalledSoFar
  BY ConstAssumption DEF Init, InstalledSoFar
<1>2. Spec => []InstalledSoFar
  BY <1>1, InstalledStep, Invariance, PTL DEF Spec
<1>3. IInv /\ InstalledSoFar /\ [Next]_vars
      => [\A c \in Ctxs : lock[c] = "est" /\ state[c] # "Active" /\ state'[c] = "Active"
            => path[c] \subseteq sess[c] \cap seid[c]]_vars
  BY AcceptedStep
<1> QED
  BY <1>2, <1>3, Invariance, PTL DEF Spec, AcceptedIsInstalled

-----------------------------------------------------------------------------
(* The end of SM contexts: PFCPReleaseDone tells the truth, and a context   *)
(* that is gone leaves no policy association and no PFCP session behind.     *)

\* The handler of the AMF's request that works on a context, if there is one, is
\* the one of the context's own key (HandlersOwn).
HandledAt(c, pcs) ==
  key[c] # None /\ amf[key[c]].ctx = c /\ amf[key[c]].pc \in pcs

\* Its removal has begun: a goroutine waits to remove it, or has done so.
Leaving(c) == c \in removing \/ (key[c] # None /\ c \notin pool)

\* Nothing has begun to end the session.
Untouched(c) == ~done[c] /\ ~dup[c] /\ c \notin removing /\ c \notin ordered

\* A context that is not made yet has no PFCP session, and nobody works on it.
FreshClean(c) ==
  key[c] = None => /\ Untouched(c)
                   /\ sess[c] = {} /\ seid[c] = {}
                   /\ pcf[c] = "idle" /\ visit # c

\* Until the UPFs are asked, a context that is set up has no PFCP session.
CreatingClean(c) ==
  HandledAt(c, Creating) => /\ Untouched(c)
                            /\ sess[c] = {} /\ state[c] = "ActivePending"

\* The establishment asks only UPFs of the paths, is not overtaken by a release,
\* and a refusal or a lost answer is on record.
EstClean(c) ==
  lock[c] = "est" => /\ Untouched(c) /\ c \in pool
                     /\ wait[c] \subseteq path[c]
                     /\ ok[c] \/ c \in troubled

\* releaseSession goes over the paths, so it comes to every PFCP session.
OnPaths(c) == sess[c] \subseteq path[c] /\ active[c] \subseteq path[c]

\* A policy update that is being applied began before the session's end.
UpdateInTime(c) ==
  pcf[c] = "applied" => (~done[c] /\ ~Leaving(c)) \/ c \in troubled

\* PFCPReleaseDone is true.
DoneTrue(c) == done[c] => sess[c] = {} \/ c \in troubled

\* A UE is ordered to release when its PFCP sessions are deleted, and neither an
\* answer of it nor one of the access network comes in before they are.
OrderedDone(c) == c \in ordered => lock[c] = "amf" \/ done[c] \/ c \in troubled

\* The states that later answers take for "its PFCP sessions are deleted" are
\* never left over from anything else.
InActiveDone(c) ==
  key[c] # None /\ state[c] = "InActive"
    => done[c] \/ Leaving(c) \/ c \in troubled
PendingDone(c) == state[c] = "InActivePending" => done[c] \/ c \in troubled

\* The release of a duplicate ends with its removal.
DupLeaves(c) == dup[c] => Leaving(c) \/ HandledAt(c, {"dupAnswer"})

\* Whoever starts a removal has tried to terminate the policy association.
PolicyGone(c) == Leaving(c) => policy[c] # "bound"

\* Unless a usage report leaves it behind, the state PFCPModification lasts as
\* long as the deletion that a handler has begun.
ModificationLocked(c) ==
  ~EmptyGrants /\ state[c] = "PFCPModification" => lock[c] = "amf"

\* What starts a removal finds the PFCP sessions deleted, or never made.
SessionsGone(c) == ~EmptyGrants /\ Leaving(c) => sess[c] = {} \/ c \in troubled

ReleaseInv(c) ==
  /\ FreshClean(c) /\ CreatingClean(c) /\ EstClean(c)
  /\ OnPaths(c) /\ UpdateInTime(c)
  /\ DoneTrue(c) /\ OrderedDone(c) /\ InActiveDone(c) /\ PendingDone(c)
  /\ DupLeaves(c) /\ PolicyGone(c) /\ ModificationLocked(c) /\ SessionsGone(c)

AllRelease == \A c \in Ctxs : ReleaseInv(c)

-----------------------------------------------------------------------------
(* Every step keeps the invariant of every context *)

\* Whatever a step does to the context it is about, it leaves each context's
\* account of its PFCP sessions and of its end in order.
LEMMA ReleaseStep ==
  ASSUME IInv, AllRelease, [Next]_vars, NEW d \in Ctxs
  PROVE  ReleaseInv(d)'
<1>0. /\ amf \in [Keys -> [pc : AmfPcs, ctx : Ctxs \cup {None}]]
      /\ lock \in [Ctxs -> {None, "amf", "est", "pcf"}]
      /\ key \in [Ctxs -> Keys \cup {None}]
      /\ state \in [Ctxs -> States]
      /\ policy \in [Ctxs -> {"none", "bound", "stale"}]
      /\ dup \in [Ctxs -> BOOLEAN]
      /\ done \in [Ctxs -> BOOLEAN]
      /\ path \in [Ctxs -> SUBSET UPFs]
      /\ active \in [Ctxs -> SUBSET UPFs]
      /\ seid \in [Ctxs -> SUBSET UPFs]
      /\ wait \in [Ctxs -> SUBSET UPFs]
      /\ ok \in [Ctxs -> BOOLEAN]
      /\ pcf \in [Ctxs -> {"idle", "notified", "applied"}]
      /\ sess \in [Ctxs -> SUBSET UPFs]
      /\ HandlersOwn /\ PoliciesOwn /\ FreshUnused
      /\ AllRelease
  BY DEF IInv, TypeOK
<1> USE ConstAssumption DEF
        HandlersOwn, PoliciesOwn, FreshUnused, Locking, Creating, AmfPcs,
        States, ctxVars, extVars, AllRelease, ReleaseInv, HandledAt, Leaving,
        Untouched, FreshClean, CreatingClean, EstClean, OnPaths, UpdateInTime,
        DoneTrue, OrderedDone, InActiveDone, PendingDone, DupLeaves,
        PolicyGone, ModificationLocked, SessionsGone
<1>1. ASSUME NEW k \in Keys, CreateRequest(k) PROVE ReleaseInv(d)'
  BY <1>0, <1>1 DEF CreateRequest, Arrive
<1>2. ASSUME NEW k \in Keys, LocalRelease(k) PROVE ReleaseInv(d)'
  <2> DEFINE c == amf[k].ctx
  <2>1. c \in Ctxs /\ key[c] = k
    BY <1>0, <1>2, ConstAssumption DEF LocalRelease
  <2>2. CASE /\ done[c] /\ lock[c] = None
             /\ RemoveFromAllNF(c) /\ Goto(k, "new")
             /\ UNCHANGED <<lock, done, active>>
    BY <1>0, <1>2, <2>1, <2>2
    DEF LocalRelease, RemoveFromAllNF, TerminatePolicy, Goto
  <2>3. CASE ~done[c] /\ Lock(c, "amf") /\ TerminatePolicy(c) /\ StartDeletion(c)
    BY <1>0, <1>2, <2>1, <2>3
    DEF LocalRelease, Lock, TerminatePolicy, StartDeletion, Goto
  <2> QED
    BY <1>2, <2>2, <2>3 DEF LocalRelease
<1>3. ASSUME NEW k \in Keys, LocalReleaseAnswer(k) PROVE ReleaseInv(d)'
  <2> DEFINE c == amf[k].ctx
  <2>1. c \in Ctxs /\ key[c] = k /\ lock[c] = "amf"
    BY <1>0, <1>3, ConstAssumption DEF LocalReleaseAnswer
  <2>2. CASE DeletionSucceeds(c)
    BY <1>0, <1>3, <2>1, <2>2
    DEF LocalReleaseAnswer, DeletionSucceeds, RemoveFromAllNF,
        TerminatePolicy, Goto, Unlock
  <2>3. CASE DeletionFails(c)
    BY <1>0, <1>3, <2>1, <2>3
    DEF LocalReleaseAnswer, DeletionFails, RemoveFromAllNF,
        TerminatePolicy, Goto, Unlock
  <2> QED
    BY <1>3, <2>2, <2>3 DEF LocalReleaseAnswer
<1>4. ASSUME NEW k \in Keys, NewContext(k) PROVE ReleaseInv(d)'
  BY <1>0, <1>4 DEF NewContext, Lock
<1>5. ASSUME NEW k \in Keys, CreateReject(k) PROVE ReleaseInv(d)'
  BY <1>0, <1>5
  DEF CreateReject, Unlock, Finish, RemoveFromAllNF, TerminatePolicy
<1>6. ASSUME NEW k \in Keys, CreateNoToken(k) PROVE ReleaseInv(d)'
  BY <1>0, <1>6 DEF CreateNoToken, Unlock, Finish
<1>7. ASSUME NEW k \in Keys, AllocUeIP(k) PROVE ReleaseInv(d)'
  BY <1>0, <1>7 DEF AllocUeIP, Goto
<1>8. ASSUME NEW k \in Keys, PolicyAssociated(k) PROVE ReleaseInv(d)'
  BY <1>0, <1>8 DEF PolicyAssociated, Goto
<1>9. ASSUME NEW k \in Keys, StartEstablishment(k) PROVE ReleaseInv(d)'
  BY <1>0, <1>9 DEF StartEstablishment, Finish
<1>10. ASSUME NEW k \in Keys, UeReleaseRequest(k) PROVE ReleaseInv(d)'
  BY <1>0, <1>10
  DEF UeReleaseRequest, Lock, GiveBack, Goto, TerminatePolicy, StartDeletion
<1>11. ASSUME NEW k \in Keys, UeReleaseAnswer(k) PROVE ReleaseInv(d)'
  <2> DEFINE c == amf[k].ctx
  <2>1. c \in Ctxs /\ key[c] = k /\ lock[c] = "amf" /\ Unlock(c) /\ Finish(k)
    BY <1>0, <1>11, ConstAssumption DEF UeReleaseAnswer, EndUpdate
  <2>2. CASE DeletionSucceeds(c) /\ RemoveFromAllNF(c)
    BY <1>0, <1>11, <2>1, <2>2
    DEF UeReleaseAnswer, DeletionSucceeds, RemoveFromAllNF, TerminatePolicy,
        Finish, Unlock
  <2>3. CASE DeletionFails(c) /\ RemoveFromAllNF(c)
    BY <1>0, <1>11, <2>1, <2>3
    DEF UeReleaseAnswer, DeletionFails, RemoveFromAllNF, TerminatePolicy,
        Finish, Unlock
  <2>4. CASE /\ DeletionSucceeds(c)
             /\ state' = [state EXCEPT ![c] = "InActivePending"]
             /\ ~dup[c] /\ UNCHANGED <<policy, removing>>
    BY <1>0, <1>11, <2>1, <2>4
    DEF UeReleaseAnswer, DeletionSucceeds, Finish, Unlock
  <2>5. CASE /\ DeletionFails(c)
             /\ state' = [state EXCEPT ![c] = "Active"]
             /\ ~dup[c] /\ UNCHANGED <<policy, removing>>
    BY <1>0, <1>11, <2>1, <2>5
    DEF UeReleaseAnswer, DeletionFails, Finish, Unlock
  <2> QED
    BY <1>11, <2>2, <2>3, <2>4, <2>5 DEF UeReleaseAnswer, EndUpdate
<1>12. ASSUME NEW k \in Keys, UeReleaseComplete(k) PROVE ReleaseInv(d)'
  BY <1>0, <1>12
  DEF UeReleaseComplete, ShortUpdate, EndUpdate, Finish, RemoveFromAllNF,
      TerminatePolicy
<1>13. ASSUME NEW k \in Keys, AnReleaseResponse(k) PROVE ReleaseInv(d)'
  BY <1>0, <1>13
  DEF AnReleaseResponse, ShortUpdate, EndUpdate, Finish, RemoveFromAllNF,
      TerminatePolicy
<1>14. ASSUME NEW k \in Keys, ModifySession(k) PROVE ReleaseInv(d)'
  BY <1>0, <1>14
  DEF ModifySession, ShortUpdate, EndUpdate, Finish, RemoveFromAllNF,
      TerminatePolicy
<1>15. ASSUME NEW k \in Keys, EarlyReturn(k) PROVE ReleaseInv(d)'
  BY <1>0, <1>15 DEF EarlyReturn, ShortUpdate, Finish
<1>16. ASSUME NEW k \in Keys, Deactivate(k) PROVE ReleaseInv(d)'
  BY <1>0, <1>16
  DEF Deactivate, ShortUpdate, EndUpdate, Finish, RemoveFromAllNF,
      TerminatePolicy
<1>17. ASSUME NEW k \in Keys, PlainUpdate(k) PROVE ReleaseInv(d)'
  BY <1>0, <1>17
  DEF PlainUpdate, ShortUpdate, EndUpdate, Finish, RemoveFromAllNF,
      TerminatePolicy
<1>18. ASSUME NEW k \in Keys, DupRelease(k) PROVE ReleaseInv(d)'
  <2>1. amf[k].ctx \in Ctxs /\ key[amf[k].ctx] = k
    BY <1>0, <1>18, ConstAssumption DEF DupRelease
  <2>2. CASE state[amf[k].ctx] \in Deletable
    BY <1>0, <1>18, <2>1, <2>2 DEF DupRelease, Lock, StartDeletion, Goto
  <2>3. CASE state[amf[k].ctx] \notin Deletable
    BY <1>0, <1>18, <2>1, <2>3
    DEF DupRelease, RemoveFromAllNF, TerminatePolicy, Finish, Deletable
  <2> QED
    BY <2>2, <2>3
<1>19. ASSUME NEW k \in Keys, DupReleaseAnswer(k) PROVE ReleaseInv(d)'
  <2> DEFINE c == amf[k].ctx
  <2>1. c \in Ctxs /\ key[c] = k /\ lock[c] = "amf"
    BY <1>0, <1>19, ConstAssumption DEF DupReleaseAnswer
  <2>2. CASE DeletionSucceeds(c)
    BY <1>0, <1>19, <2>1, <2>2
    DEF DupReleaseAnswer, DeletionSucceeds, RemoveFromAllNF, TerminatePolicy,
        Finish, Unlock
  <2>3. CASE DeletionFails(c)
    BY <1>0, <1>19, <2>1, <2>3
    DEF DupReleaseAnswer, DeletionFails, RemoveFromAllNF, TerminatePolicy,
        Finish, Unlock
  <2> QED
    BY <1>19, <2>2, <2>3 DEF DupReleaseAnswer
<1>20. ASSUME NEW k \in Keys, Release(k) PROVE ReleaseInv(d)'
  <2> DEFINE c == amf[k].ctx
  <2>1. c \in Ctxs /\ key[c] = k
    BY <1>0, <1>20, ConstAssumption DEF Release
  <2>2. CASE /\ done[c] /\ lock[c] = None
             /\ RemoveFromAllNF(c) /\ Finish(k)
             /\ UNCHANGED <<lock, done, active>>
    BY <1>0, <1>20, <2>1, <2>2
    DEF Release, RemoveFromAllNF, TerminatePolicy, Finish
  <2>3. CASE ~done[c] /\ Lock(c, "amf") /\ TerminatePolicy(c) /\ StartDeletion(c)
    BY <1>0, <1>20, <2>1, <2>3
    DEF Release, Lock, TerminatePolicy, StartDeletion, Goto
  <2> QED
    BY <1>20, <2>2, <2>3 DEF Release
<1>21. ASSUME NEW k \in Keys, ReleaseAnswer(k) PROVE ReleaseInv(d)'
  <2> DEFINE c == amf[k].ctx
  <2>1. c \in Ctxs /\ key[c] = k /\ lock[c] = "amf"
    BY <1>0, <1>21, ConstAssumption DEF ReleaseAnswer
  <2>2. CASE DeletionSucceeds(c)
    BY <1>0, <1>21, <2>1, <2>2
    DEF ReleaseAnswer, DeletionSucceeds, RemoveFromAllNF, TerminatePolicy,
        Finish, Unlock
  <2>3. CASE DeletionFails(c)
    BY <1>0, <1>21, <2>1, <2>3
    DEF ReleaseAnswer, DeletionFails, RemoveFromAllNF, TerminatePolicy,
        Finish, Unlock
  <2> QED
    BY <1>21, <2>2, <2>3 DEF ReleaseAnswer
<1>22. ASSUME NEW k \in Keys, NEW c \in Ctxs, UpdateRequest(k, c)
       PROVE  ReleaseInv(d)'
  BY <1>0, <1>22 DEF UpdateRequest
<1>23. ASSUME NEW k \in Keys, NEW c \in Ctxs, ReleaseRequest(k, c)
       PROVE  ReleaseInv(d)'
  BY <1>0, <1>23 DEF ReleaseRequest
<1>24. ASSUME NEW c \in Ctxs, NEW u \in UPFs, EstablishAnswer(c, u)
       PROVE  ReleaseInv(d)'
  BY <1>0, <1>24 DEF EstablishAnswer, Collect
<1>25. ASSUME NEW c \in Ctxs, EstablishAccept(c) PROVE ReleaseInv(d)'
  BY <1>0, <1>25 DEF EstablishAccept, Unlock
<1>26. ASSUME NEW c \in Ctxs, EstablishReject(c) PROVE ReleaseInv(d)'
  BY <1>0, <1>26 DEF EstablishReject, Unlock, RemoveFromAllNF, TerminatePolicy
<1>27. ASSUME NEW c \in Ctxs, Remove(c) PROVE ReleaseInv(d)'
  BY <1>0, <1>27 DEF Remove
<1>28. ASSUME NEW c \in Ctxs, PolicyNotify(c) PROVE ReleaseInv(d)'
  BY <1>0, <1>28 DEF PolicyNotify
<1>29. ASSUME NEW c \in Ctxs, PolicyRefused(c) PROVE ReleaseInv(d)'
  BY <1>0, <1>29 DEF PolicyRefused
<1>30. ASSUME NEW c \in Ctxs, PolicyApply(c) PROVE ReleaseInv(d)'
  <2>1. PICK p \in {{}, RulePath} :
           /\ path' = [path EXCEPT ![c] = @ \cup p]
           /\ active' = [active EXCEPT ![c] = @ \cup p]
    BY <1>30 DEF PolicyApply
  <2>2. c \in troubled' \/ (~done[c] /\ ~Leaving(c))
    BY <1>30 DEF PolicyApply, Ended, Removed, Created
  <2> QED
    BY <1>0, <1>30, <2>1, <2>2 DEF PolicyApply, Lock
<1>31. ASSUME NEW c \in Ctxs, PolicyAnswers(c) PROVE ReleaseInv(d)'
  BY <1>0, <1>31 DEF PolicyAnswers, Unlock
<1>32. ASSUME NEW c \in Ctxs, VisitContext(c) PROVE ReleaseInv(d)'
  BY <1>0, <1>32 DEF VisitContext
<1>33. ASSUME ReleaseLostSession PROVE ReleaseInv(d)'
  BY <1>0, <1>33 DEF ReleaseLostSession, RemoveFromAllNF, TerminatePolicy
<1>34. ASSUME NEW c \in Ctxs, UsageReport(c) PROVE ReleaseInv(d)'
  BY <1>0, <1>34 DEF UsageReport, AfterCharging
<1>35. CASE UNCHANGED vars
  BY <1>0, <1>35 DEF vars
<1> QED
  BY <1>1, <1>2, <1>3, <1>4, <1>5, <1>6, <1>7, <1>8, <1>9, <1>10, <1>11,
     <1>12, <1>13, <1>14, <1>15, <1>16, <1>17, <1>18, <1>19, <1>20, <1>21,
     <1>22, <1>23, <1>24, <1>25, <1>26, <1>27, <1>28, <1>29, <1>30, <1>31,
     <1>32, <1>33, <1>34, <1>35
     DEF Next, HandlerStep, EstablishStep, PolicyStep

-----------------------------------------------------------------------------
(* The inductive invariant, and the theorems that follow from it *)

\* In the initial state no context is made yet.
LEMMA InitRelease == Init => AllRelease
  BY ConstAssumption
  DEF Init, AllRelease, ReleaseInv, HandledAt, Leaving, Untouched, Creating,
      FreshClean, CreatingClean, EstClean, OnPaths, UpdateInTime, DoneTrue,
      OrderedDone, InActiveDone, PendingDone, DupLeaves, PolicyGone,
      ModificationLocked, SessionsGone

\* The account of every context is always in order.
LEMMA ReleaseInvariance == Spec => []AllRelease
<1>1. IInv /\ AllRelease /\ [Next]_vars => AllRelease'
  BY ReleaseStep DEF AllRelease
<1> QED
  BY <1>1, InitRelease, Invariance, PTL DEF Spec

\* PFCPReleaseDone, which makes HandlePDUSessionSMContextRelease and LocalRelease
\* skip the PFCP deletion, is never set while a UPF holds a session, however the
\* handlers, the establishment and policy updates interleave: the exceptions
\* are the contexts whose PFCP exchange failed, whose anchor was lost, or whose
\* policy update came after the end.
THEOREM ReleaseDoneSafe == Spec => []ReleaseDoneIsTrue
<1>1. AllRelease => ReleaseDoneIsTrue
  BY DEF AllRelease, ReleaseInv, DoneTrue, ReleaseDoneIsTrue
<1> QED
  BY <1>1, ReleaseInvariance, PTL

\* A context that RemoveSMContext has taken out of the pool leaves nothing
\* behind, if the CHF grants a quota with every answer: without one a usage report
\* leaves the state PFCPModification, from which the release of a duplicate
\* skips the deletion (the run sm_quota).
THEOREM NothingLeftSafe == ~EmptyGrants => (Spec => []NothingLeftBehind)
<1> SUFFICES ASSUME ~EmptyGrants PROVE Spec => []NothingLeftBehind
  OBVIOUS
<1>1. IInv /\ AllRelease => NothingLeftBehind
  BY DEF AllRelease, ReleaseInv, PolicyGone, SessionsGone, Leaving,
         NothingLeftBehind, Removed, Created
<1> QED
  BY <1>1, Invariance, ReleaseInvariance, PTL

\* Whatever the CHF answers, no removed context keeps a policy association whose
\* termination was not tried (SMPolicyAssociationTermination before every
\* RemoveSMContextFromAllNF).
THEOREM PoliciesTerminated == Spec => [](\A c \in Removed : policy[c] # "bound")
<1>1. AllRelease => \A c \in Removed : policy[c] # "bound"
  BY DEF AllRelease, ReleaseInv, PolicyGone, Leaving, Removed, Created
<1> QED
  BY <1>1, ReleaseInvariance, PTL

\* "release PDU Session Here": with a quota in every answer of the CHF, the
\* duplicate that an update hands over for its removal has no PFCP session left,
\* unless one of its PFCP exchanges has failed.  The missing quota is the
\* only reason why sm_quota finds this violated.
THEOREM DupReleaseSafe == ~EmptyGrants => (Spec => DupReleaseComplete)
<1> SUFFICES ASSUME ~EmptyGrants PROVE Spec => DupReleaseComplete
  OBVIOUS
<1>1. IInv /\ AllRelease /\ [Next]_vars
      => [\A c \in Ctxs : dup'[c] /\ c \in removing' \ removing
            => sess'[c] = {} \/ c \in troubled']_vars
  BY ReleaseStep DEF ReleaseInv, SessionsGone, Leaving
<1> QED
  BY <1>1, Invariance, ReleaseInvariance, PTL DEF Spec, DupReleaseComplete
=============================================================================
