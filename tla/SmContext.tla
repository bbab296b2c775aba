----------------------------- MODULE SmContext -----------------------------
(* The life of SM contexts: the pool of contexts and its index by SUPI and  *)
(* PDU session ID, the handlers that create, update and release them, the   *)
(* goroutines that establish the PFCP sessions and that remove a context,   *)
(* the policy notifications of the PCF and the loss of a UPF.  They share   *)
(* the pool and the UE addresses; what a context holds is guarded by its    *)
(* SMLock, which a handler keeps while it waits for the UPFs.               *)
EXTENDS Integers, FiniteSets

CONSTANTS
  Ctxs,           \* SM contexts: the objects NewSMContext ever makes (a bound)
  Keys,           \* canonical names: a SUPI with a PDU session ID
  Addrs,          \* the UE addresses of the anchor's pool
  UPFs,           \* the UPFs of the user plane
  DefaultPath,    \* the UPFs of a session's default data path
  RulePath,       \* the UPFs of the data path that a PCC rule may add
  MaxRequests,    \* a bound: the requests from outside in a behaviour
  EmptyGrants,    \* whether the CHF may answer a usage report without a quota
  None            \* no context, no key, no address, no lock owner

ASSUME ConstAssumption ==
  /\ DefaultPath \subseteq UPFs /\ RulePath \subseteq UPFs
  /\ None \notin Ctxs \cup Keys \cup Addrs \cup {"amf", "est", "pcf"}
  /\ MaxRequests \in Nat
  /\ EmptyGrants \in BOOLEAN

VARIABLES
  pool,           \* smContextPool: the contexts that a ref still resolves to
  canonical,      \* canonicalRef: key -> the context it resolves to
  key,            \* the key a context was created for, None before
  state,          \* SMContextState
  addr,           \* PDUAddress
  upf,            \* SelectedUPF # nil
  policy,         \* SMPolicyID: "none", "bound"; "stale" if its termination failed
  an,             \* Tunnel.ANInformation.IPAddress # nil
  dup,            \* PDUSessionRelease_DUE_TO_DUP_PDU_ID
  done,           \* PFCPReleaseDone
  path,           \* the UPFs on the data paths in the tunnel's DataPathPool
  active,         \* the UPFs on the activated ones
  seid,           \* the UPFs whose RemoteSEID is known
  lock,           \* the owner of SMLock: None, "amf", "est", "pcf"
  free,           \* the UE addresses that are in the pool
  removing,       \* contexts that wait for their removal goroutine
  amf,            \* per key, the handler of the AMF's request: [pc, ctx]
  wait,           \* the UPFs the establishment goroutine waits for
  ok,             \* waitAllPfcpRsp's success so far
  pcf,            \* per context, the handler of a policy notification
  visit,          \* the context releaseAllResourcesOfUPF has come to
  sess,           \* external: the UPFs that hold a PFCP session of the context
  known,          \* external: contexts whose ref the AMF was given
  ordered,        \* external: contexts whose UE was ordered to release
  troubled,       \* history: contexts whose PFCP sessions may outlive them
  requests        \* the requests so far

ctxVars == <<key, state, addr, upf, policy, an, dup, done, path, active, seid>>
extVars == <<sess, known, ordered, troubled, requests>>
vars == <<pool, canonical, ctxVars, lock, free, removing, amf, wait, ok, pcf,
          visit, extVars>>

States == {"InActive", "ActivePending", "Active", "InActivePending",
           "ModificationPending", "PFCPModification"}

AmfPcs == {"idle", "localRelease", "localAnswer", "new", "setup", "policy",
           "paths", "update", "releaseAnswer", "dupAnswer",
           "release", "smReleaseAnswer"}

Created == {c \in Ctxs : key[c] # None}
Removed == Created \ pool

\* The session is over: its PFCP sessions are deleted or its removal has begun.
Ended(c) == done[c] \/ c \in removing \cup Removed

\* The context holds a UE address that RemoveSMContext would give back.
Holds(c, a) == addr[c] = a /\ upf[c]

Init ==
  /\ pool = {}
  /\ canonical = [k \in Keys |-> None]
  /\ key = [c \in Ctxs |-> None]
  /\ state = [c \in Ctxs |-> "InActive"]
  /\ addr = [c \in Ctxs |-> None]
  /\ upf = [c \in Ctxs |-> FALSE]
  /\ policy = [c \in Ctxs |-> "none"]
  /\ an = [c \in Ctxs |-> FALSE]
  /\ dup = [c \in Ctxs |-> FALSE]
  /\ done = [c \in Ctxs |-> FALSE]
  /\ path = [c \in Ctxs |-> {}]
  /\ active = [c \in Ctxs |-> {}]
  /\ seid = [c \in Ctxs |-> {}]
  /\ lock = [c \in Ctxs |-> None]
  /\ free = Addrs
  /\ removing = {}
  /\ amf = [k \in Keys |-> [pc |-> "idle", ctx |-> None]]
  /\ wait = [c \in Ctxs |-> {}]
  /\ ok = [c \in Ctxs |-> TRUE]
  /\ pcf = [c \in Ctxs |-> "idle"]
  /\ visit = None
  /\ sess = [c \in Ctxs |-> {}]
  /\ known = {}
  /\ ordered = {}
  /\ troubled = {}
  /\ requests = 0

-----------------------------------------------------------------------------
(* What several handlers share *)

\* SMPolicyAssociationTermination, when there is an association; it may fail,
\* and then SMPolicyID is kept.
TerminatePolicy(c) ==
  \E p \in IF policy[c] = "none" THEN {"none"} ELSE {"none", "stale"} :
     policy' = [policy EXCEPT ![c] = p]

\* RemoveSMContextFromAllNF: the context is removed by a goroutine of its own.
RemoveFromAllNF(c) ==
  /\ state' = [state EXCEPT ![c] = "InActive"]
  /\ TerminatePolicy(c)
  /\ removing' = removing \cup {c}

\* A request from outside comes in, within the bound.
Arrive == /\ requests < MaxRequests
          /\ requests' = requests + 1

Lock(c, who)  == lock[c] = None /\ lock' = [lock EXCEPT ![c] = who]
Unlock(c)     == lock' = [lock EXCEPT ![c] = None]
Goto(k, pc)   == amf' = [amf EXCEPT ![k].pc = pc]
Finish(k)     == amf' = [amf EXCEPT ![k] = [pc |-> "idle", ctx |-> None]]

\* releaseSession, up to the PFCP Session Deletion Requests.
StartDeletion(c) ==
  /\ done' = [done EXCEPT ![c] = FALSE]
  /\ active' = [active EXCEPT ![c] = {}]

\* Mutant: the answer of one UPF of the paths decides.
DeletionOfOne(c) ==
  /\ path[c] \subseteq sess[c] \cap seid[c]
  /\ \E u \in path[c] : sess' = [sess EXCEPT ![c] = @ \ {u}]
  /\ done' = [done EXCEPT ![c] = TRUE]
  /\ UNCHANGED troubled

\* releaseSession, from the answers on: it succeeds when every UPF of every path
\* accepts, which takes a session there that the SMF has the SEID of.
DeletionSucceeds(c) ==
  /\ path[c] \subseteq sess[c] \cap seid[c]
  /\ sess' = [sess EXCEPT ![c] = @ \ path[c]]
  /\ done' = [done EXCEPT ![c] = TRUE]
  /\ UNCHANGED troubled

\* Mutant: a failed deletion sends no result, and the handler waits for it.
DeletionSilent(c) == path[c] = {} /\ DeletionSucceeds(c)

\* When one UPF does not accept, or its answer is lost, any of the others may
\* have deleted its session, and so may the one whose answer was lost.
DeletionFails(c) ==
  /\ path[c] # {}
  /\ \E gone \in SUBSET (sess[c] \cap seid[c]) :
        sess' = [sess EXCEPT ![c] = @ \ gone]
  /\ troubled' = troubled \cup {c}
  /\ UNCHANGED done

-----------------------------------------------------------------------------
(* HandlePDUSessionSMContextCreate *)

\* The AMF serialises its requests for a UE: it holds the UE's lock until the
\* handler returns.
CreateRequest(k) ==
  /\ Arrive
  /\ amf[k].pc = "idle"
  /\ \E c \in Ctxs : key[c] = None
  /\ LET old == canonical[k] IN
       amf' = [amf EXCEPT ![k] = IF old # None /\ old \in pool
                                 THEN [pc |-> "localRelease", ctx |-> old]
                                 ELSE [pc |-> "new", ctx |-> None]]
  /\ UNCHANGED <<pool, canonical, ctxVars, lock, free, removing, wait, ok, pcf,
                 visit, sess,
                 known, ordered, troubled>>

\* HandlePDUSessionSMContextLocalRelease of the duplicate context.
LocalRelease(k) ==
  LET c == amf[k].ctx IN
  /\ amf[k].pc = "localRelease"
  /\ \/ /\ done[c]
        /\ lock[c] = None
        /\ RemoveFromAllNF(c)
        /\ Goto(k, "new")
        /\ UNCHANGED <<lock, done, active>>
     \/ /\ ~done[c]
        /\ Lock(c, "amf")
        /\ TerminatePolicy(c)
        /\ StartDeletion(c)
        /\ state' = [state EXCEPT ![c] = "PFCPModification"]
        /\ Goto(k, "localAnswer")
        /\ UNCHANGED removing
  /\ UNCHANGED <<pool, canonical, key, addr, upf, an, dup, path, seid, free,
                 wait, ok, pcf, visit, extVars>>

LocalReleaseAnswer(k) ==
  LET c == amf[k].ctx IN
  /\ amf[k].pc = "localAnswer"
  /\ \/ /\ DeletionSucceeds(c)
        /\ RemoveFromAllNF(c)
     \/ /\ DeletionFails(c)
        /\ state' = [state EXCEPT ![c] = "Active"]
        /\ UNCHANGED <<policy, removing>>
  /\ Unlock(c)
  /\ Goto(k, "new")
  /\ UNCHANGED <<pool, canonical, key, addr, upf, an, dup, path, active, seid,
                 free, wait, ok, pcf, visit, known, ordered, requests>>

\* NewSMContext: a fresh ref enters the pool and becomes the key's canonical one.
NewContext(k) ==
  /\ amf[k].pc = "new"
  /\ \E c \in Ctxs :
       /\ key[c] = None
       /\ pool' = pool \cup {c}
       /\ canonical' = [canonical EXCEPT ![k] = c]
       /\ key' = [key EXCEPT ![c] = k]
       /\ state' = [state EXCEPT ![c] = "ActivePending"]
       /\ Lock(c, "amf")
       /\ amf' = [amf EXCEPT ![k] = [pc |-> "setup", ctx |-> c]]
  /\ UNCHANGED <<addr, upf, policy, an, dup, done, path, active, seid, free,
                 removing, wait, ok, pcf, visit, extVars>>

\* makeEstRejectResAndReleaseSMContext: unknown DNN, bad request, no address,
\* no policy association, session rules or data paths that cannot be applied.
CreateReject(k) ==
  LET c == amf[k].ctx IN
  /\ amf[k].pc \in {"setup", "policy", "paths"}
  /\ RemoveFromAllNF(c)
  /\ Unlock(c)
  /\ Finish(k)
  /\ UNCHANGED <<pool, canonical, key, addr, upf, an, dup, done, path, active,
                 seid, free, wait, ok, pcf, visit, extVars>>

\* GetTokenCtx fails: the handler returns without an answer or a removal.
CreateNoToken(k) ==
  /\ amf[k].pc = "setup"
  /\ Unlock(amf[k].ctx)
  /\ Finish(k)
  /\ UNCHANGED <<pool, canonical, ctxVars, free, removing, wait, ok, pcf,
                 visit, extVars>>

\* AllocUeIP: an address of the selected anchor's pool.
AllocUeIP(k) ==
  LET c == amf[k].ctx IN
  /\ amf[k].pc = "setup"
  /\ \E a \in free : /\ free' = free \ {a}
                     /\ addr' = [addr EXCEPT ![c] = a]
  /\ upf' = [upf EXCEPT ![c] = TRUE]
  /\ Goto(k, "policy")
  /\ UNCHANGED <<pool, canonical, key, state, policy, an, dup, done, path,
                 active, seid, lock, removing, wait, ok, pcf, visit, extVars>>

\* SendSMPolicyAssociationCreate succeeds, and the rules may add a data path
\* before the default one is selected.
PolicyAssociated(k) ==
  LET c == amf[k].ctx IN
  /\ amf[k].pc = "policy"
  /\ policy' = [policy EXCEPT ![c] = "bound"]
  /\ \E p \in {{}, RulePath} : /\ path' = [path EXCEPT ![c] = p]
                               /\ active' = [active EXCEPT ![c] = p]
  /\ Goto(k, "paths")
  /\ UNCHANGED <<pool, canonical, key, state, addr, upf, an, dup, done, seid,
                 lock, free, removing, wait, ok, pcf, visit, extVars>>

\* The default data path is activated, a goroutine takes over SMLock and asks
\* the UPFs to establish the session, and the AMF is answered 201 with the ref.
StartEstablishment(k) ==
  LET c == amf[k].ctx
      upfs == path[c] \cup DefaultPath
  IN
  /\ amf[k].pc = "paths"
  /\ path' = [path EXCEPT ![c] = upfs]
  /\ active' = [active EXCEPT ![c] = upfs]
  /\ wait' = [wait EXCEPT ![c] = upfs]
  /\ ok' = [ok EXCEPT ![c] = TRUE]
  /\ lock' = [lock EXCEPT ![c] = "est"]
  /\ known' = known \cup {c}
  /\ Finish(k)
  /\ UNCHANGED <<pool, canonical, key, state, addr, upf, policy, an, dup, done,
                 seid, free, removing, pcf, visit, sess, ordered, troubled,
                 requests>>

-----------------------------------------------------------------------------
(* The establishment goroutine: ActivateUPFSession, then EstHandler *)

\* Mutant: the last answer decides.
CollectLast(c, yes) == ok' = [ok EXCEPT ![c] = yes]

\* waitAllPfcpRsp: one refusal is enough.
Collect(c, yes) == ok' = [ok EXCEPT ![c] = @ /\ yes]

\* One establishPfcpSession answers: the UPF accepts, or it does not, or its
\* answer is lost and it may nevertheless have made the session.
EstablishAnswer(c, u) ==
  /\ lock[c] = "est" /\ u \in wait[c]
  /\ wait' = [wait EXCEPT ![c] = @ \ {u}]
  /\ \/ /\ sess' = [sess EXCEPT ![c] = @ \cup {u}]
        /\ seid' = [seid EXCEPT ![c] = @ \cup {u}]
        /\ Collect(c, TRUE)
        /\ UNCHANGED troubled
     \/ /\ Collect(c, FALSE)
        /\ troubled' = troubled \cup {c}
        /\ \E s \in {{}, {u}} : sess' = [sess EXCEPT ![c] = @ \cup s]
        /\ UNCHANGED seid
  /\ UNCHANGED <<pool, canonical, key, state, addr, upf, policy, an, dup, done,
                 path, active, lock, free, removing, amf, pcf, visit, known,
                 ordered, requests>>

\* sendPDUSessionEstablishmentAccept: without a token, or if the transfer to
\* the AMF fails, the state stays what it is.
EstablishAccept(c) ==
  /\ lock[c] = "est" /\ wait[c] = {} /\ ok[c]
  /\ \/ state' = [state EXCEPT ![c] = "Active"]
     \/ UNCHANGED state
  /\ Unlock(c)
  /\ UNCHANGED <<pool, canonical, key, addr, upf, policy, an, dup, done, path,
                 active, seid, free, removing, amf, wait, ok, pcf, visit,
                 extVars>>

\* sendPDUSessionEstablishmentReject: the context is removed when the AMF took
\* the reject, and stays InActive when the transfer failed.
EstablishReject(c) ==
  /\ lock[c] = "est" /\ wait[c] = {} /\ ~ok[c]
  /\ \/ RemoveFromAllNF(c)
     \/ /\ state' = [state EXCEPT ![c] = "InActive"]
        /\ UNCHANGED <<policy, removing>>
  /\ Unlock(c)
  /\ UNCHANGED <<pool, canonical, key, addr, upf, an, dup, done, path, active,
                 seid, free, amf, wait, ok, pcf, visit, extVars>>

-----------------------------------------------------------------------------
(* HandlePDUSessionSMContextUpdate: the context is looked up before its lock *)

UpdateRequest(k, c) ==
  /\ Arrive
  /\ amf[k].pc = "idle"
  /\ c \in known \cap pool /\ key[c] = k
  /\ amf' = [amf EXCEPT ![k] = [pc |-> "update", ctx |-> c]]
  /\ UNCHANGED <<pool, canonical, ctxVars, lock, free, removing, wait, ok, pcf,
                 visit, sess,
                 known, ordered, troubled>>

\* Mutant: the context keeps the address that it gives back.
GiveBackKeeping(c) ==
  /\ free' = IF upf[c] /\ addr[c] # None THEN free \cup {addr[c]} ELSE free
  /\ UNCHANGED addr

\* Mutant: it is not checked that the context has an address.
GiveBackUnchecked(c) ==
  /\ free' = free \cup {addr[c]}
  /\ addr' = [addr EXCEPT ![c] = None]

\* The UE address goes back to the pool; SelectedUPF is kept.
GiveBack(c) ==
  \/ /\ upf[c] /\ addr[c] # None
     /\ free' = free \cup {addr[c]}
     /\ addr' = [addr EXCEPT ![c] = None]
  \/ /\ ~(upf[c] /\ addr[c] # None)
     /\ UNCHANGED <<free, addr>>

\* N1 PDU Session Release Request: the address goes back to the pool at once,
\* the policy association is terminated, T3592 guards the command that is sent
\* to the UE, and the PFCP sessions are deleted.
UeReleaseRequest(k) ==
  LET c == amf[k].ctx IN
  /\ amf[k].pc = "update"
  /\ Lock(c, "amf")
  /\ GiveBack(c)
  /\ TerminatePolicy(c)
  /\ StartDeletion(c)
  /\ state' = [state EXCEPT ![c] = "PFCPModification"]
  /\ ordered' = ordered \cup {c}
  /\ Goto(k, "releaseAnswer")
  /\ UNCHANGED <<pool, canonical, key, upf, an, dup, path, seid, removing, wait,
                 ok, pcf, visit, sess, known, troubled, requests>>

\* The end of an update in state s: a context that is released because of a
\* duplicate session ID is removed whatever the update was.
EndUpdate(k, s, remove) ==
  LET c == amf[k].ctx IN
  /\ \/ /\ dup[c] \/ remove
        /\ RemoveFromAllNF(c)
     \/ /\ ~(dup[c] \/ remove)
        /\ state' = [state EXCEPT ![c] = s]
        /\ UNCHANGED <<policy, removing>>
  /\ Finish(k)

UeReleaseAnswer(k) ==
  LET c == amf[k].ctx IN
  /\ amf[k].pc = "releaseAnswer"
  /\ \/ DeletionSucceeds(c) /\ EndUpdate(k, "InActivePending", FALSE)
     \/ DeletionFails(c)    /\ EndUpdate(k, "Active", FALSE)
  /\ Unlock(c)
  /\ UNCHANGED <<pool, canonical, key, addr, upf, an, dup, path, active, seid,
                 free, wait, ok, pcf, visit, known, ordered, requests>>

\* An update that needs nothing but the SMLock of its context.
ShortUpdate(k) ==
  /\ amf[k].pc = "update" /\ lock[amf[k].ctx] = None
  /\ UNCHANGED <<pool, canonical, key, addr, upf, done, path, active, seid,
                 lock, free, wait, ok, pcf, visit, extVars>>

\* N1 PDU Session Release Complete, from a UE that was ordered to release: the
\* context goes when the access network has released its resources too.
UeReleaseComplete(k) ==
  /\ ShortUpdate(k)
  /\ amf[k].ctx \in ordered
  /\ EndUpdate(k, "InActive", ~an[amf[k].ctx])
  /\ UNCHANGED <<an, dup>>

\* N2 PDU Session Resource Release Response.
AnReleaseResponse(k) ==
  LET c == amf[k].ctx IN
  /\ ShortUpdate(k)
  /\ an' = [an EXCEPT ![c] = FALSE]
  /\ EndUpdate(k, IF state[c] = "ModificationPending" THEN "Active" ELSE state[c],
               state[c] = "InActive")
  /\ UNCHANGED dup

\* Every modification of the session: ACTIVATING, the answer to a resource setup,
\* path switch, handover, MOD_IND.  CheckState only logs, and whether the AN's
\* UPF accepts the PFCP modification or not, the context ends up Active.  Some
\* of them carry the address of the access network's end of the tunnel.
ModifySession(k) ==
  /\ ShortUpdate(k)
  /\ an' \in {an, [an EXCEPT ![amf[k].ctx] = TRUE]}
  /\ EndUpdate(k, "Active", FALSE)
  /\ UNCHANGED dup

\* UpCnxState DEACTIVATED modifies the session unless its release is pending.
\* A PDU Session Modification Request returns early too, and changes nothing here.
EarlyReturn(k) ==
  /\ ShortUpdate(k)
  /\ Finish(k)
  /\ UNCHANGED <<an, dup, state, policy, removing>>

Deactivate(k) ==
  /\ ShortUpdate(k)
  /\ state[amf[k].ctx] # "InActivePending"
  /\ EndUpdate(k, "Active", FALSE)
  /\ UNCHANGED <<an, dup>>

\* An answer of the UE or the AN that changes nothing of its own: Modification
\* Complete or Reject, SETUP_FAIL, MOD_RSP.
PlainUpdate(k) ==
  LET s == state[amf[k].ctx] IN
  /\ ShortUpdate(k)
  /\ EndUpdate(k, IF s = "ModificationPending" THEN "Active" ELSE s, FALSE)
  /\ UNCHANGED <<an, dup>>

\* Mutant: only an Active session is taken to have PFCP sessions.
OnlyActive == {"Active"}

\* The states in which the release of a duplicate deletes the PFCP sessions.
Deletable == {"ActivePending", "ModificationPending", "Active"}

\* REL_DUE_TO_DUPLICATE_SESSION_ID.
DupRelease(k) ==
  LET c == amf[k].ctx IN
  /\ amf[k].pc = "update"
  /\ dup' = [dup EXCEPT ![c] = TRUE]
  /\ \/ /\ state[c] \in Deletable
        /\ Lock(c, "amf")
        /\ StartDeletion(c)
        /\ state' = [state EXCEPT ![c] = "PFCPModification"]
        /\ Goto(k, "dupAnswer")
        /\ UNCHANGED <<policy, removing>>
     \/ /\ state[c] \notin Deletable
        /\ lock[c] = None
        /\ RemoveFromAllNF(c)
        /\ Finish(k)
        /\ UNCHANGED <<lock, done, active>>
  /\ UNCHANGED <<pool, canonical, key, addr, upf, an, path, seid, free, wait, ok,
                 pcf, visit, extVars>>

DupReleaseAnswer(k) ==
  LET c == amf[k].ctx IN
  /\ amf[k].pc = "dupAnswer"
  /\ DeletionSucceeds(c) \/ DeletionFails(c)
  /\ RemoveFromAllNF(c)
  /\ Finish(k)
  /\ Unlock(c)
  /\ UNCHANGED <<pool, canonical, key, addr, upf, an, dup, path, active, seid,
                 free, wait, ok, pcf, visit, known, ordered, requests>>

-----------------------------------------------------------------------------
(* HandlePDUSessionSMContextRelease *)

ReleaseRequest(k, c) ==
  /\ Arrive
  /\ amf[k].pc = "idle"
  /\ c \in known \cap pool /\ key[c] = k
  /\ amf' = [amf EXCEPT ![k] = [pc |-> "release", ctx |-> c]]
  /\ UNCHANGED <<pool, canonical, ctxVars, lock, free, removing, wait, ok, pcf,
                 visit, sess,
                 known, ordered, troubled>>

Release(k) ==
  LET c == amf[k].ctx IN
  /\ amf[k].pc = "release"
  /\ \/ /\ done[c]
        /\ lock[c] = None
        /\ RemoveFromAllNF(c)
        /\ Finish(k)
        /\ UNCHANGED <<lock, done, active>>
     \/ /\ ~done[c]
        /\ Lock(c, "amf")
        /\ TerminatePolicy(c)
        /\ StartDeletion(c)
        /\ state' = [state EXCEPT ![c] = "PFCPModification"]
        /\ Goto(k, "smReleaseAnswer")
        /\ UNCHANGED removing
  /\ UNCHANGED <<pool, canonical, key, addr, upf, an, dup, path, seid, free,
                 wait, ok, pcf, visit, extVars>>

\* The context is removed whether its PFCP sessions could be deleted or not.
ReleaseAnswer(k) ==
  LET c == amf[k].ctx IN
  /\ amf[k].pc = "smReleaseAnswer"
  /\ DeletionSucceeds(c) \/ DeletionFails(c)
  /\ RemoveFromAllNF(c)
  /\ Finish(k)
  /\ Unlock(c)
  /\ UNCHANGED <<pool, canonical, key, addr, upf, an, dup, path, active, seid,
                 free, wait, ok, pcf, visit, known, ordered, requests>>

-----------------------------------------------------------------------------
(* The removal goroutine, policy notifications, the loss of a UPF *)

\* Mutant: the index entry of a removed context stays behind.
KeepIndex(c) == UNCHANGED canonical

\* canonicalRef.Delete.
DropIndex(c) == canonical' = [canonical EXCEPT ![key[c]] = None]

\* sendSMContextStatusNotificationAndRemoveSMContext with RemoveSMContext: the
\* address is given back, the ref leaves the pool and the key leaves the index,
\* whichever context the index has under that key.
Remove(c) ==
  /\ c \in removing /\ lock[c] = None
  /\ removing' = removing \ {c}
  /\ pool' = pool \ {c}
  /\ IF c \in pool THEN DropIndex(c) ELSE UNCHANGED canonical
  /\ \/ /\ c \in pool /\ upf[c] /\ addr[c] # None
        /\ free' = free \cup {addr[c]}
        /\ upf' = [upf EXCEPT ![c] = FALSE]
     \/ /\ ~(c \in pool /\ upf[c] /\ addr[c] # None)
        /\ UNCHANGED <<free, upf>>
  /\ UNCHANGED <<key, state, addr, policy, an, dup, done, path, active, seid,
                 lock, amf, wait, ok, pcf, visit, extVars>>

\* HandleSMPolicyUpdateNotify: the PCF notifies an association that it has; the
\* context is looked up before its lock.
PolicyNotify(c) ==
  /\ Arrive
  /\ pcf[c] = "idle" /\ c \in pool /\ policy[c] # "none"
  /\ pcf' = [pcf EXCEPT ![c] = "notified"]
  /\ UNCHANGED <<pool, canonical, ctxVars, lock, free, removing, amf, wait, ok,
                 visit, sess,
                 known, ordered, troubled>>

\* The decision cannot be applied, and the state is left ModificationPending.
PolicyRefused(c) ==
  /\ pcf[c] = "notified" /\ lock[c] = None
  /\ state' = [state EXCEPT ![c] = "ModificationPending"]
  /\ pcf' = [pcf EXCEPT ![c] = "idle"]
  /\ UNCHANGED <<pool, canonical, key, addr, upf, policy, an, dup, done, path,
                 active, seid, lock, free, removing, amf, wait, ok, visit,
                 extVars>>

\* The decision is applied, whatever the state is, and may add a data path.
PolicyApply(c) ==
  /\ pcf[c] = "notified" /\ Lock(c, "pcf")
  /\ \E p \in {{}, RulePath} :
       /\ path' = [path EXCEPT ![c] = @ \cup p]
       /\ active' = [active EXCEPT ![c] = @ \cup p]
  /\ troubled' = IF Ended(c) THEN troubled \cup {c} ELSE troubled
  /\ state' = [state EXCEPT ![c] = "ModificationPending"]
  /\ pcf' = [pcf EXCEPT ![c] = "applied"]
  /\ UNCHANGED <<pool, canonical, key, addr, upf, policy, an, dup, done, seid,
                 free, removing, amf, wait, ok, visit, sess, known, ordered,
                 requests>>

\* ActivateUPFSession without a handler: active UPFs without a known SEID are
\* asked to establish the session, and nobody looks at what they answered.
PolicyAnswers(c) ==
  /\ pcf[c] = "applied"
  /\ \E yes \in SUBSET (active[c] \ seid[c]) :
     \E lost \in SUBSET ((active[c] \ seid[c]) \ yes) :
       /\ seid' = [seid EXCEPT ![c] = @ \cup yes]
       /\ sess' = [sess EXCEPT ![c] = @ \cup yes \cup lost]
       /\ troubled' = IF active[c] \subseteq seid'[c] THEN troubled
                      ELSE troubled \cup {c}
  /\ Unlock(c)
  /\ pcf' = [pcf EXCEPT ![c] = "idle"]
  /\ UNCHANGED <<pool, canonical, key, state, addr, upf, policy, an, dup, done,
                 path, active, free, removing, amf, wait, ok, visit, known,
                 ordered, requests>>

\* releaseAllResourcesOfUPF comes to a context of the lost anchor UPF; which
\* contexts those are is read without their locks.
VisitContext(c) ==
  /\ Arrive
  /\ visit = None /\ c \in pool /\ upf[c]
  /\ visit' = c
  /\ UNCHANGED <<pool, canonical, ctxVars, lock, free, removing, amf, wait, ok,
                 pcf, sess,
                 known, ordered, troubled>>

\* requestAMFToReleasePDUResources: no token leaves the context alone; a UE that
\* cannot be reached is released at once; an accepted transfer waits for the
\* UE; anything else keeps the context, InActive.
ReleaseLostSession ==
  LET c == visit IN
  /\ visit # None /\ lock[c] = None
  /\ visit' = None
  /\ \/ UNCHANGED <<state, policy, removing, ordered, troubled>>
     \/ /\ state[c] \in {"Active", "ModificationPending", "PFCPModification"}
        /\ troubled' = troubled \cup {c}
        /\ \/ /\ RemoveFromAllNF(c)
              /\ UNCHANGED ordered
           \/ /\ state' = [state EXCEPT ![c] = "InActivePending"]
              /\ ordered' = ordered \cup {c}
              /\ UNCHANGED <<policy, removing>>
           \/ /\ state' = [state EXCEPT ![c] = "InActive"]
              /\ UNCHANGED <<policy, removing, ordered>>
  /\ UNCHANGED <<pool, canonical, key, addr, upf, an, dup, done, path, active,
                 seid, lock, free, amf, wait, ok, pcf, sess, known, requests>>

\* ReportUsageAndUpdateQuota sets PFCPModification when the CHF has answered, and
\* Active when the UPF was asked to take the new quota, whatever it says; without
\* a quota to take there is nothing to ask, and the state is left.
AfterCharging == {"Active"} \cup {s \in {"PFCPModification"} : EmptyGrants}

\* A usage report of a UPF that has accepted the session (HandlePfcpSession-
\* ReportRequest, quota timers, charging notifications), under SMLock to its end;
\* the context was looked up before, so it may be a removed one.
UsageReport(c) ==
  /\ Arrive
  /\ lock[c] = None /\ seid[c] # {}
  /\ \E s \in AfterCharging : state' = [state EXCEPT ![c] = s]
  /\ UNCHANGED <<pool, canonical, key, addr, upf, policy, an, dup, done, path,
                 active, seid, lock, free, removing, amf, wait, ok, pcf, visit,
                 sess, known, ordered, troubled>>

-----------------------------------------------------------------------------
HandlerStep(k) ==
  \/ LocalRelease(k) \/ LocalReleaseAnswer(k)
  \/ NewContext(k) \/ CreateReject(k) \/ CreateNoToken(k) \/ AllocUeIP(k)
  \/ PolicyAssociated(k) \/ StartEstablishment(k)
  \/ UeReleaseRequest(k) \/ UeReleaseAnswer(k) \/ UeReleaseComplete(k)
  \/ AnReleaseResponse(k) \/ ModifySession(k) \/ EarlyReturn(k)
  \/ Deactivate(k) \/ PlainUpdate(k) \/ DupRelease(k) \/ DupReleaseAnswer(k)
  \/ Release(k) \/ ReleaseAnswer(k)

EstablishStep(c) ==
  \/ \E u \in UPFs : EstablishAnswer(c, u)
  \/ EstablishAccept(c) \/ EstablishReject(c)

PolicyStep(c) == PolicyRefused(c) \/ PolicyApply(c) \/ PolicyAnswers(c)

Next ==
  \/ \E k \in Keys : CreateRequest(k) \/ HandlerStep(k)
  \/ \E k \in Keys, c \in Ctxs : UpdateRequest(k, c) \/ ReleaseRequest(k, c)
  \/ \E c \in Ctxs : EstablishStep(c) \/ Remove(c) \/ PolicyNotify(c)
                     \/ PolicyStep(c) \/ VisitContext(c) \/ UsageReport(c)
  \/ ReleaseLostSession

Spec == Init /\ [][Next]_vars

\* A goroutine that can run does run, and Go's mutexes do not starve a waiter.
Fairness ==
  /\ \A k \in Keys : SF_vars(HandlerStep(k))
  /\ \A c \in Ctxs : WF_vars(EstablishStep(c)) /\ SF_vars(PolicyStep(c))
                     /\ SF_vars(Remove(c))
  /\ SF_vars(ReleaseLostSession)

FairSpec == Spec /\ Fairness

-----------------------------------------------------------------------------
(* Properties *)

TypeOK ==
  /\ pool \subseteq Ctxs
  /\ canonical \in [Keys -> Ctxs \cup {None}]
  /\ key \in [Ctxs -> Keys \cup {None}]
  /\ state \in [Ctxs -> States]
  /\ addr \in [Ctxs -> Addrs \cup {None}]
  /\ upf \in [Ctxs -> BOOLEAN]
  /\ policy \in [Ctxs -> {"none", "bound", "stale"}]
  /\ an \in [Ctxs -> BOOLEAN]
  /\ dup \in [Ctxs -> BOOLEAN]
  /\ done \in [Ctxs -> BOOLEAN]
  /\ path \in [Ctxs -> SUBSET UPFs]
  /\ active \in [Ctxs -> SUBSET UPFs]
  /\ seid \in [Ctxs -> SUBSET UPFs]
  /\ lock \in [Ctxs -> {None, "amf", "est", "pcf"}]
  /\ free \subseteq Addrs
  /\ removing \subseteq Ctxs
  /\ amf \in [Keys -> [pc : AmfPcs, ctx : Ctxs \cup {None}]]
  /\ wait \in [Ctxs -> SUBSET UPFs]
  /\ ok \in [Ctxs -> BOOLEAN]
  /\ pcf \in [Ctxs -> {"idle", "notified", "applied"}]
  /\ visit \in Ctxs \cup {None}
  /\ sess \in [Ctxs -> SUBSET UPFs]
  /\ known \subseteq Ctxs
  /\ ordered \subseteq Ctxs
  /\ troubled \subseteq Ctxs
  /\ requests \in 0 .. MaxRequests

\* UE addresses: whatever handlers and goroutines release a session, and
\* however often, an address is either in the pool or held by exactly one
\* context, and that context is not forgotten: it is still in the pool.
AddressesAccounted ==
  /\ \A a \in Addrs : a \in free <=> \A c \in Ctxs : ~Holds(c, a)
  /\ \A c, d \in Ctxs, a \in Addrs : Holds(c, a) /\ Holds(d, a) => c = d
  /\ \A c \in Ctxs, a \in Addrs : Holds(c, a) => c \in pool

\* The index never leads a handler to a context that is gone or to one of
\* another session, even when an old context of the key is removed late.
IndexSound ==
  \A k \in Keys : canonical[k] # None =>
     canonical[k] \in pool /\ key[canonical[k]] = k

\* What a removed context leaves behind: no policy association whose
\* termination was not tried, and a PFCP session only if a PFCP exchange
\* failed, its anchor UPF was lost, or a policy update came after its end.
NothingLeftBehind ==
  \A c \in Removed : policy[c] # "bound" /\ (sess[c] # {} => c \in troubled)

\* PFCPReleaseDone makes Release and LocalRelease skip the PFCP deletion, so
\* with the same exceptions it means that no UPF holds a session any more.
ReleaseDoneIsTrue ==
  \A c \in Ctxs : done[c] => sess[c] = {} \/ c \in troubled

\* The UE is told that its session is accepted only if every UPF of its paths
\* has accepted it, in whatever order their answers came in.
AcceptedIsInstalled ==
  [][\A c \in Ctxs : lock[c] = "est" /\ state[c] # "Active" /\ state'[c] = "Active"
       => path[c] \subseteq sess[c] \cap seid[c]]_vars

\* A context that is to be removed goes, whatever holds its lock meanwhile.
RemovalHappens == \A c \in Ctxs : c \in removing ~> c \notin pool

\* Every request of the AMF comes to its end: no handler waits for ever for a
\* lock, a UPF or another goroutine.  T3592's own hold of SMLock, which a failed
\* transfer makes permanent, is left to GsmTimers.
RequestsFinish == \A k \in Keys : amf[k].pc # "idle" ~> amf[k].pc = "idle"

\* "Check duplicate SM Context": a Create can only release the old session of
\* its key if the index still leads to one while it is in the pool and alive.
LiveSessionIndexed ==
  \A c \in pool \ removing : state[c] = "Active" => canonical[key[c]] # None

\* "release PDU Session Here": a duplicate is only handed over for its removal
\* when its PFCP sessions are deleted, or one of the PFCP exchanges has failed.
DupReleaseComplete ==
  [][\A c \in Ctxs : dup'[c] /\ c \in removing' \ removing
       => sess'[c] = {} \/ c \in troubled']_vars
=============================================================================
