----------------------------- MODULE UserPlane -----------------------------
(* The user plane as the SMF knows it: the nodes and links that operators    *)
(* post and delete, the default paths that session creations look up and     *)
(* cache, the association of every UPF with the loop that keeps it, and the  *)
(* sessions that a lost UPF takes with it.  The topology is protected by a   *)
(* readers-writer lock, each session by its SMLock.  One DNN of one slice is *)
(* served, and there is one access network.                                  *)
EXTENDS Naturals, FiniteSets, Sequences, SequencesExt

CONSTANTS
  Nodes,          \* the names (and node IDs) of UPFs
  An,             \* the name of the access network's node
  Slice,          \* the UPFs of the slice
  Serving,        \* those of them that serve the DNN
  FirstNodes,     \* the UPFs of the configuration file
  FirstLinks,     \* and its links: {a, b}
  Configs,        \* what operators post: <<names of nodes, links>>
  Sessions,
  MaxGen,         \* a bound: the UPNodes made of one name
  MaxChanges,     \* a bound: the posts and deletions that change the topology
  MaxLoops,       \* a bound: the association loops of one UPF
  MaxStarted,     \* a bound: the association loops of all UPFs
  MaxDowns,       \* a bound: how often a UPF is not reached
  None            \* no UPF

Names == Nodes \cup {An}
Objs == Names \X (1..MaxGen)        \* *UPNode: a name and which one of that name
UpfObjs == Nodes \X (1..MaxGen)
Loops == UpfObjs \X (1..MaxLoops)
Boots == 1..(MaxDowns + 1)

ASSUME UserPlaneAssumption ==
  /\ An \notin Nodes /\ Serving \subseteq Slice /\ Slice \subseteq Nodes
  /\ FirstNodes \subseteq Nodes
  /\ Configs \subseteq (SUBSET Names) \X (SUBSET (SUBSET Names))
  /\ \A e \in FirstLinks \cup UNION {c[2] : c \in Configs} : e \subseteq Names /\ Cardinality(e) = 2
  /\ MaxGen \in Nat \ {0} /\ MaxChanges \in Nat /\ MaxLoops \in Nat \ {0} /\ MaxStarted \in Nat
  /\ MaxDowns \in Nat
  /\ None \notin UpfObjs

VARIABLES
  gen,            \* UPNodes: name -> which UPNode of that name, 0: none
  made,           \* name -> how many UPNodes were made
  links,          \* Links of the nodes: {x, y}
  pathTo,         \* DefaultUserPlanePathToUPF: node -> path, <<>>: not cached
  readers,        \* upi.Mu: the threads that hold it for reading
  writing,        \* upi.Mu: a writer waits for it, and new readers wait for him
  sm,             \* SMLock: session -> "free", "create" or "update"
  create,         \* the handler that creates the session
  upd,            \* a handler that updates it
  state,          \* the session's state; the one that waits for its release is InActive
  sel,            \* SelectedUPF
  path,           \* the session's default path
  assoc,          \* the UPFs whose AssociationContext is not done
  rec,            \* RecoveryTimeStamp, 0: zero
  loop,           \* the association loops
  watching,       \* the loops that wait on the UPF's AssociationContext
  woken,          \* the loops that wait on one that is done
  todo,           \* the sessions a loop's release has still to visit
  gone,           \* ReleaseAllResourcesOfUPF of a deleted UPF: the same
  reach,          \* external: the UPFs that can be reached
  boot,           \* external: their start times
  downs,          \* history: how often some UPF went down
  changes,        \* history: the posts and deletions that changed something
  denied          \* history: sessions whose release got no access token

topology == <<gen, made, links, pathTo, changes>>
locks == <<readers, writing, sm>>
session == <<create, upd, state, sel, path>>
association == <<assoc, rec, loop, watching, woken, todo, gone>>
network == <<reach, boot, downs>>
vars == <<topology, locks, session, association, network, denied>>

Pair(a, b) == {a, b}
Obj(n) == <<n, gen[n]>>
Present(N) == {Obj(n) : n \in {x \in N : gen[x] # 0}}

\* The start-up is over: the UPFs of the configuration file are associated.
Init ==
  /\ gen = [n \in Names |-> IF n \in FirstNodes \cup {An} THEN 1 ELSE 0]
  /\ made = gen
  /\ links = {{<<n, 1>> : n \in e} : e \in {e \in FirstLinks : e \subseteq FirstNodes \cup {An}}}
  /\ pathTo = [n \in Nodes |-> <<>>]
  /\ readers = {} /\ writing = FALSE
  /\ sm = [s \in Sessions |-> "free"]
  /\ create = [s \in Sessions |-> "none"]
  /\ upd = [s \in Sessions |-> "off"]
  /\ state = [s \in Sessions |-> "none"]
  /\ sel = [s \in Sessions |-> None]
  /\ path = [s \in Sessions |-> <<>>]
  /\ assoc = Present(Nodes)
  /\ rec = [o \in UpfObjs |-> 0]
  /\ loop = [l \in Loops |-> IF l[1] \in Present(Nodes) /\ l[2] = 1 THEN "beat" ELSE "none"]
  /\ watching = {} /\ woken = {}
  /\ todo = [l \in Loops |-> {}]
  /\ gone = [o \in UpfObjs |-> {}]
  /\ reach = Nodes
  /\ boot = [n \in Nodes |-> 1]
  /\ downs = 0
  /\ changes = 0
  /\ denied = {}

-----------------------------------------------------------------------------
(* Paths of the user plane *)

Linked(x, y) == Pair(x, y) \in links
IsPath(p) == \A i \in 1..(Len(p) - 1) : Linked(p[i], p[i + 1])

\* getPathBetween: the depth first search from the AN finds some path without a
\* cycle through nodes of the slice, whichever the order of the links is.
PathsBetween(o) ==
  LET V == Present(Slice)
  IN  {p \in UNION {[1..n -> V] : n \in 1..Cardinality(V)} :
         /\ IsInjective(p) /\ p[Len(p)] = o
         /\ Linked(Obj(An), p[1]) /\ IsPath(p)}

\* selectAnchorUPF: a node that matches the selection is visited after one of its
\* neighbours, and is an anchor if its matching neighbours were all visited
\* before it.  The order of the links, and so the order of the visits, is free.
VisitOrders ==
  LET V == Present(Serving)
      orders == {ord \in UNION {[1..n -> V] : n \in 1..Cardinality(V)} : IsInjective(ord)}
      seen(ord, i) == {Obj(An)} \cup {ord[j] : j \in 1..(i - 1)}
  IN  {ord \in orders :
         /\ \A i \in DOMAIN ord : \E y \in seen(ord, i) : Linked(ord[i], y)
         /\ \A x \in V \ Range(ord) : \A y \in Range(ord) \cup {Obj(An)} : ~Linked(x, y)}
Anchors ==
  UNION {{ord[i] : i \in {k \in DOMAIN ord :
            \A y \in Present(Serving) : Linked(ord[k], y) => \E j \in 1..(k - 1) : ord[j] = y}}
         : ord \in VisitOrders}

-----------------------------------------------------------------------------
(* The configuration of the user plane *)

\* PostUpNodesLinks and DeleteUpNodeLink wait for upi.Mu.
AskForWriting ==
  /\ ~writing
  /\ writing' = TRUE
  /\ UNCHANGED <<topology, readers, sm, session, association, network, denied>>

Writes == writing /\ readers = {} /\ writing' = FALSE
Changes == /\ Writes
           /\ changes < MaxChanges /\ changes' = changes + 1

\* UpNodesFromConfiguration adds the nodes that are not there.
UpNodesFromConfiguration(N) ==
  LET new == {n \in N : gen[n] = 0}
  IN  /\ \A n \in new : made[n] < MaxGen
      /\ gen' = [n \in Names |-> IF n \in new THEN made[n] + 1 ELSE gen[n]]
      /\ made' = [n \in Names |-> IF n \in new THEN made[n] + 1 ELSE made[n]]

\* LinksFromConfiguration adds the links whose ends are there.
LinksFromConfiguration(L) ==
  links' = links \cup {{<<n, gen'[n]>> : n \in e} : e \in {e \in L : \A n \in e : gen'[n] # 0}}

\* Nodes and links are added, and every UPF that is not associated gets an
\* association loop: one that has a loop already gets another.
PostUpNodesLinks(N, L) ==
  LET idle == {<<n, gen'[n]>> : n \in {x \in Nodes : gen'[x] # 0}} \ assoc
      slot(o) == {i \in 1..MaxLoops : loop[<<o, i>>] = "none"}
  IN  /\ Changes
      /\ UpNodesFromConfiguration(N)
      /\ LinksFromConfiguration(L)
      /\ \A o \in idle : slot(o) # {}
      /\ Cardinality({l \in Loops : loop[l] # "none"}) + Cardinality(idle) <= MaxStarted
      /\ loop' = [l \in Loops |-> IF /\ l[1] \in idle /\ l[2] \in slot(l[1])
                                     /\ \A i \in slot(l[1]) : l[2] <= i
                                  THEN "setup" ELSE loop[l]]
      /\ UNCHANGED <<pathTo, readers, sm, session, assoc, rec, watching, woken, todo, gone,
                     network, denied>>

\* The configuration has an invalid or overlapping address pool: nothing changes.
\* The deletion of an unknown node does nothing either.
NothingWritten ==
  /\ Writes
  /\ UNCHANGED <<topology, readers, sm, session, association, network, denied>>

\* Mutant: only the path to the deleted node itself leaves the cache.
ForgetsDestination(o) == [n \in Nodes |-> IF n = o[1] THEN <<>> ELSE pathTo[n]]

\* UpNodeDelete takes the cached paths through the node away, to whichever UPF.
Invalidated(o) == [n \in Nodes |-> IF o \in Range(pathTo[n]) THEN <<>> ELSE pathTo[n]]

\* Mutant: the association's context is left as it is.
NoCancel(o) == UNCHANGED <<assoc, watching, woken>>

\* CancelAssociation of a UPF: its AssociationContext is done.
CancelAssociation(o) ==
  LET W == {l \in watching : l[1] = o /\ loop'[l] = "beat"}
  IN  /\ assoc' = assoc \ {o}
      /\ watching' = {l \in watching : l[1] # o}
      /\ woken' = {l \in woken \cup W : loop'[l] = "beat"}

\* smContextPool.
Known == {s \in Sessions : state[s] \notin {"none", "removed"}}

\* DeleteUpNodeLink of a UPF: its association is cancelled, a goroutine releases
\* its sessions, and it leaves the topology.
DeleteUpf(n) ==
  /\ Changes
  /\ gen[n] # 0
  /\ gone' = [gone EXCEPT ![Obj(n)] = Known]
  /\ UNCHANGED loop
  /\ CancelAssociation(Obj(n))
  /\ gen' = [gen EXCEPT ![n] = 0]
  /\ links' = {e \in links : Obj(n) \notin e}
  /\ pathTo' = Invalidated(Obj(n))
  /\ UNCHANGED <<made, readers, sm, session, rec, todo, network, denied>>

\* DeleteUpNodeLink of the access network.
DeleteAn ==
  /\ Changes
  /\ gen[An] # 0
  /\ gen' = [gen EXCEPT ![An] = 0]
  /\ links' = {e \in links : Obj(An) \notin e}
  /\ UNCHANGED <<made, pathTo, readers, sm, session, association, network, denied>>

-----------------------------------------------------------------------------
(* Sessions *)

\* RemoveSMContext: the session is gone, with its paths.
Removed(s) ==
  /\ state' = [state EXCEPT ![s] = "removed"]
  /\ sel' = [sel EXCEPT ![s] = None]
  /\ path' = [path EXCEPT ![s] = <<>>]

\* NewSMContext, and SMLock.  A session that is gone may be created
\* again, when its handlers are gone too.
StartCreate(s) ==
  /\ create[s] = "none" \/ (create[s] = "done" /\ state[s] = "removed" /\ upd[s] = "off")
  /\ create' = [create EXCEPT ![s] = "lock"]
  /\ state' = [state EXCEPT ![s] = "ActivePending"]
  /\ sm' = [sm EXCEPT ![s] = "create"]
  /\ denied' = denied \ {s}
  /\ UNCHANGED <<topology, readers, writing, upd, sel, path, association, network>>

\* upi.Mu.RLock of a creation, with SMLock held.
CreateReads(s) ==
  /\ create[s] = "lock" /\ ~writing
  /\ create' = [create EXCEPT ![s] = "read"]
  /\ readers' = readers \cup {<<s, "create">>}
  /\ UNCHANGED <<topology, writing, sm, upd, state, sel, path, association, network, denied>>

\* AllocUeIP: SelectUPFAndAllocUEIP takes an anchor that is associated.
SelectUpf(s, o) ==
  /\ create[s] = "read" /\ gen[An] # 0
  /\ o \in Anchors \cap assoc
  /\ sel' = [sel EXCEPT ![s] = o]
  /\ create' = [create EXCEPT ![s] = "paths"]
  /\ UNCHANGED <<topology, locks, upd, state, path, association, network, denied>>

\* The creation's answer: upi.Mu is released, the goroutine keeps SMLock.
Answered(s) ==
  /\ create' = [create EXCEPT ![s] = "establish"]
  /\ readers' = readers \ {<<s, "create">>}
  /\ UNCHANGED <<gen, made, links, changes, writing, sm, upd, state, sel, association,
                 network, denied>>

\* SelectDefaultDataPath: GetDefaultUserPlanePathByDNNAndUPF finds the path in the
\* cache, or makes it and puts it there.
CachedPath(s) ==
  /\ create[s] = "paths" /\ pathTo[sel[s][1]] # <<>>
  /\ path' = [path EXCEPT ![s] = pathTo[sel[s][1]]]
  /\ Answered(s)
  /\ UNCHANGED pathTo

NewPath(s) ==
  /\ create[s] = "paths" /\ pathTo[sel[s][1]] = <<>> /\ gen[An] # 0
  /\ \E p \in PathsBetween(sel[s]) :
       /\ path' = [path EXCEPT ![s] = p]
       /\ pathTo' = [pathTo EXCEPT ![sel[s][1]] = p]
  /\ Answered(s)

\* The creation is rejected: no access network, no anchor with an address, no path,
\* or what the other network functions say.
Reject(s) ==
  /\ create[s] \in {"read", "paths"}
  /\ create' = [create EXCEPT ![s] = "done"]
  /\ Removed(s)
  /\ sm' = [sm EXCEPT ![s] = "free"]
  /\ readers' = readers \ {<<s, "create">>}
  /\ UNCHANGED <<topology, writing, upd, association, network, denied>>

\* ActivateUPFSession and EstHandler, in the goroutine.
Establish(s) ==
  /\ create[s] = "establish"
  /\ create' = [create EXCEPT ![s] = "done"]
  /\ sm' = [sm EXCEPT ![s] = "free"]
  /\ \/ /\ Range(path[s]) \subseteq assoc /\ \A o \in Range(path[s]) : o[1] \in reach
        /\ state' = [state EXCEPT ![s] = "Active"]
        /\ UNCHANGED <<sel, path>>
     \/ Removed(s)
  /\ UNCHANGED <<topology, readers, writing, upd, association, network, denied>>

\* Mutant: an update may come before the creation is answered.
RefGuessed(s) == create[s] # "none" /\ state[s] # "removed"

\* The AMF knows the reference of the session from the creation's answer.
RefKnown(s) == create[s] \in {"establish", "done"} /\ state[s] # "removed"

\* HandlePDUSessionSMContextUpdate takes upi.Mu for reading, then SMLock.
UpdateReads(s) ==
  /\ upd[s] = "off" /\ RefKnown(s) /\ ~writing
  /\ upd' = [upd EXCEPT ![s] = "read"]
  /\ readers' = readers \cup {<<s, "update">>}
  /\ UNCHANGED <<topology, writing, sm, create, state, sel, path, association, network, denied>>

UpdateLocks(s) ==
  /\ upd[s] = "read" /\ sm[s] = "free"
  /\ upd' = [upd EXCEPT ![s] = "in"]
  /\ sm' = [sm EXCEPT ![s] = "update"]
  /\ UNCHANGED <<topology, readers, writing, create, state, sel, path, association, network,
                 denied>>

\* The update ends: it may have released the session, or got its answer.
UpdateEnds(s) ==
  /\ upd[s] = "in"
  /\ upd' = [upd EXCEPT ![s] = "off"]
  /\ sm' = [sm EXCEPT ![s] = "free"]
  /\ readers' = readers \ {<<s, "update">>}
  /\ \/ UNCHANGED <<state, sel, path>>
     \/ /\ state[s] = "Active"
        /\ state' = [state EXCEPT ![s] = "InActive"]
        /\ UNCHANGED <<sel, path>>
     \/ state[s] = "InActive" /\ Removed(s)
  /\ UNCHANGED <<topology, writing, create, association, network, denied>>

-----------------------------------------------------------------------------
(* Association loops *)

\* ensureSetupPfcpAssociation: until the UPF accepts, the request is repeated.
\* The new AssociationContext takes the place of the one that other loops wait on.
Setup(l) ==
  /\ loop[l] = "setup" /\ l[1][1] \in reach
  /\ loop' = [loop EXCEPT ![l] = "beat"]
  /\ assoc' = assoc \cup {l[1]}
  /\ watching' = {m \in watching : m[1] # l[1]}
  /\ UNCHANGED <<topology, locks, session, rec, woken, todo, gone, network, denied>>

\* The loop visits the sessions that there are, to release those of its UPF, and
\* starts again when it has visited all.
Releases(l) ==
  /\ todo' = [todo EXCEPT ![l] = Known]
  /\ loop' = [loop EXCEPT ![l] = IF Known = {} THEN "setup" ELSE "release"]

\* The next heartbeat finds the association cancelled, or the wait ends with its
\* context, whatever the UPF's context is now.
BeatCancelled(l) ==
  /\ loop[l] = "beat" /\ (l[1] \notin assoc \/ l \in woken)
  /\ Releases(l)
  /\ watching' = watching \ {l} /\ woken' = woken \ {l}
  /\ UNCHANGED <<topology, locks, session, assoc, rec, gone, network, denied>>

\* doPfcpHeartbeat, at the end of the interval.
Heartbeat(l) == loop[l] = "beat" /\ l[1] \in assoc

\* No answer, or one with a newer time stamp: the association is cancelled.
BeatLost(l) ==
  LET o == l[1]
  IN  /\ Heartbeat(l)
      /\ o[1] \notin reach \/ rec[o] \in 1..(boot[o[1]] - 1)
      /\ Releases(l)
      /\ CancelAssociation(o)
      /\ rec' = [rec EXCEPT ![o] = 0]
      /\ UNCHANGED <<topology, locks, session, gone, network, denied>>

\* An answer; the first one's time stamp is kept.
BeatAnswered(l) ==
  LET o == l[1]
  IN  /\ Heartbeat(l)
      /\ o[1] \in reach /\ rec[o] \in {0, boot[o[1]]}
      /\ rec' = [rec EXCEPT ![o] = boot[o[1]]]
      /\ watching' = watching \cup {l} /\ woken' = woken \ {l}
      /\ UNCHANGED <<topology, locks, session, assoc, loop, todo, gone, network, denied>>

\* requestAMFToReleasePDUResources of a session: there is no access token, or its
\* N1N2 transfer fails, is started, or says that the UE is idle.
AskedToRelease(s) ==
  \/ /\ denied' = denied \cup {s}
     /\ UNCHANGED <<state, sel, path>>
  \/ /\ state' = [state EXCEPT ![s] = "InActive"]
     /\ UNCHANGED <<sel, path, denied>>
  \/ /\ Removed(s)
     /\ UNCHANGED denied

\* Mutant: a session that a handler works on is left out.
VisitedUnlocked(s, o) ==
  IF sel[s] = o /\ state[s] = "Active" /\ sm[s] = "free" THEN AskedToRelease(s)
  ELSE UNCHANGED <<state, sel, path, denied>>

\* ProcEachSMContext of releaseAllResourcesOfUPF: a session whose anchor is the UPF
\* is locked, and released if it is Active; the others are left alone.
Visited(s, o) ==
  \/ /\ sel[s] # o
     /\ UNCHANGED <<state, sel, path, denied>>
  \/ /\ sel[s] = o /\ sm[s] = "free"
     /\ IF state[s] = "Active" THEN AskedToRelease(s) ELSE UNCHANGED <<state, sel, path, denied>>

Visit(l, s) ==
  /\ loop[l] = "release" /\ s \in todo[l]
  /\ todo' = [todo EXCEPT ![l] = @ \ {s}]
  /\ loop' = [loop EXCEPT ![l] = IF todo'[l] = {} THEN "setup" ELSE "release"]
  /\ Visited(s, l[1])
  /\ UNCHANGED <<topology, locks, create, upd, assoc, rec, watching, woken, gone, network>>

\* The goroutine of a deletion releases the UPF's sessions.
VisitGone(o, s) ==
  /\ s \in gone[o]
  /\ gone' = [gone EXCEPT ![o] = @ \ {s}]
  /\ Visited(s, o)
  /\ UNCHANGED <<topology, locks, create, upd, assoc, rec, loop, watching, woken, todo, network>>

\* External: a UPF cannot be reached any more, and comes back, perhaps restarted.
Down(n) ==
  /\ n \in reach /\ downs < MaxDowns
  /\ reach' = reach \ {n}
  /\ downs' = downs + 1
  /\ UNCHANGED <<topology, locks, session, association, boot, denied>>

Back(n, restarted) ==
  /\ n \notin reach
  /\ reach' = reach \cup {n}
  /\ boot' = [boot EXCEPT ![n] = IF restarted THEN @ + 1 ELSE @]
  /\ UNCHANGED <<topology, locks, session, association, downs, denied>>

-----------------------------------------------------------------------------

Write ==
  \/ \E c \in Configs : PostUpNodesLinks(c[1], c[2])
  \/ NothingWritten
  \/ \E n \in Nodes : DeleteUpf(n)
  \/ DeleteAn

Creation(s) ==
  \/ CreateReads(s)
  \/ \E o \in UpfObjs : SelectUpf(s, o)
  \/ CachedPath(s) \/ NewPath(s)
  \/ Reject(s) \/ Establish(s)

Update(s) == UpdateLocks(s) \/ UpdateEnds(s)

Loop(l) ==
  \/ Setup(l) \/ BeatCancelled(l) \/ BeatLost(l) \/ BeatAnswered(l)
  \/ \E s \in Sessions : Visit(l, s)

Next ==
  \/ AskForWriting \/ Write
  \/ \E s \in Sessions : StartCreate(s) \/ Creation(s) \/ UpdateReads(s) \/ Update(s)
  \/ \E l \in Loops : Loop(l)
  \/ \E o \in UpfObjs, s \in Sessions : VisitGone(o, s)
  \/ \E n \in Nodes : Down(n) \/ \E restarted \in BOOLEAN : Back(n, restarted)

\* Goroutines that can go on do so: handlers that hold a lock come to their end, and
\* some loop goes on, and some release of a deleted UPF.  A sync.Mutex is handed to a
\* goroutine that starves: a visit that waits for SMLock gets it, whatever updates
\* come.
Fairness ==
  /\ WF_vars(Write)
  /\ \A s \in Sessions : WF_vars(Creation(s)) /\ WF_vars(Update(s))
  /\ SF_vars(\E l \in Loops : Loop(l))
  /\ SF_vars(\E o \in UpfObjs, s \in Sessions : VisitGone(o, s))

Spec == Init /\ [][Next]_vars /\ Fairness

-----------------------------------------------------------------------------
(* Properties *)

States == {"none", "ActivePending", "Active", "InActive", "removed"}

\* Every variable keeps its type.
TypeOK ==
  /\ gen \in [Names -> 0..MaxGen] /\ made \in [Names -> 0..MaxGen]
  /\ \A e \in links : e \subseteq Present(Names)
  /\ \A n \in Nodes : Range(pathTo[n]) \subseteq UpfObjs
  /\ readers \subseteq Sessions \X {"create", "update"} /\ writing \in BOOLEAN
  /\ sm \in [Sessions -> {"free", "create", "update"}]
  /\ create \in [Sessions -> {"none", "lock", "read", "paths", "establish", "done"}]
  /\ upd \in [Sessions -> {"off", "read", "in"}]
  /\ state \in [Sessions -> States]
  /\ sel \in [Sessions -> UpfObjs \cup {None}]
  /\ assoc \subseteq UpfObjs /\ rec \in [UpfObjs -> 0..(MaxDowns + 1)]
  /\ loop \in [Loops -> {"none", "setup", "beat", "release"}]
  /\ watching \cup woken \subseteq {l \in Loops : loop[l] = "beat"}
  /\ todo \in [Loops -> SUBSET Sessions] /\ gone \in [UpfObjs -> SUBSET Sessions]
  /\ boot \in [Nodes -> Boots]

\* The caches (UpNodeDelete, GenerateDefaultPathToUPF): whatever is posted and
\* deleted, a cached path to a UPF leads to the UPNode of that name that is there
\* now, and each of its nodes is linked to the next.
CachesValid ==
  \A n \in Nodes : pathTo[n] # <<>> => IsPath(pathTo[n]) /\ Last(pathTo[n]) = Obj(n)

\* Session creation (AllocUeIP, SelectDefaultDataPath): the default path that a
\* session gets ends at the UPF that its address was taken from, through nodes
\* that are there, although other requests change the topology.
PathAsSelected ==
  [][\A s \in Sessions : path'[s] \notin {path[s], <<>>} =>
       Last(path'[s]) = sel[s] /\ Range(path'[s]) \subseteq Present(Nodes)]_vars

\* Association loops (keepHeartbeatTo, doPfcpHeartbeat): a UPF that counts as
\* associated is watched by a loop, however many loops it has and whatever
\* cancels the association.
AssociatedIsWatched == \A o \in assoc : \E l \in Loops : l[1] = o /\ loop[l] = "beat"

\* upi.Mu and SMLock, which creations and updates take in opposite orders: no update
\* that holds upi.Mu waits for a creation that waits for upi.Mu behind a writer.
LocksNotCrossed == \A s \in Sessions : ~(writing /\ create[s] = "lock" /\ upd[s] = "read")

\* Heartbeats and deletions (doPfcpHeartbeat, releaseAllResourcesOfUPF): an Active
\* session whose anchor has restarted since its first heartbeat, or was deleted,
\* does not stay Active, unless there was no access token to tell the AMF.
LostUpfReleased ==
  \A s \in Sessions :
    (/\ state[s] = "Active" /\ sel[s] # None
     /\ \/ rec[sel[s]] # 0 /\ rec[sel[s]] < boot[sel[s][1]]
        \/ sel[s] # Obj(sel[s][1]))
      ~> (state[s] # "Active" \/ s \in denied)
=============================================================================
