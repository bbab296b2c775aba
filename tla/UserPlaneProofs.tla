-------------------------- MODULE UserPlaneProofs --------------------------
(* Proofs about UserPlane for every topology, number of sessions, changes   *)
(* and association loops.                                                    *)
EXTENDS UserPlane, TLAPS

\* The actions of the operators, a session's handlers, the loops and the UPFs.
Operator == AskForWriting \/ Write
Handler(s) == StartCreate(s) \/ Creation(s) \/ UpdateReads(s) \/ Update(s)
Upf(n) == Down(n) \/ \E restarted \in BOOLEAN : Back(n, restarted)

\* A UPF restarts only when it is not reached: its start times are counted by downs.
BootsCounted ==
  /\ downs \in 0..MaxDowns
  /\ \A n \in Nodes : boot[n] <= IF n \in reach THEN downs + 1 ELSE downs

-----------------------------------------------------------------------------
(* Types *)

\* What Present holds, without its set constructor.
LEMMA PresentObj ==
  ASSUME NEW N \in SUBSET Names, NEW n \in N, gen[n] # 0
  PROVE  Obj(n) \in Present(N)
  BY DEF Present, Obj

\* The initial state is typed.
LEMMA InitType == Init => TypeOK /\ BootsCounted
<1> SUFFICES ASSUME Init PROVE TypeOK /\ BootsCounted
  OBVIOUS
<1> USE UserPlaneAssumption
<1>1. /\ gen \in [Names -> 0..MaxGen] /\ made \in [Names -> 0..MaxGen]
      /\ \A n \in FirstNodes \cup {An} : gen[n] = 1
  BY DEF Init, Names
<1>2. \A e \in links : e \subseteq Present(Names)
  <2>1. SUFFICES ASSUME NEW d \in FirstLinks, d \subseteq FirstNodes \cup {An}, NEW n \in d
                 PROVE  <<n, 1>> \in Present(Names)
    BY DEF Init
  <2>2. n \in Names /\ gen[n] = 1
    BY <2>1, <1>1 DEF Names
  <2> QED
    BY <2>2, PresentObj DEF Obj
<1>3. \A n \in Nodes : Range(pathTo[n]) \subseteq UpfObjs
  BY DEF Init, Range
<1>4. assoc \subseteq UpfObjs
  <2>1. assoc = Present(Nodes)
    BY DEF Init
  <2> QED
    BY <1>1, <2>1 DEF Present, Obj, UpfObjs, Names
<1>5. BootsCounted
  BY DEF Init, BootsCounted
<1>6. loop \in [Loops -> {"none", "setup", "beat", "release"}]
  BY DEF Init
<1>7. /\ readers \subseteq Sessions \X {"create", "update"} /\ writing \in BOOLEAN
      /\ sm \in [Sessions -> {"free", "create", "update"}]
  BY DEF Init
<1>8. /\ create \in [Sessions -> {"none", "lock", "read", "paths", "establish", "done"}]
      /\ upd \in [Sessions -> {"off", "read", "in"}]
      /\ state \in [Sessions -> States]
      /\ sel \in [Sessions -> UpfObjs \cup {None}]
  BY DEF Init, States
<1>9. /\ rec \in [UpfObjs -> 0..(MaxDowns + 1)]
      /\ watching \cup woken \subseteq {l \in Loops : loop[l] = "beat"}
      /\ todo \in [Loops -> SUBSET Sessions] /\ gone \in [UpfObjs -> SUBSET Sessions]
      /\ boot \in [Nodes -> Boots]
  BY DEF Init, Boots
<1> QED
  BY <1>1, <1>2, <1>3, <1>4, <1>5, <1>6, <1>7, <1>8, <1>9 DEF TypeOK

\* The changes of the topology keep its nodes, links and cached paths typed.
LEMMA TopologyType ==
  ASSUME TypeOK, [Next]_vars
  PROVE  /\ gen' \in [Names -> 0..MaxGen] /\ made' \in [Names -> 0..MaxGen]
         /\ \A e \in links' : e \subseteq Present(Names)'
         /\ \A n \in Nodes : Range(pathTo'[n]) \subseteq UpfObjs
<1> USE UserPlaneAssumption DEF TypeOK
<1>1. CASE \E c \in Configs : PostUpNodesLinks(c[1], c[2])
  <2>1. PICK c \in Configs : PostUpNodesLinks(c[1], c[2])
    BY <1>1
  <2>2. c[1] \subseteq Names /\ c[2] \subseteq SUBSET Names
    BY UserPlaneAssumption
  <2>3. UpNodesFromConfiguration(c[1]) /\ LinksFromConfiguration(c[2]) /\ pathTo' = pathTo
    BY <2>1 DEF PostUpNodesLinks
  <2>4. /\ gen' \in [Names -> 0..MaxGen] /\ made' \in [Names -> 0..MaxGen]
        /\ \A n \in Names : gen[n] # 0 => gen'[n] = gen[n]
    BY <2>2, <2>3 DEF UpNodesFromConfiguration
  <2>5. ASSUME NEW e \in links', NEW x \in e PROVE x \in Present(Names)'
    <3>1. CASE e \in links
      <4>1. PICK n \in Names : gen[n] # 0 /\ x = <<n, gen[n]>>
        BY <2>5, <3>1 DEF Present, Obj
      <4> QED
        BY <4>1, <2>4 DEF Present, Obj
    <3>2. CASE e \notin links
      <4>1. PICK d \in c[2] : (\A n \in d : gen'[n] # 0) /\ e = {<<n, gen'[n]>> : n \in d}
        BY <2>5, <3>2, <2>3 DEF LinksFromConfiguration
      <4>2. PICK n \in d : x = <<n, gen'[n]>>
        BY <2>5, <4>1
      <4> QED
        BY <4>1, <4>2, <2>2 DEF Present, Obj
    <3> QED
      BY <3>1, <3>2
  <2> QED
    BY <2>3, <2>4, <2>5
<1>2. ASSUME NEW n \in Names, n \in Nodes \/ n = An, gen' = [gen EXCEPT ![n] = 0],
             links' = {e \in links : Obj(n) \notin e}, made' = made,
             pathTo' = pathTo \/ (n \in Nodes /\ pathTo' = Invalidated(Obj(n)))
      PROVE  /\ gen' \in [Names -> 0..MaxGen] /\ made' \in [Names -> 0..MaxGen]
             /\ \A e \in links' : e \subseteq Present(Names)'
             /\ \A m \in Nodes : Range(pathTo'[m]) \subseteq UpfObjs
  <2>1. gen' \in [Names -> 0..MaxGen] /\ made' \in [Names -> 0..MaxGen]
    BY <1>2
  <2>2. ASSUME NEW e \in links', NEW x \in e PROVE x \in Present(Names)'
    <3>1. PICK m \in Names : gen[m] # 0 /\ x = <<m, gen[m]>>
      BY <2>2, <1>2 DEF Present, Obj
    <3>2. m # n
      BY <3>1, <2>2, <1>2 DEF Obj
    <3> QED
      BY <3>1, <3>2, <1>2 DEF Present, Obj
  <2>3. ASSUME NEW m \in Nodes PROVE Range(pathTo'[m]) \subseteq UpfObjs
    <3>1. Range(<<>>) = {}
      BY DEF Range
    <3>2. pathTo'[m] \in {pathTo[m], <<>>}
      BY <1>2 DEF Invalidated
    <3> QED
      BY <3>1, <3>2
  <2> QED
    BY <2>1, <2>2, <2>3
<1>3. ASSUME NEW n \in Nodes, DeleteUpf(n)
      PROVE  /\ gen' \in [Names -> 0..MaxGen] /\ made' \in [Names -> 0..MaxGen]
             /\ \A e \in links' : e \subseteq Present(Names)'
             /\ \A m \in Nodes : Range(pathTo'[m]) \subseteq UpfObjs
  <2>1. /\ n \in Names /\ gen' = [gen EXCEPT ![n] = 0] /\ made' = made
        /\ links' = {e \in links : Obj(n) \notin e} /\ pathTo' = Invalidated(Obj(n))
    BY <1>3 DEF DeleteUpf, Names
  <2> QED
    BY <2>1, <1>2
<1>4. CASE DeleteAn
  <2>1. /\ An \in Names /\ gen' = [gen EXCEPT ![An] = 0] /\ made' = made
        /\ links' = {e \in links : Obj(An) \notin e} /\ pathTo' = pathTo
    BY <1>4 DEF DeleteAn, Names
  <2> QED
    BY <2>1, <1>2
<1>5. ASSUME NEW s \in Sessions, NewPath(s)
      PROVE  /\ gen' = gen /\ made' = made /\ links' = links
             /\ \A n \in Nodes : Range(pathTo'[n]) \subseteq UpfObjs
  <2>1. PICK p \in PathsBetween(sel[s]) : pathTo' = [pathTo EXCEPT ![sel[s][1]] = p]
    BY <1>5 DEF NewPath
  <2>2. Range(p) \subseteq Present(Slice)
    BY <2>1 DEF PathsBetween, Range
  <2>3. Present(Slice) \subseteq UpfObjs
    BY DEF Present, Obj, UpfObjs, Names
  <2> QED
    BY <1>5, <2>1, <2>2, <2>3 DEF NewPath, Answered
<1>6. CASE UNCHANGED <<gen, made, links, pathTo>>
  BY <1>6 DEF Present, Obj
<1>7. CASE \E s \in Sessions : NewPath(s)
  BY <1>5, <1>7 DEF Present, Obj
<1>8. CASE AskForWriting \/ NothingWritten
  BY <1>6, <1>8 DEF AskForWriting, NothingWritten, topology
<1>9. ASSUME NEW s \in Sessions, StartCreate(s) \/ UpdateReads(s) \/ Update(s)
      PROVE  UNCHANGED <<gen, made, links, pathTo>>
  BY <1>9 DEF StartCreate, UpdateReads, Update, UpdateLocks, UpdateEnds, topology
<1>10. ASSUME NEW s \in Sessions, Creation(s), ~NewPath(s)
       PROVE  UNCHANGED <<gen, made, links, pathTo>>
  BY <1>10 DEF Creation, CreateReads, SelectUpf, CachedPath, Answered, Reject, Establish, topology
<1>11. ASSUME NEW l \in Loops, Loop(l) PROVE UNCHANGED <<gen, made, links, pathTo>>
  BY <1>11 DEF Loop, Setup, BeatCancelled, BeatLost, BeatAnswered, Visit, topology
<1>12. ASSUME NEW o \in UpfObjs, NEW s \in Sessions, VisitGone(o, s)
       PROVE  UNCHANGED <<gen, made, links, pathTo>>
  BY <1>12 DEF VisitGone, topology
<1>13. ASSUME NEW n \in Nodes, Upf(n) PROVE UNCHANGED <<gen, made, links, pathTo>>
  BY <1>13 DEF Upf, Down, Back, topology
<1>14. CASE UNCHANGED vars
  BY <1>6, <1>14 DEF vars, topology
<1> QED
  BY <1>1, <1>3, <1>4, <1>6, <1>7, <1>8, <1>9, <1>10, <1>11, <1>12, <1>13, <1>14
     DEF Next, Write, Upf

\* The locks are typed.
LEMMA LocksType ==
  ASSUME TypeOK, [Next]_vars
  PROVE  /\ readers' \subseteq Sessions \X {"create", "update"} /\ writing' \in BOOLEAN
         /\ sm' \in [Sessions -> {"free", "create", "update"}]
<1> USE DEF TypeOK
<1>1. CASE Operator
  BY <1>1
  DEF Operator, AskForWriting, Write, PostUpNodesLinks, NothingWritten, DeleteUpf, DeleteAn,
      Changes, Writes
<1>2. ASSUME NEW s \in Sessions, Handler(s)
      PROVE  /\ readers' \subseteq Sessions \X {"create", "update"} /\ writing' = writing
             /\ sm' \in [Sessions -> {"free", "create", "update"}]
  <2>1. CASE StartCreate(s) \/ UpdateReads(s) \/ Update(s)
    BY <2>1 DEF StartCreate, UpdateReads, Update, UpdateLocks, UpdateEnds
  <2>2. CASE Creation(s)
    BY <2>2
    DEF Creation, CreateReads, SelectUpf, CachedPath, NewPath, Answered, Reject, Establish, locks
  <2> QED
    BY <1>2, <2>1, <2>2 DEF Handler
<1>3. ASSUME \/ \E l \in Loops : Loop(l)
             \/ \E o \in UpfObjs, s \in Sessions : VisitGone(o, s)
             \/ \E n \in Nodes : Upf(n)
             \/ UNCHANGED vars
      PROVE  UNCHANGED locks
  BY <1>3
  DEF Loop, Setup, BeatCancelled, BeatLost, BeatAnswered, Visit, VisitGone, Upf, Down, Back, vars
<1> QED
  BY <1>1, <1>2, <1>3 DEF Next, Operator, Handler, Upf, locks

\* A session that is visited, or removed, stays typed.
LEMMA VisitedType ==
  ASSUME TypeOK, NEW s \in Sessions, NEW o \in UpfObjs, Visited(s, o) \/ Removed(s)
  PROVE  /\ state' \in [Sessions -> States]
         /\ sel' \in [Sessions -> UpfObjs \cup {None}]
         /\ \A z \in Sessions : z # s => state'[z] = state[z] /\ sel'[z] = sel[z]
<1>1. state \in [Sessions -> States] /\ sel \in [Sessions -> UpfObjs \cup {None}]
  BY DEF TypeOK
<1>2. \/ UNCHANGED <<state, sel>>
      \/ state' = [state EXCEPT ![s] = "InActive"] /\ UNCHANGED sel
      \/ state' = [state EXCEPT ![s] = "removed"] /\ sel' = [sel EXCEPT ![s] = None]
  BY DEF Visited, AskedToRelease, Removed
<1> QED
  BY <1>1, <1>2 DEF States

\* The sessions are typed.
LEMMA SessionType ==
  ASSUME TypeOK, [Next]_vars
  PROVE  /\ create' \in [Sessions -> {"none", "lock", "read", "paths", "establish", "done"}]
         /\ upd' \in [Sessions -> {"off", "read", "in"}]
         /\ state' \in [Sessions -> States]
         /\ sel' \in [Sessions -> UpfObjs \cup {None}]
<1> USE DEF TypeOK
<1>1. CASE Operator
  BY <1>1
  DEF Operator, AskForWriting, Write, PostUpNodesLinks, NothingWritten, DeleteUpf, DeleteAn,
      session
<1>2. ASSUME NEW s \in Sessions, StartCreate(s) \/ UpdateReads(s) \/ Update(s)
      PROVE  /\ create' \in [Sessions -> {"none", "lock", "read", "paths", "establish", "done"}]
             /\ upd' \in [Sessions -> {"off", "read", "in"}]
             /\ state' \in [Sessions -> States]
             /\ sel' \in [Sessions -> UpfObjs \cup {None}]
  <2>1. CASE StartCreate(s)
    BY <2>1 DEF StartCreate, States
  <2>2. CASE UpdateReads(s)
    BY <2>2 DEF UpdateReads
  <2>3. CASE UpdateLocks(s)
    BY <2>3 DEF UpdateLocks
  <2>4. CASE UpdateEnds(s)
    <3>1. state' \in [Sessions -> States] /\ sel' \in [Sessions -> UpfObjs \cup {None}]
      BY <2>4 DEF UpdateEnds, Removed, States
    <3>2. UNCHANGED create /\ upd' \in [Sessions -> {"off", "read", "in"}]
      BY <2>4 DEF UpdateEnds
    <3> QED
      BY <3>1, <3>2
  <2> QED
    BY <1>2, <2>1, <2>2, <2>3, <2>4 DEF Update
<1>3. ASSUME NEW s \in Sessions, Creation(s)
      PROVE  /\ create' \in [Sessions -> {"none", "lock", "read", "paths", "establish", "done"}]
             /\ upd' \in [Sessions -> {"off", "read", "in"}]
             /\ state' \in [Sessions -> States]
             /\ sel' \in [Sessions -> UpfObjs \cup {None}]
  <2>1. CASE CreateReads(s)
    BY <2>1 DEF CreateReads
  <2>2. CASE \E o \in UpfObjs : SelectUpf(s, o)
    BY <2>2 DEF SelectUpf
  <2>3. CASE CachedPath(s) \/ NewPath(s)
    <3>1. Answered(s)
      BY <2>3 DEF CachedPath, NewPath
    <3> QED
      BY <3>1 DEF Answered
  <2>4. CASE Reject(s)
    <3>1. UNCHANGED upd /\ create' = [create EXCEPT ![s] = "done"]
      BY <2>4 DEF Reject
    <3>2. state' \in [Sessions -> States] /\ sel' \in [Sessions -> UpfObjs \cup {None}]
      BY <2>4 DEF Reject, Removed, States
    <3> QED
      BY <3>1, <3>2
  <2>5. CASE Establish(s)
    <3>1. state' \in [Sessions -> States] /\ sel' \in [Sessions -> UpfObjs \cup {None}]
      BY <2>5 DEF Establish, Removed, States
    <3>2. UNCHANGED upd /\ create' = [create EXCEPT ![s] = "done"]
      BY <2>5 DEF Establish
    <3> QED
      BY <3>1, <3>2
  <2> QED
    BY <1>3, <2>1, <2>2, <2>3, <2>4, <2>5 DEF Creation
<1>4. ASSUME \/ \E l \in Loops, s \in Sessions : Visit(l, s)
             \/ \E o \in UpfObjs, s \in Sessions : VisitGone(o, s)
      PROVE  /\ UNCHANGED <<create, upd>>
             /\ state' \in [Sessions -> States]
             /\ sel' \in [Sessions -> UpfObjs \cup {None}]
  BY <1>4, VisitedType DEF Visit, VisitGone, Loops
<1>5. ASSUME \/ \E l \in Loops : Setup(l) \/ BeatCancelled(l) \/ BeatLost(l) \/ BeatAnswered(l)
             \/ \E n \in Nodes : Upf(n)
             \/ UNCHANGED vars
      PROVE  UNCHANGED <<create, upd, state, sel>>
  BY <1>5 DEF Setup, BeatCancelled, BeatLost, BeatAnswered, Upf, Down, Back, vars, session
<1> QED
  BY <1>1, <1>2, <1>3, <1>4, <1>5 DEF Next, Operator, Loop, Upf

\* The associations and their loops are typed, and so are the UPFs' start times.
LEMMA AssociationType ==
  ASSUME TypeOK, BootsCounted, [Next]_vars
  PROVE  /\ assoc' \subseteq UpfObjs /\ rec' \in [UpfObjs -> 0..(MaxDowns + 1)]
         /\ loop' \in [Loops -> {"none", "setup", "beat", "release"}]
         /\ (watching' \cup woken') \subseteq {l \in Loops : loop'[l] = "beat"}
         /\ todo' \in [Loops -> SUBSET Sessions] /\ gone' \in [UpfObjs -> SUBSET Sessions]
<1> USE UserPlaneAssumption DEF TypeOK
<1>1. CASE \E c \in Configs : PostUpNodesLinks(c[1], c[2])
  <2>1. PICK c \in Configs : PostUpNodesLinks(c[1], c[2])
    BY <1>1
  <2>2. /\ UNCHANGED <<assoc, rec, watching, woken, todo, gone>>
        /\ loop' \in [Loops -> {"none", "setup", "beat", "release"}]
        /\ \A l \in Loops : loop[l] = "beat" => loop'[l] = "beat"
    <3>1. UNCHANGED <<assoc, rec, watching, woken, todo, gone>>
      BY <2>1 DEF PostUpNodesLinks
    <3>2. PICK I \in SUBSET Loops : loop' = [l \in Loops |-> IF l \in I THEN "setup" ELSE loop[l]]
                                   /\ \A l \in I : loop[l] = "none"
      <4> DEFINE idle == {<<n, gen'[n]>> : n \in {x \in Nodes : gen'[x] # 0}} \ assoc
                 slot(o) == {i \in 1..MaxLoops : loop[<<o, i>>] = "none"}
                 First(l) == /\ l[1] \in idle /\ l[2] \in slot(l[1])
                             /\ \A i \in slot(l[1]) : l[2] <= i
                 I == {l \in Loops : First(l)}
      <4>1. loop' = [l \in Loops |-> IF First(l) THEN "setup" ELSE loop[l]]
        BY <2>1 DEF PostUpNodesLinks
      <4>2. ASSUME NEW l \in I PROVE loop[l] = "none"
        <5>1. l = <<l[1], l[2]>>
          BY DEF Loops
        <5>2. l[2] \in slot(l[1])
          OBVIOUS
        <5> QED
          BY <5>1, <5>2
      <4>3. loop' = [l \in Loops |-> IF l \in I THEN "setup" ELSE loop[l]]
        BY <4>1
      <4> HIDE DEF I
      <4> QED
        BY <4>2, <4>3 DEF I
    <3> QED
      BY <3>1, <3>2
  <2> QED
    BY <2>2
<1>2. ASSUME NEW n \in Nodes, DeleteUpf(n)
      PROVE  /\ assoc' \subseteq UpfObjs /\ rec' = rec /\ loop' = loop
             /\ (watching' \cup woken') \subseteq {l \in Loops : loop'[l] = "beat"}
             /\ todo' = todo /\ gone' \in [UpfObjs -> SUBSET Sessions]
  BY <1>2 DEF DeleteUpf, CancelAssociation, Known
<1>3. ASSUME NEW l \in Loops, Setup(l) \/ BeatAnswered(l)
      PROVE  /\ assoc' \subseteq UpfObjs /\ rec' \in [UpfObjs -> 0..(MaxDowns + 1)]
             /\ loop' \in [Loops -> {"none", "setup", "beat", "release"}]
             /\ (watching' \cup woken') \subseteq {m \in Loops : loop'[m] = "beat"}
             /\ UNCHANGED <<todo, gone>>
  <2>1. l[1] \in UpfObjs /\ l[1][1] \in Nodes
    BY DEF Loops, UpfObjs
  <2>2. \A n \in Nodes : boot[n] \in 0..(MaxDowns + 1)
    BY DEF Boots
  <2>3. CASE Setup(l)
    BY <2>3, <2>1 DEF Setup
  <2>4. CASE BeatAnswered(l)
    BY <2>4, <2>1, <2>2 DEF BeatAnswered, Heartbeat
  <2> QED
    BY <1>3, <2>3, <2>4
<1>4. ASSUME NEW l \in Loops, BeatCancelled(l) \/ BeatLost(l)
      PROVE  /\ assoc' \subseteq UpfObjs /\ rec' \in [UpfObjs -> 0..(MaxDowns + 1)]
             /\ loop' \in [Loops -> {"none", "setup", "beat", "release"}]
             /\ (watching' \cup woken') \subseteq {m \in Loops : loop'[m] = "beat"}
             /\ todo' \in [Loops -> SUBSET Sessions] /\ gone' = gone
  <2>1. /\ todo' \in [Loops -> SUBSET Sessions]
        /\ loop' \in [Loops -> {"none", "setup", "beat", "release"}]
        /\ \A m \in Loops : m # l => loop'[m] = loop[m]
    BY <1>4 DEF BeatCancelled, BeatLost, Releases, Known
  <2>2. CASE BeatCancelled(l)
    BY <2>1, <2>2 DEF BeatCancelled
  <2>3. CASE BeatLost(l)
    <3>1. /\ CancelAssociation(l[1]) /\ rec' = [rec EXCEPT ![l[1]] = 0] /\ gone' = gone
          /\ loop'[l] # "beat"
      BY <2>3 DEF BeatLost, Releases
    <3>2. assoc' \subseteq UpfObjs /\ rec' \in [UpfObjs -> 0..(MaxDowns + 1)]
      <4>1. assoc' = assoc \ {l[1]}
        BY <3>1 DEF CancelAssociation
      <4>2. 0 \in 0..(MaxDowns + 1)
        OBVIOUS
      <4> QED
        BY <3>1, <4>1, <4>2
    <3>3. ASSUME NEW m \in watching' \cup woken'
          PROVE  m \in Loops /\ loop'[m] = "beat"
      <4>1. m \in Loops /\ loop[m] = "beat"
        BY <3>1, <3>3 DEF CancelAssociation
      <4>2. CASE m \in woken'
        BY <3>1, <4>1, <4>2 DEF CancelAssociation
      <4>3. CASE m \in watching'
        <5>1. m # l
          BY <3>1, <4>3 DEF CancelAssociation
        <5> QED
          BY <2>1, <4>1, <5>1
      <4> QED
        BY <3>3, <4>2, <4>3
    <3> QED
      BY <2>1, <3>1, <3>2, <3>3
  <2> QED
    BY <1>4, <2>2, <2>3
<1>5. ASSUME NEW l \in Loops, NEW s \in Sessions, Visit(l, s)
      PROVE  /\ UNCHANGED <<assoc, rec, watching, woken, gone>>
             /\ loop' \in [Loops -> {"none", "setup", "beat", "release"}]
             /\ (watching' \cup woken') \subseteq {m \in Loops : loop'[m] = "beat"}
             /\ todo' \in [Loops -> SUBSET Sessions]
  BY <1>5 DEF Visit
<1>6. ASSUME NEW o \in UpfObjs, NEW s \in Sessions, VisitGone(o, s)
      PROVE  /\ UNCHANGED <<assoc, rec, loop, watching, woken, todo>>
             /\ gone' \in [UpfObjs -> SUBSET Sessions]
  BY <1>6 DEF VisitGone
<1>7. ASSUME \/ AskForWriting \/ NothingWritten \/ DeleteAn
             \/ \E s \in Sessions : Handler(s)
             \/ \E n \in Nodes : Upf(n)
             \/ UNCHANGED vars
      PROVE  UNCHANGED association
  BY <1>7
  DEF AskForWriting, NothingWritten, DeleteAn, Handler, StartCreate, UpdateReads, Update,
      UpdateLocks, UpdateEnds, Creation, CreateReads, SelectUpf, CachedPath, NewPath, Answered,
      Reject, Establish, Upf, Down, Back, vars
<1> QED
  BY <1>1, <1>2, <1>3, <1>4, <1>5, <1>6, <1>7 DEF Next, Write, Handler, Loop, Upf, association

\* So are the UPFs' start times.
LEMMA NetworkType ==
  ASSUME TypeOK, BootsCounted, [Next]_vars
  PROVE  boot' \in [Nodes -> Boots] /\ BootsCounted'
<1> USE UserPlaneAssumption DEF TypeOK, Boots
<1>1. ASSUME NEW n \in Nodes, Upf(n)
      PROVE  boot' \in [Nodes -> Boots] /\ BootsCounted'
  <2>1. CASE Down(n)
    BY <2>1 DEF Down, BootsCounted
  <2>2. ASSUME NEW restarted \in BOOLEAN, Back(n, restarted)
        PROVE  boot' \in [Nodes -> Boots] /\ BootsCounted'
    BY <2>2 DEF Back, BootsCounted
  <2> QED
    BY <1>1, <2>1, <2>2 DEF Upf
<1>2. ASSUME \/ Operator
             \/ \E s \in Sessions : Handler(s)
             \/ \E l \in Loops : Loop(l)
             \/ \E o \in UpfObjs, s \in Sessions : VisitGone(o, s)
             \/ UNCHANGED vars
      PROVE  UNCHANGED network
  <2>1. CASE Operator
    BY <2>1
    DEF Operator, AskForWriting, Write, PostUpNodesLinks, NothingWritten, DeleteUpf, DeleteAn
  <2>2. CASE \E s \in Sessions : Handler(s)
    BY <2>2
    DEF Handler, StartCreate, UpdateReads, Update, UpdateLocks, UpdateEnds, Creation,
        CreateReads, SelectUpf, CachedPath, NewPath, Answered, Reject, Establish
  <2>3. CASE \/ \E l \in Loops : Loop(l)
             \/ \E o \in UpfObjs, s \in Sessions : VisitGone(o, s)
             \/ UNCHANGED vars
    BY <2>3 DEF Loop, Setup, BeatCancelled, BeatLost, BeatAnswered, Visit, VisitGone, vars
  <2> QED
    BY <1>2, <2>1, <2>2, <2>3
<1> QED
  BY <1>1, <1>2 DEF Next, Operator, Handler, Upf, network, BootsCounted

\* Every step keeps the types.
LEMMA TypeStep == TypeOK /\ BootsCounted /\ [Next]_vars => TypeOK' /\ BootsCounted'
  BY TopologyType, LocksType, SessionType, AssociationType, NetworkType DEF TypeOK

\* Type correctness of UserPlane.
THEOREM UserPlaneTyped == Spec => []TypeOK
<1>1. Spec => [](TypeOK /\ BootsCounted)
  BY InitType, TypeStep, PTL DEF Spec
<1> QED
  BY <1>1, PTL

-----------------------------------------------------------------------------
(* The locks do not cross *)

\* A session is updated only when its creation has been answered.
UpdatesKnown == \A s \in Sessions : upd[s] # "off" => create[s] \in {"establish", "done"}

\* Every step keeps UpdatesKnown: nothing but an update starts one, and a session is
\* not created anew while one runs.
LEMMA UpdatesStep == TypeOK /\ UpdatesKnown /\ [Next]_vars => UpdatesKnown'
<1> SUFFICES ASSUME TypeOK, UpdatesKnown, [Next]_vars, NEW z \in Sessions
             PROVE  upd'[z] # "off" => create'[z] \in {"establish", "done"}
  BY DEF UpdatesKnown
<1> USE DEF TypeOK, UpdatesKnown
<1>1. ASSUME NEW s \in Sessions, StartCreate(s)
      PROVE  upd'[z] # "off" => create'[z] \in {"establish", "done"}
  BY <1>1 DEF StartCreate
<1>2. ASSUME NEW s \in Sessions, UpdateReads(s)
      PROVE  upd'[z] # "off" => create'[z] \in {"establish", "done"}
  BY <1>2 DEF UpdateReads, RefKnown
<1>3. ASSUME NEW s \in Sessions, Update(s)
      PROVE  upd'[z] # "off" => create'[z] \in {"establish", "done"}
  BY <1>3 DEF Update, UpdateLocks, UpdateEnds
<1>4. ASSUME NEW s \in Sessions, Creation(s)
      PROVE  upd'[z] # "off" => create'[z] \in {"establish", "done"}
  <2>1. upd' = upd /\ \/ create' = [create EXCEPT ![s] = "done"]
                      \/ create' = [create EXCEPT ![s] = "establish"]
                      \/ create[s] = "lock" /\ create' = [create EXCEPT ![s] = "read"]
                      \/ create[s] = "read" /\ create' = [create EXCEPT ![s] = "paths"]
    BY <1>4
    DEF Creation, CreateReads, SelectUpf, CachedPath, NewPath, Answered, Reject, Establish
  <2> QED
    BY <2>1
<1>5. ASSUME \/ Operator
             \/ \E l \in Loops : Loop(l)
             \/ \E o \in UpfObjs, s \in Sessions : VisitGone(o, s)
             \/ \E n \in Nodes : Upf(n)
             \/ UNCHANGED vars
      PROVE  UNCHANGED <<create, upd>>
  BY <1>5
  DEF Operator, AskForWriting, Write, PostUpNodesLinks, NothingWritten, DeleteUpf, DeleteAn,
      Loop, Setup, BeatCancelled, BeatLost, BeatAnswered, Visit, VisitGone, Upf, Down, Back,
      vars, session
<1> QED
  BY <1>1, <1>2, <1>3, <1>4, <1>5 DEF Next, Operator, Upf

\* A creation takes SMLock and then upi.Mu, an update upi.Mu and then SMLock, and yet
\* none of them waits for the other behind a writer of the topology: the AMF has the
\* session's reference only when its creation has got upi.Mu.
THEOREM LocksSafe == Spec => []LocksNotCrossed
<1>1. Init => UpdatesKnown
  BY DEF Init, UpdatesKnown
<1>2. UpdatesKnown => LocksNotCrossed
  BY DEF UpdatesKnown, LocksNotCrossed
<1> QED
  BY <1>1, <1>2, UserPlaneTyped, UpdatesStep, PTL DEF Spec

-----------------------------------------------------------------------------
(* Associated UPFs are watched *)

\* Some loop of an associated UPF waits on its present AssociationContext: the loops
\* that wait on one that is done will leave.
WatchedHere ==
  \A o \in assoc : \E l \in Loops : l[1] = o /\ loop[l] = "beat" /\ l \notin woken

\* Every step keeps WatchedHere.
LEMMA WatchedStep == TypeOK /\ WatchedHere /\ [Next]_vars => WatchedHere'
<1> SUFFICES ASSUME TypeOK, WatchedHere, [Next]_vars, NEW o \in assoc'
             PROVE  \E l \in Loops : l[1] = o /\ loop'[l] = "beat" /\ l \notin woken'
  BY DEF WatchedHere
<1> USE DEF TypeOK, WatchedHere
<1>1. CASE \E c \in Configs : PostUpNodesLinks(c[1], c[2])
  <2>1. PICK c \in Configs : PostUpNodesLinks(c[1], c[2])
    BY <1>1
  <2>2. UNCHANGED <<assoc, woken>>
    BY <2>1 DEF PostUpNodesLinks
  <2>3. PICK l \in Loops : l[1] = o /\ loop[l] = "beat" /\ l \notin woken
    BY <2>2
  <2>4. loop'[l] = loop[l]
    BY <2>1, <2>2, <2>3 DEF PostUpNodesLinks
  <2> QED
    BY <2>2, <2>3, <2>4
<1>2. ASSUME NEW n \in Nodes, DeleteUpf(n)
      PROVE  \E l \in Loops : l[1] = o /\ loop'[l] = "beat" /\ l \notin woken'
  <2>1. o \in assoc /\ o # Obj(n) /\ loop' = loop
        /\ \A l \in woken' : l \in woken \/ l[1] = Obj(n)
    BY <1>2 DEF DeleteUpf, CancelAssociation
  <2> QED
    BY <2>1
<1>3. ASSUME NEW m \in Loops, Setup(m)
      PROVE  \E l \in Loops : l[1] = o /\ loop'[l] = "beat" /\ l \notin woken'
  <2>1. /\ loop[m] = "setup" /\ loop' = [loop EXCEPT ![m] = "beat"] /\ woken' = woken
        /\ assoc' = assoc \cup {m[1]}
    BY <1>3 DEF Setup
  <2>2. m \notin woken
    BY <2>1
  <2>3. CASE o = m[1]
    BY <2>1, <2>2, <2>3
  <2>4. CASE o \in assoc
    <3>1. PICK l \in Loops : l[1] = o /\ loop[l] = "beat" /\ l \notin woken
      BY <2>4
    <3> QED
      BY <2>1, <3>1
  <2> QED
    BY <2>1, <2>3, <2>4
<1>4. ASSUME NEW m \in Loops, BeatCancelled(m)
      PROVE  \E l \in Loops : l[1] = o /\ loop'[l] = "beat" /\ l \notin woken'
  <2>1. /\ m[1] \notin assoc \/ m \in woken
        /\ assoc' = assoc /\ woken' = woken \ {m}
        /\ \A l \in Loops : l # m => loop'[l] = loop[l]
    BY <1>4 DEF BeatCancelled, Releases
  <2>2. PICK l \in Loops : l[1] = o /\ loop[l] = "beat" /\ l \notin woken
    BY <2>1
  <2>3. l # m
    BY <2>1, <2>2
  <2> QED
    BY <2>1, <2>2, <2>3
<1>5. ASSUME NEW m \in Loops, BeatLost(m)
      PROVE  \E l \in Loops : l[1] = o /\ loop'[l] = "beat" /\ l \notin woken'
  <2>1. /\ o \in assoc /\ o # m[1]
        /\ \A l \in woken' : l \in woken \/ l[1] = m[1]
        /\ \A l \in Loops : l # m => loop'[l] = loop[l]
    BY <1>5 DEF BeatLost, CancelAssociation, Releases
  <2>2. PICK l \in Loops : l[1] = o /\ loop[l] = "beat" /\ l \notin woken
    BY <2>1
  <2> QED
    BY <2>1, <2>2
<1>6. ASSUME NEW m \in Loops, BeatAnswered(m)
      PROVE  \E l \in Loops : l[1] = o /\ loop'[l] = "beat" /\ l \notin woken'
  BY <1>6 DEF BeatAnswered
<1>7. ASSUME NEW m \in Loops, NEW s \in Sessions, Visit(m, s)
      PROVE  \E l \in Loops : l[1] = o /\ loop'[l] = "beat" /\ l \notin woken'
  <2>1. /\ loop[m] = "release" /\ assoc' = assoc /\ woken' = woken
        /\ \A l \in Loops : l # m => loop'[l] = loop[l]
    BY <1>7 DEF Visit
  <2> QED
    BY <2>1
<1>8. ASSUME \/ AskForWriting \/ NothingWritten \/ DeleteAn
             \/ \E s \in Sessions : Handler(s)
             \/ \E x \in UpfObjs, s \in Sessions : VisitGone(x, s)
             \/ \E n \in Nodes : Upf(n)
             \/ UNCHANGED vars
      PROVE  UNCHANGED <<assoc, loop, woken>>
  BY <1>8
  DEF AskForWriting, NothingWritten, DeleteAn, Handler, StartCreate, UpdateReads, Update,
      UpdateLocks, UpdateEnds, Creation, CreateReads, SelectUpf, CachedPath, NewPath, Answered,
      Reject, Establish, VisitGone, Upf, Down, Back, vars, association
<1> QED
  BY <1>1, <1>2, <1>3, <1>4, <1>5, <1>6, <1>7, <1>8 DEF Next, Write, Handler, Loop, Upf

\* Whatever operators post and delete, however often a UPF is lost and however many
\* loops it gets, an associated UPF has a loop that sends heartbeats to it.
THEOREM WatchedSafe == Spec => []AssociatedIsWatched
<1>1. Init => WatchedHere
  <2>1. SUFFICES ASSUME Init, NEW o \in Present(Nodes)
                 PROVE  \E l \in Loops : l[1] = o /\ loop[l] = "beat" /\ l \notin woken
    BY DEF Init, WatchedHere
  <2>2. o \in UpfObjs
    BY <2>1, InitType DEF TypeOK, Init
  <2>3. <<o, 1>> \in Loops
    BY <2>2, UserPlaneAssumption DEF Loops
  <2> QED
    BY <2>1, <2>3 DEF Init
<1>2. WatchedHere => AssociatedIsWatched
  BY DEF WatchedHere, AssociatedIsWatched
<1> QED
  BY <1>1, <1>2, UserPlaneTyped, WatchedStep, PTL DEF Spec

-----------------------------------------------------------------------------
(* Cached paths, and the paths that sessions get *)

\* Paths are sequences of UPFs.
PathsTyped ==
  /\ path \in [Sessions -> Seq(UpfObjs)]
  /\ pathTo \in [Nodes -> Seq(UpfObjs)]

\* The nodes of a cached path are there.
CachesPresent == \A n \in Nodes : Range(pathTo[n]) \subseteq Present(Nodes)

\* A creation holds upi.Mu while it selects a UPF and a path, its session is nobody
\* else's until it is answered, and the UPF that it has selected stays there.
CreationsHold ==
  \A s \in Sessions :
    /\ create[s] \in {"read", "paths"} => <<s, "create">> \in readers
    /\ create[s] \in {"lock", "read", "paths", "establish"} => state[s] = "ActivePending"
    /\ create[s] = "paths" => sel[s] \in Present(Nodes)

CacheInv == PathsTyped /\ CachesPresent /\ CachesValid /\ CreationsHold

\* What getPathBetween finds: a path to o through nodes of the slice.
LEMMA PathFound ==
  ASSUME TypeOK, NEW o, NEW p \in PathsBetween(o)
  PROVE  /\ p \in Seq(UpfObjs) /\ p # <<>> /\ Last(p) = o
         /\ IsPath(p) /\ Range(p) \subseteq Present(Nodes)
<1> DEFINE V == Present(Slice)
<1>1. PICK n \in 1..Cardinality(V) : p \in [1..n -> V]
  BY DEF PathsBetween
<1>2. V \subseteq Present(Nodes) /\ Present(Nodes) \subseteq UpfObjs
  BY UserPlaneAssumption DEF TypeOK, Present, Obj, UpfObjs, Names
<1>3. n \in Nat \ {0}
  BY <1>1
<1> HIDE DEF V
<1>4. p \in Seq(V) /\ Len(p) = n
  BY <1>1, <1>3
<1>5. p[Len(p)] = o /\ IsPath(p)
  BY DEF PathsBetween
<1> QED
  BY <1>1, <1>2, <1>3, <1>4, <1>5 DEF Last, Range

\* selectAnchorUPF finds UPFs that are there.
LEMMA AnchorFound == TypeOK => Anchors \subseteq Present(Nodes)
<1> SUFFICES ASSUME TypeOK, NEW o \in Anchors PROVE o \in Present(Nodes)
  OBVIOUS
<1>1. PICK ord \in VisitOrders : \E i \in DOMAIN ord : o = ord[i]
  BY DEF Anchors
<1>2. PICK n \in 1..Cardinality(Present(Serving)) : ord \in [1..n -> Present(Serving)]
  BY <1>1 DEF VisitOrders
<1>3. o \in Present(Serving)
  BY <1>1, <1>2
<1> QED
  BY <1>3, UserPlaneAssumption DEF Present

\* The initial caches are empty.
LEMMA InitCaches == Init => CacheInv
<1> SUFFICES ASSUME Init PROVE CacheInv
  OBVIOUS
<1>1. Range(<<>>) = {}
  BY DEF Range
<1> QED
  BY <1>1 DEF Init, CacheInv, PathsTyped, CachesPresent, CachesValid, CreationsHold

\* A writer of the topology meets no creation that has selected a UPF.
LEMMA WritersAlone ==
  ASSUME CreationsHold, readers = {}, NEW s \in Sessions
  PROVE  create[s] \notin {"read", "paths"}
  BY DEF CreationsHold

\* Every change of the topology keeps CacheInv.
LEMMA CachesWritten == TypeOK /\ CacheInv /\ Write => CacheInv'
<1> SUFFICES ASSUME TypeOK, CacheInv, Write PROVE CacheInv'
  OBVIOUS
<1> USE UserPlaneAssumption
<1>1. readers = {} /\ UNCHANGED <<create, state, sel, path, readers>>
  BY DEF Write, PostUpNodesLinks, NothingWritten, DeleteUpf, DeleteAn, Changes, Writes, session
<1>2. CreationsHold'
  BY <1>1, WritersAlone DEF CacheInv, CreationsHold
<1>3. ASSUME NEW c \in Configs, PostUpNodesLinks(c[1], c[2])
      PROVE  PathsTyped' /\ CachesPresent' /\ CachesValid'
  <2>1. /\ pathTo' = pathTo /\ links \subseteq links'
        /\ \A n \in Names : gen[n] # 0 => gen'[n] = gen[n]
    <3>1. UpNodesFromConfiguration(c[1]) /\ LinksFromConfiguration(c[2]) /\ pathTo' = pathTo
      BY <1>3 DEF PostUpNodesLinks
    <3> QED
      BY <3>1 DEF UpNodesFromConfiguration, LinksFromConfiguration, TypeOK
  <2>2. \A x : x \in Present(Nodes) => x \in Present(Nodes)'
    BY <2>1 DEF Present, Obj, Names
  <2>3. ASSUME NEW n \in Nodes, pathTo[n] # <<>>
        PROVE  IsPath(pathTo[n])' /\ Last(pathTo[n]) = Obj(n)'
    <3>1. IsPath(pathTo[n]) /\ Last(pathTo[n]) = Obj(n)
      BY <2>3 DEF CacheInv, CachesValid
    <3>2. pathTo[n] \in Seq(UpfObjs) /\ Range(pathTo[n]) \subseteq Present(Nodes)
      BY DEF CacheInv, PathsTyped, CachesPresent
    <3>3. Last(pathTo[n]) \in Range(pathTo[n])
      BY <2>3, <3>2 DEF Last, Range
    <3>4. gen[n] # 0
      BY <3>1, <3>2, <3>3 DEF Present, Obj
    <3>5. IsPath(pathTo[n])'
      BY <3>1, <2>1 DEF IsPath, Linked
    <3> QED
      BY <3>1, <3>4, <3>5, <2>1 DEF Obj, Names
  <2> QED
    BY <1>1, <2>1, <2>2, <2>3 DEF CacheInv, PathsTyped, CachesPresent, CachesValid
<1>4. ASSUME NEW n \in Nodes, DeleteUpf(n)
      PROVE  PathsTyped' /\ CachesPresent' /\ CachesValid'
  <2>1. /\ gen' = [gen EXCEPT ![n] = 0] /\ links' = {e \in links : Obj(n) \notin e}
        /\ pathTo' = Invalidated(Obj(n))
    BY <1>4 DEF DeleteUpf
  <2>2. Range(<<>>) = {} /\ <<>> \in Seq(UpfObjs)
    BY DEF Range
  <2>3. ASSUME NEW m \in Nodes
        PROVE  \/ pathTo'[m] = <<>>
               \/ pathTo'[m] = pathTo[m] /\ Obj(n) \notin Range(pathTo[m])
    BY <2>1 DEF Invalidated
  <2>4. PathsTyped'
    BY <1>1, <2>1, <2>2 DEF CacheInv, PathsTyped, Invalidated
  <2>5. \A x \in Present(Nodes) : x # Obj(n) => x \in Present(Nodes)'
    BY <2>1 DEF Present, Obj, TypeOK, Names
  <2>6. CachesPresent'
    BY <2>2, <2>3, <2>5 DEF CacheInv, CachesPresent
  <2>7. ASSUME NEW m \in Nodes, pathTo'[m] # <<>>
        PROVE  IsPath(pathTo[m])' /\ Last(pathTo'[m]) = Obj(m)'
    <3>1. pathTo'[m] = pathTo[m] /\ Obj(n) \notin Range(pathTo[m])
      BY <2>3, <2>7
    <3>2. IsPath(pathTo[m]) /\ Last(pathTo[m]) = Obj(m)
      BY <2>7, <3>1 DEF CacheInv, CachesValid
    <3>3. pathTo[m] \in Seq(UpfObjs)
      BY DEF CacheInv, PathsTyped
    <3>4. Last(pathTo[m]) \in Range(pathTo[m])
      BY <2>7, <3>1, <3>3 DEF Last, Range
    <3>5. m # n
      BY <3>1, <3>2, <3>4
    <3>6. ASSUME NEW i \in 1..(Len(pathTo[m]) - 1)
          PROVE  Pair(pathTo[m][i], pathTo[m][i + 1]) \in links'
      <4>1. pathTo[m][i] \in Range(pathTo[m]) /\ pathTo[m][i + 1] \in Range(pathTo[m])
        BY <3>3 DEF Range
      <4>2. Pair(pathTo[m][i], pathTo[m][i + 1]) \in links
        BY <3>2 DEF IsPath, Linked
      <4> QED
        BY <2>1, <3>1, <4>1, <4>2 DEF Pair
    <3> QED
      BY <2>1, <3>1, <3>2, <3>5, <3>6 DEF IsPath, Linked, Obj, TypeOK, Names
  <2> QED
    BY <2>4, <2>6, <2>7 DEF CachesValid
<1>5. ASSUME DeleteAn PROVE PathsTyped' /\ CachesPresent' /\ CachesValid'
  <2>1. /\ gen' = [gen EXCEPT ![An] = 0] /\ links' = {e \in links : Obj(An) \notin e}
        /\ pathTo' = pathTo
    BY <1>5 DEF DeleteAn
  <2>2. \A m \in Nodes : Obj(m)' = Obj(m) /\ gen'[m] = gen[m]
    BY <2>1 DEF Obj, TypeOK, Names
  <2>3. Present(Nodes)' = Present(Nodes) /\ Obj(An) \notin Present(Nodes)
    BY <2>2 DEF Present, Obj
  <2>4. ASSUME NEW m \in Nodes, pathTo[m] # <<>>
        PROVE  IsPath(pathTo[m])'
    <3>1. /\ IsPath(pathTo[m]) /\ pathTo[m] \in Seq(UpfObjs)
          /\ Obj(An) \notin Range(pathTo[m])
      BY <2>3, <2>4 DEF CacheInv, CachesValid, PathsTyped, CachesPresent
    <3>2. ASSUME NEW i \in 1..(Len(pathTo[m]) - 1)
          PROVE  Pair(pathTo[m][i], pathTo[m][i + 1]) \in links'
      <4>1. pathTo[m][i] \in Range(pathTo[m]) /\ pathTo[m][i + 1] \in Range(pathTo[m])
        BY <3>1 DEF Range
      <4>2. Pair(pathTo[m][i], pathTo[m][i + 1]) \in links
        BY <3>1 DEF IsPath, Linked
      <4> QED
        BY <2>1, <3>1, <4>1, <4>2 DEF Pair
    <3> QED
      BY <2>1, <3>2 DEF IsPath, Linked
  <2> QED
    BY <1>1, <2>1, <2>2, <2>3, <2>4 DEF CacheInv, PathsTyped, CachesPresent, CachesValid
<1>6. ASSUME NothingWritten PROVE PathsTyped' /\ CachesPresent' /\ CachesValid'
  <2>1. UNCHANGED <<gen, links, pathTo, path>>
    BY <1>1, <1>6 DEF NothingWritten, topology
  <2>2. PathsTyped'
    BY <2>1 DEF CacheInv, PathsTyped
  <2>3. CachesPresent'
    BY <2>1 DEF CacheInv, CachesPresent, Present, Obj
  <2>4. CachesValid'
    BY <2>1 DEF CacheInv, CachesValid, IsPath, Linked, Obj
  <2> QED
    BY <2>2, <2>3, <2>4
<1>7. PathsTyped' /\ CachesPresent' /\ CachesValid'
  BY <1>3, <1>4, <1>5, <1>6 DEF Write
<1> QED
  BY <1>2, <1>7 DEF CacheInv

\* A creation that goes on keeps CacheInv, and the path it may choose is the selected
\* UPF's, through nodes that are there.
LEMMA CachesCreated ==
  ASSUME TypeOK, CacheInv, NEW s \in Sessions, Creation(s)
  PROVE  /\ CacheInv'
         /\ path'[s] \notin {path[s], <<>>}
              => Last(path'[s]) = sel[s] /\ Range(path'[s]) \subseteq Present(Nodes)
         /\ \A z \in Sessions : z # s => path'[z] = path[z]
<1> USE DEF TypeOK
<1>1. CASE CreateReads(s) \/ \E o \in UpfObjs : SelectUpf(s, o)
  <2>1. UNCHANGED <<gen, links, path, pathTo, state>>
    BY <1>1 DEF CreateReads, SelectUpf, topology
  <2>2. CreationsHold'
    <3>1. CASE CreateReads(s)
      <4>1. /\ create[s] = "lock" /\ create' = [create EXCEPT ![s] = "read"] /\ sel' = sel
            /\ readers' = readers \cup {<<s, "create">>}
        BY <3>1 DEF CreateReads
      <4>2. Present(Nodes)' = Present(Nodes)
        BY <2>1 DEF Present, Obj
      <4> QED
        BY <2>1, <4>1, <4>2 DEF CacheInv, CreationsHold
    <3>2. ASSUME NEW o \in UpfObjs, SelectUpf(s, o) PROVE CreationsHold'
      <4>1. o \in Present(Nodes)'
        BY <2>1, <3>2, AnchorFound DEF SelectUpf, Present, Obj
      <4>2. /\ create[s] = "read" /\ create' = [create EXCEPT ![s] = "paths"]
            /\ sel' = [sel EXCEPT ![s] = o] /\ readers' = readers
        BY <3>2 DEF SelectUpf, locks
      <4>3. Present(Nodes)' = Present(Nodes)
        BY <2>1 DEF Present, Obj
      <4> QED
        BY <2>1, <4>1, <4>2, <4>3 DEF CacheInv, CreationsHold
    <3> QED
      BY <1>1, <3>1, <3>2
  <2>3. PathsTyped' /\ CachesPresent' /\ CachesValid'
    BY <2>1
    DEF CacheInv, PathsTyped, CachesPresent, CachesValid, IsPath, Linked, Present, Obj
  <2> QED
    BY <2>1, <2>2, <2>3 DEF CacheInv
<1>2. ASSUME (create[s] = "paths" /\ Answered(s)) \/ Reject(s) \/ Establish(s),
             UNCHANGED <<gen, links>>,
             path' = [path EXCEPT ![s] = path'[s]], path'[s] \in Seq(UpfObjs),
             pathTo' \in [Nodes -> Seq(UpfObjs)],
             \A n \in Nodes :
               \/ pathTo'[n] = pathTo[n]
               \/ /\ IsPath(pathTo'[n]) /\ Last(pathTo'[n]) = Obj(n)
                  /\ Range(pathTo'[n]) \subseteq Present(Nodes)
      PROVE  CacheInv' /\ \A z \in Sessions : z # s => path'[z] = path[z]
  <2>1. PathsTyped' /\ \A z \in Sessions : z # s => path'[z] = path[z]
    BY <1>2 DEF CacheInv, PathsTyped
  <2>2. Present(Nodes)' = Present(Nodes) /\ \A n : Obj(n)' = Obj(n)
    BY <1>2 DEF Present, Obj
  <2>3. CachesPresent' /\ CachesValid'
    BY <1>2, <2>2 DEF CacheInv, CachesPresent, CachesValid, IsPath, Linked
  <2>4. /\ \/ create[s] \in {"read", "paths"}
           \/ create[s] = "establish" /\ create'[s] = "done"
        /\ \/ create' = [create EXCEPT ![s] = "establish"] /\ state' = state
           \/ create' = [create EXCEPT ![s] = "done"]
        /\ \A z \in Sessions : z # s => state'[z] = state[z] /\ sel'[z] = sel[z]
        /\ readers' \in {readers, readers \ {<<s, "create">>}}
    <3>1. CASE create[s] = "paths" /\ Answered(s)
      BY <3>1 DEF Answered
    <3>2. CASE Reject(s)
      BY <3>2 DEF Reject, Removed
    <3>3. CASE Establish(s)
      BY <3>3 DEF Establish, Removed
    <3> QED
      BY <1>2, <3>1, <3>2, <3>3
  <2>5. ASSUME NEW z \in Sessions
        PROVE  /\ create'[z] \in {"read", "paths"} => <<z, "create">> \in readers'
               /\ create'[z] \in {"lock", "read", "paths", "establish"}
                    => state'[z] = "ActivePending"
               /\ create'[z] = "paths" => sel'[z] \in Present(Nodes)'
    <3>1. CASE z = s
      BY <2>4, <3>1 DEF CacheInv, CreationsHold
    <3>2. CASE z # s
      BY <2>2, <2>4, <3>2 DEF CacheInv, CreationsHold
    <3> QED
      BY <3>1, <3>2
  <2>6. CreationsHold'
    BY <2>5 DEF CreationsHold
  <2> QED
    BY <2>1, <2>3, <2>6 DEF CacheInv
<1>3. CASE CachedPath(s)
  <2>1. /\ create[s] = "paths" /\ Answered(s) /\ pathTo' = pathTo
        /\ pathTo[sel[s][1]] # <<>> /\ path' = [path EXCEPT ![s] = pathTo[sel[s][1]]]
    BY <1>3 DEF CachedPath
  <2>2. PICK n \in Nodes : sel[s] = Obj(n)
    BY <2>1 DEF CacheInv, CreationsHold, Present
  <2>3. sel[s][1] = n
    BY <2>2 DEF Obj
  <2>4. path'[s] = pathTo[n]
    BY <2>1, <2>3 DEF CacheInv, PathsTyped
  <2>5. Last(pathTo[n]) = sel[s] /\ Range(pathTo[n]) \subseteq Present(Nodes)
    BY <2>1, <2>2, <2>3 DEF CacheInv, CachesValid, CachesPresent
  <2>6. UNCHANGED <<gen, links>> /\ path' = [path EXCEPT ![s] = path'[s]]
    BY <2>1, <2>3, <2>4 DEF Answered
  <2> QED
    BY <1>2, <2>1, <2>4, <2>5, <2>6 DEF CacheInv, PathsTyped
<1>4. CASE NewPath(s)
  <2>1. PICK p \in PathsBetween(sel[s]) :
          /\ path' = [path EXCEPT ![s] = p] /\ pathTo' = [pathTo EXCEPT ![sel[s][1]] = p]
    BY <1>4 DEF NewPath
  <2>2. create[s] = "paths" /\ Answered(s)
    BY <1>4 DEF NewPath
  <2>3. PICK n \in Nodes : sel[s] = Obj(n)
    BY <2>2 DEF CacheInv, CreationsHold, Present
  <2>4. sel[s][1] = n
    BY <2>3 DEF Obj
  <2>5. path'[s] = p /\ pathTo' = [pathTo EXCEPT ![n] = p]
    BY <2>1, <2>4 DEF CacheInv, PathsTyped
  <2>6. /\ p \in Seq(UpfObjs) /\ Last(p) = sel[s] /\ IsPath(p)
        /\ Range(p) \subseteq Present(Nodes)
    BY PathFound
  <2>7. UNCHANGED <<gen, links>> /\ path' = [path EXCEPT ![s] = path'[s]]
    BY <2>1, <2>2, <2>5 DEF Answered
  <2>8. /\ pathTo' \in [Nodes -> Seq(UpfObjs)]
        /\ \A m \in Nodes :
             \/ pathTo'[m] = pathTo[m]
             \/ /\ IsPath(pathTo'[m]) /\ Last(pathTo'[m]) = Obj(m)
                /\ Range(pathTo'[m]) \subseteq Present(Nodes)
    BY <2>3, <2>5, <2>6 DEF CacheInv, PathsTyped
  <2> QED
    BY <1>2, <2>2, <2>5, <2>6, <2>7, <2>8
<1>5. CASE Reject(s) \/ Establish(s)
  <2>1. /\ UNCHANGED <<gen, links, pathTo>>
        /\ path' = path \/ path' = [path EXCEPT ![s] = <<>>]
    BY <1>5 DEF Reject, Establish, Removed, topology
  <2>2. path \in [Sessions -> Seq(UpfObjs)] /\ <<>> \in Seq(UpfObjs)
    BY DEF CacheInv, PathsTyped
  <2>3. path'[s] \in {path[s], <<>>} /\ path'[s] \in Seq(UpfObjs)
        /\ path' = [path EXCEPT ![s] = path'[s]]
    BY <2>1, <2>2
  <2> QED
    BY <1>2, <1>5, <2>1, <2>3 DEF CacheInv, PathsTyped
<1> QED
  BY <1>1, <1>3, <1>4, <1>5 DEF Creation

\* The other steps leave the topology and the caches alone, remove no session that is
\* being created, and choose no path.
LEMMA CachesElsewhere ==
  ASSUME TypeOK, CacheInv,
         \/ AskForWriting
         \/ \E s \in Sessions : StartCreate(s) \/ UpdateReads(s) \/ Update(s)
         \/ \E l \in Loops : Loop(l)
         \/ \E o \in UpfObjs, s \in Sessions : VisitGone(o, s)
         \/ \E n \in Nodes : Upf(n)
         \/ UNCHANGED vars
  PROVE  CacheInv' /\ \A z \in Sessions : path'[z] \in {path[z], <<>>}
<1> USE DEF TypeOK
<1>1. UNCHANGED <<gen, links, pathTo>>
  BY DEF AskForWriting, StartCreate, UpdateReads, Update, UpdateLocks, UpdateEnds, Loop, Setup,
         BeatCancelled, BeatLost, BeatAnswered, Visit, VisitGone, Upf, Down, Back, vars, topology
<1>2. CachesPresent' /\ CachesValid'
  BY <1>1 DEF CacheInv, CachesPresent, CachesValid, IsPath, Linked, Present, Obj
<1>3. Present(Nodes)' = Present(Nodes)
  BY <1>1 DEF Present, Obj
<1>4. ASSUME path' = path \/ \E s \in Sessions : path' = [path EXCEPT ![s] = <<>>]
      PROVE  PathsTyped' /\ \A z \in Sessions : path'[z] \in {path[z], <<>>}
  <2>1. path \in [Sessions -> Seq(UpfObjs)] /\ <<>> \in Seq(UpfObjs)
    BY DEF CacheInv, PathsTyped
  <2> QED
    BY <1>1, <1>4, <2>1 DEF CacheInv, PathsTyped
<1>5. ASSUME NEW s \in Sessions, StartCreate(s) PROVE CreationsHold' /\ path' = path
  BY <1>3, <1>5 DEF StartCreate, CacheInv, CreationsHold
<1>6. ASSUME NEW s \in Sessions, UpdateReads(s) \/ UpdateLocks(s)
      PROVE  CreationsHold' /\ path' = path
  BY <1>3, <1>6 DEF UpdateReads, UpdateLocks, CacheInv, CreationsHold
<1>7. ASSUME NEW s \in Sessions, state[s] # "ActivePending", create' = create,
             \A z \in Sessions : z # s => state'[z] = state[z] /\ sel'[z] = sel[z],
             readers' = readers \/ readers' = readers \ {<<s, "update">>}
      PROVE  CreationsHold'
  BY <1>3, <1>7 DEF CacheInv, CreationsHold
<1>8. ASSUME NEW s \in Sessions, UpdateEnds(s)
      PROVE  CreationsHold' /\ (path' = path \/ path' = [path EXCEPT ![s] = <<>>])
  <2>1. CASE UNCHANGED <<state, sel, path>>
    BY <1>3, <1>8, <2>1 DEF UpdateEnds, CacheInv, CreationsHold
  <2>2. CASE ~UNCHANGED <<state, sel, path>>
    <3>1. /\ state[s] # "ActivePending" /\ create' = create
          /\ \A z \in Sessions : z # s => state'[z] = state[z] /\ sel'[z] = sel[z]
          /\ readers' = readers \ {<<s, "update">>}
          /\ path' = path \/ path' = [path EXCEPT ![s] = <<>>]
      BY <1>8, <2>2 DEF UpdateEnds, Removed
    <3> QED
      BY <1>7, <3>1
  <2> QED
    BY <2>1, <2>2
<1>9. ASSUME NEW s \in Sessions, NEW o \in UpfObjs, Visited(s, o), UNCHANGED <<create, readers>>
      PROVE  CreationsHold' /\ (path' = path \/ path' = [path EXCEPT ![s] = <<>>])
  <2>1. CASE UNCHANGED <<state, sel, path>>
    BY <1>3, <1>9, <2>1 DEF CacheInv, CreationsHold
  <2>2. CASE ~UNCHANGED <<state, sel, path>>
    <3>1. /\ state[s] # "ActivePending"
          /\ \A z \in Sessions : z # s => state'[z] = state[z] /\ sel'[z] = sel[z]
          /\ path' = path \/ path' = [path EXCEPT ![s] = <<>>]
      BY <1>9, <2>2 DEF Visited, AskedToRelease, Removed
    <3> QED
      BY <1>7, <1>9, <3>1
  <2> QED
    BY <2>1, <2>2
<1>10. ASSUME \/ \E l \in Loops, s \in Sessions : Visit(l, s)
              \/ \E o \in UpfObjs, s \in Sessions : VisitGone(o, s)
       PROVE  /\ CreationsHold'
              /\ path' = path \/ \E s \in Sessions : path' = [path EXCEPT ![s] = <<>>]
  BY <1>9, <1>10 DEF Visit, VisitGone, Loops, locks
<1>11. ASSUME \/ AskForWriting
              \/ \E l \in Loops : Setup(l) \/ BeatCancelled(l) \/ BeatLost(l) \/ BeatAnswered(l)
              \/ \E n \in Nodes : Upf(n)
              \/ UNCHANGED vars
       PROVE  CreationsHold' /\ path' = path
  <2>1. UNCHANGED <<create, state, sel, path, readers>>
    BY <1>11
    DEF AskForWriting, Setup, BeatCancelled, BeatLost, BeatAnswered, Upf, Down, Back, vars,
        session, locks
  <2> QED
    BY <1>3, <2>1 DEF CacheInv, CreationsHold
<1> QED
  BY <1>2, <1>4, <1>5, <1>6, <1>8, <1>10, <1>11 DEF Update, Loop, CacheInv

\* Every step keeps CacheInv.
LEMMA CachesStep == TypeOK /\ CacheInv /\ [Next]_vars => CacheInv'
  BY CachesWritten, CachesCreated, CachesElsewhere DEF Next, Upf

\* Whatever is posted and deleted, a cached path is one of the present topology and
\* ends at the UPF that it is cached for.
THEOREM CachesSafe == Spec => []CachesValid
<1>1. CacheInv => CachesValid
  BY DEF CacheInv
<1> QED
  BY <1>1, InitCaches, UserPlaneTyped, CachesStep, PTL DEF Spec

\* Every session gets a path to the UPF that its address was taken from, since nobody
\* changes the topology between its selection and that of the path.
THEOREM PathsSafe == Spec => PathAsSelected
<1>1. TypeOK /\ CacheInv /\ [Next]_vars
      => [\A s \in Sessions : path'[s] \notin {path[s], <<>>} =>
            Last(path'[s]) = sel[s] /\ Range(path'[s]) \subseteq Present(Nodes)]_vars
  <2> SUFFICES ASSUME TypeOK, CacheInv, Next, NEW s \in Sessions, path'[s] \notin {path[s], <<>>}
               PROVE  Last(path'[s]) = sel[s] /\ Range(path'[s]) \subseteq Present(Nodes)
    OBVIOUS
  <2>1. CASE \E z \in Sessions : Creation(z)
    BY <2>1, CachesCreated
  <2>2. CASE Write
    BY <2>2
    DEF Write, PostUpNodesLinks, NothingWritten, DeleteUpf, DeleteAn, session
  <2> QED
    BY <2>1, <2>2, CachesElsewhere DEF Next, Upf
<1>2. Spec => [](TypeOK /\ CacheInv)
  BY InitCaches, UserPlaneTyped, CachesStep, PTL DEF Spec
<1> QED
  BY <1>1, <1>2, PTL DEF Spec, PathAsSelected
=============================================================================
