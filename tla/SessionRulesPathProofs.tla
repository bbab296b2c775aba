---------------------- MODULE SessionRulesPathProofs -----------------------
(* Proofs about SessionRules for every number of UPFs, rules, paths,       *)
(* requests and faults: every variable keeps its type, and as long as      *)
(* every change was sent and acknowledged, rules, paths and requests agree *)
(* and no path is left without its rule.                                   *)
EXTENDS SessionRulesProofs, WellFoundedInduction, FiniteSetTheorems

Fars == [an : Nat, buff : BOOLEAN]

\* The decision and the paths: there is room for the paths that a decision, and
\* the default path of a session that is created, still need.
DecTyped ==
  /\ pc \in {"none", "apply", "default", "collect", "send", "an", "idle", "gone", "released"}
  /\ by \in {"create", "notify", "uemod", "none"}
  /\ pcc \in [Rules -> 0..Len(paths)] /\ final \in [Rules -> 0..Len(paths)]
  /\ todo \subseteq Rules /\ fresh \subseteq Rules
  /\ toRemove \subseteq DOMAIN paths
  /\ Len(paths) <= MaxPaths
  /\ pc = "apply" => Len(paths) + Cardinality(todo) + (IF by = "create" THEN 1 ELSE 0) <= MaxPaths
  /\ pc = "default" => Len(paths) + 1 <= MaxPaths
  /\ pc = "none" => paths = <<>> /\ pool = {}
  /\ \A p \in DOMAIN paths : paths[p].ups # <<>>

\* PDRs and FARs, and the requests that carry them.
RuleTyped ==
  /\ DOMAIN st \subseteq RuleIds /\ \A x \in DOMAIN st : st[x] \in RuleStates
  /\ ids \subseteq DOMAIN st
  /\ DOMAIN req \subseteq UPFs /\ \A u \in DOMAIN req : req[u] \subseteq RuleIds
  /\ seid \subseteq UPFs

\* QERs, QFIs and URRs.
QerTyped ==
  /\ DOMAIN qer \subseteq QerIds /\ qerMap \in [UPFs \X Keys -> 0..MaxPaths]
  /\ qfi \in [Rules -> 0..MaxQFI] /\ lastQFI \in 1..MaxQFI
  /\ DOMAIN urr \subseteq UrrIds /\ \A x \in DOMAIN urr : urr[x] \in RuleStates

\* The AN tunnels; a path that is not made yet has no downlink.
AnTyped ==
  /\ lastAn \in 0..MaxAn
  /\ an \in 0..lastAn /\ serving \in 0..lastAn /\ fwd \in 0..lastAn
  /\ ho \in {"none", "prepared"} /\ connected \in BOOLEAN
  /\ far \in [PathIds -> Fars] /\ upFar \in [PathIds -> Fars]

TypeInv == RulesInv /\ DecTyped /\ RuleTyped /\ QerTyped /\ AnTyped

-----------------------------------------------------------------------------
(* Operators *)

\* Least finds the least number of a set.
LEMMA LeastIsIn == ASSUME NEW Q \in SUBSET Nat, Q # {} PROVE Least(Q) \in Q
<1> DEFINE R == {s \in Nat \X Nat : s[1] < s[2]}
<1>1. R = OpToRel(<, Nat)
  BY DEF OpToRel
<1>2. IsWellFoundedOn(R, Nat)
  BY <1>1, NatLessThanWellFounded
<1>3. \A x, y \in Nat : y < x => <<y, x>> \in R
  OBVIOUS
<1> HIDE DEF R
<1>4. PICK x \in Q : \A y \in Q : ~(<<y, x>> \in R)
  BY <1>2, WFMin
<1>5. \A y \in Q : ~(y < x)
  BY <1>3, <1>4
<1>6. \A y \in Q : x <= y
  BY <1>5
<1> QED
  BY <1>6 DEF Least

\* AssignQFI gives a rule the QFI it has, a free one, or 0.
LEMMA AssignedQFI ==
  ASSUME QerTyped, NEW r \in Rules
  PROVE  AssignQFI(r) \in 0..MaxQFI
<1>1. MaxQFI \in Nat
  BY RulesAssumption
<1>2. FreeQFIs \in SUBSET Nat /\ \A q \in FreeQFIs : q \in 0..MaxQFI
  BY <1>1 DEF FreeQFIs, QFIs
<1>3. ASSUME NEW Q, Q \subseteq FreeQFIs, Q # {} PROVE Least(Q) \in 0..MaxQFI
  <2>1. Least(Q) \in Q
    BY <1>2, <1>3, LeastIsIn
  <2> QED
    BY <1>2, <1>3, <2>1
<1>4. qfi[r] \in 0..MaxQFI /\ 0 \in 0..MaxQFI
  BY <1>1 DEF QerTyped
<1> DEFINE ahead == {q \in FreeQFIs : q > lastQFI}
<1>5. ahead \subseteq FreeQFIs
  OBVIOUS
<1> HIDE DEF ahead
<1> QED
  BY <1>3, <1>4, <1>5 DEF AssignQFI, ahead

\* Every path is a record, with a route.
LEMMA PathsAre ==
  ASSUME TypeInv
  PROVE  \A p \in DOMAIN paths : /\ p \in PathIds /\ paths[p] \in PathRecords
                                 /\ paths[p].ups \in Seq(UPFs) /\ paths[p].ups # <<>>
                                 /\ Upfs(paths[p].ups) \subseteq UPFs
<1>1. ASSUME NEW p \in DOMAIN paths PROVE paths[p] \in PathRecords
  BY DEF TypeInv, RulesInv, RulesTyped
<1>2. \A x \in PathRecords : x.ups \in Seq(UPFs)
  BY DEF PathRecords
<1>3. \A w \in Seq(UPFs) : Upfs(w) \subseteq UPFs
  BY DEF Upfs, Range
<1>4. DOMAIN paths \subseteq PathIds
  BY RulesAssumption DEF TypeInv, DecTyped, RulesInv, RulesTyped, PathIds
<1> QED
  BY <1>1, <1>2, <1>3, <1>4 DEF TypeInv, DecTyped

\* Deactivated paths differ only in being deactivated.
LEMMA DeactivatedKeeps ==
  ASSUME RulesInv, NEW P
  PROVE  \A p \in DOMAIN paths :
           LET d == Deactivated(P)[p]
           IN  /\ d.ups = paths[p].ups /\ d.def = paths[p].def /\ d.rule = paths[p].rule
               /\ d.qers = paths[p].qers /\ d.urrs = paths[p].urrs
               /\ d.act = (paths[p].act /\ p \notin P)
<1>1. \A p \in DOMAIN paths : paths[p] \in PathRecords
  BY DEF RulesInv, RulesTyped
<1> QED
  BY <1>1 DEF Deactivated, PathRecords

\* What AddDataPath leaves: one path more, at the end, and what it is made of.
PathMade(w, def, r) ==
  /\ Len(paths') = Len(paths) + 1 /\ DOMAIN paths' = 1..(Len(paths) + 1)
  /\ \A p \in DOMAIN paths : paths'[p] = paths[p]
  /\ paths'[Len(paths) + 1].ups = w /\ paths'[Len(paths) + 1].rule = r
  /\ paths'[Len(paths) + 1].def = def
  /\ paths'[Len(paths) + 1].act = (Upfs(w) \subseteq assoc)
  /\ pool' = pool \cup {Len(paths) + 1}
  /\ ids' = ids \cup RulesAt(Len(paths) + 1, Reached(w))
  /\ Reached(w) \subseteq Upfs(w)
  /\ Upfs(w) \subseteq assoc => Reached(w) = Upfs(w)
  /\ RulesAt(Len(paths) + 1, Upfs(w)) \subseteq RuleIds
  /\ DOMAIN qer' \subseteq QerIds /\ qerMap' \in [UPFs \X Keys -> 0..MaxPaths]
  /\ \A x \in DOMAIN qer : x \in DOMAIN qer' /\ qer'[x] = qer[x]
  /\ \A x \in DOMAIN qer' \ DOMAIN qer : qer'[x].st = "INITIAL"
  /\ DOMAIN urr' \subseteq UrrIds /\ \A x \in DOMAIN urr' : urr'[x] \in RuleStates
  /\ \A x \in DOMAIN urr : x \in DOMAIN urr' /\ urr'[x] = urr[x]
  /\ \A x \in DOMAIN urr' \ DOMAIN urr : urr'[x] = "INITIAL"
  /\ far' = TowardsAn(Len(paths) + 1) /\ far' \in [PathIds -> Fars]
  /\ Len(paths) + 1 \in PathIds

\* AddDataPath does that.
LEMMA NewPath ==
  ASSUME TypeInv, Len(paths) + 1 <= MaxPaths,
         NEW w \in Seq(UPFs), w # <<>>, NEW def, NEW r \in Rules \cup {None},
         NEW K \in SUBSET Keys, NEW C \in SUBSET UrrIds, AddDataPath(w, def, r, K, C)
  PROVE  PathMade(w, def, r)
<1> DEFINE p == Len(paths) + 1
           ok == Upfs(w) \subseteq assoc
           made == IF ok THEN MadeQers(p, w, K) ELSE {}
           all == IF ok THEN made \cup SharedQers(w, K) ELSE {}
           newUrrs == IF ok THEN PathUrrs(w) \cup C ELSE {}
           new == [ups |-> w, def |-> def, act |-> ok, rule |-> r,
                   qers |-> {x \in all : ~(r \in Gbr /\ x[2] = Ambr)}, urrs |-> newUrrs]
<1>1. /\ paths' = Append(paths, new) /\ pool' = pool \cup {p}
      /\ ids' = ids \cup RulesAt(p, Reached(w))
      /\ qer' = Set(qer, made, [st |-> "INITIAL", pooled |-> TRUE])
      /\ qerMap' = Set(qerMap, {<<x[1], x[2]>> : x \in made}, p)
      /\ urr' = Set(urr, newUrrs \ DOMAIN urr, "INITIAL")
      /\ far' = TowardsAn(p)
  BY DEF AddDataPath
<1>2. Len(paths) \in Nat /\ p \in 1..MaxPaths /\ DOMAIN paths = 1..Len(paths)
      /\ paths \in Seq(PathRecords)
  BY RulesAssumption DEF TypeInv, RulesInv, RulesTyped
<1>3. Upfs(w) \subseteq UPFs
  BY DEF Upfs, Range
<1>4. Reached(w) \subseteq Upfs(w) /\ (ok => Reached(w) = Upfs(w))
  BY DEF Reached, Upfs, Range
<1>5. RulesAt(p, Upfs(w)) \subseteq RuleIds
  BY <1>2, <1>3 DEF RulesAt, RuleIds, PathIds
<1>6. made \subseteq QerIds /\ {<<x[1], x[2]>> : x \in made} \subseteq UPFs \X Keys
  BY <1>2, <1>3 DEF MadeQers, QerIds, PathIds
<1>7. PathUrrs(w) \subseteq UrrIds
  BY <1>2, RulesAssumption DEF PathUrrs, UrrIds, Role
<1>8. newUrrs \subseteq UrrIds
  BY <1>7
<1> HIDE DEF newUrrs, made, all, new, ok, p
<1>9. /\ Len(paths') = p /\ DOMAIN paths' = 1..p
      /\ \A q \in DOMAIN paths : paths'[q] = paths[q]
      /\ paths'[p] = new
  BY <1>1, <1>2 DEF p
<1>10. /\ DOMAIN qer' \subseteq QerIds
       /\ \A x \in DOMAIN qer' \ DOMAIN qer : qer'[x].st = "INITIAL"
  BY <1>1, <1>6 DEF Set, TypeInv, QerTyped
<1>11. \A x \in DOMAIN qer : x \in DOMAIN qer' /\ qer'[x] = qer[x]
  <2>1. \A x \in made : x[3] = p
    BY DEF made, MadeQers
  <2>2. \A x \in DOMAIN qer : x[3] # p
    BY <1>2 DEF TypeInv, RulesInv, RulesTyped, p
  <2> QED
    BY <1>1, <2>1, <2>2 DEF Set
<1>12. qerMap' \in [UPFs \X Keys -> 0..MaxPaths]
  BY <1>1, <1>2, <1>6 DEF Set, TypeInv, QerTyped
<1>13. /\ DOMAIN urr' \subseteq UrrIds /\ \A x \in DOMAIN urr' : urr'[x] \in RuleStates
       /\ \A x \in DOMAIN urr : x \in DOMAIN urr' /\ urr'[x] = urr[x]
       /\ \A x \in DOMAIN urr' \ DOMAIN urr : urr'[x] = "INITIAL"
  BY <1>1, <1>8 DEF Set, TypeInv, QerTyped, RuleStates
<1>14. far' \in [PathIds -> Fars]
  <2>1. an \in Nat /\ far \in [PathIds -> Fars]
    BY DEF TypeInv, AnTyped
  <2>2. ASSUME NEW q \in PathIds PROVE [far[q] EXCEPT !.an = an] \in Fars
    BY <2>1 DEF Fars
  <2>3. far' = [far EXCEPT ![p] = [far[p] EXCEPT !.an = an]]
    BY <1>1 DEF TowardsAn
  <2>4. p \in PathIds
    BY <1>2 DEF p, PathIds
  <2> QED
    BY <2>1, <2>2, <2>3, <2>4
<1>15. /\ paths'[p].ups = w /\ paths'[p].rule = r /\ paths'[p].def = def
       /\ paths'[p].act = ok
  BY <1>9 DEF new
<1>16. p \in PathIds
  BY <1>2 DEF p, PathIds
<1> QED
  BY <1>1, <1>4, <1>5, <1>9, <1>10, <1>11, <1>12, <1>13, <1>14, <1>15, <1>16
  DEF ok, p, PathMade

-----------------------------------------------------------------------------
(* Types *)

\* Who brings a policy decision.
Deciders == {"create", "notify", "uemod"}

\* The steps, one by one.
LEMMA Steps ==
  ASSUME Next
  PROVE  \/ \E b \in Deciders, del, put, mod \in SUBSET Rules : \E drop \in SUBSET del :
              Classify(b, del, put, mod, drop)
         \/ \E b \in Deciders, del \in SUBSET Rules : ClassifyFails(b, del)
         \/ \E r \in Rules : NoDataPath(r)
         \/ \E r \in Rules : \E w \in RoutesOf[r], flow \in BOOLEAN : ProcessRule(r, w, flow)
         \/ Commit \/ SelectDefaultDataPath \/ NoDefaultPath \/ ActivateUPFSession
         \/ \E u \in UPFs : Accepted(u)
         \/ \E u \in UPFs : Fails(u)
         \/ \E u \in UPFs : NotAssociated(u)
         \/ AllAnswered
         \/ SetupResponse \/ PathSwitchRequest \/ Deactivate
         \/ \E indirect \in BOOLEAN : HandoverPrepared(indirect)
         \/ HandoverCompleted
         \/ \E ok \in SUBSET UPFs, n1 \in BOOLEAN : Release(ok, n1)
         \/ \E u \in UPFs : LoseUpf(u)
         \/ \E u \in UPFs : Reassociate(u)
  BY DEF Next, Deciders

\* Rules are processed one by one, and each leaves its room to the others.
LEMMA OneProcessed ==
  ASSUME DecTyped, NEW r \in todo
  PROVE  /\ Cardinality(todo) \in Nat \ {0} /\ Cardinality(todo \ {r}) = Cardinality(todo) - 1
         /\ IsFiniteSet(todo)
<1>1. IsFiniteSet(todo)
  BY FS_Subset, RulesAssumption DEF DecTyped
<1>2. todo # {} /\ Cardinality(todo) \in Nat
  BY <1>1, FS_CardinalityType
<1>3. Cardinality(todo) # 0
  BY <1>1, <1>2, FS_EmptySet
<1> QED
  BY <1>1, <1>2, <1>3, FS_RemoveElement

\* A rule's data path is the default path or not, and has a route of the rule.
LEMMA RuleRoutes ==
  /\ \A r \in Rules : \A w \in RoutesOf[r] : w \in Seq(UPFs) /\ w # <<>>
  /\ DefaultRoute \in Seq(UPFs) /\ DefaultRoute # <<>>
  BY RulesAssumption DEF Range

\* What ProcessRule asks AddDataPath for.
LEMMA RuleAsks ==
  ASSUME TypeInv, NEW r \in Rules, NEW w \in RoutesOf[r], NEW def, NEW p \in PathIds
  PROVE  /\ RuleKeys(r, w, def) \subseteq Keys
         /\ ChargingUrrs(p, w, r, PduCharged(r)) \subseteq UrrIds
         /\ {Ambr, DefQFI} \subseteq Keys
<1>1. MaxQFI \in Nat /\ MaxQFI >= 2 /\ MaxPaths \in Nat
  BY RulesAssumption
<1>2. AssignQFI(r) \in 0..MaxQFI
  BY AssignedQFI DEF TypeInv
<1>3. RuleKeys(r, w, def) \subseteq Keys /\ {Ambr, DefQFI} \subseteq Keys
  BY <1>1, <1>2 DEF RuleKeys, Keys, DefQFI
<1>4. w \in Seq(UPFs) /\ w # <<>>
  BY RuleRoutes
<1>5. Anchor(w) \in UPFs
  BY <1>4 DEF Anchor
<1>6. PduCharged(r) \subseteq Rules
  BY RulesAssumption DEF PduCharged
<1>7. p \in 0..MaxPaths
  BY <1>1 DEF PathIds
<1> QED
  BY <1>3, <1>5, <1>6, <1>7 DEF ChargingUrrs, UrrIds

\* A rule is processed: its path is made, the rest is left to ProcessRule.
LEMMA RulePath ==
  ASSUME TypeInv, NEW r \in Rules, NEW w \in RoutesOf[r], NEW flow, ProcessRule(r, w, flow)
  PROVE  /\ Len(paths) + 1 <= MaxPaths /\ Len(paths) + 1 \in PathIds
         /\ r \in todo /\ pc = "apply"
         /\ w \in Seq(UPFs) /\ w # <<>>
         /\ PathMade(w, r = DefaultRule /\ DefaultPaths = {}, r)
<1>1. r \in todo /\ pc = "apply"
  BY DEF ProcessRule, StartRule
<1>2. Len(paths) \in Nat
  BY DEF TypeInv, RulesInv, RulesTyped
<1>3. Cardinality(todo) \in Nat \ {0} /\ MaxPaths \in Nat
  BY <1>1, OneProcessed, RulesAssumption DEF TypeInv
<1>4. Len(paths) + Cardinality(todo) + (IF by = "create" THEN 1 ELSE 0) <= MaxPaths
  BY <1>1 DEF TypeInv, DecTyped
<1>5. Len(paths) + 1 <= MaxPaths
  BY <1>2, <1>3, <1>4
<1>6. Len(paths) + 1 \in PathIds
  BY <1>2, <1>5 DEF PathIds
<1>7. w \in Seq(UPFs) /\ w # <<>>
  BY RuleRoutes
<1>8. AddDataPath(w, r = DefaultRule /\ DefaultPaths = {}, r,
                  RuleKeys(r, w, r = DefaultRule /\ DefaultPaths = {}),
                  IF Dies(r, w) THEN {}
                  ELSE ChargingUrrs(Len(paths) + 1, w, r, PduCharged(r)))
  BY DEF ProcessRule
<1>9. /\ RuleKeys(r, w, r = DefaultRule /\ DefaultPaths = {}) \in SUBSET Keys
      /\ (IF Dies(r, w) THEN {} ELSE ChargingUrrs(Len(paths) + 1, w, r, PduCharged(r)))
           \in SUBSET UrrIds
  BY <1>6, RuleAsks
<1>10. r \in Rules \cup {None}
  OBVIOUS
<1>11. PathMade(w, r = DefaultRule /\ DefaultPaths = {}, r)
  BY <1>5, <1>7, <1>8, <1>9, <1>10, NewPath
<1> QED
  BY <1>1, <1>5, <1>6, <1>7, <1>8, <1>9, <1>11

\* The default path is made.
LEMMA DefaultPath ==
  ASSUME TypeInv, SelectDefaultDataPath
  PROVE  \/ DefaultPaths # {} /\ UNCHANGED <<pathVars, far>>
         \/ /\ DefaultPaths = {} /\ Len(paths) + 1 <= MaxPaths
            /\ PathMade(DefaultRoute, TRUE, None)
            /\ st' = Set(st, ids' \ ids, "INITIAL")
            /\ UNCHANGED <<toRemove, qfi, lastQFI>>
<1>1. pc = "default"
  BY DEF SelectDefaultDataPath
<1>2. Len(paths) + 1 <= MaxPaths
  BY <1>1 DEF TypeInv, DecTyped
<1>3. {Ambr, DefQFI} \in SUBSET Keys /\ {} \in SUBSET UrrIds
  BY RulesAssumption DEF Keys, DefQFI
<1>4. CASE DefaultPaths # {}
  BY <1>4 DEF SelectDefaultDataPath
<1>5. CASE DefaultPaths = {}
  <2>1. /\ AddDataPath(DefaultRoute, TRUE, None, {Ambr, DefQFI}, {})
        /\ st' = Set(st, ids' \ ids, "INITIAL")
        /\ UNCHANGED <<toRemove, qfi, lastQFI>>
    BY <1>5 DEF SelectDefaultDataPath
  <2>2. PathMade(DefaultRoute, TRUE, None)
    BY <1>2, <1>3, <2>1, RuleRoutes, NewPath
  <2> QED
    BY <1>2, <1>5, <2>1, <2>2
<1> QED
  BY <1>4, <1>5

\* Every step leaves room for the paths that are still needed.
LEMMA DecStep ==
  ASSUME TypeInv, [Next]_vars
  PROVE  DecTyped'
<1>0. /\ paths \in Seq(PathRecords) /\ Len(paths) \in Nat /\ DOMAIN paths = 1..Len(paths)
      /\ MaxPaths \in Nat \ {0} /\ pool \subseteq DOMAIN paths
      /\ DecTyped
  BY RulesAssumption DEF TypeInv, RulesInv, RulesTyped
<1> USE DEF DecTyped
<1>1. ASSUME NEW b \in Deciders, NEW del \in SUBSET Rules,
             NEW put \in SUBSET Rules, NEW mod \in SUBSET Rules, NEW drop \in SUBSET del,
             Classify(b, del, put, mod, drop)
      PROVE  DecTyped'
  <2>1. Len(paths) + Cardinality(put \cup mod) + (IF b = "create" THEN 1 ELSE 0) <= MaxPaths
    BY <1>1 DEF Classify
  <2> QED
    BY <1>0, <1>1, <2>1 DEF Classify, Deciders, RemovePccRules, Installed, anVars, upfVars, assocVars
<1>2. ASSUME NEW b \in Deciders, NEW del \in SUBSET Rules,
             ClassifyFails(b, del)
      PROVE  DecTyped'
  <2>1. /\ UNCHANGED paths /\ UNCHANGED pool
        /\ toRemove' = toRemove \cup {pcc[r] : r \in del \cap Installed}
        /\ pcc' = [r \in Rules |-> IF r \in del THEN 0 ELSE pcc[r]]
        /\ final' = pcc' /\ todo' = {} /\ fresh' = {}
        /\ by' \in {"create", "none"} /\ pc' \in {"default", "idle"}
        /\ pc' = "default" => pc = "none"
    BY <1>2 DEF ClassifyFails, Deciders, RemovePccRules, Decides, GiveUp, EndDecision
  <2>2. Len(paths) = 0 \/ pc # "none"
    BY <1>0
  <2> QED
    BY <1>0, <2>1, <2>2 DEF Installed
<1>3. ASSUME NEW r \in Rules, NoDataPath(r) PROVE DecTyped'
  <2>1. Cardinality(todo) \in Nat \ {0}
    BY <1>0, <1>3, OneProcessed DEF NoDataPath, StartRule
  <2> QED
    BY <1>0, <1>3, <2>1 DEF NoDataPath, StartRule, PreRemoveDataPath, GiveUp, EndDecision
<1>4. ASSUME NEW r \in Rules, NEW w \in RoutesOf[r], NEW flow \in BOOLEAN,
             ProcessRule(r, w, flow)
      PROVE  DecTyped'
  <2>1. /\ Cardinality(todo) \in Nat \ {0} /\ Cardinality(todo \ {r}) = Cardinality(todo) - 1
        /\ r \in todo /\ pc = "apply"
    BY <1>0, <1>4, OneProcessed, RulePath
  <2>2. /\ Len(paths') = Len(paths) + 1 /\ DOMAIN paths' = 1..(Len(paths) + 1)
        /\ \A p \in DOMAIN paths : paths'[p] = paths[p]
        /\ paths'[Len(paths) + 1].ups # <<>>
        /\ Len(paths) + 1 <= MaxPaths
    BY <1>0, <1>4, RulePath DEF PathMade
  <2>3. toRemove' = toRemove \cup ({pcc[r]} \ {0})
    BY <1>4 DEF ProcessRule, PreRemoveDataPath
  <2>4. /\ pcc' = IF r \in fresh THEN pcc ELSE [pcc EXCEPT ![r] = Len(paths')]
        /\ \/ by' = "none" /\ EndDecision /\ pc' \in {"gone", "idle"}
           \/ GiveUp(by)
           \/ /\ final' = [final EXCEPT ![r] = Len(paths')]
              /\ todo' = todo \ {r}
              /\ UNCHANGED <<pc, by, fresh>>
    BY <1>4 DEF ProcessRule, Panic
  <2>5. pcc' \in [Rules -> 0..Len(paths')]
    BY <1>0, <2>2, <2>4
  <2>9. /\ toRemove' \subseteq DOMAIN paths' /\ Len(paths') <= MaxPaths
        /\ \A p \in DOMAIN paths' : paths'[p].ups # <<>>
    <3>1. \A p \in DOMAIN paths' : p \in DOMAIN paths \/ p = Len(paths) + 1
      BY <1>0, <2>2
    <3>2. toRemove \subseteq 1..Len(paths) /\ pcc[r] \in 0..Len(paths)
      BY <1>0
    <3>3. toRemove' \subseteq DOMAIN paths'
      BY <1>0, <2>2, <2>3, <3>2
    <3>4. \A p \in DOMAIN paths' : paths'[p].ups # <<>>
      BY <1>0, <2>2, <3>1
    <3> QED
      BY <2>2, <3>3, <3>4
  <2>6. CASE by' = "none" /\ EndDecision /\ pc' \in {"gone", "idle"}
    BY <1>0, <2>2, <2>5, <2>9, <2>6 DEF EndDecision
  <2>7. CASE GiveUp(by)
    BY <1>0, <2>1, <2>2, <2>5, <2>9, <2>7 DEF GiveUp, EndDecision
  <2>8. CASE /\ final' = [final EXCEPT ![r] = Len(paths')]
             /\ todo' = todo \ {r}
             /\ UNCHANGED <<pc, by, fresh>>
    BY <1>0, <2>1, <2>2, <2>5, <2>9, <2>8
  <2> QED
    BY <2>4, <2>6, <2>7, <2>8
<1>5. ASSUME Commit PROVE DecTyped'
  <2>1. /\ UNCHANGED <<paths, pool, toRemove>> /\ pc = "apply"
        /\ pcc' = final /\ todo' = {} /\ fresh' = {} /\ final' = pcc'
        /\ \/ by' = by /\ pc' = "send" 
           \/ by' = by /\ by = "create" /\ pc' = "default"
           \/ by' = "none" /\ pc' = "idle"
        /\ todo = {}
    BY <1>5 DEF Commit, EndDecision, SendAll, pathVars
  <2>2. Cardinality(todo) = 0
    BY <2>1, FS_EmptySet
  <2> QED
    BY <1>0, <2>1, <2>2
<1>6. ASSUME SelectDefaultDataPath PROVE DecTyped'
  <2>1. UNCHANGED decVars /\ pc' = "collect"
    BY <1>6 DEF SelectDefaultDataPath
  <2>2. CASE UNCHANGED <<pathVars, far>>
    BY <1>0, <2>1, <2>2 DEF pathVars, decVars
  <2>3. CASE /\ PathMade(DefaultRoute, TRUE, None) /\ Len(paths) + 1 <= MaxPaths
             /\ UNCHANGED toRemove
    <3>1. /\ Len(paths') = Len(paths) + 1 /\ DOMAIN paths' = 1..(Len(paths) + 1)
          /\ \A p \in DOMAIN paths : paths'[p] = paths[p]
          /\ paths'[Len(paths) + 1].ups # <<>>
          /\ Len(paths) + 1 <= MaxPaths
      BY <2>3, RuleRoutes DEF PathMade
    <3>2. \A p \in DOMAIN paths' : p \in DOMAIN paths \/ p = Len(paths) + 1
      BY <1>0, <3>1
    <3>3. \A p \in DOMAIN paths' : paths'[p].ups # <<>>
      BY <1>0, <3>1, <3>2
    <3>4. 0..Len(paths) \subseteq 0..Len(paths')
      BY <1>0, <3>1
    <3>5. UNCHANGED <<by, pcc, final, todo, fresh>>
      BY <2>1 DEF decVars
    <3> QED
      BY <1>0, <2>1, <2>3, <3>1, <3>3, <3>4, <3>5
  <2> QED
    BY <1>6, <2>2, <2>3, DefaultPath
<1>7. ASSUME NoDefaultPath PROVE DecTyped'
  BY <1>0, <1>7
  DEF NoDefaultPath, pathVars, decVars
<1>8. ASSUME ActivateUPFSession PROVE DecTyped'
  BY <1>0, <1>8
  DEF ActivateUPFSession, SendAll, pathVars, decVars
<1>9. ASSUME NEW u \in UPFs, Accepted(u) PROVE DecTyped'
  BY <1>0, <1>9 DEF Accepted, Exchange, decVars
<1>10. ASSUME NEW u \in UPFs, Fails(u) PROVE DecTyped'
  BY <1>0, <1>10 DEF Fails, Exchange, decVars
<1>11. ASSUME NEW u \in UPFs, NotAssociated(u) PROVE DecTyped'
  BY <1>0, <1>11 DEF NotAssociated, Exchange, decVars
<1>12. ASSUME AllAnswered PROVE DecTyped'
  <2>1. /\ Len(paths') = Len(paths) /\ DOMAIN paths' = DOMAIN paths
        /\ \A p \in DOMAIN paths : paths'[p].ups = paths[p].ups
    <3>1. paths' = Deactivated(toRemove) /\ UNCHANGED urr /\ qer' = Unpooled(toRemove)
      BY <1>12 DEF AllAnswered, PostRemoveDataPath
    <3>2. DOMAIN qer' = DOMAIN qer
      BY <3>1 DEF Unpooled
    <3> QED
      BY <3>1, <3>2, DeactivatedPaths, DeactivatedKeeps DEF TypeInv, RulesInv
  <2> QED
    BY <1>0, <1>12, <2>1 DEF AllAnswered, PostRemoveDataPath
<1>13. ASSUME SetupResponse PROVE DecTyped'
  BY <1>0, <1>13 DEF SetupResponse, NewAn, UpdateAnUpf, decVars
<1>14. ASSUME PathSwitchRequest PROVE DecTyped'
  BY <1>0, <1>14 DEF PathSwitchRequest, NewAn, UpdateAnUpf, decVars
<1>15. ASSUME Deactivate PROVE DecTyped'
  BY <1>0, <1>15 DEF Deactivate, UpdateAnUpf, decVars
<1>16. ASSUME NEW indirect \in BOOLEAN,
              HandoverPrepared(indirect)
       PROVE  DecTyped'
  BY <1>0, <1>16 DEF HandoverPrepared, NewAn, decVars
<1>17. ASSUME HandoverCompleted PROVE DecTyped'
  BY <1>0, <1>17 DEF HandoverCompleted, UpdateAnUpf, decVars
<1>18. ASSUME NEW ok \in SUBSET UPFs, NEW n1 \in BOOLEAN,
              Release(ok, n1)
       PROVE  DecTyped'
  <2>1. /\ Len(paths') = Len(paths) /\ DOMAIN paths' = DOMAIN paths
        /\ \A p \in DOMAIN paths : paths'[p].ups = paths[p].ups
    <3>1. paths' = Deactivated(pool) /\ UNCHANGED urr /\ qer' = Unpooled(pool)
      BY <1>18 DEF Release, decVars
    <3>2. DOMAIN qer' = DOMAIN qer
      BY <3>1 DEF Unpooled
    <3> QED
      BY <3>1, <3>2, DeactivatedPaths, DeactivatedKeeps DEF TypeInv, RulesInv
  <2> QED
    BY <1>0, <1>18, <2>1 DEF Release, decVars
<1>19. ASSUME NEW u \in UPFs, LoseUpf(u) PROVE DecTyped'
  BY <1>0, <1>19
  DEF LoseUpf, Fault, pathVars, decVars
<1>20. ASSUME NEW u \in UPFs, Reassociate(u) PROVE DecTyped'
  BY <1>0, <1>20
  DEF Reassociate, pathVars, decVars
<1>21. CASE UNCHANGED vars
  BY <1>0, <1>21
  DEF vars, pathVars, decVars
<1> HIDE DEF DecTyped
<1>22. CASE Next
  BY Steps, <1>1, <1>2, <1>3, <1>4, <1>5, <1>6, <1>7, <1>8, <1>9, <1>10,
     <1>11, <1>12, <1>13, <1>14, <1>15, <1>16, <1>17, <1>18, <1>19, <1>20,
     <1>22
<1> QED
  BY <1>21, <1>22

\* Paths have numbers and first UPFs, so their downlink rules, and those of an
\* indirect forwarding, are rules.
LEMMA DownlinkIds ==
  ASSUME TypeInv
  PROVE  /\ \A p \in DOMAIN paths : /\ p \in PathIds /\ AnUpf(p) \in UPFs
                                    /\ AnUpf(p) \in Upfs(paths[p].ups)
                                    /\ DlPdr(p) \in RuleIds /\ DlFar(p) \in RuleIds
         /\ Active \subseteq DOMAIN paths /\ DefaultPaths \subseteq DOMAIN paths
         /\ DlRules \subseteq RuleIds /\ DlFars \subseteq RuleIds
         /\ \A t \in 1..MaxAn : Forwarding(t) \subseteq RuleIds
<1>1. ASSUME NEW p \in DOMAIN paths
      PROVE  p \in PathIds /\ AnUpf(p) \in UPFs /\ AnUpf(p) \in Upfs(paths[p].ups)
  <2>1. paths[p].ups \in Seq(UPFs) /\ paths[p].ups # <<>>
    BY PathsAre
  <2>2. p \in PathIds
    BY PathsAre
  <2>3. 1 \in DOMAIN paths[p].ups /\ paths[p].ups[1] \in UPFs
    BY <2>1
  <2> QED
    BY <2>2, <2>3 DEF AnUpf, Upfs, Range
<1>2. Active \subseteq DOMAIN paths /\ DefaultPaths \subseteq DOMAIN paths
  BY DEF Active, DefaultPaths, TypeInv, RulesInv, RulesTyped
<1>3. \A p \in DOMAIN paths : DlPdr(p) \in RuleIds /\ DlFar(p) \in RuleIds
  BY <1>1 DEF DlPdr, DlFar, RuleIds
<1>4. \A t \in 1..MaxAn : Forwarding(t) \subseteq RuleIds
  BY <1>1, <1>2 DEF Forwarding, RuleIds
<1> QED
  BY <1>1, <1>2, <1>3, <1>4 DEF DlRules, DlFars

\* What is sent is rules of the tables.
LEMMA CollectedIds ==
  ASSUME TypeInv
  PROVE  DOMAIN Collected \subseteq UPFs /\ \A u \in DOMAIN Collected : Collected[u] \subseteq RuleIds
<1>1. Active \subseteq DOMAIN paths /\ DOMAIN st \subseteq RuleIds
  BY DownlinkIds DEF TypeInv, RuleTyped
<1>2. \A p \in DOMAIN paths : Upfs(paths[p].ups) \subseteq UPFs
  BY PathsAre
<1> QED
  BY <1>1, <1>2 DEF Collected

\* Every step makes and sends only rules.
LEMMA RuleTypes ==
  ASSUME TypeInv, [Next]_vars
  PROVE  RuleTyped'
<1>0. RuleTyped /\ {"INITIAL", "CREATE", "UPDATE", "REMOVE"} = RuleStates
  BY DEF TypeInv, RuleStates
<1> USE DEF RuleTyped
<1>1. ASSUME NEW b \in Deciders, NEW del \in SUBSET Rules,
             NEW put \in SUBSET Rules, NEW mod \in SUBSET Rules, NEW drop \in SUBSET del,
             Classify(b, del, put, mod, drop)
      PROVE  RuleTyped'
  BY <1>0, <1>1 DEF Classify, RemovePccRules, Marked, Set, GiveUp, upfVars
<1>2. ASSUME NEW b \in Deciders, NEW del \in SUBSET Rules,
             ClassifyFails(b, del)
      PROVE  RuleTyped'
  BY <1>0, <1>2 DEF ClassifyFails, RemovePccRules, Marked, Set, GiveUp, upfVars
<1>3. ASSUME NEW r \in Rules, NoDataPath(r) PROVE RuleTyped'
  BY <1>0, <1>3 DEF NoDataPath, PreRemoveDataPath, Marked, Set, upfVars
<1>4. ASSUME NEW r \in Rules, NEW w \in RoutesOf[r], NEW flow \in BOOLEAN,
             ProcessRule(r, w, flow)
      PROVE  RuleTyped'
  <2>1. /\ ids' = ids \cup RulesAt(Len(paths) + 1, Reached(w))
        /\ Reached(w) \subseteq Upfs(w)
        /\ RulesAt(Len(paths) + 1, Upfs(w)) \subseteq RuleIds
    BY <1>4, RulePath DEF PathMade
  <2>2. RulesAt(Len(paths) + 1, Reached(w)) \subseteq RuleIds
    BY <2>1 DEF RulesAt
  <2>3. st' = Set(Marked(st, {pcc[r]}), ids' \ ids, "INITIAL") /\ UNCHANGED <<req, seid>>
    BY <1>4 DEF ProcessRule, PreRemoveDataPath, upfVars
  <2> QED
    BY <1>0, <2>1, <2>2, <2>3 DEF Set, Marked
<1>5. ASSUME Commit PROVE RuleTyped'
  <2>1. UNCHANGED <<st, ids, seid>> /\ (req' = req \/ req' = Collected)
    BY <1>5 DEF Commit, SendAll, pathVars, upfVars
  <2>2. DOMAIN Collected \subseteq UPFs /\ \A u \in DOMAIN Collected : Collected[u] \subseteq RuleIds
    BY <1>0, CollectedIds
  <2> QED
    BY <1>0, <2>1, <2>2
<1>6. ASSUME SelectDefaultDataPath PROVE RuleTyped'
  <2>1. CASE UNCHANGED <<pathVars, far>>
    BY <1>0, <1>6, <2>1 DEF SelectDefaultDataPath, pathVars, upfVars
  <2>2. CASE /\ PathMade(DefaultRoute, TRUE, None)
             /\ st' = Set(st, ids' \ ids, "INITIAL")
    <3>1. /\ ids' = ids \cup RulesAt(Len(paths) + 1, Reached(DefaultRoute))
          /\ Reached(DefaultRoute) \subseteq Upfs(DefaultRoute)
          /\ RulesAt(Len(paths) + 1, Upfs(DefaultRoute)) \subseteq RuleIds
      BY <2>2 DEF PathMade
    <3>2. RulesAt(Len(paths) + 1, Reached(DefaultRoute)) \subseteq RuleIds
      BY <3>1 DEF RulesAt
    <3>3. UNCHANGED <<req, seid>>
      BY <1>6 DEF SelectDefaultDataPath, upfVars
    <3> QED
      BY <1>0, <2>2, <3>1, <3>2, <3>3 DEF Set
  <2> QED
    BY <1>6, <2>1, <2>2, DefaultPath
<1>7. ASSUME NoDefaultPath PROVE RuleTyped'
  BY <1>0, <1>7 DEF NoDefaultPath, pathVars, upfVars
<1>8. ASSUME ActivateUPFSession PROVE RuleTyped'
  <2>1. UNCHANGED <<st, ids, seid>> /\ req' = Collected
    BY <1>8 DEF ActivateUPFSession, SendAll, pathVars, upfVars
  <2>2. DOMAIN Collected \subseteq UPFs /\ \A u \in DOMAIN Collected : Collected[u] \subseteq RuleIds
    BY <1>0, CollectedIds
  <2> QED
    BY <1>0, <2>1, <2>2
<1>9. ASSUME NEW u \in UPFs, Accepted(u) PROVE RuleTyped'
  BY <1>0, <1>9 DEF Accepted, Exchange, Build, Set, Without
<1>10. ASSUME NEW u \in UPFs, Fails(u) PROVE RuleTyped'
  BY <1>0, <1>10 DEF Fails, Exchange, Build, Set, Without
<1>11. ASSUME NEW u \in UPFs, NotAssociated(u) PROVE RuleTyped'
  BY <1>0, <1>11 DEF NotAssociated, Exchange, Without, upfVars
<1>12. ASSUME AllAnswered PROVE RuleTyped'
  BY <1>0, <1>12 DEF AllAnswered, PostRemoveDataPath, upfVars
<1>13. ASSUME SetupResponse PROVE RuleTyped'
  <2>1. UNCHANGED <<ids, seid>> /\ UpdateAnUpf(DlRules) /\ st' = Set(st, DlRules, "UPDATE")
    BY <1>13 DEF SetupResponse, upfVars
  <2>2. DlRules \subseteq RuleIds /\ DlRules \subseteq RuleIds /\ DlFars \subseteq RuleIds
    BY <1>0, DownlinkIds
  <2>3. DOMAIN req' \subseteq UPFs /\ \A u \in DOMAIN req' : req'[u] \subseteq RuleIds
    BY <1>0, <2>1, <2>2, DownlinkIds DEF UpdateAnUpf
  <2> QED
    BY <1>0, <2>1, <2>2, <2>3 DEF Set
<1>14. ASSUME PathSwitchRequest PROVE RuleTyped'
  <2>1. UNCHANGED <<ids, seid>> /\ UpdateAnUpf(DlRules) /\ st' = Set(st, DlFars, "UPDATE")
    BY <1>14 DEF PathSwitchRequest, upfVars
  <2>2. DlRules \subseteq RuleIds /\ DlRules \subseteq RuleIds /\ DlFars \subseteq RuleIds
    BY <1>0, DownlinkIds
  <2>3. DOMAIN req' \subseteq UPFs /\ \A u \in DOMAIN req' : req'[u] \subseteq RuleIds
    BY <1>0, <2>1, <2>2, DownlinkIds DEF UpdateAnUpf
  <2> QED
    BY <1>0, <2>1, <2>2, <2>3 DEF Set
<1>15. ASSUME Deactivate PROVE RuleTyped'
  <2> DEFINE list == {DlFar(p) : p \in pool} \cap DOMAIN st
  <2>1. UNCHANGED <<ids, seid>> /\ UpdateAnUpf(list) /\ st' = Set(st, list, "UPDATE")
    BY <1>15 DEF Deactivate, upfVars
  <2>2. list \subseteq RuleIds /\ DlRules \subseteq RuleIds /\ DlFars \subseteq RuleIds
    BY <1>0, DownlinkIds
  <2> HIDE DEF list
  <2>3. DOMAIN req' \subseteq UPFs /\ \A u \in DOMAIN req' : req'[u] \subseteq RuleIds
    BY <1>0, <2>1, <2>2, DownlinkIds DEF UpdateAnUpf
  <2> QED
    BY <1>0, <2>1, <2>2, <2>3 DEF Set
<1>16. ASSUME NEW indirect \in BOOLEAN,
              HandoverPrepared(indirect)
       PROVE  RuleTyped'
  <2>1. lastAn' \in 1..MaxAn
    BY <1>16, RulesAssumption DEF HandoverPrepared, NewAn, TypeInv, AnTyped
  <2>2. DlFars \subseteq RuleIds /\ Forwarding(lastAn') \subseteq RuleIds
    BY <2>1, DownlinkIds
  <2>3. CASE indirect
    <3>1. /\ st' = Set(Set(st, DlFars, "UPDATE"), Forwarding(lastAn'), "INITIAL")
          /\ ids' = ids \cup {x \in Forwarding(lastAn') : x[4] = "far"}
          /\ req' = [u \in {AnUpf(p) : p \in DefaultPaths} |-> Forwarding(lastAn')]
          /\ seid' = seid
      BY <1>16, <2>3 DEF HandoverPrepared, upfVars
    <3>2. {AnUpf(p) : p \in DefaultPaths} \subseteq UPFs
      BY DownlinkIds
    <3> DEFINE F == Forwarding(lastAn')
    <3> HIDE DEF F
    <3> QED
      BY <1>0, <2>2, <3>1, <3>2 DEF Set, F
  <2>4. CASE ~indirect
    BY <1>0, <1>16, <2>2, <2>4 DEF HandoverPrepared, Set, upfVars
  <2> QED
    BY <2>3, <2>4
<1>17. ASSUME HandoverCompleted PROVE RuleTyped'
  <2> DEFINE F == {x \in DOMAIN st : fwd # 0 /\ x[1] = -fwd}
  <2>1. UNCHANGED <<ids, seid>> /\ UpdateAnUpf((DlRules \cup F)) /\ st' = Set(st, F, "REMOVE")
    BY <1>17 DEF HandoverCompleted, upfVars
  <2>2. (DlRules \cup F) \subseteq RuleIds /\ F \subseteq RuleIds /\ DlFars \subseteq RuleIds
    BY <1>0, DownlinkIds
  <2> HIDE DEF F
  <2>3. DOMAIN req' \subseteq UPFs /\ \A u \in DOMAIN req' : req'[u] \subseteq RuleIds
    BY <1>0, <2>1, <2>2, DownlinkIds DEF UpdateAnUpf
  <2> QED
    BY <1>0, <2>1, <2>2, <2>3 DEF Set
<1>18. ASSUME NEW ok \in SUBSET UPFs, NEW n1 \in BOOLEAN,
              Release(ok, n1)
       PROVE  RuleTyped'
  BY <1>0, <1>18 DEF Release
<1>19. ASSUME NEW u \in UPFs, LoseUpf(u) PROVE RuleTyped'
  BY <1>0, <1>19 DEF LoseUpf, pathVars, upfVars
<1>20. ASSUME NEW u \in UPFs, Reassociate(u) PROVE RuleTyped'
  BY <1>0, <1>20 DEF Reassociate, pathVars, upfVars
<1>21. CASE UNCHANGED vars
  BY <1>0, <1>21 DEF vars, pathVars, upfVars
<1> HIDE DEF RuleTyped
<1>22. CASE Next
  BY Steps, <1>1, <1>2, <1>3, <1>4, <1>5, <1>6, <1>7, <1>8, <1>9, <1>10,
     <1>11, <1>12, <1>13, <1>14, <1>15, <1>16, <1>17, <1>18, <1>19, <1>20,
     <1>22
<1> QED
  BY <1>21, <1>22

\* The QERs and URRs that go with paths are made.
LEMMA RefsMade ==
  ASSUME TypeInv
  PROVE  /\ \A p \in DOMAIN paths : paths[p].qers \subseteq DOMAIN qer /\ paths[p].urrs \subseteq DOMAIN urr
         /\ \A u : QersAt(u) \subseteq DOMAIN qer /\ UrrsAt(u) \subseteq DOMAIN urr
<1>1. \A p \in DOMAIN paths : paths[p].qers \subseteq DOMAIN qer /\ paths[p].urrs \subseteq DOMAIN urr
  <2>1. \A x \in PathRecords : x.qers \subseteq DOMAIN qer /\ x.urrs \subseteq DOMAIN urr
    BY DEF PathRecords
  <2> QED
    BY <2>1, PathsAre
<1>2. Active \subseteq DOMAIN paths
  BY DownlinkIds
<1> QED
  BY <1>1, <1>2 DEF QersAt, UrrsAt

\* The rule that is processed gets a QFI.
LEMMA StartedTypes ==
  ASSUME QerTyped, NEW r \in Rules, StartRule(r)
  PROVE  qfi' \in [Rules -> 0..MaxQFI] /\ lastQFI' \in 1..MaxQFI
<1>1. AssignQFI(r) \in 0..MaxQFI /\ MaxQFI \in Nat
  BY AssignedQFI, RulesAssumption
<1>2. qfi' = [qfi EXCEPT ![r] = AssignQFI(r)]
  BY DEF StartRule
<1>3. qfi' \in [Rules -> 0..MaxQFI]
  BY <1>1, <1>2 DEF QerTyped
<1> QED
  BY <1>1, <1>3 DEF StartRule, QerTyped

\* Every step makes only QERs, URRs and QFIs.
LEMMA QerTypes ==
  ASSUME TypeInv, [Next]_vars
  PROVE  QerTyped'
<1>0. QerTyped /\ "INITIAL" \in RuleStates /\ "CREATE" \in RuleStates /\ MaxQFI \in Nat
  BY RulesAssumption DEF TypeInv, RuleStates
<1> USE DEF QerTyped
<1>1. ASSUME NEW b \in Deciders, NEW del \in SUBSET Rules,
             NEW put \in SUBSET Rules, NEW mod \in SUBSET Rules, NEW drop \in SUBSET del,
             Classify(b, del, put, mod, drop)
      PROVE  QerTyped'
  BY <1>0, <1>1 DEF Classify, RemovePccRules
<1>2. ASSUME NEW b \in Deciders, NEW del \in SUBSET Rules,
             ClassifyFails(b, del)
      PROVE  QerTyped'
  BY <1>0, <1>2 DEF ClassifyFails, RemovePccRules
<1>3. ASSUME NEW r \in Rules, NoDataPath(r) PROVE QerTyped'
  BY <1>0, <1>3, StartedTypes DEF NoDataPath
<1>4. ASSUME NEW r \in Rules, NEW w \in RoutesOf[r], NEW flow \in BOOLEAN,
             ProcessRule(r, w, flow)
      PROVE  QerTyped'
  BY <1>0, <1>4, RulePath, StartedTypes DEF ProcessRule, PathMade
<1>5. ASSUME Commit PROVE QerTyped'
  BY <1>0, <1>5 DEF Commit, pathVars
<1>6. ASSUME SelectDefaultDataPath PROVE QerTyped'
  BY <1>0, <1>6, DefaultPath DEF PathMade, pathVars
<1>7. ASSUME NoDefaultPath PROVE QerTyped'
  BY <1>0, <1>7 DEF NoDefaultPath, pathVars
<1>8. ASSUME ActivateUPFSession PROVE QerTyped'
  BY <1>0, <1>8 DEF ActivateUPFSession, pathVars
<1>9. ASSUME NEW u \in UPFs, Accepted(u) PROVE QerTyped'
  <2>1. /\ DOMAIN qer' = DOMAIN qer /\ UNCHANGED <<qerMap, qfi, lastQFI>>
        /\ urr' = Set(urr, UrrsAt(u), "CREATE")
    BY <1>9 DEF Accepted, Exchange, Build
  <2>2. UrrsAt(u) \subseteq DOMAIN urr
    BY RefsMade
  <2> QED
    BY <1>0, <2>1, <2>2 DEF Set
<1>10. ASSUME NEW u \in UPFs, Fails(u) PROVE QerTyped'
  <2>1. /\ DOMAIN qer' = DOMAIN qer /\ UNCHANGED <<qerMap, qfi, lastQFI>>
        /\ urr' = Set(urr, UrrsAt(u), "CREATE")
    BY <1>10 DEF Fails, Exchange, Build
  <2>2. UrrsAt(u) \subseteq DOMAIN urr
    BY RefsMade
  <2> QED
    BY <1>0, <2>1, <2>2 DEF Set
<1>11. ASSUME NEW u \in UPFs, NotAssociated(u) PROVE QerTyped'
  BY <1>0, <1>11 DEF NotAssociated, Exchange
<1>12. ASSUME AllAnswered PROVE QerTyped'
  BY <1>0, <1>12 DEF AllAnswered, PostRemoveDataPath, Unpooled
<1>13. ASSUME SetupResponse PROVE QerTyped'
  BY <1>0, <1>13 DEF SetupResponse
<1>14. ASSUME PathSwitchRequest PROVE QerTyped'
  BY <1>0, <1>14 DEF PathSwitchRequest
<1>15. ASSUME Deactivate PROVE QerTyped'
  BY <1>0, <1>15 DEF Deactivate
<1>16. ASSUME NEW indirect \in BOOLEAN,
              HandoverPrepared(indirect)
       PROVE  QerTyped'
  BY <1>0, <1>16 DEF HandoverPrepared
<1>17. ASSUME HandoverCompleted PROVE QerTyped'
  BY <1>0, <1>17 DEF HandoverCompleted
<1>18. ASSUME NEW ok \in SUBSET UPFs, NEW n1 \in BOOLEAN,
              Release(ok, n1)
       PROVE  QerTyped'
  BY <1>0, <1>18 DEF Release, Unpooled
<1>19. ASSUME NEW u \in UPFs, LoseUpf(u) PROVE QerTyped'
  BY <1>0, <1>19 DEF LoseUpf, pathVars
<1>20. ASSUME NEW u \in UPFs, Reassociate(u) PROVE QerTyped'
  BY <1>0, <1>20 DEF Reassociate, pathVars
<1>21. CASE UNCHANGED vars
  BY <1>0, <1>21 DEF vars, pathVars
<1> HIDE DEF QerTyped
<1>22. CASE Next
  BY Steps, <1>1, <1>2, <1>3, <1>4, <1>5, <1>6, <1>7, <1>8, <1>9, <1>10,
     <1>11, <1>12, <1>13, <1>14, <1>15, <1>16, <1>17, <1>18, <1>19, <1>20,
     <1>22
<1> QED
  BY <1>21, <1>22

\* A UPF's downlink FARs are FARs.
LEMMA FarsApplied ==
  ASSUME far \in [PathIds -> Fars], upFar \in [PathIds -> Fars], NEW u, Applied(u)
  PROVE  upFar' \in [PathIds -> Fars]
<1>1. NoFar \in Fars /\ \A x \in Fars : [x EXCEPT !.buff = FALSE] \in Fars
  BY DEF NoFar, Fars
<1> QED
  BY <1>1 DEF Applied

\* Every step makes AN tunnels one by one.
LEMMA AnTypes ==
  ASSUME TypeInv, [Next]_vars
  PROVE  AnTyped'
<1>0. /\ AnTyped /\ 0 \in Nat /\ MaxAn \in Nat
      /\ lastAn \in Nat /\ an \in Nat /\ far \in [PathIds -> Fars] /\ upFar \in [PathIds -> Fars]
  BY RulesAssumption DEF TypeInv, AnTyped
<1> USE DEF AnTyped
<1>1. ASSUME NEW b \in Deciders, NEW del \in SUBSET Rules,
             NEW put \in SUBSET Rules, NEW mod \in SUBSET Rules, NEW drop \in SUBSET del,
             Classify(b, del, put, mod, drop)
      PROVE  AnTyped'
  BY <1>0, <1>1 DEF Classify, anVars, upfVars
<1>2. ASSUME NEW b \in Deciders, NEW del \in SUBSET Rules,
             ClassifyFails(b, del)
      PROVE  AnTyped'
  BY <1>0, <1>2 DEF ClassifyFails, anVars, upfVars
<1>3. ASSUME NEW r \in Rules, NoDataPath(r) PROVE AnTyped'
  BY <1>0, <1>3 DEF NoDataPath, upfVars
<1>4. ASSUME NEW r \in Rules, NEW w \in RoutesOf[r], NEW flow \in BOOLEAN,
             ProcessRule(r, w, flow)
      PROVE  AnTyped'
  BY <1>0, <1>4, RulePath DEF ProcessRule, PathMade, upfVars
<1>5. ASSUME Commit PROVE AnTyped'
  BY <1>0, <1>5 DEF Commit, anVars, upfVars
<1>6. ASSUME SelectDefaultDataPath PROVE AnTyped'
  BY <1>0, <1>6, DefaultPath DEF SelectDefaultDataPath, PathMade, upfVars
<1>7. ASSUME NoDefaultPath PROVE AnTyped'
  BY <1>0, <1>7 DEF NoDefaultPath, anVars, upfVars
<1>8. ASSUME ActivateUPFSession PROVE AnTyped'
  BY <1>0, <1>8 DEF ActivateUPFSession, anVars, upfVars
<1>9. ASSUME NEW u \in UPFs, Accepted(u) PROVE AnTyped'
  <2>1. UNCHANGED anVars /\ (UNCHANGED upFar \/ Applied(u))
    BY <1>9 DEF Accepted, Exchange
  <2>2. CASE UNCHANGED upFar
    BY <1>0, <2>1, <2>2 DEF anVars
  <2>3. CASE Applied(u)
    BY <1>0, <2>1, <2>3, FarsApplied DEF anVars
  <2> QED
    BY <2>1, <2>2, <2>3
<1>10. ASSUME NEW u \in UPFs, Fails(u) PROVE AnTyped'
  <2>1. UNCHANGED anVars /\ (UNCHANGED upFar \/ Applied(u))
    BY <1>10 DEF Fails, Exchange
  <2>2. CASE UNCHANGED upFar
    BY <1>0, <2>1, <2>2 DEF anVars
  <2>3. CASE Applied(u)
    BY <1>0, <2>1, <2>3, FarsApplied DEF anVars
  <2> QED
    BY <2>1, <2>2, <2>3
<1>11. ASSUME NEW u \in UPFs, NotAssociated(u) PROVE AnTyped'
  BY <1>0, <1>11 DEF NotAssociated, Exchange, anVars, upfVars
<1>12. ASSUME AllAnswered PROVE AnTyped'
  BY <1>0, <1>12 DEF AllAnswered, anVars, upfVars
<1>13. ASSUME SetupResponse PROVE AnTyped'
  <2>1. lastAn' = lastAn + 1 /\ lastAn + 1 \in Nat /\ lastAn' <= MaxAn
    BY <1>0, <1>13 DEF SetupResponse, NewAn
  <2>2. far' \in [PathIds -> Fars]
    BY <1>0, <1>13, <2>1 DEF SetupResponse, UpdateANInformation, Fars
  <2>3. /\ an' = lastAn' /\ serving' \in {serving, lastAn'} /\ fwd' \in {0, fwd, lastAn'}
        /\ ho' \in {ho, "prepared"} /\ connected' \in BOOLEAN /\ upFar' = upFar
    BY <1>0, <1>13 DEF SetupResponse, UpdateANInformation, upfVars
  <2>4. 0..lastAn \subseteq 0..lastAn' /\ lastAn' \in 0..lastAn' /\ 0 \in 0..lastAn'
    BY <1>0, <2>1
  <2> QED
    BY <1>0, <2>1, <2>2, <2>3, <2>4
<1>14. ASSUME PathSwitchRequest PROVE AnTyped'
  <2>1. lastAn' = lastAn + 1 /\ lastAn + 1 \in Nat /\ lastAn' <= MaxAn
    BY <1>0, <1>14 DEF PathSwitchRequest, NewAn
  <2>2. far' \in [PathIds -> Fars]
    BY <1>0, <1>14, <2>1 DEF PathSwitchRequest, UpdateANInformation, Fars
  <2>3. /\ an' = lastAn' /\ serving' \in {serving, lastAn'} /\ fwd' \in {0, fwd, lastAn'}
        /\ ho' \in {ho, "prepared"} /\ connected' \in BOOLEAN /\ upFar' = upFar
    BY <1>0, <1>14 DEF PathSwitchRequest, UpdateANInformation, upfVars
  <2>4. 0..lastAn \subseteq 0..lastAn' /\ lastAn' \in 0..lastAn' /\ 0 \in 0..lastAn'
    BY <1>0, <2>1
  <2> QED
    BY <1>0, <2>1, <2>2, <2>3, <2>4
<1>15. ASSUME Deactivate PROVE AnTyped'
  <2>1. far' \in [PathIds -> Fars]
    BY <1>0, <1>15 DEF Deactivate, Fars
  <2> QED
    BY <1>0, <1>15, <2>1 DEF Deactivate, upfVars
<1>16. ASSUME NEW indirect \in BOOLEAN,
              HandoverPrepared(indirect)
       PROVE  AnTyped'
  <2>1. lastAn' = lastAn + 1 /\ lastAn + 1 \in Nat /\ lastAn' <= MaxAn
    BY <1>0, <1>16 DEF HandoverPrepared, NewAn
  <2>2. far' \in [PathIds -> Fars]
    BY <1>0, <1>16, <2>1 DEF HandoverPrepared, UpdateANInformation, Fars
  <2>3. /\ an' = lastAn' /\ serving' \in {serving, lastAn'} /\ fwd' \in {0, fwd, lastAn'}
        /\ ho' \in {ho, "prepared"} /\ connected' \in BOOLEAN /\ upFar' = upFar
    BY <1>0, <1>16 DEF HandoverPrepared, UpdateANInformation, upfVars
  <2>4. 0..lastAn \subseteq 0..lastAn' /\ lastAn' \in 0..lastAn' /\ 0 \in 0..lastAn'
    BY <1>0, <2>1
  <2> QED
    BY <1>0, <2>1, <2>2, <2>3, <2>4
<1>17. ASSUME HandoverCompleted PROVE AnTyped'
  BY <1>0, <1>17 DEF HandoverCompleted, upfVars
<1>18. ASSUME NEW ok \in SUBSET UPFs, NEW n1 \in BOOLEAN,
              Release(ok, n1)
       PROVE  AnTyped'
  BY <1>0, <1>18 DEF Release, anVars, upfVars
<1>19. ASSUME NEW u \in UPFs, LoseUpf(u) PROVE AnTyped'
  BY <1>0, <1>19 DEF LoseUpf, anVars, upfVars
<1>20. ASSUME NEW u \in UPFs, Reassociate(u) PROVE AnTyped'
  BY <1>0, <1>20 DEF Reassociate, anVars, upfVars
<1>21. CASE UNCHANGED vars
  BY <1>0, <1>21 DEF vars, anVars, upfVars
<1> HIDE DEF AnTyped
<1>22. CASE Next
  BY Steps, <1>1, <1>2, <1>3, <1>4, <1>5, <1>6, <1>7, <1>8, <1>9, <1>10,
     <1>11, <1>12, <1>13, <1>14, <1>15, <1>16, <1>17, <1>18, <1>19, <1>20,
     <1>22
<1> QED
  BY <1>21, <1>22

\* The initial state has the types.
LEMMA InitTypes == Init => TypeInv
<1> SUFFICES ASSUME Init PROVE TypeInv
  OBVIOUS
<1>1. RulesInv
  BY InitRules
<1>2. /\ DOMAIN st = {} /\ DOMAIN req = {} /\ DOMAIN qer = {} /\ Len(paths) = 0
      /\ DOMAIN paths = {} /\ DOMAIN urr = {} /\ ids = {} /\ pool = {}
  BY DEF Init
<1>3. DecTyped
  BY <1>2, RulesAssumption DEF Init, DecTyped
<1>4. RuleTyped
  BY <1>2 DEF Init, RuleTyped
<1>5. QerTyped
  BY <1>2, RulesAssumption DEF Init, QerTyped
<1>6. AnTyped
  <2>1. NoFar \in Fars /\ MaxAn \in Nat
    BY RulesAssumption DEF NoFar, Fars
  <2>2. /\ lastAn = 0 /\ an = 0 /\ serving = 0 /\ fwd = 0 /\ ho = "none" /\ connected = FALSE
        /\ far = [p \in PathIds |-> NoFar] /\ upFar = [p \in PathIds |-> NoFar]
    BY DEF Init
  <2>3. far \in [PathIds -> Fars] /\ upFar \in [PathIds -> Fars]
    BY <2>1, <2>2
  <2>4. 0 \in 0..0 /\ 0 \in 0..MaxAn
    BY <2>1
  <2> QED
    BY <2>2, <2>3, <2>4 DEF AnTyped
<1> QED
  BY <1>1, <1>3, <1>4, <1>5, <1>6 DEF TypeInv

\* TypeInv is an invariant.
LEMMA TypeNext == TypeInv /\ [Next]_vars => TypeInv'
  BY RulesStep, DecStep, RuleTypes, QerTypes, AnTypes DEF TypeInv

LEMMA TypeInvariance == Spec => []TypeInv
  BY InitTypes, TypeNext, PTL DEF Spec

\* Every variable keeps its type: in particular there is a QFI or none for a rule,
\* an AN tunnel for every downlink, and no more paths than the bound.
THEOREM TypesSafe == Spec => []TypeOK
<1>1. TypeInv => TypeOK
  <2> SUFFICES ASSUME TypeInv PROVE TypeOK
    OBVIOUS
  <2>1. /\ MaxPaths \in Nat /\ MaxAn \in Nat /\ Len(paths) \in 0..MaxPaths
        /\ pool \subseteq DOMAIN paths /\ assoc \subseteq UPFs
    BY RulesAssumption DEF TypeInv, DecTyped, RulesInv, RulesTyped
  <2>2. pcc \in [Rules -> 0..MaxPaths] /\ final \in [Rules -> 0..MaxPaths]
    BY <2>1 DEF TypeInv, DecTyped
  <2>3. \A p \in DOMAIN paths : paths[p].ups \in Seq(UPFs) /\ paths[p].rule \in Rules \cup {None}
    BY PathsAre DEF PathRecords
  <2>4. Range(st) \subseteq RuleStates /\ Range(urr) \subseteq RuleStates
    BY DEF Range, TypeInv, RuleTyped, QerTyped
  <2>5. /\ lastAn \in 0..MaxAn /\ an \in 0..MaxAn /\ serving \in 0..MaxAn /\ fwd \in 0..MaxAn
        /\ ho \in {"none", "prepared"}
    BY <2>1 DEF TypeInv, AnTyped
  <2>6. /\ DOMAIN st \subseteq RuleIds /\ ids \subseteq DOMAIN st /\ DOMAIN req \subseteq UPFs
        /\ seid \subseteq UPFs
    BY DEF TypeInv, RuleTyped
  <2>7. /\ DOMAIN qer \subseteq QerIds /\ qerMap \in [UPFs \X Keys -> 0..MaxPaths]
        /\ qfi \in [Rules -> 0..MaxQFI] /\ lastQFI \in 1..MaxQFI
        /\ DOMAIN urr \subseteq UrrIds
    BY DEF TypeInv, QerTyped
  <2>8. /\ pc \in {"none", "apply", "default", "collect", "send", "an", "idle", "gone", "released"}
        /\ by \in {"create", "notify", "uemod", "none"}
        /\ todo \subseteq Rules /\ fresh \subseteq Rules /\ toRemove \subseteq DOMAIN paths
    BY DEF TypeInv, DecTyped
  <2> QED
    BY <2>1, <2>2, <2>3, <2>4, <2>5, <2>6, <2>7, <2>8, RefsMade DEF TypeOK
<1> QED
  BY <1>1, TypeInvariance, PTL

-----------------------------------------------------------------------------
(* As long as every change was sent and acknowledged *)

Open == clean /\ pc \notin {"gone", "released"}

\* x is in the request to its UPF.
Pending(x) == x[2] \in DOMAIN req /\ x \in req[x[2]]

\* x is a rule of the indirect forwarding of the prepared handover.
Forwards(x) == fwd # 0 /\ x[1] = -fwd

\* A rule's path is one that was made for it.
RulePaths ==
  \A r \in Rules : /\ pcc[r] # 0 => paths[pcc[r]].rule = r
                   /\ final[r] # 0 => paths[final[r]].rule = r

\* A path of the pool is activated and has its rules at all its UPFs; between
\* handlers it is not to be removed, and it is its rule's path: while a decision
\* is applied the rule that has been processed has it in finalPccRules.
PathOk(p) == Open =>
  /\ p \in pool => paths[p].act /\ RulesAt(p, Upfs(paths[p].ups)) \subseteq DOMAIN st
  /\ pc \in {"idle", "an"} => p \notin pool \cap toRemove
  /\ p \in pool \ toRemove =>
       \A r \in Rules : paths[p].rule = r =>
         IF pc = "apply" /\ r \notin todo THEN final[r] = p ELSE pcc[r] = p

\* A rule of a path is at one of its UPFs.  It waits to be created only until the
\* request is answered; it is to be removed if and only if its path is, and once
\* it was created its UPF has a session.
RuleOk(x) == Open /\ x \in DOMAIN st =>
  /\ x[1] \in DOMAIN paths => x[2] \in Upfs(paths[x[1]].ups)
  /\ x[1] \in pool /\ st[x] = "INITIAL" =>
       /\ pc \in {"apply", "default", "collect"} \/ (pc = "send" /\ Pending(x))
       /\ pc = "apply" => paths[x[1]].rule \notin todo
  /\ x[1] \in pool /\ st[x] = "REMOVE" => x[1] \in toRemove
  /\ x[1] \in pool \cap toRemove =>
       st[x] = "REMOVE" \/ (pc = "send" /\ x[2] \notin DOMAIN req)
  /\ x[1] \in pool /\ st[x] # "INITIAL" => x[2] \in seid

\* A request for a path's UPF has all its rules there.  An N2 message goes to a
\* UPF with a session, and creates or removes nothing but the forwarding.
ReqOk(u) == Open /\ u \in DOMAIN req =>
  /\ pc = "send" => req[u] = {x \in DOMAIN st : x[1] \in pool /\ x[2] = u}
  /\ pc = "an" => /\ u \in seid /\ req[u] \subseteq DOMAIN st
                  /\ \A x \in req[u] : /\ st[x] = "INITIAL" => Forwards(x)
                                       /\ st[x] = "REMOVE" => x[1] < 0 /\ fwd = 0

AllPath == \A p \in PathIds : PathOk(p)
AllRule == \A x \in RuleIds : RuleOk(x)
AllReq == \A u \in UPFs : ReqOk(u)
PathInv == TypeInv /\ RulePaths /\ AllPath /\ AllRule /\ AllReq

\* The paths of the pool are the activated ones.
LEMMA PoolActive == PathInv /\ Open => Active = pool
<1> SUFFICES ASSUME PathInv, Open PROVE Active = pool
  OBVIOUS
<1>1. pool \subseteq PathIds
  BY PathsAre DEF PathInv, TypeInv, RulesInv, RulesTyped
<1> QED
  BY <1>1 DEF PathInv, AllPath, PathOk, Active

\* Every step keeps each rule at a path that was made for it.
LEMMA RulePathsStep ==
  ASSUME PathInv, [Next]_vars
  PROVE  RulePaths'
<1>0. /\ RulePaths /\ DecTyped /\ Len(paths) \in Nat /\ DOMAIN paths = 1..Len(paths)
  BY DEF PathInv, TypeInv, RulesInv, RulesTyped
<1>a. \A r \in Rules : /\ pcc[r] # 0 => pcc[r] \in DOMAIN paths
                       /\ final[r] # 0 => final[r] \in DOMAIN paths
  BY <1>0 DEF DecTyped
<1>t. TypeInv
  BY DEF PathInv
<1> USE DEF RulePaths
<1>1. ASSUME NEW b \in Deciders, NEW del \in SUBSET Rules,
             NEW put \in SUBSET Rules, NEW mod \in SUBSET Rules, NEW drop \in SUBSET del,
             Classify(b, del, put, mod, drop)
      PROVE  RulePaths'
  BY <1>0, <1>a, <1>1 DEF Classify, RemovePccRules, GiveUp, EndDecision
<1>2. ASSUME NEW b \in Deciders, NEW del \in SUBSET Rules,
             ClassifyFails(b, del)
      PROVE  RulePaths'
  BY <1>0, <1>a, <1>2 DEF ClassifyFails, RemovePccRules, GiveUp, EndDecision
<1>3. ASSUME NEW r \in Rules, NoDataPath(r) PROVE RulePaths'
  BY <1>0, <1>a, <1>3 DEF NoDataPath, GiveUp, EndDecision
<1>4. ASSUME NEW r \in Rules, NEW w \in RoutesOf[r], NEW flow \in BOOLEAN,
             ProcessRule(r, w, flow)
      PROVE  RulePaths'
  <2>1. /\ Len(paths') = Len(paths) + 1
        /\ \A p \in DOMAIN paths : paths'[p] = paths[p]
        /\ paths'[Len(paths) + 1].rule = r
    BY <1>t, <1>4, RulePath DEF PathMade
  <2>2. /\ pcc' = IF r \in fresh THEN pcc ELSE [pcc EXCEPT ![r] = Len(paths')]
        /\ final' = pcc' \/ final' = [final EXCEPT ![r] = Len(paths')]
    BY <1>4 DEF ProcessRule, Panic, GiveUp, EndDecision
  <2>3. pcc \in [Rules -> 0..Len(paths)] /\ final \in [Rules -> 0..Len(paths)]
    BY <1>0 DEF DecTyped
  <2> QED
    BY <1>0, <1>a, <2>1, <2>2, <2>3
<1>5. ASSUME Commit PROVE RulePaths'
  BY <1>0, <1>a, <1>5 DEF Commit, EndDecision, pathVars
<1>6. ASSUME SelectDefaultDataPath PROVE RulePaths'
  <2>1. UNCHANGED <<pcc, final>>
    BY <1>6 DEF SelectDefaultDataPath, decVars
  <2> QED
    BY <1>0, <1>a, <1>6, <2>1, <1>t, DefaultPath DEF PathMade, pathVars
<1>7. ASSUME NoDefaultPath PROVE RulePaths'
  BY <1>0, <1>a, <1>7 DEF NoDefaultPath, pathVars, decVars
<1>8. ASSUME ActivateUPFSession PROVE RulePaths'
  BY <1>0, <1>a, <1>8 DEF ActivateUPFSession, pathVars, decVars
<1>9. ASSUME NEW u \in UPFs, Accepted(u) PROVE RulePaths'
  BY <1>0, <1>a, <1>9 DEF Accepted, Exchange, decVars
<1>10. ASSUME NEW u \in UPFs, Fails(u) PROVE RulePaths'
  BY <1>0, <1>a, <1>10 DEF Fails, Exchange, decVars
<1>11. ASSUME NEW u \in UPFs, NotAssociated(u) PROVE RulePaths'
  BY <1>0, <1>a, <1>11 DEF NotAssociated, Exchange, decVars
<1>12. ASSUME AllAnswered PROVE RulePaths'
  <2>1. \A p \in DOMAIN paths : paths'[p].rule = paths[p].rule
    BY <1>12, DeactivatedKeeps DEF AllAnswered, PostRemoveDataPath, PathInv, TypeInv
  <2> QED
    BY <1>0, <1>a, <1>12, <2>1 DEF AllAnswered
<1>13. ASSUME SetupResponse PROVE RulePaths'
  BY <1>0, <1>a, <1>13 DEF SetupResponse, decVars
<1>14. ASSUME PathSwitchRequest PROVE RulePaths'
  BY <1>0, <1>a, <1>14 DEF PathSwitchRequest, decVars
<1>15. ASSUME Deactivate PROVE RulePaths'
  BY <1>0, <1>a, <1>15 DEF Deactivate, decVars
<1>16. ASSUME NEW indirect \in BOOLEAN,
              HandoverPrepared(indirect)
       PROVE  RulePaths'
  BY <1>0, <1>a, <1>16 DEF HandoverPrepared, decVars
<1>17. ASSUME HandoverCompleted PROVE RulePaths'
  BY <1>0, <1>a, <1>17 DEF HandoverCompleted, decVars
<1>18. ASSUME NEW ok \in SUBSET UPFs, NEW n1 \in BOOLEAN,
              Release(ok, n1)
       PROVE  RulePaths'
  <2>1. \A p \in DOMAIN paths : paths'[p].rule = paths[p].rule
    BY <1>18, DeactivatedKeeps DEF Release, PathInv, TypeInv
  <2> QED
    BY <1>0, <1>a, <1>18, <2>1 DEF Release, decVars
<1>19. ASSUME NEW u \in UPFs, LoseUpf(u) PROVE RulePaths'
  BY <1>0, <1>a, <1>19 DEF LoseUpf, pathVars, decVars
<1>20. ASSUME NEW u \in UPFs, Reassociate(u) PROVE RulePaths'
  BY <1>0, <1>a, <1>20 DEF Reassociate, pathVars, decVars
<1>21. CASE UNCHANGED vars
  BY <1>0, <1>a, <1>21 DEF vars, pathVars, decVars
<1> HIDE DEF RulePaths
<1>22. CASE Next
  BY Steps, <1>1, <1>2, <1>3, <1>4, <1>5, <1>6, <1>7, <1>8, <1>9, <1>10,
     <1>11, <1>12, <1>13, <1>14, <1>15, <1>16, <1>17, <1>18, <1>19, <1>20,
     <1>22
<1> QED
  BY <1>21, <1>22

\* Every step keeps every path in order.
LEMMA PathStep ==
  ASSUME PathInv, [Next]_vars, NEW p \in PathIds
  PROVE  PathOk(p)'
<1>0. /\ PathOk(p) /\ DecTyped /\ Len(paths) \in Nat /\ DOMAIN paths = 1..Len(paths)
      /\ pool \subseteq DOMAIN paths /\ ids \subseteq DOMAIN st
  BY DEF PathInv, AllPath, TypeInv, RuleTyped, RulesInv, RulesTyped
<1>a. pcc \in [Rules -> 0..Len(paths)] /\ final \in [Rules -> 0..Len(paths)]
      /\ toRemove \subseteq DOMAIN paths
  BY <1>0 DEF DecTyped
<1>t. TypeInv
  BY DEF PathInv
<1> USE DEF PathOk, Open
<1>1. ASSUME NEW b \in Deciders, NEW del \in SUBSET Rules,
             NEW put \in SUBSET Rules, NEW mod \in SUBSET Rules, NEW drop \in SUBSET del,
             Classify(b, del, put, mod, drop)
      PROVE  PathOk(p)'
  <2>1. DOMAIN st' = DOMAIN st
    BY <1>1 DEF Classify, RemovePccRules, Marked, Set
  <2>2. /\ UNCHANGED <<paths, pool, clean>> /\ pc \in {"none", "idle"} /\ pc' = "apply"
        /\ toRemove' = toRemove \cup {pcc[r] : r \in del \cap Installed}
        /\ pcc' = [r \in Rules |-> IF r \in del THEN 0 ELSE pcc[r]]
        /\ final' = [r \in Rules |-> IF r \in del \cup put \cup mod THEN 0 ELSE pcc[r]]
        /\ todo' = put \cup mod
    BY <1>1 DEF Classify, Decides, RemovePccRules
  <2>3. pc = "none" => p \notin pool
    BY <1>0 DEF DecTyped
  <2>4. ASSUME Open, p \in pool \ toRemove', NEW r \in Rules, paths[p].rule = r
        PROVE  r \notin del /\ pcc[r] = p
    <3>1. pcc[r] = p /\ p # 0
      BY <1>0, <2>2, <2>3, <2>4
    <3>2. r \in Installed
      BY <3>1 DEF Installed
    <3> QED
      BY <2>2, <2>4, <3>1, <3>2
  <2> QED
    BY <1>0, <1>a, <2>1, <2>2, <2>4
<1>2. ASSUME NEW b \in Deciders, NEW del \in SUBSET Rules,
             ClassifyFails(b, del)
      PROVE  PathOk(p)'
  BY <1>2 DEF ClassifyFails, GiveUp
<1>3. ASSUME NEW r \in Rules, NoDataPath(r) PROVE PathOk(p)'
  BY <1>3 DEF NoDataPath, GiveUp
<1>4. ASSUME NEW r \in Rules, NEW w \in RoutesOf[r], NEW flow \in BOOLEAN,
             ProcessRule(r, w, flow)
      PROVE  PathOk(p)'
  <2>0. SUFFICES ASSUME Open' PROVE PathOk(p)'
    OBVIOUS
  <2>1. /\ ~Dies(r, w) /\ flow
        /\ final' = [final EXCEPT ![r] = Len(paths')]
        /\ todo' = todo \ {r}
        /\ UNCHANGED <<pc, clean>> /\ pc = "apply" /\ r \in todo
    BY <1>4, <2>0 DEF ProcessRule, StartRule, Panic, GiveUp
  <2>2. /\ Len(paths') = Len(paths) + 1
        /\ \A q \in DOMAIN paths : paths'[q] = paths[q]
        /\ paths'[Len(paths) + 1].rule = r /\ paths'[Len(paths) + 1].ups = w
        /\ paths'[Len(paths) + 1].act
        /\ pool' = pool \cup {Len(paths) + 1}
        /\ ids' = ids \cup RulesAt(Len(paths) + 1, Upfs(w))
    BY <1>t, <1>4, <2>1, RulePath DEF PathMade, Dies
  <2>3. /\ toRemove' = toRemove \cup ({pcc[r]} \ {0})
        /\ DOMAIN st' = DOMAIN st \cup ids'
        /\ pcc' = IF r \in fresh THEN pcc ELSE [pcc EXCEPT ![r] = Len(paths')]
    BY <1>0, <1>4, <2>2 DEF ProcessRule, PreRemoveDataPath, Set, Marked
  <2>4. CASE p = Len(paths) + 1
    BY <1>0, <1>a, <2>1, <2>2, <2>3, <2>4
  <2>5. CASE p # Len(paths) + 1
    <3>1. p \in pool' => p \in pool /\ p \in DOMAIN paths /\ paths'[p] = paths[p]
      BY <1>0, <2>2, <2>5
    <3>2. p \in pool' => paths'[p].act /\ RulesAt(p, Upfs(paths'[p].ups)) \subseteq DOMAIN st'
      BY <1>0, <2>0, <2>1, <2>3, <3>1
    <3>3. ASSUME p \in pool' \ toRemove', NEW s \in Rules, paths'[p].rule = s
          PROVE  s # r /\ (IF s \notin todo' THEN final'[s] = p ELSE pcc'[s] = p)
      <4>1. IF s \notin todo THEN final[s] = p ELSE pcc[s] = p
        BY <1>0, <2>0, <2>1, <2>3, <3>1, <3>3
      <4>2. s # r
        BY <1>0, <2>1, <2>3, <3>1, <3>3, <4>1
      <4> QED
        BY <1>a, <2>1, <2>3, <4>1, <4>2
    <3> QED
      BY <2>1, <3>2, <3>3
  <2> QED
    BY <2>4, <2>5
<1>5. ASSUME Commit PROVE PathOk(p)'
  <2>a. \/ pc' \in {"send", "default"} /\ clean' = clean
        \/ /\ pc' = "idle"
           /\ clean' = (clean /\ \A x \in DOMAIN st : x[1] \in Active => st[x] \notin {"INITIAL", "REMOVE"})
    BY <1>5 DEF Commit, SendAll
  <2>b. UNCHANGED <<paths, pool, toRemove, st>> /\ pc = "apply" /\ todo = {} /\ pcc' = final
    BY <1>5 DEF Commit, pathVars
  <2>1. /\ UNCHANGED <<paths, pool, toRemove, st>> /\ pc = "apply" /\ todo = {}
        /\ pcc' = final /\ pc' \in {"send", "default", "idle"} /\ (clean' => clean)
        /\ pc' = "idle" /\ clean' => \A x \in DOMAIN st : x[1] \in Active => st[x] # "REMOVE"
    <3>1. CASE pc' \in {"send", "default"} /\ clean' = clean
      BY <2>b, <3>1
    <3>2. CASE /\ pc' = "idle"
               /\ clean' = (clean /\ \A x \in DOMAIN st : x[1] \in Active => st[x] \notin {"INITIAL", "REMOVE"})
      BY <2>b, <3>2
    <3> QED
      BY <2>a, <3>1, <3>2
  <2>2. ASSUME Open', pc' = "idle" PROVE p \notin pool \cap toRemove
    <3>1. SUFFICES ASSUME p \in pool \cap toRemove PROVE FALSE
      OBVIOUS
    <3>2. Open /\ p \in Active
      BY <1>0, <2>1, <2>2, <3>1 DEF Active
    <3>3. AnUpf(p) \in Upfs(paths[p].ups) /\ DlFar(p) \in RuleIds
      BY <1>0, <3>1, DownlinkIds DEF PathInv
    <3>4. DlFar(p) \in DOMAIN st /\ DlFar(p)[1] = p
      BY <1>0, <3>1, <3>2, <3>3 DEF DlFar, RulesAt
    <3>5. st[DlFar(p)] = "REMOVE"
      BY <2>1, <3>1, <3>2, <3>3, <3>4 DEF PathInv, AllRule, RuleOk
    <3> QED
      BY <2>1, <2>2, <3>2, <3>4, <3>5
  <2> QED
    BY <1>0, <2>1, <2>2
<1>6. ASSUME SelectDefaultDataPath PROVE PathOk(p)'
  <2>0. SUFFICES ASSUME Open' PROVE PathOk(p)'
    OBVIOUS
  <2>1. /\ UNCHANGED <<pcc, final, todo>> /\ pc = "default" /\ pc' = "collect" /\ clean
        /\ DefaultRoute \in Seq(assoc)
    BY <1>6, <2>0 DEF SelectDefaultDataPath, decVars
  <2>2. CASE UNCHANGED <<pathVars, far>>
    BY <1>0, <2>1, <2>2 DEF pathVars
  <2>3. CASE /\ PathMade(DefaultRoute, TRUE, None)
             /\ st' = Set(st, ids' \ ids, "INITIAL") /\ UNCHANGED toRemove
    <3>1. Upfs(DefaultRoute) \subseteq assoc
      BY <2>1 DEF Upfs, Range
    <3>2. /\ Len(paths') = Len(paths) + 1
          /\ \A q \in DOMAIN paths : paths'[q] = paths[q]
          /\ paths'[Len(paths) + 1].rule = None /\ paths'[Len(paths) + 1].ups = DefaultRoute
          /\ paths'[Len(paths) + 1].act
          /\ pool' = pool \cup {Len(paths) + 1}
          /\ ids' = ids \cup RulesAt(Len(paths) + 1, Upfs(DefaultRoute))
      BY <2>3, <3>1 DEF PathMade
    <3>3. DOMAIN st' = DOMAIN st \cup ids' /\ None \notin Rules
      BY <1>0, <2>3, <3>2, RulesAssumption DEF Set
    <3> QED
      BY <1>0, <2>1, <2>3, <3>2, <3>3
  <2> QED
    BY <1>6, <2>2, <2>3, <1>t, DefaultPath
<1>7. ASSUME NoDefaultPath PROVE PathOk(p)'
  BY <1>7 DEF NoDefaultPath
<1>8. ASSUME ActivateUPFSession PROVE PathOk(p)'
  BY <1>0, <1>8 DEF ActivateUPFSession, pathVars, decVars, SendAll
<1>9. ASSUME NEW u \in UPFs, Accepted(u) PROVE PathOk(p)'
  BY <1>0, <1>9 DEF Accepted, Exchange, decVars, Build, Set
<1>10. ASSUME NEW u \in UPFs, Fails(u) PROVE PathOk(p)'
  BY <1>0, <1>10 DEF Fails, Exchange, decVars, Build, Set
<1>11. ASSUME NEW u \in UPFs, NotAssociated(u) PROVE PathOk(p)'
  BY <1>0, <1>11 DEF NotAssociated, Exchange, decVars, Build, Set
<1>12. ASSUME AllAnswered PROVE PathOk(p)'
  <2>1. /\ pool' = pool \ toRemove /\ toRemove' = {} /\ UNCHANGED <<pcc, final, todo, st, clean>>
        /\ pc \in {"send", "an"} /\ pc' \in {"idle", "gone"}
        /\ paths' = Deactivated(toRemove)
    BY <1>12 DEF AllAnswered, PostRemoveDataPath
  <2>2. \A q \in DOMAIN paths : /\ paths'[q].rule = paths[q].rule /\ paths'[q].ups = paths[q].ups
                                /\ paths'[q].act = (paths[q].act /\ q \notin toRemove)
    BY <2>1, DeactivatedKeeps DEF PathInv, TypeInv
  <2>3. p \in pool' => p \in pool /\ p \in DOMAIN paths /\ p \notin toRemove
    BY <1>0, <2>1
  <2>4. Open' => Open
    BY <2>1
  <2>5. p \in pool' /\ Open' => paths'[p].act /\ RulesAt(p, Upfs(paths'[p].ups)) \subseteq DOMAIN st'
    BY <1>0, <2>1, <2>2, <2>3, <2>4
  <2>6. ASSUME Open', p \in pool' \ toRemove', NEW r \in Rules, paths'[p].rule = r
        PROVE  pcc'[r] = p
    BY <1>0, <2>1, <2>2, <2>3, <2>4, <2>6
  <2> QED
    BY <2>1, <2>5, <2>6
<1>13. ASSUME SetupResponse PROVE PathOk(p)'
  <2>1. /\ UNCHANGED <<paths, pool, toRemove, pcc, final, todo>> /\ pc = "idle"
        /\ pc' \in {"idle", "an"} /\ DOMAIN st \subseteq DOMAIN st' /\ (clean' => clean)
    BY <1>13 DEF SetupResponse, NewAn, UpdateAnUpf, Set, decVars
  <2> QED
    BY <1>0, <2>1
<1>14. ASSUME PathSwitchRequest PROVE PathOk(p)'
  <2>1. /\ UNCHANGED <<paths, pool, toRemove, pcc, final, todo>> /\ pc = "idle"
        /\ pc' \in {"idle", "an"} /\ DOMAIN st \subseteq DOMAIN st' /\ (clean' => clean)
    BY <1>14 DEF PathSwitchRequest, NewAn, UpdateAnUpf, Set, decVars
  <2> QED
    BY <1>0, <2>1
<1>15. ASSUME Deactivate PROVE PathOk(p)'
  <2>1. /\ UNCHANGED <<paths, pool, toRemove, pcc, final, todo>> /\ pc = "idle"
        /\ pc' \in {"idle", "an"} /\ DOMAIN st \subseteq DOMAIN st' /\ (clean' => clean)
    BY <1>15 DEF Deactivate, UpdateAnUpf, Set, decVars
  <2> QED
    BY <1>0, <2>1
<1>16. ASSUME NEW indirect \in BOOLEAN,
              HandoverPrepared(indirect)
       PROVE  PathOk(p)'
  <2>1. /\ UNCHANGED <<paths, pool, toRemove, pcc, final, todo>> /\ pc = "idle"
        /\ (clean' => clean)
    BY <1>16 DEF HandoverPrepared, NewAn, decVars
  <2>2. pc' \in {"idle", "an"} /\ DOMAIN st \subseteq DOMAIN st'
    <3>1. CASE indirect
      BY <1>16, <3>1 DEF HandoverPrepared, Set
    <3>2. CASE ~indirect
      BY <1>16, <2>1, <3>2 DEF HandoverPrepared, Set
    <3> QED
      BY <3>1, <3>2
  <2> QED
    BY <1>0, <2>1, <2>2
<1>17. ASSUME HandoverCompleted PROVE PathOk(p)'
  <2>1. /\ UNCHANGED <<paths, pool, toRemove, pcc, final, todo>> /\ pc = "idle"
        /\ pc' \in {"idle", "an"} /\ DOMAIN st \subseteq DOMAIN st' /\ (clean' => clean)
    BY <1>17 DEF HandoverCompleted, UpdateAnUpf, Set, decVars
  <2> QED
    BY <1>0, <2>1
<1>18. ASSUME NEW ok \in SUBSET UPFs, NEW n1 \in BOOLEAN,
              Release(ok, n1)
       PROVE  PathOk(p)'
  <2> SUFFICES ASSUME Open' PROVE FALSE
    OBVIOUS
  <2> QED
    BY <1>18 DEF Release
<1>19. ASSUME NEW u \in UPFs, LoseUpf(u) PROVE PathOk(p)'
  BY <1>0, <1>19 DEF LoseUpf, pathVars, decVars
<1>20. ASSUME NEW u \in UPFs, Reassociate(u) PROVE PathOk(p)'
  BY <1>0, <1>20 DEF Reassociate, pathVars, decVars
<1>21. CASE UNCHANGED vars
  BY <1>0, <1>21 DEF vars, pathVars, decVars
<1> HIDE DEF PathOk, Open
<1>22. CASE Next
  BY Steps, <1>1, <1>2, <1>3, <1>4, <1>5, <1>6, <1>7, <1>8, <1>9, <1>10,
     <1>11, <1>12, <1>13, <1>14, <1>15, <1>16, <1>17, <1>18, <1>19, <1>20,
     <1>22
<1> QED
  BY <1>21, <1>22

\* Between handlers no rule of a path waits to be created or removed, and its UPF
\* has a session.
LEMMA SettledRules ==
  ASSUME PathInv, Open, pc \in {"idle", "an"}
  PROVE  \A x \in DOMAIN st : x[1] \in pool => st[x] \in {"CREATE", "UPDATE"} /\ x[2] \in seid
<1>1. ASSUME NEW x \in DOMAIN st, x[1] \in pool PROVE st[x] \in {"CREATE", "UPDATE"} /\ x[2] \in seid
  <2>1. x \in RuleIds /\ st[x] \in RuleStates /\ x[1] \in PathIds
    BY <1>1, PathsAre DEF PathInv, TypeInv, RuleTyped, RulesInv, RulesTyped
  <2>2. RuleOk(x) /\ PathOk(x[1])
    BY <2>1 DEF PathInv, AllRule, AllPath
  <2> QED
    BY <1>1, <2>1, <2>2 DEF RuleOk, PathOk, RuleStates
<1> QED
  BY <1>1

\* The downlink rules of the paths are in the tables.
LEMMA DownlinkThere ==
  ASSUME PathInv, Open
  PROVE  /\ DlRules \subseteq DOMAIN st /\ DlFars \subseteq DlRules
         /\ \A x \in DlRules : x[1] \in pool
         /\ \A p \in pool : DlFar(p) \in DOMAIN st /\ DlFar(p) \in DlFars /\ DlPdr(p) \in DlRules
         /\ DefaultPaths \subseteq pool
<1>1. ASSUME NEW p \in pool PROVE DlFar(p) \in DOMAIN st /\ DlPdr(p) \in DOMAIN st
  <2>1. p \in PathIds /\ AnUpf(p) \in Upfs(paths[p].ups)
    BY DownlinkIds DEF PathInv, TypeInv, RulesInv, RulesTyped
  <2>2. RulesAt(p, Upfs(paths[p].ups)) \subseteq DOMAIN st
    BY <2>1 DEF PathInv, AllPath, PathOk
  <2> QED
    BY <2>1, <2>2 DEF RulesAt, DlFar, DlPdr
<1>2. Active = pool
  BY PoolActive
<1>3. \A p : DlFar(p)[1] = p /\ DlPdr(p)[1] = p
  BY DEF DlFar, DlPdr
<1>4. /\ DlRules \subseteq DOMAIN st /\ DlFars \subseteq DlRules
      /\ \A x \in DlRules : x[1] \in pool
  BY <1>1, <1>2, <1>3 DEF DlRules, DlFars
<1>5. \A p \in pool : DlFar(p) \in DlFars /\ DlPdr(p) \in DlRules
  BY <1>2 DEF DlRules, DlFars
<1> QED
  BY <1>1, <1>4, <1>5 DEF DefaultPaths

\* Whoever collects the rules of the paths collects all of them.
LEMMA CollectedPending ==
  ASSUME PathInv, Open
  PROVE  /\ \A x \in DOMAIN st : x[1] \in pool => x[2] \in DOMAIN Collected /\ x \in Collected[x[2]]
         /\ \A u \in DOMAIN Collected : Collected[u] = {x \in DOMAIN st : x[1] \in pool /\ x[2] = u}
<1>1. Active = pool
  BY PoolActive
<1>2. ASSUME NEW x \in DOMAIN st, x[1] \in pool PROVE x[2] \in Upfs(paths[x[1]].ups)
  BY <1>2 DEF PathInv, AllRule, RuleOk, TypeInv, RuleTyped, RulesInv, RulesTyped
<1> QED
  BY <1>1, <1>2 DEF Collected

\* Every step keeps every rule in order.
LEMMA RuleStep ==
  ASSUME PathInv, [Next]_vars, NEW x \in RuleIds
  PROVE  RuleOk(x)'
<1>0. /\ RuleOk(x) /\ Len(paths) \in Nat /\ DOMAIN paths = 1..Len(paths)
      /\ pool \subseteq DOMAIN paths /\ ids \subseteq DOMAIN st /\ DOMAIN paths \subseteq PathIds
      /\ \A y \in DOMAIN st : st[y] \in RuleStates
  BY PathsAre DEF PathInv, AllRule, TypeInv, RuleTyped, RulesInv, RulesTyped
<1>a. pcc \in [Rules -> 0..Len(paths)] /\ toRemove \subseteq DOMAIN paths
      /\ (pc = "none" => pool = {}) /\ x[1] \in Int
  BY <1>0, RulesAssumption DEF PathInv, TypeInv, DecTyped, RuleIds, PathIds
<1>b. x \in DOMAIN st => x[1] \in 1..Len(paths) \/ -x[1] \in 1..lastAn
  BY DEF PathInv, TypeInv, RulesInv, RulesTyped, Made
<1>c. x[1] \in pool => PathOk(x[1])
  BY <1>0 DEF PathInv, AllPath
<1>t. TypeInv /\ lastAn \in Nat
  BY DEF PathInv, TypeInv, RulesInv, RulesTyped
<1> USE DEF Open
<1>1. ASSUME NEW b \in Deciders, NEW del \in SUBSET Rules,
             NEW put \in SUBSET Rules, NEW mod \in SUBSET Rules, NEW drop \in SUBSET del,
             Classify(b, del, put, mod, drop)
      PROVE  RuleOk(x)'
  <2>1. /\ UNCHANGED <<paths, pool, clean, seid>> /\ pc \in {"none", "idle"} /\ pc' = "apply"
        /\ toRemove' = toRemove \cup {pcc[r] : r \in del \cap Installed}
    BY <1>1 DEF Classify, Decides, RemovePccRules, upfVars
  <2>2. /\ DOMAIN st' = DOMAIN st
        /\ x \in DOMAIN st => st'[x] = IF x[1] \in {pcc[r] : r \in del \cap Installed}
                                       THEN "REMOVE" ELSE st[x]
    BY <1>1 DEF Classify, RemovePccRules, Marked, Set
  <2>3. Open /\ x \in DOMAIN st /\ x[1] \in pool => st[x] \in {"CREATE", "UPDATE"} /\ x[2] \in seid
    BY <1>a, <2>1, SettledRules
  <2>4. Open /\ x[1] \in pool => x[1] \notin toRemove
    BY <1>a, <1>c, <2>1 DEF PathOk
  <2> QED
    BY <1>0, <2>1, <2>2, <2>3, <2>4 DEF RuleOk
<1>2. ASSUME NEW b \in Deciders, NEW del \in SUBSET Rules,
             ClassifyFails(b, del)
      PROVE  RuleOk(x)'
  BY <1>2 DEF ClassifyFails, GiveUp, RuleOk
<1>3. ASSUME NEW r \in Rules, NoDataPath(r) PROVE RuleOk(x)'
  BY <1>3 DEF NoDataPath, GiveUp, RuleOk
<1>4. ASSUME NEW r \in Rules, NEW w \in RoutesOf[r], NEW flow \in BOOLEAN,
             ProcessRule(r, w, flow)
      PROVE  RuleOk(x)'
  <2>0. SUFFICES ASSUME Open', x \in DOMAIN st' PROVE RuleOk(x)'
    BY DEF RuleOk
  <2>1. /\ ~Dies(r, w) /\ flow
        /\ todo' = todo \ {r}
        /\ UNCHANGED <<pc, clean, seid>> /\ pc = "apply" /\ r \in todo
    BY <1>4, <2>0 DEF ProcessRule, StartRule, Panic, GiveUp, upfVars
  <2>2. /\ Len(paths') = Len(paths) + 1 /\ DOMAIN paths' = 1..(Len(paths) + 1)
        /\ \A q \in DOMAIN paths : paths'[q] = paths[q]
        /\ paths'[Len(paths) + 1].rule = r /\ paths'[Len(paths) + 1].ups = w
        /\ pool' = pool \cup {Len(paths) + 1}
        /\ ids' = ids \cup RulesAt(Len(paths) + 1, Upfs(w))
    BY <1>t, <1>4, <2>1, RulePath DEF PathMade, Dies
  <2>3. /\ toRemove' = toRemove \cup ({pcc[r]} \ {0})
        /\ DOMAIN st' = DOMAIN st \cup (ids' \ ids)
        /\ st'[x] = IF x \in ids' \ ids THEN "INITIAL"
                    ELSE IF x[1] = pcc[r] THEN "REMOVE" ELSE st[x]
    BY <2>0, <1>4 DEF ProcessRule, PreRemoveDataPath, Set, Marked
  <2>4. \A y \in RulesAt(Len(paths) + 1, Upfs(w)) : y[1] = Len(paths) + 1 /\ y[2] \in Upfs(w)
    BY DEF RulesAt
  <2>5. CASE x[1] = Len(paths) + 1
    <3>1. x \notin DOMAIN st
      BY <1>0, <1>b, <1>t, <2>5
    <3>2. x \in ids' \ ids /\ x[2] \in Upfs(w)
      BY <2>0, <2>2, <2>3, <2>4, <3>1
    <3>3. st'[x] = "INITIAL" /\ x[1] \notin toRemove'
      BY <1>0, <1>a, <2>3, <2>5, <3>2
    <3> QED
      BY <2>1, <2>2, <2>5, <3>2, <3>3 DEF RuleOk
  <2>6. CASE x[1] # Len(paths) + 1
    <3>1. x \in DOMAIN st /\ x \notin ids' \ ids
      BY <2>0, <2>2, <2>3, <2>4, <2>6
    <3>2. st'[x] = IF x[1] = pcc[r] THEN "REMOVE" ELSE st[x]
      BY <2>3, <3>1
    <3>3. x[1] \in pool /\ x[1] = pcc[r] => st[x] # "INITIAL"
      <4>1. pcc[r] # 0 => paths[pcc[r]].rule = r
        BY DEF PathInv, RulePaths
      <4> QED
        BY <1>0, <2>0, <2>1, <3>1, <4>1 DEF RuleOk
    <3>4. x[1] \in pool' => x[1] \in pool /\ paths'[x[1]] = paths[x[1]]
      BY <1>0, <2>2, <2>6
    <3>5. x[1] \in DOMAIN paths' => x[1] \in DOMAIN paths /\ paths'[x[1]] = paths[x[1]]
      BY <1>0, <2>2, <2>6
    <3>6. x[1] \in pool => x[1] # 0
      BY <1>0
    <3> QED
      BY <1>0, <2>0, <2>1, <2>3, <3>1, <3>2, <3>3, <3>4, <3>5, <3>6 DEF RuleOk
  <2> QED
    BY <2>5, <2>6
<1>5. ASSUME Commit PROVE RuleOk(x)'
  <2>a. \/ pc' = "default" /\ clean' = clean
        \/ pc' = "send" /\ req' = Collected /\ clean' = clean
        \/ /\ pc' = "idle"
           /\ clean' = (clean /\ \A y \in DOMAIN st : y[1] \in Active => st[y] \notin {"INITIAL", "REMOVE"})
    BY <1>5 DEF Commit, SendAll
  <2>b. UNCHANGED <<paths, pool, toRemove, st, seid>> /\ pc = "apply"
    BY <1>5 DEF Commit, pathVars, upfVars
  <2>0. SUFFICES ASSUME Open', x \in DOMAIN st' PROVE RuleOk(x)'
    BY DEF RuleOk
  <2>c. Open
    BY <2>0, <2>a, <2>b
  <2>1. CASE pc' = "default" /\ clean' = clean
    BY <1>0, <2>0, <2>b, <2>1 DEF RuleOk
  <2>2. CASE pc' = "send" /\ req' = Collected /\ clean' = clean
    BY <1>0, <2>0, <2>b, <2>2, <2>c, CollectedPending DEF RuleOk, Pending
  <2>3. CASE /\ pc' = "idle"
             /\ clean' = (clean /\ \A y \in DOMAIN st : y[1] \in Active => st[y] \notin {"INITIAL", "REMOVE"})
    BY <1>0, <2>0, <2>b, <2>c, <2>3, PoolActive DEF RuleOk
  <2> QED
    BY <2>a, <2>1, <2>2, <2>3
<1>6. ASSUME SelectDefaultDataPath PROVE RuleOk(x)'
  <2>0. SUFFICES ASSUME Open', x \in DOMAIN st' PROVE RuleOk(x)'
    BY DEF RuleOk
  <2>1. /\ pc = "default" /\ pc' = "collect" /\ clean /\ seid' = seid
        /\ DefaultRoute \in Seq(assoc)
    BY <1>6, <2>0 DEF SelectDefaultDataPath, upfVars
  <2>2. CASE UNCHANGED <<pathVars, far>>
    BY <1>0, <2>0, <2>1, <2>2 DEF pathVars, RuleOk
  <2>3. CASE /\ PathMade(DefaultRoute, TRUE, None)
             /\ st' = Set(st, ids' \ ids, "INITIAL") /\ UNCHANGED toRemove
    <3>1. /\ Len(paths') = Len(paths) + 1 /\ DOMAIN paths' = 1..(Len(paths) + 1)
          /\ \A q \in DOMAIN paths : paths'[q] = paths[q]
          /\ paths'[Len(paths) + 1].ups = DefaultRoute
          /\ pool' = pool \cup {Len(paths) + 1}
          /\ ids' = ids \cup RulesAt(Len(paths) + 1, Reached(DefaultRoute))
          /\ Reached(DefaultRoute) \subseteq Upfs(DefaultRoute)
      BY <2>3 DEF PathMade
    <3>2. \A y \in RulesAt(Len(paths) + 1, Reached(DefaultRoute)) :
            y[1] = Len(paths) + 1 /\ y[2] \in Upfs(DefaultRoute)
      BY <3>1 DEF RulesAt
    <3>3. /\ DOMAIN st' = DOMAIN st \cup (ids' \ ids)
          /\ st'[x] = IF x \in ids' \ ids THEN "INITIAL" ELSE st[x]
      BY <2>0, <2>3 DEF Set
    <3>4. CASE x[1] = Len(paths) + 1
      <4>1. x \notin DOMAIN st
        BY <1>0, <1>b, <1>t, <3>4
      <4>2. x \in ids' \ ids /\ x[2] \in Upfs(DefaultRoute)
        BY <2>0, <3>1, <3>2, <3>3, <4>1
      <4>3. st'[x] = "INITIAL" /\ x[1] \notin toRemove'
        BY <1>0, <1>a, <2>3, <3>3, <3>4, <4>2
      <4> QED
        BY <2>1, <3>1, <3>4, <4>2, <4>3 DEF RuleOk
    <3>5. CASE x[1] # Len(paths) + 1
      <4>1. x \in DOMAIN st /\ x \notin ids' \ ids
        BY <2>0, <3>1, <3>2, <3>3, <3>5
      <4>2. x[1] \in DOMAIN paths' => x[1] \in DOMAIN paths /\ paths'[x[1]] = paths[x[1]]
        BY <1>0, <3>1, <3>5
      <4>3. x[1] \in pool' => x[1] \in pool
        BY <3>1, <3>5
      <4> QED
        BY <1>0, <2>0, <2>1, <2>3, <3>3, <4>1, <4>2, <4>3 DEF RuleOk
    <3> QED
      BY <3>4, <3>5
  <2> QED
    BY <1>t, <1>6, <2>2, <2>3, DefaultPath
<1>7. ASSUME NoDefaultPath PROVE RuleOk(x)'
  BY <1>7 DEF NoDefaultPath, RuleOk
<1>8. ASSUME ActivateUPFSession PROVE RuleOk(x)'
  <2>1. /\ UNCHANGED <<paths, pool, toRemove, st, seid, clean>> /\ pc = "collect"
        /\ pc' = "send" /\ req' = Collected
    BY <1>8 DEF ActivateUPFSession, SendAll, pathVars, upfVars
  <2> QED
    BY <1>0, <2>1, CollectedPending DEF RuleOk, Pending
<1>9. ASSUME NEW u \in UPFs, Accepted(u) PROVE RuleOk(x)'
  <2>0. SUFFICES ASSUME Open', x \in DOMAIN st' PROVE RuleOk(x)'
    BY DEF RuleOk
  <2>1. /\ UNCHANGED <<pc, paths, pool, toRemove, clean>> /\ u \in DOMAIN req
        /\ pc \in {"send", "an"} /\ seid' = IF pc = "send" THEN seid \cup {u} ELSE seid
        /\ DOMAIN req' = DOMAIN req \ {u} /\ \A v \in DOMAIN req' : req'[v] = req[v]
        /\ DOMAIN st' = DOMAIN st \cup req[u]
        /\ st'[x] = IF x \in req[u] THEN "CREATE" ELSE st[x]
    BY <1>9, <2>0 DEF Accepted, Exchange, Without, Build, Set, Establishes
  <2>2. ReqOk(u) /\ Open
    BY <2>0, <2>1 DEF PathInv, AllReq
  <2>3. CASE pc = "send"
    <3>1. req[u] = {y \in DOMAIN st : y[1] \in pool /\ y[2] = u}
      BY <2>1, <2>2, <2>3 DEF ReqOk
    <3>2. x \in DOMAIN st
      BY <2>0, <2>1, <3>1
    <3>3. CASE x \in req[u]
      BY <1>0, <2>0, <2>1, <2>2, <2>3, <3>1, <3>2, <3>3 DEF RuleOk
    <3>4. CASE x \notin req[u]
      BY <1>0, <2>0, <2>1, <2>2, <2>3, <3>1, <3>2, <3>4 DEF RuleOk, Pending
    <3> QED
      BY <3>3, <3>4
  <2>4. CASE pc = "an"
    <3>1. x \in DOMAIN st
      BY <2>0, <2>1, <2>2, <2>4 DEF ReqOk
    <3>2. x[1] \in pool => st[x] \in {"CREATE", "UPDATE"} /\ x[2] \in seid
      BY <2>2, <2>4, <3>1, SettledRules
    <3>3. x[1] \in pool => x[1] \notin toRemove
      BY <1>c, <2>2, <2>4 DEF PathOk
    <3> QED
      BY <1>0, <2>0, <2>1, <2>2, <2>4, <3>1, <3>2, <3>3 DEF RuleOk
  <2> QED
    BY <2>1, <2>3, <2>4
<1>10. ASSUME NEW u \in UPFs, Fails(u) PROVE RuleOk(x)'
  BY <1>10 DEF Fails, RuleOk
<1>11. ASSUME NEW u \in UPFs, NotAssociated(u) PROVE RuleOk(x)'
  BY <1>11 DEF NotAssociated, RuleOk
<1>12. ASSUME AllAnswered PROVE RuleOk(x)'
  <2>1. /\ pool' = pool \ toRemove /\ toRemove' = {} /\ UNCHANGED <<st, seid, clean>>
        /\ pc \in {"send", "an"} /\ pc' \in {"idle", "gone"} /\ DOMAIN req = {}
        /\ paths' = Deactivated(toRemove)
    BY <1>12 DEF AllAnswered, PostRemoveDataPath, upfVars
  <2>2. /\ DOMAIN paths' = DOMAIN paths
        /\ \A q \in DOMAIN paths : paths'[q].ups = paths[q].ups
    BY <2>1, DeactivatedKeeps DEF PathInv, TypeInv, Deactivated
  <2>3. Open' => Open
    BY <2>1
  <2> QED
    BY <1>0, <2>1, <2>2, <2>3 DEF RuleOk, Pending
<1>13. ASSUME SetupResponse PROVE RuleOk(x)'
  <2>0. SUFFICES ASSUME Open', x \in DOMAIN st' PROVE RuleOk(x)'
    BY DEF RuleOk
  <2>1. /\ UNCHANGED <<paths, pool, toRemove, seid>> /\ pc = "idle" /\ pc' \in {"idle", "an"}
        /\ clean
    BY <1>13, <2>0 DEF SetupResponse, NewAn, UpdateAnUpf, upfVars
  <2>2. DlRules \subseteq DOMAIN st /\ DlFars \subseteq DlRules
    BY <2>1, DownlinkThere
  <2>3. x \in DOMAIN st /\ st'[x] \in {st[x], "UPDATE"}
    BY <2>0, <2>2, <1>13 DEF SetupResponse, Set
  <2>4. Open /\ x \in DOMAIN st /\ x[1] \in pool => st[x] \in {"CREATE", "UPDATE"} /\ x[2] \in seid
    BY <2>1, SettledRules
  <2>5. x[1] \in pool => x[1] \notin toRemove
    BY <1>c, <2>1 DEF PathOk
  <2> QED
    BY <1>0, <2>0, <2>1, <2>3, <2>4, <2>5 DEF RuleOk
<1>14. ASSUME PathSwitchRequest PROVE RuleOk(x)'
  <2>0. SUFFICES ASSUME Open', x \in DOMAIN st' PROVE RuleOk(x)'
    BY DEF RuleOk
  <2>1. /\ UNCHANGED <<paths, pool, toRemove, seid>> /\ pc = "idle" /\ pc' \in {"idle", "an"}
        /\ clean
    BY <1>14, <2>0 DEF PathSwitchRequest, NewAn, UpdateAnUpf, upfVars
  <2>2. DlRules \subseteq DOMAIN st /\ DlFars \subseteq DlRules
    BY <2>1, DownlinkThere
  <2>3. x \in DOMAIN st /\ st'[x] \in {st[x], "UPDATE"}
    BY <2>0, <2>2, <1>14 DEF PathSwitchRequest, Set
  <2>4. Open /\ x \in DOMAIN st /\ x[1] \in pool => st[x] \in {"CREATE", "UPDATE"} /\ x[2] \in seid
    BY <2>1, SettledRules
  <2>5. x[1] \in pool => x[1] \notin toRemove
    BY <1>c, <2>1 DEF PathOk
  <2> QED
    BY <1>0, <2>0, <2>1, <2>3, <2>4, <2>5 DEF RuleOk
<1>15. ASSUME Deactivate PROVE RuleOk(x)'
  <2>0. SUFFICES ASSUME Open', x \in DOMAIN st' PROVE RuleOk(x)'
    BY DEF RuleOk
  <2>1. /\ UNCHANGED <<paths, pool, toRemove, seid>> /\ pc = "idle" /\ pc' \in {"idle", "an"}
        /\ clean
    BY <1>15, <2>0 DEF Deactivate, UpdateAnUpf, upfVars
  <2>2. DlRules \subseteq DOMAIN st /\ DlFars \subseteq DlRules
    BY <2>1, DownlinkThere
  <2>3. x \in DOMAIN st /\ st'[x] \in {st[x], "UPDATE"}
    BY <2>0, <1>15 DEF Deactivate, Set
  <2>4. Open /\ x \in DOMAIN st /\ x[1] \in pool => st[x] \in {"CREATE", "UPDATE"} /\ x[2] \in seid
    BY <2>1, SettledRules
  <2>5. x[1] \in pool => x[1] \notin toRemove
    BY <1>c, <2>1 DEF PathOk
  <2> QED
    BY <1>0, <2>0, <2>1, <2>3, <2>4, <2>5 DEF RuleOk
<1>16. ASSUME NEW indirect \in BOOLEAN,
              HandoverPrepared(indirect)
       PROVE  RuleOk(x)'
  <2>0. SUFFICES ASSUME Open', x \in DOMAIN st' PROVE RuleOk(x)'
    BY DEF RuleOk
  <2>1. /\ UNCHANGED <<paths, pool, toRemove, seid>> /\ pc = "idle" /\ pc' \in {"idle", "an"}
        /\ clean
    BY <1>16, <2>0 DEF HandoverPrepared, NewAn, upfVars
  <2>2. DlRules \subseteq DOMAIN st /\ DlFars \subseteq DlRules
    BY <2>1, DownlinkThere
  <2>a. \A y \in Forwarding(lastAn') : y[1] = -lastAn'
    BY DEF Forwarding
  <2>b. lastAn' = lastAn + 1
    BY <1>16 DEF HandoverPrepared, NewAn
  <2>c. \/ x \in DOMAIN st /\ st'[x] \in {st[x], "UPDATE"}
        \/ x[1] = -lastAn'
    <3>1. CASE indirect
      <4>1. st' = Set(Set(st, DlFars, "UPDATE"), Forwarding(lastAn'), "INITIAL")
        BY <3>1, <1>16 DEF HandoverPrepared
      <4>2. x \in Forwarding(lastAn') \/ (x \in DOMAIN st /\ st'[x] \in {st[x], "UPDATE"})
        BY <2>0, <2>2, <4>1 DEF Set
      <4> QED
        BY <2>a, <4>2
    <3>2. CASE ~indirect
      BY <2>0, <2>2, <3>2, <1>16 DEF HandoverPrepared, Set
    <3> QED
      BY <3>1, <3>2
  <2>3. \/ x \in DOMAIN st /\ st'[x] \in {st[x], "UPDATE"}
        \/ x[1] \notin DOMAIN paths
    BY <1>0, <1>t, <2>b, <2>c
  <2>4. Open /\ x \in DOMAIN st /\ x[1] \in pool => st[x] \in {"CREATE", "UPDATE"} /\ x[2] \in seid
    BY <2>1, SettledRules
  <2>5. x[1] \in pool => x[1] \notin toRemove
    BY <1>c, <2>1 DEF PathOk
  <2> QED
    BY <1>0, <2>0, <2>1, <2>3, <2>4, <2>5 DEF RuleOk
<1>17. ASSUME HandoverCompleted PROVE RuleOk(x)'
  <2>0. SUFFICES ASSUME Open', x \in DOMAIN st' PROVE RuleOk(x)'
    BY DEF RuleOk
  <2>1. /\ UNCHANGED <<paths, pool, toRemove, seid>> /\ pc = "idle" /\ pc' \in {"idle", "an"}
        /\ clean
    BY <1>17, <2>0 DEF HandoverCompleted, UpdateAnUpf, upfVars
  <2>2. DlRules \subseteq DOMAIN st /\ DlFars \subseteq DlRules
    BY <2>1, DownlinkThere
  <2>a. \/ x \in DOMAIN st /\ st'[x] = st[x]
        \/ x \in DOMAIN st /\ fwd # 0 /\ x[1] = -fwd
    BY <2>0, <1>17 DEF HandoverCompleted, Set
  <2>b. fwd \in Nat
    BY <1>t DEF TypeInv, AnTyped
  <2>3. x \in DOMAIN st /\ (st'[x] = st[x] \/ x[1] \notin DOMAIN paths)
    BY <1>0, <2>a, <2>b
  <2>4. Open /\ x \in DOMAIN st /\ x[1] \in pool => st[x] \in {"CREATE", "UPDATE"} /\ x[2] \in seid
    BY <2>1, SettledRules
  <2>5. x[1] \in pool => x[1] \notin toRemove
    BY <1>c, <2>1 DEF PathOk
  <2> QED
    BY <1>0, <2>0, <2>1, <2>3, <2>4, <2>5 DEF RuleOk
<1>18. ASSUME NEW ok \in SUBSET UPFs, NEW n1 \in BOOLEAN,
              Release(ok, n1)
       PROVE  RuleOk(x)'
  BY <1>18 DEF Release, RuleOk
<1>19. ASSUME NEW u \in UPFs, LoseUpf(u) PROVE RuleOk(x)'
  BY <1>19 DEF LoseUpf, RuleOk
<1>20. ASSUME NEW u \in UPFs, Reassociate(u) PROVE RuleOk(x)'
  <2>1. UNCHANGED <<pc, todo, paths, pool, toRemove, st, req, seid, clean>>
    BY <1>20 DEF Reassociate, pathVars, decVars, upfVars
  <2> QED
    BY <1>0, <2>1 DEF RuleOk, Pending
<1>21. CASE UNCHANGED vars
  <2>1. UNCHANGED <<pc, todo, paths, pool, toRemove, st, req, seid, clean>>
    BY <1>21 DEF vars, pathVars, decVars, upfVars
  <2> QED
    BY <1>0, <2>1 DEF RuleOk, Pending
<1> HIDE DEF Open
<1>22. CASE Next
  BY Steps, <1>1, <1>2, <1>3, <1>4, <1>5, <1>6, <1>7, <1>8, <1>9, <1>10,
     <1>11, <1>12, <1>13, <1>14, <1>15, <1>16, <1>17, <1>18, <1>19, <1>20,
     <1>22
<1> QED
  BY <1>21, <1>22
\* Every step keeps every request in order.
LEMMA ReqStep ==
  ASSUME PathInv, [Next]_vars, NEW u \in UPFs
  PROVE  ReqOk(u)'
<1>t. TypeInv /\ lastAn \in Nat /\ fwd \in Nat
  BY DEF PathInv, TypeInv, RulesInv, RulesTyped, AnTyped
<1> USE DEF Open
<1>1. ASSUME NEW b \in Deciders, NEW del \in SUBSET Rules,
             NEW put \in SUBSET Rules, NEW mod \in SUBSET Rules, NEW drop \in SUBSET del,
             Classify(b, del, put, mod, drop)
      PROVE  ReqOk(u)'
  BY <1>1 DEF Classify, ReqOk
<1>2. ASSUME NEW b \in Deciders, NEW del \in SUBSET Rules,
             ClassifyFails(b, del)
      PROVE  ReqOk(u)'
  BY <1>2 DEF ClassifyFails, GiveUp, ReqOk
<1>3. ASSUME NEW r \in Rules, NoDataPath(r) PROVE ReqOk(u)'
  BY <1>3 DEF NoDataPath, GiveUp, ReqOk
<1>4. ASSUME NEW r \in Rules, NEW w \in RoutesOf[r], NEW flow \in BOOLEAN,
             ProcessRule(r, w, flow)
      PROVE  ReqOk(u)'
  <2>1. pc' = "apply" \/ ~clean'
    BY <1>4 DEF ProcessRule, StartRule, Panic, GiveUp
  <2> QED
    BY <2>1 DEF ReqOk
<1>5. ASSUME Commit PROVE ReqOk(u)'
  <2>1. \/ pc' \in {"default", "idle"}
        \/ pc' = "send" /\ req' = Collected /\ clean' = clean
    BY <1>5 DEF Commit, SendAll
  <2>2. UNCHANGED <<pool, st>> /\ pc = "apply"
    BY <1>5 DEF Commit, pathVars
  <2> QED
    BY <2>1, <2>2, CollectedPending DEF ReqOk
<1>6. ASSUME SelectDefaultDataPath PROVE ReqOk(u)'
  BY <1>6 DEF SelectDefaultDataPath, ReqOk
<1>7. ASSUME NoDefaultPath PROVE ReqOk(u)'
  BY <1>7 DEF NoDefaultPath, ReqOk
<1>8. ASSUME ActivateUPFSession PROVE ReqOk(u)'
  <2>1. UNCHANGED <<pool, st, clean>> /\ pc = "collect" /\ pc' = "send" /\ req' = Collected
    BY <1>8 DEF ActivateUPFSession, SendAll, pathVars
  <2> QED
    BY <2>1, CollectedPending DEF ReqOk
<1>9. ASSUME NEW v \in UPFs, Accepted(v) PROVE ReqOk(u)'
  <2>0. SUFFICES ASSUME Open', u \in DOMAIN req' PROVE ReqOk(u)'
    BY DEF ReqOk
  <2>1. /\ UNCHANGED <<pc, pool, clean, fwd>> /\ v \in DOMAIN req /\ v \in UPFs
        /\ pc \in {"send", "an"} /\ seid \subseteq seid' /\ u \in DOMAIN req /\ req'[u] = req[u]
        /\ DOMAIN st' = DOMAIN st \cup req[v]
        /\ \A x \in DOMAIN st : st'[x] = IF x \in req[v] THEN "CREATE" ELSE st[x]
    BY <1>9, <2>0 DEF Accepted, Exchange, Without, Build, Set, anVars
  <2>2. ReqOk(u) /\ ReqOk(v) /\ Open
    BY <2>0, <2>1 DEF PathInv, AllReq
  <2>3. CASE pc = "send"
    <3>1. req[v] \subseteq DOMAIN st
      BY <2>1, <2>2, <2>3 DEF ReqOk
    <3> QED
      BY <2>1, <2>2, <2>3, <3>1 DEF ReqOk
  <2>4. CASE pc = "an"
    BY <2>1, <2>2, <2>4 DEF ReqOk, Forwards
  <2> QED
    BY <2>1, <2>3, <2>4
<1>10. ASSUME NEW v \in UPFs, Fails(v) PROVE ReqOk(u)'
  BY <1>10 DEF Fails, ReqOk
<1>11. ASSUME NEW v \in UPFs, NotAssociated(v) PROVE ReqOk(u)'
  BY <1>11 DEF NotAssociated, ReqOk
<1>12. ASSUME AllAnswered PROVE ReqOk(u)'
  BY <1>12 DEF AllAnswered, ReqOk
<1>13. ASSUME SetupResponse PROVE ReqOk(u)'
  <2>0. SUFFICES ASSUME Open', u \in DOMAIN req', pc' = "an" PROVE ReqOk(u)'
    BY <1>13 DEF ReqOk, SetupResponse, UpdateAnUpf
  <2>1. /\ UNCHANGED <<pool, seid>> /\ pc = "idle" /\ clean
        /\ req' = [v \in {AnUpf(p) : p \in DefaultPaths} |-> DlRules]
    BY <1>13, <2>0 DEF SetupResponse, NewAn, UpdateAnUpf, upfVars
  <2>2. /\ DlRules \subseteq DOMAIN st /\ DlFars \subseteq DlRules
        /\ \A x \in DlRules : x[1] \in pool
        /\ \A p \in pool : DlFar(p) \in DOMAIN st
        /\ DefaultPaths \subseteq pool
    BY <2>1, DownlinkThere
  <2>3. \A x \in DOMAIN st : x[1] \in pool => st[x] \in {"CREATE", "UPDATE"} /\ x[2] \in seid
    BY <2>1, SettledRules
  <2>4. u \in seid /\ req'[u] = DlRules
    BY <2>0, <2>1, <2>2, <2>3 DEF DlFar
  <2>5. DOMAIN st' = DOMAIN st /\ \A x \in DlRules : st'[x] = "UPDATE"
    BY <2>2, <1>13 DEF SetupResponse, Set
  <2> QED
    BY <2>0, <2>1, <2>2, <2>3, <2>4, <2>5 DEF ReqOk
<1>14. ASSUME PathSwitchRequest PROVE ReqOk(u)'
  <2>0. SUFFICES ASSUME Open', u \in DOMAIN req', pc' = "an" PROVE ReqOk(u)'
    BY <1>14 DEF ReqOk, PathSwitchRequest, UpdateAnUpf
  <2>1. /\ UNCHANGED <<pool, seid>> /\ pc = "idle" /\ clean
        /\ req' = [v \in {AnUpf(p) : p \in DefaultPaths} |-> DlRules]
    BY <1>14, <2>0 DEF PathSwitchRequest, NewAn, UpdateAnUpf, upfVars
  <2>2. /\ DlRules \subseteq DOMAIN st /\ DlFars \subseteq DlRules
        /\ \A x \in DlRules : x[1] \in pool
        /\ \A p \in pool : DlFar(p) \in DOMAIN st
        /\ DefaultPaths \subseteq pool
    BY <2>1, DownlinkThere
  <2>3. \A x \in DOMAIN st : x[1] \in pool => st[x] \in {"CREATE", "UPDATE"} /\ x[2] \in seid
    BY <2>1, SettledRules
  <2>4. u \in seid /\ req'[u] = DlRules
    BY <2>0, <2>1, <2>2, <2>3 DEF DlFar
  <2>5. DOMAIN st' = DOMAIN st /\ \A x \in DlRules : st'[x] \in {st[x], "UPDATE"}
    BY <2>2, <1>14 DEF PathSwitchRequest, Set
  <2> QED
    BY <2>0, <2>1, <2>2, <2>3, <2>4, <2>5 DEF ReqOk
<1>15. ASSUME Deactivate PROVE ReqOk(u)'
  <2>0. SUFFICES ASSUME Open', u \in DOMAIN req', pc' = "an" PROVE ReqOk(u)'
    BY <1>15 DEF ReqOk, Deactivate, UpdateAnUpf
  <2>1. /\ UNCHANGED <<pool, seid>> /\ pc = "idle" /\ clean
        /\ req' = [v \in {AnUpf(p) : p \in DefaultPaths} |-> ({DlFar(p) : p \in pool} \cap DOMAIN st)]
    BY <1>15, <2>0 DEF Deactivate, NewAn, UpdateAnUpf, upfVars
  <2>2. /\ DlRules \subseteq DOMAIN st /\ DlFars \subseteq DlRules
        /\ \A x \in DlRules : x[1] \in pool
        /\ \A p \in pool : DlFar(p) \in DOMAIN st
        /\ DefaultPaths \subseteq pool
    BY <2>1, DownlinkThere
  <2>3. \A x \in DOMAIN st : x[1] \in pool => st[x] \in {"CREATE", "UPDATE"} /\ x[2] \in seid
    BY <2>1, SettledRules
  <2>4. u \in seid /\ req'[u] = ({DlFar(p) : p \in pool} \cap DOMAIN st)
    BY <2>0, <2>1, <2>2, <2>3 DEF DlFar
  <2>5. /\ DOMAIN st' = DOMAIN st
        /\ \A x \in {DlFar(p) : p \in pool} \cap DOMAIN st : st'[x] = "UPDATE"
    BY <1>15 DEF Deactivate, Set
  <2> QED
    BY <2>0, <2>1, <2>2, <2>3, <2>4, <2>5 DEF ReqOk
<1>16. ASSUME NEW indirect \in BOOLEAN,
              HandoverPrepared(indirect)
       PROVE  ReqOk(u)'
  <2>0. SUFFICES ASSUME Open', u \in DOMAIN req', pc' = "an" PROVE ReqOk(u)'
    BY <1>16 DEF ReqOk, HandoverPrepared, NewAn
  <2>1. /\ UNCHANGED <<pool, seid>> /\ pc = "idle" /\ clean /\ fwd' = lastAn' /\ lastAn' = lastAn + 1
        /\ st' = Set(Set(st, DlFars, "UPDATE"), Forwarding(lastAn'), "INITIAL")
        /\ req' = [v \in {AnUpf(p) : p \in DefaultPaths} |-> Forwarding(lastAn')]
    BY <1>16, <2>0 DEF HandoverPrepared, NewAn, upfVars
  <2>2. \A p \in DefaultPaths : p \in pool /\ DlFar(p) \in DOMAIN st
    BY <2>1, DownlinkThere
  <2>3. \A x \in DOMAIN st : x[1] \in pool => x[2] \in seid
    BY <2>1, SettledRules
  <2>4. u \in seid /\ req'[u] = Forwarding(lastAn')
    BY <2>0, <2>1, <2>2, <2>3 DEF DlFar
  <2>5. /\ Forwarding(lastAn') \subseteq DOMAIN st'
        /\ \A x \in Forwarding(lastAn') : st'[x] = "INITIAL" /\ x[1] = -lastAn'
    BY <2>1 DEF Set, Forwarding
  <2>6. fwd' # 0
    BY <1>t, <2>1
  <2> QED
    BY <2>0, <2>1, <2>4, <2>5, <2>6 DEF ReqOk, Forwards
<1>17. ASSUME HandoverCompleted PROVE ReqOk(u)'
  <2> DEFINE F == {x \in DOMAIN st : fwd # 0 /\ x[1] = -fwd}
  <2>0. SUFFICES ASSUME Open', u \in DOMAIN req', pc' = "an" PROVE ReqOk(u)'
    BY <1>17 DEF ReqOk, HandoverCompleted, UpdateAnUpf
  <2>1. /\ UNCHANGED <<pool, seid>> /\ pc = "idle" /\ clean
        /\ req' = [v \in {AnUpf(p) : p \in DefaultPaths} |-> (DlRules \cup F)]
    BY <1>17, <2>0 DEF HandoverCompleted, NewAn, UpdateAnUpf, upfVars
  <2>2. /\ DlRules \subseteq DOMAIN st /\ DlFars \subseteq DlRules
        /\ \A x \in DlRules : x[1] \in pool
        /\ \A p \in pool : DlFar(p) \in DOMAIN st
        /\ DefaultPaths \subseteq pool
    BY <2>1, DownlinkThere
  <2>3. \A x \in DOMAIN st : x[1] \in pool => st[x] \in {"CREATE", "UPDATE"} /\ x[2] \in seid
    BY <2>1, SettledRules
  <2>4. u \in seid /\ req'[u] = (DlRules \cup F)
    BY <2>0, <2>1, <2>2, <2>3 DEF DlFar
  <2>5. /\ DOMAIN st' = DOMAIN st /\ fwd' = 0 /\ F \subseteq DOMAIN st
        /\ \A x \in DOMAIN st : st'[x] = IF x \in F THEN "REMOVE" ELSE st[x]
        /\ \A x \in F : x[1] < 0
    BY <1>t, <1>17 DEF HandoverCompleted, Set
  <2> HIDE DEF F
  <2> QED
    BY <2>0, <2>1, <2>2, <2>3, <2>4, <2>5 DEF ReqOk
<1>18. ASSUME NEW ok \in SUBSET UPFs, NEW n1 \in BOOLEAN,
              Release(ok, n1)
       PROVE  ReqOk(u)'
  BY <1>18 DEF Release, ReqOk
<1>19. ASSUME NEW v \in UPFs, LoseUpf(v) PROVE ReqOk(u)'
  BY <1>19 DEF LoseUpf, ReqOk
<1>20. ASSUME NEW v \in UPFs, Reassociate(v) PROVE ReqOk(u)'
  <2>1. /\ pc' = pc /\ pool' = pool /\ st' = st /\ req' = req /\ seid' = seid
        /\ clean' = clean /\ fwd' = fwd
    BY <1>20 DEF Reassociate, pathVars, decVars, upfVars, anVars
  <2>2. ReqOk(u)' = ReqOk(u)
    BY <2>1 DEF ReqOk, Forwards
  <2> QED
    BY <2>2 DEF PathInv, AllReq
<1>21. CASE UNCHANGED vars
  <2>1. /\ pc' = pc /\ pool' = pool /\ st' = st /\ req' = req /\ seid' = seid
        /\ clean' = clean /\ fwd' = fwd
    BY <1>21 DEF vars, pathVars, decVars, upfVars, anVars
  <2>2. ReqOk(u)' = ReqOk(u)
    BY <2>1 DEF ReqOk, Forwards
  <2> QED
    BY <2>2 DEF PathInv, AllReq
<1> HIDE DEF Open
<1>22. CASE Next
  BY Steps, <1>1, <1>2, <1>3, <1>4, <1>5, <1>6, <1>7, <1>8, <1>9, <1>10,
     <1>11, <1>12, <1>13, <1>14, <1>15, <1>16, <1>17, <1>18, <1>19, <1>20,
     <1>22
<1> QED
  BY <1>21, <1>22

\* A session that is not created yet has no paths.
LEMMA InitPaths == Init => PathInv
<1> SUFFICES ASSUME Init PROVE PathInv
  OBVIOUS
<1>1. TypeInv
  BY InitTypes
<1>2. pool = {} /\ DOMAIN st = {} /\ DOMAIN req = {} /\ pcc = [r \in Rules |-> 0] /\ final = pcc
  BY DEF Init
<1>3. RulePaths /\ AllReq
  BY <1>2 DEF RulePaths, AllReq, ReqOk
<1>4. AllPath /\ AllRule
  BY <1>2 DEF AllPath, AllRule, PathOk, RuleOk
<1> QED
  BY <1>1, <1>3, <1>4 DEF PathInv

\* Every step keeps paths, rules and requests in order.
LEMMA PathNext == PathInv /\ [Next]_vars => PathInv'
<1> SUFFICES ASSUME PathInv, [Next]_vars PROVE PathInv'
  OBVIOUS
<1>1. TypeInv'
  BY TypeNext DEF PathInv
<1>2. RulePaths'
  BY RulePathsStep
<1>3. AllPath'
  BY PathStep DEF AllPath
<1>4. AllRule'
  BY RuleStep DEF AllRule
<1>5. AllReq'
  BY ReqStep DEF AllReq
<1> QED
  BY <1>1, <1>2, <1>3, <1>4, <1>5 DEF PathInv

LEMMA PathInvariance == Spec => []PathInv
  BY InitPaths, PathNext, PTL DEF Spec

\* Policy decisions: between the handlers, as long as every change was sent and
\* acknowledged, an activated path is the default path's or that of an installed
\* rule.
THEOREM NoOrphans == Spec => []NoOrphanPaths
<1>1. PathInv => NoOrphanPaths
  <2> SUFFICES ASSUME PathInv, pc = "idle", clean, NEW p \in Active
               PROVE  paths[p].rule = None \/ pcc[paths[p].rule] = p
    BY DEF NoOrphanPaths
  <2>1. p \in DOMAIN paths /\ p \in pool
    BY DownlinkIds DEF PathInv, Active
  <2>2. p \in PathIds /\ paths[p].rule \in Rules \cup {None}
    BY <2>1, PathsAre DEF PathInv, PathRecords
  <2> QED
    BY <2>1, <2>2 DEF PathInv, AllPath, PathOk, Open
<1> QED
  BY <1>1, PathInvariance, PTL
=============================================================================
