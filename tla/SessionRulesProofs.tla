------------------------- MODULE SessionRulesProofs -------------------------
(* Proofs about SessionRules for every number of UPFs, rules, paths,        *)
(* requests and faults: identifiers come back, and no rule is created twice. *)
EXTENDS SessionRules, TLAPS

\* Data paths and QERs: those of a path are made.
PathRecords == [ups : Seq(UPFs), def : BOOLEAN, act : BOOLEAN, rule : Rules \cup {None},
                qers : SUBSET DOMAIN qer, urrs : SUBSET DOMAIN urr]
QerRecords == [st : RuleStates, pooled : BOOLEAN]
Contents == [rules : SUBSET DOMAIN st, qers : SUBSET DOMAIN qer, urrs : SUBSET DOMAIN urr]

\* A rule is one of a path, or of the indirect forwarding to an AN tunnel.
Made(x) == x[1] \in 1..Len(paths) \/ -x[1] \in 1..lastAn

RulesTyped ==
  /\ paths \in Seq(PathRecords) /\ pool \subseteq DOMAIN paths
  /\ lastAn \in Nat
  /\ assoc \subseteq UPFs /\ UPFs \ assoc \subseteq lost
  /\ \A x \in DOMAIN st : Made(x)
  /\ \A u \in DOMAIN req : \A x \in req[u] : Made(x)
  /\ \A x \in DOMAIN qer : qer[x] \in QerRecords /\ x[3] \in 1..Len(paths)
  /\ \A x \in ids : x[1] < 0 \/ x[2] \in UPFs
  /\ up \in [UPFs -> Contents]

RulesInv == RulesTyped /\ IdsAccounted /\ InitialNotSent

-----------------------------------------------------------------------------
(* Functions, sequences and records *)

\* A path stays a path when more QERs and URRs are made, and when it is deactivated.
LEMMA RecordsGrow ==
  ASSUME DOMAIN qer \subseteq DOMAIN qer', DOMAIN urr \subseteq DOMAIN urr'
  PROVE  /\ PathRecords \subseteq PathRecords'
         /\ \A x \in PathRecords : [x EXCEPT !.act = FALSE] \in PathRecords
         /\ DOMAIN st \subseteq DOMAIN st' => Contents \subseteq Contents'
  BY DEF PathRecords, Contents

\* A longer set has more sequences.
LEMMA SeqGrows ==
  ASSUME NEW S, NEW T, S \subseteq T, NEW q \in Seq(S)
  PROVE  q \in Seq(T)
  OBVIOUS

\* Deactivated paths are paths.
LEMMA DeactivatedPaths ==
  ASSUME RulesTyped, NEW P, DOMAIN qer \subseteq DOMAIN qer', DOMAIN urr \subseteq DOMAIN urr'
  PROVE  /\ Deactivated(P) \in Seq(PathRecords') /\ Len(Deactivated(P)) = Len(paths)
         /\ DOMAIN Deactivated(P) = DOMAIN paths
<1>1. paths \in Seq(PathRecords)
  BY DEF RulesTyped
<1>2. \A p \in DOMAIN paths : paths[p] \in PathRecords
  BY <1>1
<1>3. \A p \in DOMAIN paths : Deactivated(P)[p] \in PathRecords'
  BY <1>2, RecordsGrow DEF Deactivated
<1>4. Deactivated(P) \in [DOMAIN paths -> PathRecords']
  BY <1>3 DEF Deactivated
<1> HIDE DEF PathRecords
<1> QED
  BY <1>1, <1>4

\* QERs whose identifiers are given back keep their states.
LEMMA UnpooledQers ==
  ASSUME RulesTyped, NEW P
  PROVE  /\ DOMAIN Unpooled(P) = DOMAIN qer
         /\ \A x \in DOMAIN qer : Unpooled(P)[x] \in QerRecords /\ Unpooled(P)[x].st = qer[x].st
  BY DEF Unpooled, RulesTyped, QerRecords

-----------------------------------------------------------------------------
(* Steps *)

\* Steps that make no rule, give none back and leave the UPFs' contents alone.
LEMMA OthersKeep ==
  ASSUME RulesInv, UNCHANGED <<paths, ids, qer, urr, up, pool>>,
         pc' = pc \/ (pc' # "released" /\ pc \notin {"gone", "released"}),
         lastAn' \in Nat, lastAn' >= lastAn,
         assoc' \subseteq UPFs, UPFs \ assoc' \subseteq lost', lost \subseteq lost',
         DOMAIN st \subseteq DOMAIN st', \A x \in DOMAIN st' : Made(x)',
         \A x \in DOMAIN st : st'[x] = st[x] \/ st'[x] # "INITIAL",
         \A u \in DOMAIN req' : \A x \in req'[u] : Made(x)'
  PROVE  RulesInv'
<1>1. PathRecords' = PathRecords /\ Contents \subseteq Contents'
  BY DEF PathRecords, Contents
<1>2. RulesTyped'
  BY <1>1 DEF RulesInv, RulesTyped
<1>3. IdsAccounted'
  BY DEF RulesInv, IdsAccounted
<1>4. InitialNotSent'
  BY DEF RulesInv, RulesTyped, InitialNotSent, Contents
<1> QED
  BY <1>2, <1>3, <1>4 DEF RulesInv

\* Steps that add a path: its rules are new to every UPF.
LEMMA PathAdded ==
  ASSUME RulesInv, NEW w \in Seq(UPFs), NEW def \in BOOLEAN, NEW r \in Rules \cup {None},
         NEW K, NEW C, NEW s0,
         AddDataPath(w, def, r, K, C),
         DOMAIN s0 = DOMAIN st, \A x \in DOMAIN st : s0[x] = st[x] \/ s0[x] # "INITIAL",
         st' = Set(s0, ids' \ ids, "INITIAL"),
         UNCHANGED <<lastAn, req, up, assoc, lost>>,
         pc \notin {"gone", "released"}, pc' # "released"
  PROVE  RulesInv'
<1> DEFINE p == Len(paths) + 1
           ok == Upfs(w) \subseteq assoc
           made == IF ok THEN MadeQers(p, w, K) ELSE {}
           all == IF ok THEN made \cup SharedQers(w, K) ELSE {}
           newUrrs == IF ok THEN PathUrrs(w) \cup C ELSE {}
           new == [ups |-> w, def |-> def, act |-> ok, rule |-> r,
                   qers |-> {x \in all : ~(r \in Gbr /\ x[2] = Ambr)}, urrs |-> newUrrs]
<1>1. /\ paths' = Append(paths, new) /\ pool' = pool \cup {p}
      /\ ids' = ids \cup RulesAt(p, Reached(w))
      /\ qer' = Set(qer, made, [st |-> "INITIAL", pooled |-> TRUE])
      /\ urr' = Set(urr, newUrrs \ DOMAIN urr, "INITIAL")
  BY DEF AddDataPath
<1>2. Len(paths) \in Nat /\ DOMAIN paths = 1..Len(paths)
  BY DEF RulesInv, RulesTyped
<1>3. \A x \in made : x[3] = p
  BY DEF MadeQers
<1>4. \A x \in RulesAt(p, Reached(w)) : x[1] = p /\ x[2] \in assoc
  BY DEF RulesAt, Reached
<1>5. all \subseteq DOMAIN qer \cup made
  BY DEF SharedQers
<1> HIDE DEF made, newUrrs
<1>6. /\ DOMAIN qer' = DOMAIN qer \cup made
      /\ \A x \in DOMAIN qer' :
           qer'[x] = IF x \in made THEN [st |-> "INITIAL", pooled |-> TRUE] ELSE qer[x]
  BY <1>1 DEF Set
<1>7. /\ DOMAIN urr' = DOMAIN urr \cup newUrrs
      /\ \A x \in DOMAIN urr : urr'[x] = urr[x]
  BY <1>1 DEF Set
<1>8. /\ DOMAIN st' = DOMAIN st \cup (ids' \ ids)
      /\ \A x \in DOMAIN st' : st'[x] = IF x \in ids' \ ids THEN "INITIAL" ELSE s0[x]
  BY DEF Set
<1>9. new \in PathRecords'
  BY <1>5, <1>6, <1>7 DEF PathRecords
<1>10. PathRecords \subseteq PathRecords' /\ Contents \subseteq Contents'
  BY <1>6, <1>7, <1>8, RecordsGrow
<1> HIDE DEF new, all
<1>11. paths \in Seq(PathRecords')
  BY <1>10, SeqGrows DEF RulesInv, RulesTyped
<1>12. paths' \in Seq(PathRecords') /\ Len(paths') = p /\ DOMAIN paths' = 1..p
  BY <1>1, <1>2, <1>9, <1>11
<1>13. \A x : Made(x) => Made(x)' /\ x[1] # p
  BY <1>2, <1>12 DEF Made, RulesInv, RulesTyped
<1>14. \A x \in RulesAt(p, Reached(w)) : Made(x)'
  BY <1>2, <1>4, <1>12 DEF Made
<1>15. RulesTyped'
  <2>1. \A x \in DOMAIN st' : Made(x)'
    BY <1>1, <1>8, <1>13, <1>14 DEF RulesInv, RulesTyped
  <2>2. \A x \in DOMAIN qer' : qer'[x] \in QerRecords' /\ x[3] \in 1..Len(paths')
    <3>1. QerRecords' = QerRecords /\ [st |-> "INITIAL", pooled |-> TRUE] \in QerRecords
      BY DEF QerRecords, RuleStates
    <3> QED
      BY <1>2, <1>3, <1>6, <1>12, <3>1 DEF RulesInv, RulesTyped
  <2>3. \A x \in ids' : x[1] < 0 \/ x[2] \in UPFs
    BY <1>1, <1>4 DEF RulesInv, RulesTyped
  <2>4. up' \in [UPFs -> Contents']
    BY <1>10 DEF RulesInv, RulesTyped
  <2>5. pool' \subseteq DOMAIN paths'
    BY <1>1, <1>2, <1>12 DEF RulesInv, RulesTyped
  <2> QED
    BY <1>12, <1>13, <2>1, <2>2, <2>3, <2>4, <2>5 DEF RulesInv, RulesTyped
<1>16. IdsAccounted'
  BY <1>1, <1>4 DEF RulesInv, IdsAccounted
<1>17. InitialNotSent'
  <2>1. ASSUME NEW u \in UPFs
        PROVE  /\ up[u].rules \subseteq DOMAIN st /\ up[u].qers \subseteq DOMAIN qer
               /\ up[u].urrs \subseteq DOMAIN urr
    BY DEF RulesInv, RulesTyped, Contents
  <2>2. ASSUME NEW u \in UPFs, NEW x \in up[u].rules PROVE st'[x] # "INITIAL"
    <3>1. x \in DOMAIN st /\ x[1] # p
      BY <1>13, <2>1 DEF RulesInv, RulesTyped
    <3>2. x \notin ids' \ ids
      BY <1>1, <1>4, <3>1
    <3> QED
      BY <1>8, <3>1, <3>2 DEF RulesInv, InitialNotSent
  <2>3. ASSUME NEW u \in UPFs, NEW x \in up[u].qers PROVE qer'[x].st # "INITIAL"
    <3>1. x \in DOMAIN qer /\ x \notin made
      BY <1>2, <1>3, <2>1 DEF RulesInv, RulesTyped
    <3> QED
      BY <1>6, <3>1 DEF RulesInv, InitialNotSent
  <2>4. ASSUME NEW u \in UPFs, NEW x \in up[u].urrs PROVE urr'[x] # "INITIAL"
    BY <1>7, <2>1 DEF RulesInv, InitialNotSent
  <2> QED
    BY <2>2, <2>3, <2>4 DEF InitialNotSent
<1> QED
  BY <1>15, <1>16, <1>17 DEF RulesInv

\* Steps that give the rules of paths back, with their QERs, and deactivate them.
LEMMA PathsFreed ==
  ASSUME RulesInv, NEW P, NEW Q, NEW R,
         ids' = ids \ FreedRules(P), qer' = Unpooled(P), paths' = Deactivated(Q),
         pool' = pool \ R, R \subseteq P, pc' = "released" => pool \subseteq P,
         pc \notin {"gone", "released"},
         UNCHANGED <<st, urr, req, lastAn, assoc, lost>>,
         \A u \in UPFs : up'[u] \in {up[u], Empty}, up' = [u \in UPFs |-> up'[u]]
  PROVE  RulesInv'
<1>1. /\ DOMAIN qer' = DOMAIN qer
      /\ \A x \in DOMAIN qer : qer'[x] \in QerRecords /\ qer'[x].st = qer[x].st
  BY UnpooledQers DEF RulesInv
<1>2. /\ paths' \in Seq(PathRecords') /\ Len(paths') = Len(paths)
      /\ DOMAIN paths' = DOMAIN paths
  BY <1>1, DeactivatedPaths DEF RulesInv
<1>3. Contents' = Contents /\ QerRecords' = QerRecords /\ Empty \in Contents
  BY <1>1 DEF Contents, QerRecords, Empty
<1>4. up' \in [UPFs -> Contents]
  BY <1>3 DEF RulesInv, RulesTyped
<1>5. RulesTyped'
  <2>1. \A x : Made(x)' <=> Made(x)
    BY <1>2 DEF Made
  <2> QED
    BY <1>1, <1>2, <1>3, <1>4, <2>1 DEF RulesInv, RulesTyped
<1>6. IdsAccounted'
  <2>1. ASSUME NEW x \in ids', x[2] \notin lost, ~(x[1] < 0)
        PROVE  x[1] \in pool \ P
    <3>1. x \in ids /\ x[1] \in pool /\ x[2] \in assoc
      BY <2>1 DEF RulesInv, RulesTyped, IdsAccounted
    <3> QED
      BY <2>1, <3>1 DEF FreedRules, TakesBack
  <2> QED
    BY <2>1 DEF IdsAccounted
<1>7. InitialNotSent'
  <2>1. ASSUME NEW u \in UPFs
        PROVE  /\ \A x \in up'[u].rules : st'[x] # "INITIAL"
               /\ \A x \in up'[u].qers : qer'[x].st # "INITIAL"
               /\ \A x \in up'[u].urrs : urr'[x] # "INITIAL"
    <3>1. CASE up'[u] = Empty
      BY <3>1 DEF Empty
    <3>2. CASE up'[u] = up[u]
      <4>1. up[u].qers \subseteq DOMAIN qer
        BY DEF RulesInv, RulesTyped, Contents
      <4> QED
        BY <1>1, <3>2, <4>1 DEF RulesInv, InitialNotSent
    <3> QED
      BY <3>1, <3>2
  <2> QED
    BY <2>1 DEF InitialNotSent
<1> QED
  BY <1>5, <1>6, <1>7 DEF RulesInv

\* An exchange with UPF u: what it creates is no longer to be created.
LEMMA ExchangeKeeps ==
  ASSUME RulesInv, NEW u \in UPFs, Accepted(u) \/ Fails(u) \/ NotAssociated(u)
  PROVE  RulesInv'
<1>1. /\ u \in DOMAIN req /\ req' = Without(req, u) /\ pc' = pc /\ pc \in {"send", "an"}
      /\ UNCHANGED <<paths, ids, pool, lastAn, assoc, lost>>
  <2>1. Exchange(u)
    BY DEF Accepted, Fails, NotAssociated
  <2> QED
    BY <2>1 DEF Exchange, anVars, assocVars
<1>2. \A v \in DOMAIN req' : v \in DOMAIN req /\ req'[v] = req[v]
  BY <1>1 DEF Without
<1>3. CASE NotAssociated(u)
  BY <1>1, <1>2, <1>3, OthersKeep
  DEF NotAssociated, upfVars, RulesInv, RulesTyped, Made
<1>4. CASE Build(u) /\ (Applied(u) \/ UNCHANGED <<up, upFar>>)
  <2>1. /\ DOMAIN st' = DOMAIN st \cup req[u]
        /\ \A x \in DOMAIN st' : st'[x] = IF x \in req[u] THEN "CREATE" ELSE st[x]
    BY <1>4 DEF Build, Set
  <2>2. /\ DOMAIN urr' = DOMAIN urr \cup UrrsAt(u)
        /\ \A x \in DOMAIN urr' : urr'[x] = IF x \in UrrsAt(u) THEN "CREATE" ELSE urr[x]
    BY <1>4 DEF Build, Set
  <2>3. /\ DOMAIN qer' = DOMAIN qer
        /\ \A x \in DOMAIN qer :
             qer'[x] = IF x \in QersAt(u) THEN [qer[x] EXCEPT !.st = "CREATE"] ELSE qer[x]
    BY <1>4 DEF Build
  <2>4. \A x \in DOMAIN qer : /\ qer'[x] \in QerRecords
                              /\ x \in QersAt(u) => qer'[x].st = "CREATE"
                              /\ x \notin QersAt(u) => qer'[x].st = qer[x].st
    BY <2>3 DEF RulesInv, RulesTyped, QerRecords, RuleStates
  <2>5. PathRecords \subseteq PathRecords' /\ Contents \subseteq Contents'
    BY <2>1, <2>2, <2>3, RecordsGrow
  <2>6. QersAt(u) \subseteq DOMAIN qer
    <3>1. ASSUME NEW p \in Active, NEW x \in paths[p].qers PROVE x \in DOMAIN qer
      <4>1. paths[p] \in PathRecords
        BY DEF Active, RulesInv, RulesTyped
      <4> QED
        BY <3>1, <4>1 DEF PathRecords
    <3> QED
      BY <3>1 DEF QersAt
  <2>7. \A v \in UPFs : /\ up[v].rules \subseteq DOMAIN st /\ up[v].qers \subseteq DOMAIN qer
                        /\ up[v].urrs \subseteq DOMAIN urr
    BY DEF RulesInv, RulesTyped, Contents
  <2>8. ASSUME NEW v \in UPFs
        PROVE  /\ up'[v].rules \subseteq up[v].rules \cup req[u]
               /\ up'[v].qers \subseteq up[v].qers \cup QersAt(u)
               /\ up'[v].urrs \subseteq up[v].urrs \cup UrrsAt(u)
               /\ up'[v] \in [rules : SUBSET (DOMAIN st \cup req[u]),
                              qers : SUBSET DOMAIN qer, urrs : SUBSET (DOMAIN urr \cup UrrsAt(u))]
    <3>1. CASE up' = up
      BY <2>7, <3>1 DEF RulesInv, RulesTyped, Contents
    <3>2. CASE Applied(u)
      <4> DEFINE old == IF Establishes(u) THEN Empty ELSE up[u]
                 now == [rules |-> (old.rules \ Removed(u)) \cup InState(u, "INITIAL"),
                         qers |-> old.qers \cup NewQers(u), urrs |-> old.urrs \cup NewUrrs(u)]
      <4>1. up' = [up EXCEPT ![u] = now]
        BY <3>2 DEF Applied
      <4>2. /\ old.rules \subseteq up[u].rules /\ old.qers \subseteq up[u].qers
            /\ old.urrs \subseteq up[u].urrs
        BY DEF Empty
      <4>3. /\ InState(u, "INITIAL") \subseteq req[u] /\ NewQers(u) \subseteq QersAt(u)
            /\ NewUrrs(u) \subseteq UrrsAt(u)
        BY DEF InState, NewQers, NewUrrs
      <4>4. /\ now.rules \subseteq up[u].rules \cup req[u]
            /\ now.qers \subseteq up[u].qers \cup QersAt(u)
            /\ now.urrs \subseteq up[u].urrs \cup UrrsAt(u)
            /\ now \in [rules : SUBSET (DOMAIN st \cup req[u]),
                        qers : SUBSET DOMAIN qer, urrs : SUBSET (DOMAIN urr \cup UrrsAt(u))]
        BY <2>6, <2>7, <4>2, <4>3
      <4> HIDE DEF now
      <4>5. up'[v] = IF v = u THEN now ELSE up[v]
        BY <4>1 DEF RulesInv, RulesTyped
      <4>6. up[v] \in Contents
        BY DEF RulesInv, RulesTyped
      <4> QED
        BY <4>4, <4>5, <4>6 DEF Contents
    <3> QED
      BY <1>4, <3>1, <3>2
  <2>9. up' \in [UPFs -> Contents']
    <3>1. up' \in [UPFs -> {up'[v] : v \in UPFs}]
      BY <1>4 DEF Applied, RulesInv, RulesTyped
    <3> QED
      BY <2>1, <2>2, <2>3, <2>8, <3>1 DEF Contents
  <2>10. RulesTyped'
    <3>1. \A x : Made(x)' <=> Made(x)
      BY <1>1 DEF Made
    <3>2. paths' \in Seq(PathRecords')
      BY <1>1, <2>5, SeqGrows DEF RulesInv, RulesTyped
    <3>3. \A x \in DOMAIN st' : Made(x)'
      BY <1>1, <2>1, <3>1 DEF RulesInv, RulesTyped
    <3>4. QerRecords' = QerRecords
      BY DEF QerRecords
    <3> QED
      BY <1>1, <1>2, <2>3, <2>4, <2>9, <3>1, <3>2, <3>3, <3>4 DEF RulesInv, RulesTyped
  <2>11. IdsAccounted'
    BY <1>1 DEF RulesInv, IdsAccounted
  <2>12. InitialNotSent'
    <3>1. ASSUME NEW v \in UPFs, NEW x \in up'[v].rules PROVE st'[x] # "INITIAL"
      BY <2>1, <2>7, <2>8, <3>1 DEF RulesInv, InitialNotSent
    <3>2. ASSUME NEW v \in UPFs, NEW x \in up'[v].qers PROVE qer'[x].st # "INITIAL"
      BY <2>4, <2>6, <2>7, <2>8, <3>2 DEF RulesInv, InitialNotSent
    <3>3. ASSUME NEW v \in UPFs, NEW x \in up'[v].urrs PROVE urr'[x] # "INITIAL"
      BY <2>2, <2>7, <2>8, <3>3 DEF RulesInv, InitialNotSent
    <3> QED
      BY <3>1, <3>2, <3>3 DEF InitialNotSent
  <2> QED
    BY <2>10, <2>11, <2>12 DEF RulesInv
<1> QED
  BY <1>3, <1>4 DEF Accepted, Fails

\* Marking paths removes no rule from the tables and makes none.
LEMMA MarkedFacts ==
  ASSUME NEW P
  PROVE  /\ DOMAIN Marked(st, P) = DOMAIN st
         /\ \A x \in DOMAIN st : Marked(st, P)[x] = st[x] \/ Marked(st, P)[x] # "INITIAL"
  BY DEF Marked, Set

\* A policy decision keeps RulesInv.
LEMMA DecisionKeeps ==
  ASSUME RulesInv,
         \/ \E b, del, put, mod, drop : Classify(b, del, put, mod, drop)
         \/ \E b, del : b \in {"create", "notify", "uemod"} /\ ClassifyFails(b, del)
         \/ \E r \in Rules : NoDataPath(r)
         \/ \E r \in Rules, flow \in BOOLEAN : \E w \in RoutesOf[r] : ProcessRule(r, w, flow)
         \/ Commit
  PROVE  RulesInv'
<1>1. ASSUME NEW P, st' = Marked(st, P), pc' \notin {"released"}, pc \notin {"gone", "released"},
             UNCHANGED <<paths, ids, qer, urr, up, pool, lastAn, assoc, lost, req>>
      PROVE  RulesInv'
  <2>1. \A x : Made(x)' <=> Made(x)
    BY <1>1 DEF Made
  <2> QED
    BY <1>1, <2>1, MarkedFacts, OthersKeep DEF RulesInv, RulesTyped
<1>2. ASSUME NEW b, NEW del, NEW put, NEW mod, NEW drop, Classify(b, del, put, mod, drop)
      PROVE  RulesInv'
  BY <1>1, <1>2 DEF Classify, RemovePccRules, Decides, anVars, upfVars, assocVars
<1>3. ASSUME NEW b, NEW del, ClassifyFails(b, del) PROVE RulesInv'
  BY <1>1, <1>3 DEF ClassifyFails, RemovePccRules, Decides, GiveUp, anVars, upfVars, assocVars
<1>4. ASSUME NEW r \in Rules, NoDataPath(r) PROVE RulesInv'
  <2>1. /\ ids' = ids /\ st' = Set(Marked(st, {pcc[r]}), ids' \ ids, "INITIAL")
        /\ pc = "apply" /\ pc' \notin {"released"}
        /\ UNCHANGED <<paths, qer, urr, up, pool, lastAn, assoc, lost, req>>
    BY <1>4 DEF NoDataPath, PreRemoveDataPath, StartRule, GiveUp, upfVars, assocVars
  <2>2. st' = Marked(st, {pcc[r]})
    BY <2>1 DEF Set, Marked
  <2> QED
    BY <1>1, <2>1, <2>2
<1>5. ASSUME NEW r \in Rules, NEW flow \in BOOLEAN, NEW w \in RoutesOf[r], ProcessRule(r, w, flow)
      PROVE  RulesInv'
  <2>1. w \in Seq(UPFs)
    BY RulesAssumption DEF Range
  <2>2. /\ AddDataPath(w, r = DefaultRule /\ DefaultPaths = {}, r,
                       RuleKeys(r, w, r = DefaultRule /\ DefaultPaths = {}),
                       IF Dies(r, w) THEN {}
                       ELSE ChargingUrrs(Len(paths) + 1, w, r, PduCharged(r)))
        /\ st' = Set(Marked(st, {pcc[r]}), ids' \ ids, "INITIAL")
        /\ pc = "apply" /\ UNCHANGED <<lastAn, req, up, assoc, lost>>
    BY <1>5 DEF ProcessRule, PreRemoveDataPath, StartRule, upfVars, assocVars
  <2>3. pc' # "released"
    BY <1>5, <2>2 DEF ProcessRule, Panic, GiveUp
  <2> QED
    BY <2>1, <2>2, <2>3, MarkedFacts, PathAdded
<1>6. ASSUME Commit PROVE RulesInv'
  <2>1. /\ UNCHANGED <<paths, ids, qer, urr, up, pool, lastAn, assoc, lost, st>>
        /\ pc = "apply" /\ pc' # "released" /\ (req' = req \/ req' = Collected)
    BY <1>6 DEF Commit, SendAll, pathVars, anVars, upfVars, assocVars
  <2>2. \A x : Made(x)' <=> Made(x)
    BY <2>1 DEF Made
  <2>3. \A u \in DOMAIN req' : \A x \in req'[u] : Made(x)'
    BY <2>1, <2>2 DEF Collected, RulesInv, RulesTyped
  <2> QED
    BY <2>1, <2>2, <2>3, OthersKeep DEF RulesInv, RulesTyped
<1> QED
  BY <1>2, <1>3, <1>4, <1>5, <1>6

\* What an N2 message sends to the default path's first UPF is made.
LEMMA SentIsMade ==
  ASSUME RulesInv, NEW list, UpdateAnUpf(list),
         \A x : Made(x) => Made(x)', \A x \in list : Made(x)'
  PROVE  pc' # "released" /\ \A u \in DOMAIN req' : \A x \in req'[u] : Made(x)'
  BY DEF UpdateAnUpf, RulesInv, RulesTyped

\* The downlink rules of activated paths are made.
LEMMA DownlinkMade == RulesInv => \A x \in DlRules \cup DlFars : Made(x)
  BY DEF RulesInv, RulesTyped, DlRules, DlFars, DlPdr, DlFar, Active, Made

\* An N2 message, or the deactivation of the user plane, keeps RulesInv.
LEMMA DownlinkKeeps ==
  ASSUME RulesInv,
         \/ SetupResponse \/ PathSwitchRequest \/ Deactivate \/ HandoverCompleted
         \/ \E indirect \in BOOLEAN : HandoverPrepared(indirect)
  PROVE  RulesInv'
<1>1. ASSUME NEW X, NEW s \in {"UPDATE", "REMOVE"}, st' = Set(st, X, s), NEW list,
             UpdateAnUpf(list), pc = "idle", lastAn' \in {lastAn, lastAn + 1},
             \A x \in X \cup list : Made(x),
             UNCHANGED <<paths, ids, qer, urr, up, pool, assoc, lost>>
      PROVE  RulesInv'
  <2>1. lastAn \in Nat /\ lastAn' \in Nat /\ lastAn' >= lastAn
    BY <1>1 DEF RulesInv, RulesTyped
  <2>2. \A x : Made(x) => Made(x)'
    BY <1>1, <2>1 DEF Made
  <2>3. /\ DOMAIN st' = DOMAIN st \cup X
        /\ \A x \in DOMAIN st : st'[x] = st[x] \/ st'[x] # "INITIAL"
    BY <1>1 DEF Set
  <2>4. pc' # "released" /\ \A u \in DOMAIN req' : \A x \in req'[u] : Made(x)'
    BY <1>1, <2>2, SentIsMade
  <2>5. \A x \in DOMAIN st' : Made(x)'
    BY <1>1, <2>2, <2>3 DEF RulesInv, RulesTyped
  <2> QED
    BY <1>1, <2>1, <2>3, <2>4, <2>5, OthersKeep DEF RulesInv, RulesTyped
<1>2. ASSUME SetupResponse PROVE RulesInv'
  BY <1>1, <1>2, DownlinkMade DEF SetupResponse, NewAn, upfVars, assocVars
<1>3. ASSUME PathSwitchRequest PROVE RulesInv'
  BY <1>1, <1>3, DownlinkMade DEF PathSwitchRequest, NewAn, upfVars, assocVars
<1>4. ASSUME Deactivate PROVE RulesInv'
  <2> DEFINE list == {DlFar(p) : p \in pool} \cap DOMAIN st
  <2>1. /\ st' = Set(st, list, "UPDATE") /\ UpdateAnUpf(list) /\ pc = "idle" /\ lastAn' = lastAn
        /\ UNCHANGED <<paths, ids, qer, urr, up, pool, assoc, lost>>
    BY <1>4 DEF Deactivate, upfVars, assocVars
  <2>2. \A x \in list : Made(x)
    BY DEF RulesInv, RulesTyped
  <2> HIDE DEF list
  <2> QED
    BY <1>1, <2>1, <2>2
<1>5. ASSUME HandoverCompleted PROVE RulesInv'
  <2> DEFINE F == {x \in DOMAIN st : fwd # 0 /\ x[1] = -fwd}
  <2>1. /\ st' = Set(st, F, "REMOVE") /\ UpdateAnUpf(DlRules \cup F)
        /\ pc = "idle" /\ lastAn' = lastAn
        /\ UNCHANGED <<paths, ids, qer, urr, up, pool, assoc, lost>>
    BY <1>5 DEF HandoverCompleted, upfVars, assocVars
  <2>2. \A x \in F : Made(x)
    BY DEF RulesInv, RulesTyped
  <2> HIDE DEF F
  <2> QED
    BY <1>1, <2>1, <2>2, DownlinkMade
<1>6. ASSUME NEW indirect \in BOOLEAN, HandoverPrepared(indirect) PROVE RulesInv'
  <2>1. /\ pc = "idle" /\ pc' # "released" /\ lastAn' = lastAn + 1
        /\ UNCHANGED <<paths, qer, urr, up, pool, assoc, lost>>
    BY <1>6 DEF HandoverPrepared, NewAn, upfVars, assocVars
  <2>2. lastAn \in Nat /\ lastAn' \in Nat /\ lastAn' >= lastAn
    BY <2>1 DEF RulesInv, RulesTyped
  <2>3. \A x : Made(x) => Made(x)'
    BY <2>1, <2>2 DEF Made
  <2>4. CASE indirect
    <3> DEFINE F == Forwarding(lastAn')
    <3>1. /\ st' = Set(Set(st, DlFars, "UPDATE"), F, "INITIAL")
          /\ ids' = ids \cup {x \in F : x[4] = "far"}
          /\ \A u \in DOMAIN req' : req'[u] = F
      BY <1>6, <2>4 DEF HandoverPrepared
    <3>2. \A x \in F : x[1] = -(lastAn + 1)
      BY <2>1 DEF Forwarding
    <3>3. \A x \in F : Made(x)' /\ ~Made(x) /\ x[1] < 0
      BY <2>1, <2>2, <3>2 DEF Made
    <3> HIDE DEF F
    <3>4. /\ DOMAIN st' = DOMAIN st \cup DlFars \cup F
          /\ \A x \in DOMAIN st : x \notin F => st'[x] = st[x] \/ st'[x] # "INITIAL"
      BY <3>1 DEF Set
    <3>5. \A x \in DOMAIN st' : Made(x)'
      BY <2>3, <3>3, <3>4, DownlinkMade DEF RulesInv, RulesTyped
    <3>6. PathRecords' = PathRecords /\ Contents \subseteq Contents'
      BY <2>1, <3>4 DEF PathRecords, Contents
    <3>7. RulesTyped'
      BY <2>1, <2>2, <3>1, <3>3, <3>5, <3>6 DEF RulesInv, RulesTyped
    <3>8. IdsAccounted'
      BY <2>1, <3>1, <3>3 DEF RulesInv, IdsAccounted
    <3>9. InitialNotSent'
      <4>1. \A u \in UPFs : up[u].rules \subseteq DOMAIN st
        BY DEF RulesInv, RulesTyped, Contents
      <4>2. \A x \in DOMAIN st : x \notin F
        BY <3>3 DEF RulesInv, RulesTyped
      <4> QED
        BY <2>1, <3>4, <4>1, <4>2 DEF RulesInv, InitialNotSent
    <3> QED
      BY <3>7, <3>8, <3>9 DEF RulesInv
  <2>5. CASE ~indirect
    <3>1. st' = Set(st, DlFars, "UPDATE") /\ UNCHANGED <<ids, req>>
      BY <1>6, <2>5 DEF HandoverPrepared
    <3>2. /\ DOMAIN st' = DOMAIN st \cup DlFars
          /\ \A x \in DOMAIN st : st'[x] = st[x] \/ st'[x] # "INITIAL"
      BY <3>1 DEF Set
    <3>3. \A x \in DOMAIN st' : Made(x)'
      BY <2>3, <3>2, DownlinkMade DEF RulesInv, RulesTyped
    <3> QED
      BY <2>1, <2>2, <2>3, <3>1, <3>2, <3>3, OthersKeep DEF RulesInv, RulesTyped
  <2> QED
    BY <2>4, <2>5
<1> QED
  BY <1>2, <1>3, <1>4, <1>5, <1>6

\* Every step keeps RulesInv.
LEMMA RulesStep == RulesInv /\ [Next]_vars => RulesInv'
<1> SUFFICES ASSUME RulesInv, [Next]_vars PROVE RulesInv'
  OBVIOUS
<1>1. ASSUME UNCHANGED <<paths, ids, qer, urr, up, pool, lastAn, st>>,
             pc' = pc \/ (pc' # "released" /\ pc \notin {"gone", "released"}),
             assoc' \subseteq UPFs, UPFs \ assoc' \subseteq lost', lost \subseteq lost',
             req' = req \/ req' = Collected
      PROVE  RulesInv'
  <2>1. \A x : Made(x)' <=> Made(x)
    BY <1>1 DEF Made
  <2>2. \A u \in DOMAIN req' : \A x \in req'[u] : Made(x)'
    BY <1>1, <2>1 DEF Collected, RulesInv, RulesTyped
  <2> QED
    BY <1>1, <2>1, <2>2, OthersKeep DEF RulesInv, RulesTyped
<1>2. ASSUME SelectDefaultDataPath PROVE RulesInv'
  <2>1. pc = "default" /\ pc' = "collect" /\ UNCHANGED <<lastAn, req, up, assoc, lost>>
    BY <1>2 DEF SelectDefaultDataPath, upfVars, assocVars
  <2>2. CASE DefaultPaths # {}
    <3>1. UNCHANGED <<paths, ids, qer, urr, pool, st>>
      BY <1>2, <2>2 DEF SelectDefaultDataPath, pathVars
    <3> QED
      BY <1>1, <2>1, <3>1 DEF RulesInv, RulesTyped
  <2>3. CASE DefaultPaths = {}
    <3>1. /\ AddDataPath(DefaultRoute, TRUE, None, {Ambr, DefQFI}, {})
          /\ st' = Set(st, ids' \ ids, "INITIAL")
      BY <1>2, <2>3 DEF SelectDefaultDataPath
    <3> QED
      BY <2>1, <3>1, PathAdded, RulesAssumption
  <2> QED
    BY <2>2, <2>3
<1>3. ASSUME NoDefaultPath \/ ActivateUPFSession PROVE RulesInv'
  BY <1>1, <1>3
  DEF NoDefaultPath, ActivateUPFSession, SendAll, pathVars, anVars, upfVars, assocVars,
      RulesInv, RulesTyped
<1>4. ASSUME AllAnswered PROVE RulesInv'
  <2>1. /\ ids' = ids \ FreedRules(toRemove) /\ qer' = Unpooled(toRemove)
        /\ paths' = Deactivated(toRemove) /\ pool' = pool \ toRemove
        /\ pc' # "released" /\ pc \notin {"gone", "released"}
        /\ UNCHANGED <<st, urr, req, lastAn, assoc, lost, up>>
    BY <1>4 DEF AllAnswered, PostRemoveDataPath, anVars, upfVars, assocVars
  <2>2. up' = [u \in UPFs |-> up'[u]]
    BY <2>1 DEF RulesInv, RulesTyped
  <2> QED
    BY <2>1, <2>2, PathsFreed
<1>5. ASSUME NEW ok \in SUBSET UPFs, NEW n1 \in BOOLEAN, Release(ok, n1) PROVE RulesInv'
  <2> DEFINE R == IF n1 THEN pool \cap toRemove ELSE {}
  <2>1. /\ ids' = ids \ FreedRules(pool) /\ qer' = Unpooled(pool)
        /\ paths' = Deactivated(pool) /\ pool' = pool \ R
        /\ up' = [u \in UPFs |-> IF u \in ok THEN Empty ELSE up[u]]
        /\ pc = "idle" /\ UNCHANGED <<st, urr, req, lastAn, assoc, lost>>
    BY <1>5 DEF Release, anVars, assocVars
  <2>2. R \subseteq pool
    OBVIOUS
  <2>3. /\ \A u \in UPFs : up'[u] \in {up[u], Empty}
        /\ up' = [u \in UPFs |-> up'[u]]
    BY <2>1
  <2> HIDE DEF R
  <2> QED
    BY <2>1, <2>2, <2>3, PathsFreed
<1>6. ASSUME NEW u \in UPFs, LoseUpf(u) \/ Reassociate(u) PROVE RulesInv'
  <2>1. /\ UNCHANGED <<paths, ids, qer, urr, up, pool, lastAn, st, pc, req>>
        /\ assoc' \subseteq UPFs /\ UPFs \ assoc' \subseteq lost' /\ lost \subseteq lost'
    BY <1>6 DEF LoseUpf, Reassociate, pathVars, anVars, upfVars, RulesInv, RulesTyped
  <2> QED
    BY <1>1, <2>1
<1>7. CASE UNCHANGED vars
  <2>1. UNCHANGED <<paths, ids, qer, urr, up, pool, lastAn, st, pc, req, assoc, lost>>
    BY <1>7 DEF vars, pathVars, anVars, upfVars, assocVars
  <2> QED
    BY <1>1, <2>1 DEF RulesInv, RulesTyped
<1>8. ASSUME NEW b \in {"create", "notify", "uemod"}, NEW del, NEW put, NEW mod, NEW drop,
             Classify(b, del, put, mod, drop)
      PROVE RulesInv'
  <2>1. \E b1, del1, put1, mod1, drop1 : Classify(b1, del1, put1, mod1, drop1)
    BY <1>8
  <2> QED
    BY <2>1, DecisionKeeps
<1>9. ASSUME NEW b \in {"create", "notify", "uemod"}, NEW del, ClassifyFails(b, del)
      PROVE RulesInv'
  <2>1. \E b1, del1 : b1 \in {"create", "notify", "uemod"} /\ ClassifyFails(b1, del1)
    BY <1>9
  <2> QED
    BY <2>1, DecisionKeeps
<1>10. ASSUME NEW r \in Rules, NoDataPath(r) PROVE RulesInv'
  BY <1>10, DecisionKeeps
<1>11. ASSUME NEW r \in Rules, NEW w \in RoutesOf[r], NEW flow \in BOOLEAN, ProcessRule(r, w, flow)
       PROVE RulesInv'
  BY <1>11, DecisionKeeps
<1>12. CASE Commit
  BY <1>12, DecisionKeeps
<1>13. ASSUME NEW u \in UPFs, Accepted(u) \/ Fails(u) \/ NotAssociated(u) PROVE RulesInv'
  BY <1>13, ExchangeKeeps
<1>14. CASE SetupResponse \/ PathSwitchRequest \/ Deactivate \/ HandoverCompleted
  BY <1>14, DownlinkKeeps
<1>15. ASSUME NEW indirect \in BOOLEAN, HandoverPrepared(indirect) PROVE RulesInv'
  BY <1>15, DownlinkKeeps
<1>16. CASE Next
  BY <1>16, <1>2, <1>3, <1>4, <1>5, <1>6, <1>8, <1>9, <1>10, <1>11, <1>12, <1>13, <1>14, <1>15
  DEF Next
<1> QED
  BY <1>7, <1>16

\* The initial state has no rules.
LEMMA InitRules == Init => RulesInv
<1> SUFFICES ASSUME Init PROVE RulesInv
  OBVIOUS
<1>1. /\ DOMAIN st = {} /\ DOMAIN req = {} /\ DOMAIN qer = {} /\ Len(paths) = 0
      /\ DOMAIN paths = {}
  BY DEF Init
<1>2. up \in [UPFs -> Contents] /\ paths \in Seq(PathRecords)
  BY DEF Init, Empty, Contents
<1>3. RulesTyped
  BY <1>1, <1>2 DEF Init, RulesTyped
<1> QED
  BY <1>3 DEF Init, RulesInv, IdsAccounted, InitialNotSent, Empty

\* Whatever fails, the PDR and FAR identifiers that a UPF has given away are those of
\* the session's paths, and none after its release, if the UPF never lost its
\* association and the creation was not rejected.
THEOREM IdsSafe == Spec => []IdsAccounted
<1>1. RulesInv => IdsAccounted
  BY DEF RulesInv
<1> QED
  BY <1>1, InitRules, RulesStep, PTL DEF Spec

\* Whatever is refused or lost, a rule that is still to be created is at no UPF.
THEOREM CreatedOnce == Spec => []InitialNotSent
<1>1. RulesInv => InitialNotSent
  BY DEF RulesInv
<1> QED
  BY <1>1, InitRules, RulesStep, PTL DEF Spec
=============================================================================
