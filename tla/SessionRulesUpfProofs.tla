----------------------- MODULE SessionRulesUpfProofs -----------------------
(* Proofs about SessionRules for every number of UPFs, rules, paths,       *)
(* requests and faults: as long as every change was sent and acknowledged, *)
(* the UPFs have the rules of the activated paths with all that they refer *)
(* to, and the downlink leads to the UE.                                   *)
EXTENDS SessionRulesPathProofs

-----------------------------------------------------------------------------
(* QERs and URRs *)

\* Path p runs where it ran, for the same rule and with the same QERs and URRs.
SamePath(p) ==
  /\ paths'[p].ups = paths[p].ups /\ paths'[p].def = paths[p].def
  /\ paths'[p].rule = paths[p].rule
  /\ paths'[p].qers = paths[p].qers /\ paths'[p].urrs = paths[p].urrs

\* No step changes a path that has been made, but that it may be deactivated.
LEMMA PathsKeep ==
  ASSUME TypeInv, [Next]_vars
  PROVE  \A p \in DOMAIN paths : p \in DOMAIN paths' /\ SamePath(p)
<1>0. DOMAIN paths = 1..Len(paths) /\ Len(paths) \in Nat
  BY DEF TypeInv, RulesInv, RulesTyped
<1>1. ASSUME NEW b \in Deciders, NEW del \in SUBSET Rules,
             NEW put \in SUBSET Rules, NEW mod \in SUBSET Rules, NEW drop \in SUBSET del,
             Classify(b, del, put, mod, drop)
      PROVE  \A p \in DOMAIN paths : p \in DOMAIN paths' /\ SamePath(p)
  BY <1>1 DEF Classify, SamePath
<1>2. ASSUME NEW b \in Deciders, NEW del \in SUBSET Rules,
             ClassifyFails(b, del)
      PROVE  \A p \in DOMAIN paths : p \in DOMAIN paths' /\ SamePath(p)
  BY <1>2 DEF ClassifyFails, SamePath
<1>3. ASSUME NEW r \in Rules,
             NoDataPath(r)
      PROVE  \A p \in DOMAIN paths : p \in DOMAIN paths' /\ SamePath(p)
  BY <1>3 DEF NoDataPath, SamePath
<1>4. ASSUME NEW r \in Rules, NEW w \in RoutesOf[r], NEW flow \in BOOLEAN,
             ProcessRule(r, w, flow)
      PROVE  \A p \in DOMAIN paths : p \in DOMAIN paths' /\ SamePath(p)
  BY <1>0, <1>4, RulePath DEF PathMade, SamePath
<1>5. ASSUME Commit
      PROVE  \A p \in DOMAIN paths : p \in DOMAIN paths' /\ SamePath(p)
  BY <1>5 DEF Commit, pathVars, SamePath
<1>6. ASSUME SelectDefaultDataPath
      PROVE  \A p \in DOMAIN paths : p \in DOMAIN paths' /\ SamePath(p)
  <2>1. UNCHANGED paths \/ PathMade(DefaultRoute, TRUE, None)
    BY <1>6, DefaultPath DEF pathVars
  <2> QED
    BY <1>0, <2>1 DEF PathMade, SamePath
<1>7. ASSUME NoDefaultPath
      PROVE  \A p \in DOMAIN paths : p \in DOMAIN paths' /\ SamePath(p)
  BY <1>7 DEF NoDefaultPath, pathVars, SamePath
<1>8. ASSUME ActivateUPFSession
      PROVE  \A p \in DOMAIN paths : p \in DOMAIN paths' /\ SamePath(p)
  BY <1>8 DEF ActivateUPFSession, pathVars, SamePath
<1>9. ASSUME NEW v \in UPFs,
             Accepted(v)
      PROVE  \A p \in DOMAIN paths : p \in DOMAIN paths' /\ SamePath(p)
  BY <1>9 DEF Accepted, Exchange, SamePath
<1>10. ASSUME NEW v \in UPFs,
              Fails(v)
       PROVE  \A p \in DOMAIN paths : p \in DOMAIN paths' /\ SamePath(p)
  BY <1>10 DEF Fails, Exchange, SamePath
<1>11. ASSUME NEW v \in UPFs,
              NotAssociated(v)
       PROVE  \A p \in DOMAIN paths : p \in DOMAIN paths' /\ SamePath(p)
  BY <1>11 DEF NotAssociated, Exchange, SamePath
<1>12. ASSUME AllAnswered
       PROVE  \A p \in DOMAIN paths : p \in DOMAIN paths' /\ SamePath(p)
  <2>1. paths' = Deactivated(toRemove) /\ DOMAIN paths' = DOMAIN paths
    BY <1>12 DEF AllAnswered, PostRemoveDataPath, Deactivated
  <2> QED
    BY <2>1, DeactivatedKeeps DEF TypeInv, SamePath
<1>13. ASSUME SetupResponse
       PROVE  \A p \in DOMAIN paths : p \in DOMAIN paths' /\ SamePath(p)
  BY <1>13 DEF SetupResponse, SamePath
<1>14. ASSUME PathSwitchRequest
       PROVE  \A p \in DOMAIN paths : p \in DOMAIN paths' /\ SamePath(p)
  BY <1>14 DEF PathSwitchRequest, SamePath
<1>15. ASSUME Deactivate
       PROVE  \A p \in DOMAIN paths : p \in DOMAIN paths' /\ SamePath(p)
  BY <1>15 DEF Deactivate, SamePath
<1>16. ASSUME NEW indirect \in BOOLEAN,
              HandoverPrepared(indirect)
       PROVE  \A p \in DOMAIN paths : p \in DOMAIN paths' /\ SamePath(p)
  BY <1>16 DEF HandoverPrepared, SamePath
<1>17. ASSUME HandoverCompleted
       PROVE  \A p \in DOMAIN paths : p \in DOMAIN paths' /\ SamePath(p)
  BY <1>17 DEF HandoverCompleted, SamePath
<1>18. ASSUME NEW ok \in SUBSET UPFs, NEW n1 \in BOOLEAN,
              Release(ok, n1)
       PROVE  \A p \in DOMAIN paths : p \in DOMAIN paths' /\ SamePath(p)
  <2>1. paths' = Deactivated(pool) /\ DOMAIN paths' = DOMAIN paths
    BY <1>18 DEF Release, Deactivated
  <2> QED
    BY <2>1, DeactivatedKeeps DEF TypeInv, SamePath
<1>19. ASSUME NEW v \in UPFs,
              LoseUpf(v)
       PROVE  \A p \in DOMAIN paths : p \in DOMAIN paths' /\ SamePath(p)
  BY <1>19 DEF LoseUpf, pathVars, SamePath
<1>20. ASSUME NEW v \in UPFs,
              Reassociate(v)
       PROVE  \A p \in DOMAIN paths : p \in DOMAIN paths' /\ SamePath(p)
  BY <1>20 DEF Reassociate, pathVars, SamePath
<1>21. CASE UNCHANGED vars
  BY <1>21 DEF vars, pathVars, SamePath
<1>22. CASE Next
  BY Steps, <1>1, <1>2, <1>3, <1>4, <1>5, <1>6, <1>7, <1>8, <1>9, <1>10,
     <1>11, <1>12, <1>13, <1>14, <1>15, <1>16, <1>17, <1>18, <1>19, <1>20,
     <1>22
<1> QED
  BY <1>21, <1>22

\* A change that was not acknowledged stays so, and no session comes back.
LEMMA OpenBefore ==
  ASSUME [Next]_vars
  PROVE  (clean' => clean) /\ (Open' => Open)
<1> USE DEF Open
<1>1. ASSUME NEW b \in Deciders, NEW del \in SUBSET Rules,
             NEW put \in SUBSET Rules, NEW mod \in SUBSET Rules, NEW drop \in SUBSET del,
             Classify(b, del, put, mod, drop)
      PROVE  (clean' => clean) /\ (Open' => Open)
  BY <1>1 DEF Classify, Decides
<1>2. ASSUME NEW b \in Deciders, NEW del \in SUBSET Rules,
             ClassifyFails(b, del)
      PROVE  (clean' => clean) /\ (Open' => Open)
  BY <1>2 DEF ClassifyFails, Decides, GiveUp
<1>3. ASSUME NEW r \in Rules,
             NoDataPath(r)
      PROVE  (clean' => clean) /\ (Open' => Open)
  BY <1>3 DEF NoDataPath, StartRule, GiveUp
<1>4. ASSUME NEW r \in Rules, NEW w \in RoutesOf[r], NEW flow \in BOOLEAN,
             ProcessRule(r, w, flow)
      PROVE  (clean' => clean) /\ (Open' => Open)
  BY <1>4 DEF ProcessRule, StartRule, GiveUp, Panic
<1>5. ASSUME Commit PROVE (clean' => clean) /\ (Open' => Open)
  <2>1. \/ clean' = clean
        \/ clean' = (clean /\ \A y \in DOMAIN st : y[1] \in Active => st[y] \notin {"INITIAL", "REMOVE"})
    BY <1>5 DEF Commit, SendAll
  <2>2. pc = "apply"
    BY <1>5 DEF Commit
  <2>3. CASE clean' = clean
    BY <2>2, <2>3
  <2>4. CASE clean' = (clean /\ \A y \in DOMAIN st : y[1] \in Active => st[y] \notin {"INITIAL", "REMOVE"})
    <3>1. ASSUME clean' PROVE clean
      BY <2>4, <3>1
    <3> QED
      BY <2>2, <3>1
  <2> QED
    BY <2>1, <2>3, <2>4
<1>6. ASSUME SelectDefaultDataPath
      PROVE  (clean' => clean) /\ (Open' => Open)
  BY <1>6 DEF SelectDefaultDataPath
<1>7. ASSUME NoDefaultPath PROVE (clean' => clean) /\ (Open' => Open)
  BY <1>7 DEF NoDefaultPath
<1>8. ASSUME ActivateUPFSession
      PROVE  (clean' => clean) /\ (Open' => Open)
  BY <1>8 DEF ActivateUPFSession, SendAll
<1>9. ASSUME NEW v \in UPFs,
             Accepted(v)
      PROVE  (clean' => clean) /\ (Open' => Open)
  BY <1>9 DEF Accepted, Exchange
<1>10. ASSUME NEW v \in UPFs,
              Fails(v)
       PROVE  (clean' => clean) /\ (Open' => Open)
  BY <1>10 DEF Fails, Exchange
<1>11. ASSUME NEW v \in UPFs,
              NotAssociated(v)
       PROVE  (clean' => clean) /\ (Open' => Open)
  BY <1>11 DEF NotAssociated, Exchange
<1>12. ASSUME AllAnswered PROVE (clean' => clean) /\ (Open' => Open)
  BY <1>12 DEF AllAnswered
<1>13. ASSUME SetupResponse PROVE (clean' => clean) /\ (Open' => Open)
  BY <1>13 DEF SetupResponse, NewAn, UpdateAnUpf
<1>14. ASSUME PathSwitchRequest
       PROVE  (clean' => clean) /\ (Open' => Open)
  BY <1>14 DEF PathSwitchRequest, NewAn, UpdateAnUpf
<1>15. ASSUME Deactivate PROVE (clean' => clean) /\ (Open' => Open)
  BY <1>15 DEF Deactivate, UpdateAnUpf
<1>16. ASSUME NEW indirect \in BOOLEAN,
              HandoverPrepared(indirect)
       PROVE  (clean' => clean) /\ (Open' => Open)
  BY <1>16 DEF HandoverPrepared, NewAn
<1>17. ASSUME HandoverCompleted
       PROVE  (clean' => clean) /\ (Open' => Open)
  BY <1>17 DEF HandoverCompleted, UpdateAnUpf
<1>18. ASSUME NEW ok \in SUBSET UPFs, NEW n1 \in BOOLEAN,
              Release(ok, n1)
       PROVE  (clean' => clean) /\ (Open' => Open)
  BY <1>18 DEF Release
<1>19. ASSUME NEW v \in UPFs,
              LoseUpf(v)
       PROVE  (clean' => clean) /\ (Open' => Open)
  BY <1>19 DEF LoseUpf
<1>20. ASSUME NEW v \in UPFs,
              Reassociate(v)
       PROVE  (clean' => clean) /\ (Open' => Open)
  BY <1>20 DEF Reassociate
<1>21. CASE UNCHANGED vars
  BY <1>21 DEF vars
<1> HIDE DEF Open
<1>22. CASE Next
  BY Steps, <1>1, <1>2, <1>3, <1>4, <1>5, <1>6, <1>7, <1>8, <1>9, <1>10,
     <1>11, <1>12, <1>13, <1>14, <1>15, <1>16, <1>17, <1>18, <1>19, <1>20,
     <1>22
<1> QED
  BY <1>21, <1>22

\* A UPF without a session holds nothing.  What is not to be created any more is
\* at its UPF, as long as every change was sent and acknowledged.
SeidOk == clean => \A u \in UPFs \ seid : up[u] = Empty
QerOk == Open => \A q \in DOMAIN qer : qer[q].st # "INITIAL" => q \in up[q[1]].qers
UrrOk == Open => \A q \in DOMAIN urr : urr[q] # "INITIAL" => q \in up[q[1]].urrs
RefInv == PathInv /\ SeidOk /\ QerOk /\ UrrOk /\ RefsKnown

\* Steps after which the UPFs hold what they held, or nothing at all.
LEMMA RefsStay ==
  ASSUME RefInv, [Next]_vars, seid' = seid,
         clean' => \A u \in UPFs : up'[u] \in {up[u], Empty},
         Open' => /\ up' = up
                  /\ \A q \in DOMAIN qer' : \/ q \in DOMAIN qer /\ qer'[q].st = qer[q].st
                                            \/ qer'[q].st = "INITIAL"
                  /\ \A q \in DOMAIN urr' : \/ q \in DOMAIN urr /\ urr'[q] = urr[q]
                                            \/ urr'[q] = "INITIAL"
  PROVE  SeidOk' /\ QerOk' /\ UrrOk' /\ RefsKnown'
<1>1. (clean' => clean) /\ (Open' => Open)
  BY OpenBefore
<1>2. \A p \in DOMAIN paths : p \in DOMAIN paths' /\ SamePath(p)
  BY PathsKeep DEF RefInv, PathInv
<1>3. SeidOk' /\ QerOk' /\ UrrOk'
  BY <1>1 DEF RefInv, SeidOk, QerOk, UrrOk, Empty
<1>4. RefsKnown'
  <2> SUFFICES ASSUME clean', NEW u \in UPFs, NEW x \in up'[u].rules, x[4] = "pdr", x[1] > 0
               PROVE  /\ {q \in paths'[x[1]].qers : q[1] = u} \subseteq up'[u].qers
                      /\ {q \in paths'[x[1]].urrs : q[1] = u} \subseteq up'[u].urrs
    BY DEF RefsKnown
  <2>1. up'[u] = up[u]
    BY DEF Empty
  <2>2. x \in DOMAIN st /\ Made(x) /\ lastAn \in Nat
    BY <2>1 DEF RefInv, PathInv, TypeInv, RulesInv, RulesTyped, Contents
  <2>3. x[1] \in DOMAIN paths
    <3>1. DOMAIN paths = 1..Len(paths) /\ Len(paths) \in Nat
      BY DEF RefInv, PathInv, TypeInv, RulesInv, RulesTyped
    <3>2. x[1] \in Int
      BY <2>2 DEF RefInv, PathInv, TypeInv, RuleTyped, RuleIds, PathIds
    <3> QED
      BY <2>2, <3>1, <3>2 DEF Made
  <2>4. /\ {q \in paths[x[1]].qers : q[1] = u} \subseteq up[u].qers
        /\ {q \in paths[x[1]].urrs : q[1] = u} \subseteq up[u].urrs
    BY <1>1, <2>1 DEF RefInv, RefsKnown
  <2> QED
    BY <1>2, <2>1, <2>3, <2>4 DEF SamePath
<1> QED
  BY <1>3, <1>4

\* What a UPF holds after it has accepted a request, in order.
LEMMA Answered ==
  ASSUME PathInv, SeidOk, NEW v \in UPFs, Accepted(v), clean'
  PROVE  /\ Open /\ clean /\ v \in DOMAIN req /\ pc \in {"send", "an"}
         /\ UNCHANGED <<pc, paths, pool, toRemove, pcc, final, anVars, ids>>
         /\ req' = Without(req, v)
         /\ seid \subseteq seid' /\ v \in seid' /\ (pc = "an" => v \in seid)
         /\ up'[v].rules = (up[v].rules \ Removed(v)) \cup InState(v, "INITIAL")
         /\ up'[v].qers = up[v].qers \cup NewQers(v)
         /\ up'[v].urrs = up[v].urrs \cup NewUrrs(v)
         /\ \A u \in UPFs : u # v => up'[u] = up[u]
<1>1. /\ Open /\ clean /\ v \in DOMAIN req /\ pc \in {"send", "an"}
      /\ UNCHANGED <<pc, paths, pool, toRemove, pcc, final, anVars, ids>>
      /\ req' = Without(req, v) /\ Applied(v)
      /\ seid' = IF Establishes(v) THEN seid \cup {v} ELSE seid
  BY DEF Accepted, Exchange, Open, decVars
<1>2. pc = "an" => v \in seid
  BY <1>1 DEF PathInv, AllReq, ReqOk
<1>3. Establishes(v) => up[v] = Empty
  BY <1>1 DEF Establishes, SeidOk
<1>4. up'[v] = [rules |-> (up[v].rules \ Removed(v)) \cup InState(v, "INITIAL"),
                qers |-> up[v].qers \cup NewQers(v), urrs |-> up[v].urrs \cup NewUrrs(v)]
      /\ \A u \in UPFs : u # v => up'[u] = up[u]
  <2>1. up \in [UPFs -> Contents]
    BY DEF PathInv, TypeInv, RulesInv, RulesTyped
  <2>2. (IF Establishes(v) THEN Empty ELSE up[v]) = up[v]
    BY <1>3
  <2> QED
    BY <1>1, <2>1, <2>2 DEF Applied
<1> QED
  BY <1>1, <1>2, <1>4 DEF Establishes

\* A request goes to a UPF with everything new that its PDRs refer to.
LEMMA AnswerKnown ==
  ASSUME RefInv, NEW v \in UPFs, Accepted(v)
  PROVE  SeidOk' /\ QerOk' /\ UrrOk' /\ RefsKnown'
<1> SUFFICES ASSUME clean' PROVE SeidOk' /\ QerOk' /\ UrrOk' /\ RefsKnown'
  BY DEF SeidOk, QerOk, UrrOk, RefsKnown, Open
<1>1. /\ Open /\ clean /\ v \in DOMAIN req /\ pc \in {"send", "an"} /\ UNCHANGED paths
      /\ seid \subseteq seid' /\ v \in seid'
      /\ up'[v].rules = (up[v].rules \ Removed(v)) \cup InState(v, "INITIAL")
      /\ up'[v].qers = up[v].qers \cup NewQers(v)
      /\ up'[v].urrs = up[v].urrs \cup NewUrrs(v)
      /\ \A u \in UPFs : u # v => up'[u] = up[u]
  BY Answered DEF RefInv
<1>2. /\ qer' = [x \in DOMAIN qer |-> IF x \in QersAt(v) THEN [qer[x] EXCEPT !.st = "CREATE"]
                                      ELSE qer[x]]
      /\ urr' = Set(urr, UrrsAt(v), "CREATE")
  BY DEF Accepted, Build
<1>3. /\ \A p \in DOMAIN paths : paths[p].qers \subseteq DOMAIN qer /\ paths[p].urrs \subseteq DOMAIN urr
      /\ \A q \in DOMAIN qer : q[1] \in UPFs
      /\ \A q \in DOMAIN urr : q[1] \in UPFs
      /\ Active \subseteq DOMAIN paths
  BY RefsMade, DownlinkIds DEF RefInv, PathInv, TypeInv, QerTyped, QerIds, UrrIds
<1>4. /\ \A q \in QersAt(v) : q \in DOMAIN qer /\ q[1] = v
      /\ \A q \in UrrsAt(v) : q \in DOMAIN urr /\ q[1] = v
  BY <1>3 DEF QersAt, UrrsAt
<1>5. /\ \A q \in DOMAIN qer : qer[q].st # "INITIAL" => q \in up[q[1]].qers
      /\ \A q \in DOMAIN urr : urr[q] # "INITIAL" => q \in up[q[1]].urrs
  BY <1>1 DEF RefInv, QerOk, UrrOk
<1>6. QersAt(v) \subseteq up'[v].qers /\ UrrsAt(v) \subseteq up'[v].urrs
  BY <1>1, <1>4, <1>5 DEF NewQers, NewUrrs
<1>7. \A u \in UPFs : up[u].qers \subseteq up'[u].qers /\ up[u].urrs \subseteq up'[u].urrs
  BY <1>1
<1>8. SeidOk'
  BY <1>1 DEF RefInv, SeidOk
<1>9. QerOk'
  BY <1>2, <1>3, <1>4, <1>5, <1>6, <1>7 DEF QerOk
<1>10. UrrOk'
  <2>1. ASSUME NEW q \in DOMAIN urr', urr'[q] # "INITIAL" PROVE q \in up'[q[1]].urrs
    <3>1. q \in DOMAIN urr
      BY <1>2, <1>4, <2>1 DEF Set
    <3>2. q \in UrrsAt(v) \/ urr[q] = urr'[q]
      BY <1>2, <2>1 DEF Set
    <3> QED
      BY <1>3, <1>4, <1>5, <1>6, <1>7, <2>1, <3>1, <3>2
  <2> QED
    BY <2>1 DEF UrrOk
<1>11. RefsKnown'
  <2> SUFFICES ASSUME NEW u \in UPFs, NEW x \in up'[u].rules, x[4] = "pdr", x[1] > 0
               PROVE  /\ {q \in paths[x[1]].qers : q[1] = u} \subseteq up'[u].qers
                      /\ {q \in paths[x[1]].urrs : q[1] = u} \subseteq up'[u].urrs
    BY <1>1 DEF RefsKnown
  <2>1. CASE x \in up[u].rules
    <3>1. /\ {q \in paths[x[1]].qers : q[1] = u} \subseteq up[u].qers
          /\ {q \in paths[x[1]].urrs : q[1] = u} \subseteq up[u].urrs
      BY <1>1, <2>1 DEF RefInv, RefsKnown
    <3> QED
      BY <1>7, <3>1
  <2>2. CASE x \notin up[u].rules
    <3>1. u = v /\ x \in req[v] /\ st[x] = "INITIAL"
      BY <1>1, <2>2 DEF InState
    <3>2. pc = "send" /\ x[1] \in pool
      <4>1. ReqOk(v)
        BY DEF RefInv, PathInv, AllReq
      <4>2. pc = "an" => x[1] = -fwd /\ fwd \in Nat
        BY <1>1, <3>1, <4>1 DEF ReqOk, Forwards, RefInv, PathInv, TypeInv, AnTyped
      <4> QED
        BY <1>1, <3>1, <4>1, <4>2 DEF ReqOk
    <3>3. x[1] \in Active
      BY <1>1, <3>2, PoolActive DEF RefInv
    <3>4. /\ {q \in paths[x[1]].qers : q[1] = u} \subseteq QersAt(v)
          /\ {q \in paths[x[1]].urrs : q[1] = u} \subseteq UrrsAt(v)
      BY <3>1, <3>2, <3>3 DEF QersAt, UrrsAt
    <3> QED
      BY <1>6, <3>1, <3>4
  <2> QED
    BY <2>1, <2>2
<1> QED
  BY <1>8, <1>9, <1>10, <1>11

\* Every step keeps what the UPFs know in order.
LEMMA RefStep ==
  ASSUME RefInv, [Next]_vars
  PROVE  SeidOk' /\ QerOk' /\ UrrOk' /\ RefsKnown'
<1>t. TypeInv
  BY DEF RefInv, PathInv
<1>1. ASSUME NEW b \in Deciders, NEW del \in SUBSET Rules,
             NEW put \in SUBSET Rules, NEW mod \in SUBSET Rules, NEW drop \in SUBSET del,
             Classify(b, del, put, mod, drop)
      PROVE  SeidOk' /\ QerOk' /\ UrrOk' /\ RefsKnown'
  BY <1>1, RefsStay DEF Classify, upfVars
<1>2. ASSUME NEW b \in Deciders, NEW del \in SUBSET Rules,
             ClassifyFails(b, del)
      PROVE  SeidOk' /\ QerOk' /\ UrrOk' /\ RefsKnown'
  BY <1>2, RefsStay DEF ClassifyFails, upfVars
<1>3. ASSUME NEW r \in Rules,
             NoDataPath(r)
      PROVE  SeidOk' /\ QerOk' /\ UrrOk' /\ RefsKnown'
  BY <1>3, RefsStay DEF NoDataPath, upfVars
<1>4. ASSUME NEW r \in Rules, NEW w \in RoutesOf[r], NEW flow \in BOOLEAN,
             ProcessRule(r, w, flow)
      PROVE  SeidOk' /\ QerOk' /\ UrrOk' /\ RefsKnown'
  <2>1. UNCHANGED <<seid, up>>
    BY <1>4 DEF ProcessRule, upfVars
  <2> QED
    BY <1>t, <1>4, <2>1, RulePath, RefsStay DEF PathMade
<1>5. ASSUME Commit PROVE SeidOk' /\ QerOk' /\ UrrOk' /\ RefsKnown'
  BY <1>5, RefsStay DEF Commit, pathVars, upfVars
<1>6. ASSUME SelectDefaultDataPath
      PROVE  SeidOk' /\ QerOk' /\ UrrOk' /\ RefsKnown'
  <2>1. UNCHANGED <<seid, up>>
    BY <1>6 DEF SelectDefaultDataPath, upfVars
  <2>2. CASE UNCHANGED pathVars
    BY <2>1, <2>2, RefsStay DEF pathVars
  <2>3. CASE PathMade(DefaultRoute, TRUE, None)
    BY <2>1, <2>3, RefsStay DEF PathMade
  <2> QED
    BY <1>t, <1>6, <2>2, <2>3, DefaultPath
<1>7. ASSUME NoDefaultPath
      PROVE  SeidOk' /\ QerOk' /\ UrrOk' /\ RefsKnown'
  BY <1>7, RefsStay DEF NoDefaultPath, pathVars, upfVars
<1>8. ASSUME ActivateUPFSession
      PROVE  SeidOk' /\ QerOk' /\ UrrOk' /\ RefsKnown'
  BY <1>8, RefsStay DEF ActivateUPFSession, pathVars, upfVars
<1>9. ASSUME NEW v \in UPFs,
             Accepted(v)
      PROVE  SeidOk' /\ QerOk' /\ UrrOk' /\ RefsKnown'
  BY <1>9, AnswerKnown
<1>10. ASSUME NEW v \in UPFs,
              Fails(v)
       PROVE  SeidOk' /\ QerOk' /\ UrrOk' /\ RefsKnown'
  BY <1>10 DEF Fails, Open, SeidOk, QerOk, UrrOk, RefsKnown
<1>11. ASSUME NEW v \in UPFs,
              NotAssociated(v)
       PROVE  SeidOk' /\ QerOk' /\ UrrOk' /\ RefsKnown'
  BY <1>11, RefsStay DEF NotAssociated, upfVars
<1>12. ASSUME AllAnswered PROVE SeidOk' /\ QerOk' /\ UrrOk' /\ RefsKnown'
  <2>1. /\ UNCHANGED <<seid, up, urr>> /\ qer' = Unpooled(toRemove)
    BY <1>12 DEF AllAnswered, PostRemoveDataPath, upfVars
  <2>2. DOMAIN qer' = DOMAIN qer /\ \A q \in DOMAIN qer : qer'[q].st = qer[q].st
    BY <1>t, <2>1, UnpooledQers DEF TypeInv, RulesInv
  <2> QED
    BY <2>1, <2>2, RefsStay
<1>13. ASSUME SetupResponse
       PROVE  SeidOk' /\ QerOk' /\ UrrOk' /\ RefsKnown'
  BY <1>13, RefsStay DEF SetupResponse, upfVars
<1>14. ASSUME PathSwitchRequest
       PROVE  SeidOk' /\ QerOk' /\ UrrOk' /\ RefsKnown'
  BY <1>14, RefsStay DEF PathSwitchRequest, upfVars
<1>15. ASSUME Deactivate PROVE SeidOk' /\ QerOk' /\ UrrOk' /\ RefsKnown'
  BY <1>15, RefsStay DEF Deactivate, upfVars
<1>16. ASSUME NEW indirect \in BOOLEAN,
              HandoverPrepared(indirect)
       PROVE  SeidOk' /\ QerOk' /\ UrrOk' /\ RefsKnown'
  BY <1>16, RefsStay DEF HandoverPrepared, upfVars
<1>17. ASSUME HandoverCompleted
       PROVE  SeidOk' /\ QerOk' /\ UrrOk' /\ RefsKnown'
  BY <1>17, RefsStay DEF HandoverCompleted, upfVars
<1>18. ASSUME NEW ok \in SUBSET UPFs, NEW n1 \in BOOLEAN,
              Release(ok, n1)
       PROVE  SeidOk' /\ QerOk' /\ UrrOk' /\ RefsKnown'
  <2>1. /\ seid' = seid /\ ~Open' /\ \A u \in UPFs : up'[u] \in {up[u], Empty}
    BY <1>18 DEF Release, Open
  <2> QED
    BY <2>1, RefsStay
<1>19. ASSUME NEW v \in UPFs,
              LoseUpf(v)
       PROVE  SeidOk' /\ QerOk' /\ UrrOk' /\ RefsKnown'
  BY <1>19, RefsStay DEF LoseUpf, pathVars, upfVars
<1>20. ASSUME NEW v \in UPFs,
              Reassociate(v)
       PROVE  SeidOk' /\ QerOk' /\ UrrOk' /\ RefsKnown'
  BY <1>20, RefsStay DEF Reassociate, pathVars, upfVars
<1>21. CASE UNCHANGED vars
  BY <1>21, RefsStay DEF vars, pathVars, upfVars
<1>22. CASE Next
  BY Steps, <1>1, <1>2, <1>3, <1>4, <1>5, <1>6, <1>7, <1>8, <1>9, <1>10,
     <1>11, <1>12, <1>13, <1>14, <1>15, <1>16, <1>17, <1>18, <1>19, <1>20,
     <1>22
<1> QED
  BY <1>21, <1>22

LEMMA RefInvariance == Spec => []RefInv
<1>1. Init => RefInv
  <2> SUFFICES ASSUME Init PROVE RefInv
    OBVIOUS
  <2>1. up = [u \in UPFs |-> Empty] /\ DOMAIN qer = {} /\ DOMAIN urr = {}
    BY DEF Init
  <2>2. SeidOk /\ QerOk /\ UrrOk /\ RefsKnown
    BY <2>1 DEF SeidOk, QerOk, UrrOk, RefsKnown, Empty
  <2> QED
    BY <2>2, InitPaths DEF RefInv
<1>2. RefInv /\ [Next]_vars => RefInv'
  BY PathNext, RefStep DEF RefInv
<1> QED
  BY <1>1, <1>2, PTL DEF Spec

\* QERs and URRs: as long as every change was sent and acknowledged, those that a
\* PDR at a UPF refers to are there too, although paths share them.
THEOREM RefsSafe == Spec => []RefsKnown
  BY RefInvariance, PTL DEF RefInv

-----------------------------------------------------------------------------
(* The downlink *)

\* The downlink of path p leads where the UE is, or to the target of its handover.
Good(p) == /\ ~upFar[p].buff
           /\ upFar[p].an = serving \/ (ho = "prepared" /\ upFar[p].an > serving)

\* The tunnel that paths lead to is the UE's, or the target's that is prepared.
AnTie == connected => an = serving \/ (ho = "prepared" /\ an > serving)

\* The FAR of an activated path leads there.
FarSet(p) ==
  /\ p \notin DOMAIN paths => far[p] = NoFar
  /\ p \in Active => far[p].an = an /\ (connected => ~far[p].buff)

\* The FAR is at its UPF, will not buffer when it is created, or waits to be
\* updated: by the N2 message that is handled, or it is as good as it was.
FarSent(p) == Open /\ p \in pool \ toRemove =>
  /\ st[DlFar(p)] = "CREATE" => upFar[p] = far[p]
  /\ st[DlFar(p)] = "INITIAL" => ~far[p].buff
  /\ st[DlFar(p)] = "UPDATE" => \/ pc = "an" /\ \E u \in DOMAIN req : DlFar(p) \in req[u]
                                \/ connected => Good(p)

AllFar == \A p \in PathIds : FarSet(p) /\ FarSent(p)
FarInv == PathInv /\ AnTie /\ AllFar

\* Every step keeps the tunnels in order.
LEMMA AnTieStep ==
  ASSUME FarInv, [Next]_vars
  PROVE  AnTie'
<1>0. /\ AnTie /\ lastAn \in Nat /\ an \in 0..lastAn /\ serving \in 0..lastAn
  BY DEF FarInv, PathInv, TypeInv, AnTyped
<1> USE DEF AnTie
<1>1. ASSUME NEW b \in Deciders, NEW del \in SUBSET Rules,
             NEW put \in SUBSET Rules, NEW mod \in SUBSET Rules, NEW drop \in SUBSET del,
             Classify(b, del, put, mod, drop)
      PROVE  AnTie'
  BY <1>0, <1>1 DEF Classify, anVars
<1>2. ASSUME NEW b \in Deciders, NEW del \in SUBSET Rules,
             ClassifyFails(b, del)
      PROVE  AnTie'
  BY <1>0, <1>2 DEF ClassifyFails, anVars
<1>3. ASSUME NEW r \in Rules, NoDataPath(r) PROVE AnTie'
  BY <1>0, <1>3 DEF NoDataPath, anVars
<1>4. ASSUME NEW r \in Rules, NEW w \in RoutesOf[r], NEW flow \in BOOLEAN,
             ProcessRule(r, w, flow)
      PROVE  AnTie'
  BY <1>0, <1>4 DEF ProcessRule, anVars
<1>5. ASSUME Commit PROVE AnTie'
  BY <1>0, <1>5 DEF Commit, anVars
<1>6. ASSUME SelectDefaultDataPath PROVE AnTie'
  BY <1>0, <1>6 DEF SelectDefaultDataPath, anVars
<1>7. ASSUME NoDefaultPath PROVE AnTie'
  BY <1>0, <1>7 DEF NoDefaultPath, anVars
<1>8. ASSUME ActivateUPFSession PROVE AnTie'
  BY <1>0, <1>8 DEF ActivateUPFSession, anVars
<1>9. ASSUME NEW v \in UPFs, Accepted(v) PROVE AnTie'
  BY <1>0, <1>9 DEF Accepted, Exchange, anVars
<1>10. ASSUME NEW v \in UPFs, Fails(v) PROVE AnTie'
  BY <1>0, <1>10 DEF Fails, Exchange, anVars
<1>11. ASSUME NEW v \in UPFs, NotAssociated(v) PROVE AnTie'
  BY <1>0, <1>11 DEF NotAssociated, Exchange, anVars
<1>12. ASSUME AllAnswered PROVE AnTie'
  BY <1>0, <1>12 DEF AllAnswered, anVars
<1>13. ASSUME SetupResponse PROVE AnTie'
  BY <1>0, <1>13 DEF SetupResponse
<1>14. ASSUME PathSwitchRequest PROVE AnTie'
  BY <1>0, <1>14 DEF PathSwitchRequest, UpdateANInformation
<1>15. ASSUME Deactivate PROVE AnTie'
  BY <1>0, <1>15 DEF Deactivate, anVars
<1>16. ASSUME NEW indirect \in BOOLEAN,
              HandoverPrepared(indirect)
       PROVE  AnTie'
  BY <1>0, <1>16 DEF HandoverPrepared, NewAn, UpdateANInformation
<1>17. ASSUME HandoverCompleted PROVE AnTie'
  BY <1>0, <1>17 DEF HandoverCompleted, anVars
<1>18. ASSUME NEW ok \in SUBSET UPFs, NEW n1 \in BOOLEAN,
              Release(ok, n1)
       PROVE  AnTie'
  BY <1>0, <1>18 DEF Release, anVars
<1>19. ASSUME NEW v \in UPFs, LoseUpf(v) PROVE AnTie'
  BY <1>0, <1>19 DEF LoseUpf, anVars
<1>20. ASSUME NEW v \in UPFs, Reassociate(v) PROVE AnTie'
  BY <1>0, <1>20 DEF Reassociate, anVars
<1>21. CASE UNCHANGED vars
  BY <1>0, <1>21 DEF vars, anVars
<1> HIDE DEF AnTie
<1>22. CASE Next
  BY Steps, <1>1, <1>2, <1>3, <1>4, <1>5, <1>6, <1>7, <1>8, <1>9, <1>10,
     <1>11, <1>12, <1>13, <1>14, <1>15, <1>16, <1>17, <1>18, <1>19, <1>20,
     <1>22
<1> QED
  BY <1>21, <1>22

\* The FAR of a new path leads to the tunnel that the others lead to.
LEMMA FarMade ==
  ASSUME TypeInv, NEW p \in PathIds, FarSet(p), UNCHANGED <<an, connected>>,
         NEW w, NEW def, NEW r, PathMade(w, def, r)
  PROVE  FarSet(p)'
<1>0. /\ DOMAIN paths = 1..Len(paths) /\ Len(paths) \in Nat /\ pool \subseteq DOMAIN paths
      /\ far \in [PathIds -> Fars]
  BY DEF TypeInv, RulesInv, RulesTyped, AnTyped
<1>1. /\ DOMAIN paths' = 1..(Len(paths) + 1) /\ pool' = pool \cup {Len(paths) + 1}
      /\ \A q \in DOMAIN paths : paths'[q] = paths[q]
      /\ far' = TowardsAn(Len(paths) + 1) /\ Len(paths) + 1 \in PathIds
  BY DEF PathMade
<1>2. far' = [far EXCEPT ![Len(paths) + 1] = [far[Len(paths) + 1] EXCEPT !.an = an]]
  BY <1>1 DEF TowardsAn
<1>3. CASE p = Len(paths) + 1
  <2>1. p \in DOMAIN paths' /\ p \notin DOMAIN paths
    BY <1>0, <1>1, <1>3
  <2>2. far[p] = [an |-> 0, buff |-> FALSE]
    BY <2>1 DEF FarSet, NoFar
  <2>3. far'[p].an = an /\ ~far'[p].buff
    BY <1>0, <1>2, <1>3, <2>2
  <2> QED
    BY <2>1, <2>3 DEF FarSet
<1>4. CASE p # Len(paths) + 1
  <2>1. far'[p] = far[p] /\ (p \in Active' => p \in Active) /\ (p \in DOMAIN paths => p \in DOMAIN paths')
    BY <1>0, <1>1, <1>2, <1>4 DEF Active
  <2> QED
    BY <2>1 DEF FarSet
<1> QED
  BY <1>3, <1>4

\* Every step keeps the FARs towards the AN tunnel.
LEMMA FarSetStep ==
  ASSUME FarInv, [Next]_vars, NEW p \in PathIds
  PROVE  FarSet(p)'
<1>t. TypeInv
  BY DEF FarInv, PathInv
<1>0. /\ FarSet(p) /\ DOMAIN paths = 1..Len(paths) /\ Len(paths) \in Nat
      /\ pool \subseteq DOMAIN paths
      /\ far \in [PathIds -> Fars] /\ connected \in BOOLEAN
  BY <1>t DEF FarInv, AllFar, TypeInv, RulesInv, RulesTyped, AnTyped
<1> USE DEF FarSet, Active
<1>1. ASSUME NEW b \in Deciders, NEW del \in SUBSET Rules,
             NEW put \in SUBSET Rules, NEW mod \in SUBSET Rules, NEW drop \in SUBSET del,
             Classify(b, del, put, mod, drop)
      PROVE  FarSet(p)'
  BY <1>0, <1>1 DEF Classify, anVars
<1>2. ASSUME NEW b \in Deciders, NEW del \in SUBSET Rules,
             ClassifyFails(b, del)
      PROVE  FarSet(p)'
  BY <1>0, <1>2 DEF ClassifyFails, anVars
<1>3. ASSUME NEW r \in Rules, NoDataPath(r) PROVE FarSet(p)'
  BY <1>0, <1>3 DEF NoDataPath, anVars
<1>4. ASSUME NEW r \in Rules, NEW w \in RoutesOf[r], NEW flow \in BOOLEAN,
             ProcessRule(r, w, flow)
      PROVE  FarSet(p)'
  <2>1. UNCHANGED <<an, connected>>
    BY <1>4 DEF ProcessRule
  <2>2. PathMade(w, r = DefaultRule /\ DefaultPaths = {}, r)
    BY <1>t, <1>4, RulePath
  <2> QED
    BY <1>t, <2>1, <2>2, FarMade DEF FarInv, AllFar
<1>5. ASSUME Commit PROVE FarSet(p)'
  BY <1>0, <1>5 DEF Commit, anVars, pathVars
<1>6. ASSUME SelectDefaultDataPath PROVE FarSet(p)'
  <2>1. UNCHANGED <<an, connected>>
    BY <1>6 DEF SelectDefaultDataPath
  <2>2. CASE UNCHANGED <<pathVars, far>>
    BY <1>0, <2>1, <2>2 DEF pathVars
  <2>3. CASE PathMade(DefaultRoute, TRUE, None)
    BY <1>t, <2>1, <2>3, FarMade DEF FarInv, AllFar
  <2> QED
    BY <1>t, <1>6, <2>2, <2>3, DefaultPath
<1>7. ASSUME NoDefaultPath PROVE FarSet(p)'
  BY <1>0, <1>7 DEF NoDefaultPath, anVars, pathVars
<1>8. ASSUME ActivateUPFSession PROVE FarSet(p)'
  BY <1>0, <1>8 DEF ActivateUPFSession, anVars, pathVars
<1>9. ASSUME NEW v \in UPFs, Accepted(v) PROVE FarSet(p)'
  BY <1>0, <1>9 DEF Accepted, Exchange, anVars
<1>10. ASSUME NEW v \in UPFs, Fails(v) PROVE FarSet(p)'
  BY <1>0, <1>10 DEF Fails, Exchange, anVars
<1>11. ASSUME NEW v \in UPFs, NotAssociated(v) PROVE FarSet(p)'
  BY <1>0, <1>11 DEF NotAssociated, Exchange, anVars
<1>12. ASSUME AllAnswered PROVE FarSet(p)'
  <2>1. /\ UNCHANGED anVars /\ pool' \subseteq pool /\ paths' = Deactivated(toRemove)
    BY <1>12 DEF AllAnswered, PostRemoveDataPath
  <2>2. DOMAIN paths' = DOMAIN paths /\ \A q \in DOMAIN paths : paths'[q].act => paths[q].act
    BY <1>t, <2>1, DeactivatedKeeps DEF TypeInv, Deactivated
  <2> QED
    BY <1>0, <2>1, <2>2 DEF anVars
<1>13. ASSUME SetupResponse PROVE FarSet(p)'
  <2>1. /\ UNCHANGED <<paths, pool>> /\ an' = lastAn'
        /\ far' = [q \in PathIds |-> IF q \in Active THEN [an |-> lastAn', buff |-> FALSE] ELSE far[q]]
    BY <1>13 DEF SetupResponse
  <2> QED
    BY <1>0, <2>1
<1>14. ASSUME PathSwitchRequest PROVE FarSet(p)'
  <2>1. /\ UNCHANGED <<paths, pool, connected>> /\ an' = lastAn'
        /\ far' = [q \in PathIds |-> IF q \in Active THEN [far[q] EXCEPT !.an = lastAn'] ELSE far[q]]
    BY <1>14 DEF PathSwitchRequest, UpdateANInformation
  <2>2. far[p] \in Fars
    BY <1>0
  <2>3. p \in Active => far'[p].an = an' /\ far'[p].buff = far[p].buff
    BY <2>1, <2>2 DEF Fars
  <2> QED
    BY <1>0, <2>1, <2>3
<1>15. ASSUME Deactivate PROVE FarSet(p)'
  <2>1. /\ UNCHANGED <<paths, pool, an>> /\ connected' = FALSE
        /\ far' = [q \in PathIds |-> IF q \in pool THEN [far[q] EXCEPT !.buff = TRUE] ELSE far[q]]
    BY <1>15 DEF Deactivate
  <2>2. far[p] \in Fars
    BY <1>0
  <2>3. far'[p].an = far[p].an /\ (p \notin pool => far'[p] = far[p])
    BY <2>1, <2>2 DEF Fars
  <2> QED
    BY <1>0, <2>1, <2>3
<1>16. ASSUME NEW indirect \in BOOLEAN,
              HandoverPrepared(indirect)
       PROVE  FarSet(p)'
  <2>1. /\ UNCHANGED <<paths, pool, connected>> /\ an' = lastAn'
        /\ far' = [q \in PathIds |-> IF q \in Active THEN [far[q] EXCEPT !.an = lastAn'] ELSE far[q]]
    BY <1>16 DEF HandoverPrepared, UpdateANInformation
  <2>2. far[p] \in Fars
    BY <1>0
  <2>3. p \in Active => far'[p].an = an' /\ far'[p].buff = far[p].buff
    BY <2>1, <2>2 DEF Fars
  <2> QED
    BY <1>0, <2>1, <2>3
<1>17. ASSUME HandoverCompleted PROVE FarSet(p)'
  BY <1>0, <1>17 DEF HandoverCompleted
<1>18. ASSUME NEW ok \in SUBSET UPFs, NEW n1 \in BOOLEAN,
              Release(ok, n1)
       PROVE  FarSet(p)'
  <2>1. /\ UNCHANGED anVars /\ pool' \subseteq pool /\ paths' = Deactivated(pool)
    BY <1>18 DEF Release
  <2>2. DOMAIN paths' = DOMAIN paths /\ \A q \in DOMAIN paths : paths'[q].act => paths[q].act
    BY <1>t, <2>1, DeactivatedKeeps DEF TypeInv, Deactivated
  <2> QED
    BY <1>0, <2>1, <2>2 DEF anVars
<1>19. ASSUME NEW v \in UPFs, LoseUpf(v) PROVE FarSet(p)'
  BY <1>0, <1>19 DEF LoseUpf, anVars, pathVars
<1>20. ASSUME NEW v \in UPFs, Reassociate(v) PROVE FarSet(p)'
  BY <1>0, <1>20 DEF Reassociate, anVars, pathVars
<1>21. CASE UNCHANGED vars
  BY <1>0, <1>21 DEF vars, anVars, pathVars
<1> HIDE DEF FarSet, Active
<1>22. CASE Next
  BY Steps, <1>1, <1>2, <1>3, <1>4, <1>5, <1>6, <1>7, <1>8, <1>9, <1>10,
     <1>11, <1>12, <1>13, <1>14, <1>15, <1>16, <1>17, <1>18, <1>19, <1>20,
     <1>22
<1> QED
  BY <1>21, <1>22

\* Steps that leave the FAR of a path, and its UPF, alone.
LEMMA SentStays ==
  ASSUME FarInv, [Next]_vars, NEW p \in PathIds,
         Open' => /\ p \in pool' \ toRemove' => p \in pool \ toRemove
                  /\ UNCHANGED <<upFar, serving, connected, ho>>
                  /\ p \in pool \ toRemove => far'[p] = far[p] /\ st'[DlFar(p)] = st[DlFar(p)]
                  /\ pc = "an" => (pc' = "an" /\ req' = req) \/ DOMAIN req = {}
  PROVE  FarSent(p)'
<1> SUFFICES ASSUME Open', p \in pool' \ toRemove' PROVE FarSent(p)'
  BY DEF FarSent
<1>1. Open /\ p \in pool \ toRemove
  BY OpenBefore
<1>2. p \in DOMAIN paths /\ FarSent(p)
  BY <1>1 DEF FarInv, AllFar, PathInv, TypeInv, RulesInv, RulesTyped
<1>3. DlFar(p)' = DlFar(p)
  BY <1>2, PathsKeep DEF FarInv, PathInv, SamePath, DlFar, AnUpf
<1>4. Good(p)' = Good(p)
  BY DEF Good
<1> QED
  BY <1>1, <1>2, <1>3, <1>4 DEF FarSent

\* A new path's FAR is to be created.
LEMMA SentMade ==
  ASSUME FarInv, [Next]_vars, NEW p \in PathIds, pc # "an",
         NEW w \in Seq(UPFs), w # <<>>, NEW def, NEW r, PathMade(w, def, r),
         UNCHANGED <<upFar, serving, connected, ho>>,
         Open' => Upfs(w) \subseteq assoc,
         \A x \in ids' \ ids : st'[x] = "INITIAL",
         \A x \in DOMAIN st : x \notin ids' \ ids /\ x[1] \notin toRemove' => st'[x] = st[x],
         toRemove \subseteq toRemove'
  PROVE  FarSent(p)'
<1> SUFFICES ASSUME Open', p \in pool' \ toRemove' PROVE FarSent(p)'
  BY DEF FarSent
<1>0. /\ DOMAIN paths = 1..Len(paths) /\ Len(paths) \in Nat /\ pool \subseteq DOMAIN paths
      /\ far \in [PathIds -> Fars] /\ ids \subseteq DOMAIN st /\ DOMAIN st \subseteq RuleIds
      /\ \A x \in DOMAIN st : Made(x)
      /\ lastAn \in Nat
  BY DEF FarInv, PathInv, TypeInv, RulesInv, RulesTyped, AnTyped, RuleTyped
<1>1. /\ DOMAIN paths' = 1..(Len(paths) + 1) /\ pool' = pool \cup {Len(paths) + 1}
      /\ \A q \in DOMAIN paths : paths'[q] = paths[q]
      /\ paths'[Len(paths) + 1].ups = w
      /\ ids' = ids \cup RulesAt(Len(paths) + 1, Upfs(w))
      /\ far' = TowardsAn(Len(paths) + 1) /\ Len(paths) + 1 \in PathIds
  BY DEF PathMade
<1>2. far' = [far EXCEPT ![Len(paths) + 1] = [far[Len(paths) + 1] EXCEPT !.an = an]]
  BY <1>1 DEF TowardsAn
<1>3. CASE p = Len(paths) + 1
  <2>1. p \notin DOMAIN paths
    BY <1>0, <1>3
  <2>2. far[p] = [an |-> 0, buff |-> FALSE]
    BY <2>1 DEF FarInv, AllFar, FarSet, NoFar
  <2>3. ~far'[p].buff
    BY <1>0, <1>2, <1>3, <2>2
  <2>4. DlFar(p)' = <<p, w[1], "dl", "far">> /\ w[1] \in Upfs(w)
    BY <1>1, <1>3 DEF DlFar, AnUpf, Upfs, Range
  <2>5. <<p, w[1], "dl", "far">> \in ids'
    BY <1>1, <1>3, <2>4 DEF RulesAt
  <2>6. <<p, w[1], "dl", "far">> \notin ids
    <3> SUFFICES ASSUME <<p, w[1], "dl", "far">> \in DOMAIN st PROVE FALSE
      BY <1>0
    <3>1. Made(<<p, w[1], "dl", "far">>)
      BY <1>0
    <3> QED
      BY <1>0, <1>3, <3>1 DEF Made
  <2>7. st'[DlFar(p)'] = "INITIAL"
    BY <2>4, <2>5, <2>6
  <2> QED
    BY <2>3, <2>7 DEF FarSent
<1>4. CASE p # Len(paths) + 1
  <2>1. p \in pool \ toRemove /\ p \in DOMAIN paths /\ far'[p] = far[p]
    BY <1>0, <1>1, <1>2, <1>4
  <2>2. DlFar(p)' = DlFar(p) /\ DlFar(p)[1] = p
    BY <1>1, <2>1 DEF DlFar, AnUpf
  <2>3. DlFar(p) \in DOMAIN st /\ Open
    BY <2>1, OpenBefore, DownlinkThere DEF FarInv
  <2>4. DlFar(p) \notin ids' \ ids
    BY <1>1, <1>4, <2>2 DEF RulesAt
  <2>5. st'[DlFar(p)] = st[DlFar(p)]
    BY <2>2, <2>3, <2>4
  <2>6. Good(p)' = Good(p)
    BY DEF Good
  <2> QED
    BY <2>1, <2>2, <2>3, <2>5, <2>6 DEF FarSent, FarInv, AllFar
<1> QED
  BY <1>3, <1>4

\* A UPF has what it has accepted.
LEMMA SentAnswered ==
  ASSUME FarInv, [Next]_vars, NEW p \in PathIds, NEW v \in UPFs, Accepted(v)
  PROVE  FarSent(p)'
<1> SUFFICES ASSUME Open', p \in pool' \ toRemove' PROVE FarSent(p)'
  BY DEF FarSent
<1> DEFINE x == DlFar(p)
<1>1. /\ UNCHANGED <<pc, paths, pool, toRemove, far, serving, connected, ho>>
      /\ v \in DOMAIN req /\ pc \in {"send", "an"} /\ DOMAIN req' = DOMAIN req \ {v}
      /\ \A u \in DOMAIN req' : req'[u] = req[u]
      /\ Open /\ Applied(v) /\ Build(v)
  BY DEF Accepted, Exchange, anVars, Without, Open
<1>2. p \in pool \ toRemove /\ p \in DOMAIN paths
  BY <1>1 DEF FarInv, PathInv, TypeInv, RulesInv, RulesTyped
<1>3. x \in DOMAIN st /\ x \in RuleIds /\ x[1] = p /\ FarSent(p)
  <2>1. x \in DOMAIN st
    BY <1>1, <1>2, DownlinkThere DEF FarInv
  <2> QED
    BY <2>1 DEF DlFar, FarInv, AllFar, PathInv, TypeInv, RuleTyped
<1>4. x' = x
  BY <1>1, <1>2 DEF DlFar, AnUpf
<1>5. ReqOk(v) /\ RuleOk(x) /\ PathOk(p)
  BY <1>3 DEF FarInv, PathInv, AllReq, AllRule, AllPath
<1>6. upFar'[p] = IF x \in InState(v, "INITIAL") THEN [far[p] EXCEPT !.buff = FALSE]
                  ELSE IF x \in Updated(v) THEN far[p]
                  ELSE IF x \in Removed(v) THEN NoFar ELSE upFar[p]
  BY <1>1, <1>2 DEF Applied
<1>7. st'[x] = IF x \in req[v] THEN "CREATE" ELSE st[x]
  BY <1>1, <1>3 DEF Build, Set
<1>8. far[p] \in Fars
  BY DEF FarInv, PathInv, TypeInv, AnTyped
<1> HIDE DEF x
<1>9. CASE x \in req[v]
  <2>1. st[x] # "REMOVE"
    BY <1>1, <1>2, <1>3, <1>5 DEF RuleOk
  <2>2. CASE st[x] = "INITIAL"
    <3>1. ~far[p].buff
      BY <1>1, <1>2, <1>3, <2>2 DEF FarSent, x
    <3>2. upFar'[p] = [far[p] EXCEPT !.buff = FALSE]
      BY <1>6, <1>9, <2>2 DEF InState
    <3>3. upFar'[p] = far[p]
      BY <1>8, <3>1, <3>2 DEF Fars
    <3> QED
      BY <1>1, <1>4, <1>7, <1>9, <3>3 DEF FarSent, x
  <2>3. CASE st[x] = "UPDATE"
    <3>1. ~Establishes(v)
      <4>1. pc = "send" => x[2] = v
        BY <1>1, <1>3, <1>5, <1>9 DEF ReqOk
      <4>2. x[2] \in seid
        BY <1>1, <1>2, <1>3, <1>5, <2>3 DEF RuleOk
      <4> QED
        BY <4>1, <4>2 DEF Establishes
    <3>2. upFar'[p] = far[p]
      BY <1>6, <1>9, <2>3, <3>1 DEF InState, Updated
    <3> QED
      BY <1>1, <1>4, <1>7, <1>9, <3>2 DEF FarSent, x
  <2>4. CASE st[x] = "CREATE"
    <3>1. upFar'[p] = upFar[p]
      BY <1>6, <2>4 DEF InState, Updated, Removed
    <3>2. upFar[p] = far[p]
      BY <1>1, <1>2, <1>3, <2>4 DEF FarSent, x
    <3> QED
      BY <1>1, <1>4, <1>7, <1>9, <3>1, <3>2 DEF FarSent, x
  <2>5. st[x] \in RuleStates
    BY <1>3 DEF FarInv, PathInv, TypeInv, RuleTyped
  <2> QED
    BY <2>1, <2>2, <2>3, <2>4, <2>5 DEF RuleStates
<1>10. CASE x \notin req[v]
  <2>1. upFar'[p] = upFar[p] /\ st'[x] = st[x]
    BY <1>6, <1>7, <1>10 DEF InState, Updated, Removed
  <2>2. Good(p)' = Good(p)
    BY <1>1, <2>1 DEF Good
  <2>3. \A u \in DOMAIN req : x \in req[u] => u \in DOMAIN req' /\ x \in req'[u]
    BY <1>1, <1>10
  <2> QED
    BY <1>1, <1>2, <1>3, <1>4, <2>1, <2>2, <2>3 DEF FarSent, x
<1> QED
  BY <1>9, <1>10

\* Every step keeps what was sent of the downlink in order.
LEMMA FarSentStep ==
  ASSUME FarInv, [Next]_vars, NEW p \in PathIds
  PROVE  FarSent(p)'
<1>t. TypeInv /\ PathInv
  BY DEF FarInv, PathInv
<1>1. ASSUME NEW b \in Deciders, NEW del \in SUBSET Rules,
             NEW put \in SUBSET Rules, NEW mod \in SUBSET Rules, NEW drop \in SUBSET del,
             Classify(b, del, put, mod, drop)
      PROVE  FarSent(p)'
  <2>1. /\ UNCHANGED <<pool, upFar, far, serving, connected, ho>> /\ pc \in {"none", "idle"}
        /\ toRemove' = toRemove \cup {pcc[r] : r \in del \cap Installed}
        /\ clean' = clean
    BY <1>1 DEF Classify, Decides, RemovePccRules, upfVars, anVars
  <2>2. CASE p \in toRemove'
    BY <2>2 DEF FarSent
  <2>3. CASE p \notin toRemove'
    <3>1. Open /\ p \in pool => st'[DlFar(p)] = st[DlFar(p)]
      <4>1. DlFar(p)[1] \notin {pcc[r] : r \in del \cap Installed}
        BY <2>1, <2>3 DEF DlFar
      <4>2. Open /\ p \in pool => DlFar(p) \in DOMAIN st
        BY <1>t, DownlinkThere
      <4> QED
        BY <1>1, <4>1, <4>2 DEF Classify, RemovePccRules, Marked, Set
    <3> QED
      BY <2>1, <3>1, SentStays, OpenBefore
  <2> QED
    BY <2>2, <2>3
<1>2. ASSUME NEW b \in Deciders, NEW del \in SUBSET Rules,
             ClassifyFails(b, del)
      PROVE  FarSent(p)'
  BY <1>2 DEF ClassifyFails, GiveUp, FarSent, Open
<1>3. ASSUME NEW r \in Rules, NoDataPath(r) PROVE FarSent(p)'
  BY <1>3 DEF NoDataPath, GiveUp, FarSent, Open
<1>4. ASSUME NEW r \in Rules, NEW w \in RoutesOf[r], NEW flow \in BOOLEAN,
             ProcessRule(r, w, flow)
      PROVE  FarSent(p)'
  <2>1. PathMade(w, r = DefaultRule /\ DefaultPaths = {}, r) /\ pc = "apply"
        /\ w \in Seq(UPFs) /\ w # <<>>
    BY <1>t, <1>4, RulePath
  <2>2. UNCHANGED <<upFar, serving, connected, ho>> /\ PreRemoveDataPath(r)
    BY <1>4 DEF ProcessRule, upfVars
  <2>3. Open' => Upfs(w) \subseteq assoc
    BY <1>4 DEF ProcessRule, Dies, Panic, Open
  <2>4. /\ \A x \in ids' \ ids : st'[x] = "INITIAL"
        /\ \A x \in DOMAIN st : x \notin ids' \ ids => st'[x] = IF x[1] = pcc[r] THEN "REMOVE" ELSE st[x]
        /\ toRemove' = toRemove \cup ({pcc[r]} \ {0})
    BY <2>2 DEF PreRemoveDataPath, Set, Marked
  <2>5. ASSUME NEW x \in DOMAIN st, x \notin ids' \ ids, x[1] \notin toRemove' PROVE st'[x] = st[x]
    <3>1. x[1] # 0
      <4>1. Made(x) /\ x \in RuleIds /\ Len(paths) \in Nat /\ lastAn \in Nat
        BY <1>t DEF TypeInv, RulesInv, RulesTyped, RuleTyped
      <4>2. x[1] \in Int
        BY <4>1 DEF RuleIds, PathIds
      <4> QED
        BY <4>1, <4>2 DEF Made
    <3> QED
      BY <2>4, <2>5, <3>1
  <2>6. toRemove \subseteq toRemove' /\ pc # "an"
    BY <2>1, <2>4
  <2> QED
    BY <2>1, <2>2, <2>3, <2>4, <2>5, <2>6, SentMade
<1>5. ASSUME Commit PROVE FarSent(p)'
  <2>1. UNCHANGED <<pool, toRemove, st, far, upFar, serving, connected, ho>> /\ pc = "apply"
    BY <1>5 DEF Commit, pathVars, anVars, upfVars
  <2> QED
    BY <2>1, SentStays
<1>6. ASSUME SelectDefaultDataPath PROVE FarSent(p)'
  <2>1. /\ UNCHANGED <<upFar, serving, connected, ho>> /\ pc = "default"
        /\ Open' => DefaultRoute \in Seq(assoc)
    BY <1>6 DEF SelectDefaultDataPath, upfVars, Open
  <2>2. CASE UNCHANGED <<pathVars, far>>
    BY <2>1, <2>2, SentStays DEF pathVars
  <2>3. CASE /\ PathMade(DefaultRoute, TRUE, None)
             /\ st' = Set(st, ids' \ ids, "INITIAL") /\ UNCHANGED toRemove
    <3>1. /\ \A x \in ids' \ ids : st'[x] = "INITIAL"
          /\ \A x \in DOMAIN st : x \notin ids' \ ids => st'[x] = st[x]
      BY <2>3 DEF Set
    <3>2. Open' => Upfs(DefaultRoute) \subseteq assoc
      BY <2>1 DEF Upfs, Range
    <3>3. toRemove \subseteq toRemove' /\ pc # "an" /\ DefaultRoute \in Seq(UPFs) /\ DefaultRoute # <<>>
      BY <2>1, <2>3, RuleRoutes
    <3> QED
      BY <2>1, <2>3, <3>1, <3>2, <3>3, SentMade
  <2> QED
    BY <1>t, <1>6, <2>2, <2>3, DefaultPath
<1>7. ASSUME NoDefaultPath PROVE FarSent(p)'
  <2>1. UNCHANGED <<pool, toRemove, st, far, upFar, serving, connected, ho>> /\ pc # "an"
    BY <1>7 DEF NoDefaultPath, pathVars, anVars, upfVars
  <2> QED
    BY <2>1, SentStays
<1>8. ASSUME ActivateUPFSession PROVE FarSent(p)'
  <2>1. UNCHANGED <<pool, toRemove, st, far, upFar, serving, connected, ho>> /\ pc # "an"
    BY <1>8 DEF ActivateUPFSession, pathVars, anVars, upfVars
  <2> QED
    BY <2>1, SentStays
<1>9. ASSUME NEW v \in UPFs, Accepted(v) PROVE FarSent(p)'
  BY <1>9, SentAnswered
<1>10. ASSUME NEW v \in UPFs, Fails(v) PROVE FarSent(p)'
  BY <1>10 DEF Fails, FarSent, Open
<1>11. ASSUME NEW v \in UPFs, NotAssociated(v) PROVE FarSent(p)'
  BY <1>11 DEF NotAssociated, FarSent, Open
<1>12. ASSUME AllAnswered PROVE FarSent(p)'
  <2>1. /\ UNCHANGED <<st, far, upFar, serving, connected, ho>> /\ DOMAIN req = {}
        /\ pool' = pool \ toRemove
    BY <1>12 DEF AllAnswered, PostRemoveDataPath, anVars, upfVars
  <2> QED
    BY <2>1, SentStays
<1>13. ASSUME SetupResponse PROVE FarSent(p)'
  <2>0. SUFFICES ASSUME Open', p \in pool' \ toRemove' PROVE FarSent(p)'
    BY DEF FarSent
  <2>1. /\ UNCHANGED <<paths, pool, toRemove, upFar>> /\ pc = "idle" /\ Open
        /\ p \in pool \ toRemove /\ p \in Active
    BY <1>13, <2>0, <1>t, OpenBefore, PoolActive DEF SetupResponse, NewAn, UpdateANInformation, upfVars
  <2>2. /\ DlRules \subseteq DOMAIN st /\ DlFars \subseteq DlRules
        /\ DlFar(p) \in DOMAIN st /\ DlFar(p) \in DlFars /\ DefaultPaths \subseteq pool
    BY <1>t, <2>1, DownlinkThere
  <2>3. DlFar(p)' = DlFar(p)
    BY <2>1 DEF DlFar, AnUpf
  <2>4. \/ ~clean'
        \/ pc' = "an" /\ DOMAIN req' # {} /\ \A u \in DOMAIN req' : DlFar(p) \in req'[u]
    BY <1>13, <2>1, <2>2 DEF SetupResponse, UpdateAnUpf
  <2>5. st'[DlFar(p)] = "UPDATE"
    BY <1>13, <2>2 DEF SetupResponse, Set
  <2> QED
    BY <2>0, <2>3, <2>4, <2>5 DEF FarSent, Open
<1>14. ASSUME PathSwitchRequest PROVE FarSent(p)'
  <2>0. SUFFICES ASSUME Open', p \in pool' \ toRemove' PROVE FarSent(p)'
    BY DEF FarSent
  <2>1. /\ UNCHANGED <<paths, pool, toRemove, upFar>> /\ pc = "idle" /\ Open
        /\ p \in pool \ toRemove /\ p \in Active
    BY <1>14, <2>0, <1>t, OpenBefore, PoolActive DEF PathSwitchRequest, NewAn, UpdateANInformation, upfVars
  <2>2. /\ DlRules \subseteq DOMAIN st /\ DlFars \subseteq DlRules
        /\ DlFar(p) \in DOMAIN st /\ DlFar(p) \in DlFars /\ DefaultPaths \subseteq pool
    BY <1>t, <2>1, DownlinkThere
  <2>3. DlFar(p)' = DlFar(p)
    BY <2>1 DEF DlFar, AnUpf
  <2>4. \/ ~clean'
        \/ pc' = "an" /\ DOMAIN req' # {} /\ \A u \in DOMAIN req' : DlFar(p) \in req'[u]
    BY <1>14, <2>1, <2>2 DEF PathSwitchRequest, UpdateAnUpf
  <2>5. st'[DlFar(p)] = "UPDATE"
    BY <1>14, <2>2 DEF PathSwitchRequest, Set
  <2> QED
    BY <2>0, <2>3, <2>4, <2>5 DEF FarSent, Open
<1>15. ASSUME Deactivate PROVE FarSent(p)'
  <2>0. SUFFICES ASSUME Open', p \in pool' \ toRemove' PROVE FarSent(p)'
    BY DEF FarSent
  <2>1. /\ UNCHANGED <<paths, pool, toRemove, upFar>> /\ pc = "idle" /\ Open
        /\ p \in pool \ toRemove /\ p \in Active
    BY <1>15, <2>0, <1>t, OpenBefore, PoolActive DEF Deactivate, NewAn, UpdateANInformation, upfVars
  <2>2. /\ DlRules \subseteq DOMAIN st /\ DlFars \subseteq DlRules
        /\ DlFar(p) \in DOMAIN st /\ DlFar(p) \in DlFars /\ DefaultPaths \subseteq pool
    BY <1>t, <2>1, DownlinkThere
  <2>3. DlFar(p)' = DlFar(p)
    BY <2>1 DEF DlFar, AnUpf
  <2>4. \/ ~clean'
        \/ pc' = "an" /\ DOMAIN req' # {} /\ \A u \in DOMAIN req' : DlFar(p) \in req'[u]
    BY <1>15, <2>1, <2>2 DEF Deactivate, UpdateAnUpf
  <2>5. st'[DlFar(p)] = "UPDATE"
    BY <1>15, <2>1, <2>2 DEF Deactivate, Set
  <2> QED
    BY <2>0, <2>3, <2>4, <2>5 DEF FarSent, Open
<1>16. ASSUME NEW indirect \in BOOLEAN,
              HandoverPrepared(indirect)
       PROVE  FarSent(p)'
  <2>0. SUFFICES ASSUME Open', p \in pool' \ toRemove' PROVE FarSent(p)'
    BY DEF FarSent
  <2>1. /\ UNCHANGED <<paths, pool, toRemove, upFar>> /\ pc = "idle" /\ Open
        /\ p \in pool \ toRemove /\ p \in Active
    BY <1>16, <2>0, <1>t, OpenBefore, PoolActive DEF HandoverPrepared, NewAn, UpdateANInformation, upfVars
  <2>2. /\ DlRules \subseteq DOMAIN st /\ DlFars \subseteq DlRules
        /\ DlFar(p) \in DOMAIN st /\ DlFar(p) \in DlFars /\ DefaultPaths \subseteq pool
    BY <1>t, <2>1, DownlinkThere
  <2>3. DlFar(p)' = DlFar(p)
    BY <2>1 DEF DlFar, AnUpf
  <2>4. /\ connected /\ connected' = connected /\ ho' = "prepared" /\ serving' = serving
    BY <1>16 DEF HandoverPrepared
  <2>5. st'[DlFar(p)] = "UPDATE"
    <3>1. DlFar(p) \notin Forwarding(lastAn')
      <4>1. lastAn' = lastAn + 1 /\ lastAn \in Nat /\ DlFar(p)[1] = p /\ p \in Nat
        BY <1>16, <1>t DEF HandoverPrepared, NewAn, DlFar, TypeInv, AnTyped, PathIds
      <4>2. \A y \in Forwarding(lastAn') : y[1] = -lastAn'
        BY DEF Forwarding
      <4> QED
        BY <4>1, <4>2
    <3>2. \/ st' = Set(Set(st, DlFars, "UPDATE"), Forwarding(lastAn'), "INITIAL")
          \/ st' = Set(st, DlFars, "UPDATE")
      BY <1>16 DEF HandoverPrepared
    <3> QED
      BY <2>2, <3>1, <3>2 DEF Set
  <2>6. Good(p)
    <3>1. st[DlFar(p)] \in {"CREATE", "UPDATE"}
      BY <1>t, <2>1, <2>2, SettledRules DEF DlFar
    <3>2. /\ st[DlFar(p)] = "CREATE" => upFar[p] = far[p]
          /\ st[DlFar(p)] = "UPDATE" => Good(p)
      BY <2>1, <2>4 DEF FarInv, AllFar, FarSent
    <3>3. far[p].an = an /\ ~far[p].buff
      BY <2>1, <2>4 DEF FarInv, AllFar, FarSet
    <3> QED
      BY <2>4, <3>1, <3>2, <3>3 DEF Good, FarInv, AnTie
  <2>7. Good(p)'
    BY <2>1, <2>4, <2>6 DEF Good
  <2> QED
    BY <2>3, <2>5, <2>7 DEF FarSent
<1>17. ASSUME HandoverCompleted PROVE FarSent(p)'
  <2>0. SUFFICES ASSUME Open', p \in pool' \ toRemove' PROVE FarSent(p)'
    BY DEF FarSent
  <2>1. /\ UNCHANGED <<paths, pool, toRemove, upFar>> /\ pc = "idle" /\ Open
        /\ p \in pool \ toRemove /\ p \in Active
    BY <1>17, <2>0, <1>t, OpenBefore, PoolActive DEF HandoverCompleted, NewAn, UpdateANInformation, upfVars
  <2>2. /\ DlRules \subseteq DOMAIN st /\ DlFars \subseteq DlRules
        /\ DlFar(p) \in DOMAIN st /\ DlFar(p) \in DlFars /\ DefaultPaths \subseteq pool
    BY <1>t, <2>1, DownlinkThere
  <2>3. DlFar(p)' = DlFar(p)
    BY <2>1 DEF DlFar, AnUpf
  <2>4. \/ ~clean'
        \/ pc' = "an" /\ DOMAIN req' # {} /\ \A u \in DOMAIN req' : DlFar(p) \in req'[u]
    BY <1>17, <2>1, <2>2 DEF HandoverCompleted, UpdateAnUpf
  <2>5. st'[DlFar(p)] = st[DlFar(p)]
    <3>1. fwd # 0 => DlFar(p)[1] # -fwd
      BY <1>t DEF DlFar, TypeInv, AnTyped, PathIds
    <3> QED
      BY <1>17, <2>2, <3>1 DEF HandoverCompleted, Set
  <2>6. st[DlFar(p)] \in {"CREATE", "UPDATE"} /\ far' = far
    BY <1>t, <1>17, <2>1, <2>2, SettledRules DEF DlFar, HandoverCompleted
  <2>7. st[DlFar(p)] = "CREATE" => upFar[p] = far[p]
    BY <2>1 DEF FarInv, AllFar, FarSent
  <2> QED
    BY <2>0, <2>1, <2>3, <2>4, <2>5, <2>6, <2>7 DEF FarSent, Open
<1>18. ASSUME NEW ok \in SUBSET UPFs, NEW n1 \in BOOLEAN,
              Release(ok, n1)
       PROVE  FarSent(p)'
  BY <1>18 DEF Release, FarSent, Open
<1>19. ASSUME NEW v \in UPFs, LoseUpf(v) PROVE FarSent(p)'
  BY <1>19 DEF LoseUpf, FarSent, Open
<1>20. ASSUME NEW v \in UPFs, Reassociate(v) PROVE FarSent(p)'
  <2>1. UNCHANGED <<pc, req, pool, toRemove, st, far, upFar, serving, connected, ho>>
    BY <1>20 DEF Reassociate, pathVars, anVars, upfVars
  <2> QED
    BY <2>1, SentStays
<1>21. CASE UNCHANGED vars
  <2>1. UNCHANGED <<pc, req, pool, toRemove, st, far, upFar, serving, connected, ho>>
    BY <1>21 DEF vars, pathVars, anVars, upfVars
  <2> QED
    BY <2>1, SentStays
<1>22. CASE Next
  BY Steps, <1>1, <1>2, <1>3, <1>4, <1>5, <1>6, <1>7, <1>8, <1>9, <1>10,
     <1>11, <1>12, <1>13, <1>14, <1>15, <1>16, <1>17, <1>18, <1>19, <1>20,
     <1>22
<1> QED
  BY <1>21, <1>22

LEMMA FarInvariance == Spec => []FarInv
<1>1. Init => FarInv
  <2> SUFFICES ASSUME Init PROVE FarInv
    OBVIOUS
  <2>1. connected = FALSE /\ paths = <<>> /\ pool = {} /\ far = [p \in PathIds |-> NoFar]
    BY DEF Init
  <2>2. AnTie /\ AllFar
    BY <2>1 DEF AnTie, AllFar, FarSet, FarSent, Active
  <2> QED
    BY <2>2, InitPaths DEF FarInv
<1>2. FarInv /\ [Next]_vars => FarInv'
  <2> SUFFICES ASSUME FarInv, [Next]_vars PROVE FarInv'
    OBVIOUS
  <2>1. PathInv'
    BY PathNext DEF FarInv
  <2>2. AllFar'
    BY FarSetStep, FarSentStep DEF AllFar
  <2> QED
    BY <2>1, <2>2, AnTieStep DEF FarInv
<1> QED
  BY <1>1, <1>2, PTL DEF Spec

\* The downlink: while the UE has user plane resources, every path's downlink
\* leads, unbuffered, to the AN tunnel the UE is reached through, or to a target
\* that a handover has been prepared for since.
THEOREM DownlinkSafe == Spec => []DownlinkFollowsAn
<1>1. FarInv => DownlinkFollowsAn
  <2> SUFFICES ASSUME FarInv, pc = "idle", clean, connected, NEW p \in Active PROVE Good(p)
    BY DEF DownlinkFollowsAn, Good
  <2>1. Open /\ PathInv
    BY DEF Open, FarInv
  <2>2. p \in pool /\ p \in PathIds
    BY <2>1, DownlinkIds, PathsAre DEF PathInv, Active
  <2>3. p \notin toRemove
    BY <2>1, <2>2 DEF PathInv, AllPath, PathOk
  <2>4. st[DlFar(p)] \in {"CREATE", "UPDATE"}
    BY <2>1, <2>2, DownlinkThere, SettledRules DEF DlFar
  <2>5. FarSet(p) /\ FarSent(p) /\ AnTie
    BY <2>2 DEF FarInv, AllFar
  <2>6. far[p].an = an /\ ~far[p].buff
    BY <2>5 DEF FarSet
  <2>7. st[DlFar(p)] = "CREATE" => upFar[p] = far[p]
    BY <2>1, <2>2, <2>3, <2>5 DEF FarSent
  <2>8. st[DlFar(p)] = "UPDATE" => Good(p)
    BY <2>1, <2>2, <2>3, <2>5 DEF FarSent
  <2> QED
    BY <2>4, <2>5, <2>6, <2>7, <2>8 DEF AnTie, Good
<1> QED
  BY <1>1, FarInvariance, PTL

-----------------------------------------------------------------------------
(* The rules of the UPFs *)

\* Every route starts at the UPF that the default route starts at.
OneAnUpf == \A w \in {DefaultRoute} \cup UNION Range(RoutesOf) : w[1] = DefaultRoute[1]

\* All paths start there, and so go all N2 messages, with rules of that UPF.
StartOk == \A p \in DOMAIN paths : AnUpf(p) = DefaultRoute[1]
AnOk == Open /\ pc = "an" =>
  \A u \in DOMAIN req : u = DefaultRoute[1] /\ \A x \in req[u] : x[2] = u

\* x's path is to be removed, and its UPF has removed x.
Gone(x) == pc = "send" /\ x[1] \in toRemove /\ x[2] \notin DOMAIN req

\* The forwarding rules are at the AN's UPF and are created by the message that
\* prepares the handover.  What was created is at its UPF until it is removed;
\* what is at a UPF is its rule, of a path or of the forwarding, or the message
\* that removes it is under way.
UpfOk(x) == Open =>
  /\ x \in DOMAIN st /\ x[1] < 0 => x[2] = DefaultRoute[1]
  /\ x \in DOMAIN st /\ Forwards(x) /\ st[x] = "INITIAL" => pc = "an" /\ Pending(x)
  /\ x \in DOMAIN st /\ (x[1] \in pool \/ Forwards(x)) /\ st[x] # "INITIAL" /\ ~Gone(x) =>
       x \in up[x[2]].rules
  /\ \A u \in UPFs : x \in up[u].rules =>
       /\ x[2] = u /\ ~Gone(x)
       /\ \/ x[1] \in pool \/ Forwards(x)
          \/ pc = "an" /\ x[1] < 0 /\ st[x] = "REMOVE" /\ Pending(x)

AllUpf == \A x \in RuleIds : UpfOk(x)
UpfInv == RefInv /\ StartOk /\ AnOk /\ AllUpf

\* Numbers of paths are positive, those of the forwarding negative.
LEMMA RuleNumbers ==
  ASSUME UpfInv, NEW x \in RuleIds
  PROVE  /\ x[1] \in Int /\ x[2] \in UPFs
         /\ Forwards(x) => x[1] < 0
         /\ x[1] \in DOMAIN paths => x[1] > 0
         /\ pool \subseteq DOMAIN paths /\ toRemove \subseteq DOMAIN paths
         /\ DOMAIN paths = 1..Len(paths) /\ Len(paths) \in Nat
         /\ lastAn \in Nat /\ fwd \in 0..lastAn
         /\ \A u \in UPFs : x \in up[u].rules => x \in DOMAIN st
         /\ x \in DOMAIN st => x[1] \in 1..Len(paths) \/ -x[1] \in 1..lastAn
<1>1. x[1] \in Int /\ x[2] \in UPFs
  BY DEF RuleIds, PathIds
<1>2. /\ DOMAIN paths = 1..Len(paths) /\ Len(paths) \in Nat /\ pool \subseteq DOMAIN paths
      /\ toRemove \subseteq DOMAIN paths /\ fwd \in 0..lastAn /\ lastAn \in Nat
      /\ \A y \in DOMAIN st : Made(y)
  BY DEF UpfInv, RefInv, PathInv, TypeInv, RulesInv, RulesTyped, DecTyped, AnTyped
<1>3. \A u \in UPFs : up[u].rules \subseteq DOMAIN st
  BY DEF UpfInv, RefInv, PathInv, TypeInv, RulesInv, RulesTyped, Contents
<1> QED
  BY <1>1, <1>2, <1>3 DEF Forwards, Made

\* Every new path starts at the AN's UPF.
LEMMA StartStep ==
  ASSUME OneAnUpf, UpfInv, [Next]_vars
  PROVE  StartOk'
<1>t. TypeInv
  BY DEF UpfInv, RefInv, PathInv
<1>0. DOMAIN paths = 1..Len(paths) /\ Len(paths) \in Nat
  BY <1>t DEF TypeInv, RulesInv, RulesTyped
<1>a. \A p \in DOMAIN paths : p \in DOMAIN paths' /\ AnUpf(p)' = DefaultRoute[1]
                              /\ AnUpf(p) = DefaultRoute[1]
  BY <1>t, PathsKeep DEF SamePath, AnUpf, UpfInv, StartOk
<1> USE DEF StartOk
<1>1. ASSUME NEW b \in Deciders, NEW del \in SUBSET Rules,
             NEW put \in SUBSET Rules, NEW mod \in SUBSET Rules, NEW drop \in SUBSET del,
             Classify(b, del, put, mod, drop)
      PROVE  StartOk'
  BY <1>1, <1>a DEF Classify
<1>2. ASSUME NEW b \in Deciders, NEW del \in SUBSET Rules,
             ClassifyFails(b, del)
      PROVE  StartOk'
  BY <1>2, <1>a DEF ClassifyFails
<1>3. ASSUME NEW r \in Rules, NoDataPath(r) PROVE StartOk'
  BY <1>3, <1>a DEF NoDataPath
<1>4. ASSUME NEW r \in Rules, NEW w \in RoutesOf[r], NEW flow \in BOOLEAN,
             ProcessRule(r, w, flow)
      PROVE  StartOk'
  <2>1. w[1] = DefaultRoute[1]
    BY RulesAssumption DEF OneAnUpf, Range
  <2> QED
    BY <1>0, <1>a, <1>t, <1>4, <2>1, RulePath DEF PathMade, AnUpf
<1>5. ASSUME Commit PROVE StartOk'
  BY <1>5, <1>a DEF Commit, pathVars
<1>6. ASSUME SelectDefaultDataPath PROVE StartOk'
  <2>1. UNCHANGED paths \/ PathMade(DefaultRoute, TRUE, None)
    BY <1>t, <1>6, DefaultPath DEF pathVars
  <2>2. CASE PathMade(DefaultRoute, TRUE, None)
    <3>1. /\ DOMAIN paths' = 1..(Len(paths) + 1) /\ paths'[Len(paths) + 1].ups = DefaultRoute
      BY <2>2 DEF PathMade
    <3> QED
      BY <1>0, <1>a, <3>1 DEF AnUpf
  <2>3. CASE UNCHANGED paths
    BY <1>a, <2>3
  <2> QED
    BY <2>1, <2>2, <2>3
<1>7. ASSUME NoDefaultPath PROVE StartOk'
  BY <1>7, <1>a DEF NoDefaultPath, pathVars
<1>8. ASSUME ActivateUPFSession PROVE StartOk'
  BY <1>8, <1>a DEF ActivateUPFSession, pathVars
<1>9. ASSUME NEW v \in UPFs, Accepted(v) PROVE StartOk'
  BY <1>9, <1>a DEF Accepted, Exchange
<1>10. ASSUME NEW v \in UPFs, Fails(v) PROVE StartOk'
  BY <1>10, <1>a DEF Fails, Exchange
<1>11. ASSUME NEW v \in UPFs, NotAssociated(v) PROVE StartOk'
  BY <1>11, <1>a DEF NotAssociated, Exchange
<1>12. ASSUME AllAnswered PROVE StartOk'
  <2>1. DOMAIN paths' = DOMAIN paths
    BY <1>12 DEF AllAnswered, PostRemoveDataPath, Deactivated
  <2> QED
    BY <1>a, <2>1
<1>13. ASSUME SetupResponse PROVE StartOk'
  BY <1>13, <1>a DEF SetupResponse
<1>14. ASSUME PathSwitchRequest PROVE StartOk'
  BY <1>14, <1>a DEF PathSwitchRequest
<1>15. ASSUME Deactivate PROVE StartOk'
  BY <1>15, <1>a DEF Deactivate
<1>16. ASSUME NEW indirect \in BOOLEAN,
              HandoverPrepared(indirect)
       PROVE  StartOk'
  BY <1>16, <1>a DEF HandoverPrepared
<1>17. ASSUME HandoverCompleted PROVE StartOk'
  BY <1>17, <1>a DEF HandoverCompleted
<1>18. ASSUME NEW ok \in SUBSET UPFs, NEW n1 \in BOOLEAN,
              Release(ok, n1)
       PROVE  StartOk'
  <2>1. DOMAIN paths' = DOMAIN paths
    BY <1>18 DEF Release, PostRemoveDataPath, Deactivated
  <2> QED
    BY <1>a, <2>1
<1>19. ASSUME NEW v \in UPFs, LoseUpf(v) PROVE StartOk'
  BY <1>19, <1>a DEF LoseUpf, pathVars
<1>20. ASSUME NEW v \in UPFs, Reassociate(v) PROVE StartOk'
  BY <1>20, <1>a DEF Reassociate, pathVars
<1>21. CASE UNCHANGED vars
  BY <1>21, <1>a DEF vars, pathVars
<1> HIDE DEF StartOk
<1>22. CASE Next
  BY Steps, <1>1, <1>2, <1>3, <1>4, <1>5, <1>6, <1>7, <1>8, <1>9, <1>10,
     <1>11, <1>12, <1>13, <1>14, <1>15, <1>16, <1>17, <1>18, <1>19, <1>20,
     <1>22
<1> QED
  BY <1>21, <1>22

\* Every N2 message goes to the AN's UPF.
LEMMA AnOkStep ==
  ASSUME UpfInv, [Next]_vars
  PROVE  AnOk'
<1>t. TypeInv /\ PathInv
  BY DEF UpfInv, RefInv, PathInv
<1>0. \A p \in DefaultPaths : AnUpf(p) = DefaultRoute[1]
  BY <1>t, DownlinkIds DEF UpfInv, StartOk
<1>a. pool \subseteq DOMAIN paths /\ Active \subseteq DOMAIN paths
  BY <1>t, DownlinkIds DEF TypeInv, RulesInv, RulesTyped
<1>b. (\A y \in DlRules \cup DlFars : y[2] = DefaultRoute[1])
      /\ \A p \in pool : DlFar(p)[2] = DefaultRoute[1]
  BY <1>a DEF UpfInv, StartOk, DlRules, DlFars, DlFar, DlPdr
<1> USE DEF AnOk, Open
<1>1. ASSUME NEW b \in Deciders, NEW del \in SUBSET Rules,
             NEW put \in SUBSET Rules, NEW mod \in SUBSET Rules, NEW drop \in SUBSET del,
             Classify(b, del, put, mod, drop)
      PROVE  AnOk'
  BY <1>1 DEF Classify
<1>2. ASSUME NEW b \in Deciders, NEW del \in SUBSET Rules,
             ClassifyFails(b, del)
      PROVE  AnOk'
  BY <1>2 DEF ClassifyFails, GiveUp
<1>3. ASSUME NEW r \in Rules, NoDataPath(r) PROVE AnOk'
  BY <1>3 DEF NoDataPath, GiveUp
<1>4. ASSUME NEW r \in Rules, NEW w \in RoutesOf[r], NEW flow \in BOOLEAN,
             ProcessRule(r, w, flow)
      PROVE  AnOk'
  <2>1. pc' = "apply" \/ ~clean'
    BY <1>4 DEF ProcessRule, StartRule, Panic, GiveUp
  <2> QED
    BY <2>1
<1>5. ASSUME Commit PROVE AnOk'
  <2>1. pc' # "an"
    BY <1>5 DEF Commit, SendAll
  <2> QED
    BY <2>1
<1>6. ASSUME SelectDefaultDataPath PROVE AnOk'
  BY <1>6 DEF SelectDefaultDataPath
<1>7. ASSUME NoDefaultPath PROVE AnOk'
  BY <1>7 DEF NoDefaultPath
<1>8. ASSUME ActivateUPFSession PROVE AnOk'
  <2>1. pc' # "an"
    BY <1>8 DEF ActivateUPFSession, SendAll
  <2> QED
    BY <2>1
<1>9. ASSUME NEW v \in UPFs, Accepted(v) PROVE AnOk'
  <2>1. UNCHANGED <<pc, clean>> /\ req' = Without(req, v)
    BY <1>9 DEF Accepted, Exchange
  <2> QED
    BY <2>1 DEF Without, UpfInv
<1>10. ASSUME NEW v \in UPFs, Fails(v) PROVE AnOk'
  BY <1>10 DEF Fails
<1>11. ASSUME NEW v \in UPFs, NotAssociated(v) PROVE AnOk'
  BY <1>11 DEF NotAssociated
<1>12. ASSUME AllAnswered PROVE AnOk'
  BY <1>12 DEF AllAnswered
<1>13. ASSUME SetupResponse PROVE AnOk'
  <2>1. ~clean' \/ req' = [u \in {AnUpf(p) : p \in DefaultPaths} |-> DlRules]
    BY <1>13 DEF SetupResponse, UpdateAnUpf
  <2> QED
    BY <1>0, <1>b, <2>1
<1>14. ASSUME PathSwitchRequest PROVE AnOk'
  <2>1. ~clean' \/ req' = [u \in {AnUpf(p) : p \in DefaultPaths} |-> DlRules]
    BY <1>14 DEF PathSwitchRequest, UpdateAnUpf
  <2> QED
    BY <1>0, <1>b, <2>1
<1>15. ASSUME Deactivate PROVE AnOk'
  <2>1. ~clean' \/ req' = [u \in {AnUpf(p) : p \in DefaultPaths} |-> ({DlFar(p) : p \in pool} \cap DOMAIN st)]
    BY <1>15 DEF Deactivate, UpdateAnUpf
  <2> QED
    BY <1>0, <1>b, <2>1
<1>16. ASSUME NEW indirect \in BOOLEAN,
              HandoverPrepared(indirect)
       PROVE  AnOk'
  <2>1. pc' # "an" \/ req' = [u \in {AnUpf(p) : p \in DefaultPaths} |-> Forwarding(lastAn')]
    BY <1>16 DEF HandoverPrepared, NewAn
  <2>2. \A y \in Forwarding(lastAn') : y[2] = DefaultRoute[1]
    BY <1>0 DEF Forwarding
  <2> QED
    BY <1>0, <2>1, <2>2
<1>17. ASSUME HandoverCompleted PROVE AnOk'
  <2> SUFFICES ASSUME clean' PROVE AnOk'
    OBVIOUS
  <2> DEFINE F == {y \in DOMAIN st : fwd # 0 /\ y[1] = -fwd}
  <2>1. /\ req' = [u \in {AnUpf(p) : p \in DefaultPaths} |-> DlRules \cup F] /\ pc = "idle" /\ clean
    BY <1>17 DEF HandoverCompleted, UpdateAnUpf
  <2>2. ASSUME NEW y \in F PROVE y[2] = DefaultRoute[1]
    <3>1. y \in RuleIds /\ Forwards(y)
      BY <1>t DEF Forwards, TypeInv, RuleTyped
    <3>2. UpfOk(y) /\ y[1] < 0
      BY <3>1, RuleNumbers DEF UpfInv, AllUpf
    <3> QED
      BY <2>1, <3>2 DEF UpfOk
  <2> HIDE DEF F
  <2> QED
    BY <1>0, <1>b, <2>1, <2>2
<1>18. ASSUME NEW ok \in SUBSET UPFs, NEW n1 \in BOOLEAN,
              Release(ok, n1)
       PROVE  AnOk'
  BY <1>18 DEF Release
<1>19. ASSUME NEW v \in UPFs, LoseUpf(v) PROVE AnOk'
  BY <1>19 DEF LoseUpf
<1>20. ASSUME NEW v \in UPFs, Reassociate(v) PROVE AnOk'
  <2>1. UNCHANGED <<pc, req, clean>>
    BY <1>20 DEF Reassociate
  <2> QED
    BY <2>1 DEF UpfInv
<1>21. CASE UNCHANGED vars
  <2>1. UNCHANGED <<pc, req, clean>>
    BY <1>21 DEF vars
  <2> QED
    BY <2>1 DEF UpfInv
<1> HIDE DEF AnOk, Open
<1>22. CASE Next
  BY Steps, <1>1, <1>2, <1>3, <1>4, <1>5, <1>6, <1>7, <1>8, <1>9, <1>10,
     <1>11, <1>12, <1>13, <1>14, <1>15, <1>16, <1>17, <1>18, <1>19, <1>20,
     <1>22
<1> QED
  BY <1>21, <1>22

\* Steps of a handler before its requests are sent, and those that send them: what
\* is at the UPFs stays there.
LEMMA UpfStays ==
  ASSUME UpfInv, [Next]_vars, NEW x \in RuleIds,
         Open' => /\ UNCHANGED <<up, fwd>> /\ pc \notin {"send", "an"}
                  /\ x \in DOMAIN st => x \in DOMAIN st'
                  /\ x \in DOMAIN st' \ DOMAIN st => x[1] > 0 /\ st'[x] = "INITIAL"
                  /\ x \in DOMAIN st /\ (x[1] \in pool \/ Forwards(x)) =>
                       (st'[x] = "INITIAL" <=> st[x] = "INITIAL")
                  /\ x[1] \in pool => x[1] \in pool'
                  /\ x \in DOMAIN st /\ x[1] \in pool' => x[1] \in pool
                  /\ toRemove' \subseteq DOMAIN paths'
                  /\ x \in DOMAIN st' /\ x[1] \in pool' /\ pc' = "send" => x[2] \in DOMAIN req'
  PROVE  UpfOk(x)'
<1> SUFFICES ASSUME Open' PROVE UpfOk(x)'
  BY DEF UpfOk
<1>1. Open /\ UpfOk(x)
  BY OpenBefore DEF UpfInv, AllUpf
<1>2. /\ Forwards(x) => x[1] < 0
      /\ x[1] \in Int /\ x[2] \in UPFs
      /\ \A u \in UPFs : x \in up[u].rules => x \in DOMAIN st
  BY RuleNumbers
<1>3. Forwards(x)' = Forwards(x) /\ ~Gone(x)
  BY DEF Forwards, Gone
<1>4. Forwards(x) => x[1] \notin toRemove'
  <2>1. TypeInv'
    BY TypeNext DEF UpfInv, RefInv, PathInv
  <2>2. DOMAIN paths' = 1..Len(paths') /\ Len(paths') \in Nat
    BY <2>1 DEF TypeInv, RulesInv, RulesTyped
  <2> QED
    BY <1>2, <2>2
<1>5. \A u \in UPFs : x \in up[u].rules => x[2] = u /\ (x[1] \in pool \/ Forwards(x)) /\ ~Gone(x)'
  BY <1>1, <1>2, <1>4 DEF UpfOk, Gone
<1>6. x \in DOMAIN st' /\ x[1] < 0 => x[2] = DefaultRoute[1]
  BY <1>1, <1>2 DEF UpfOk
<1>7. ~(x \in DOMAIN st' /\ Forwards(x) /\ st'[x] = "INITIAL")
  BY <1>1, <1>2 DEF UpfOk
<1>8. x \in DOMAIN st' /\ (x[1] \in pool' \/ Forwards(x)) /\ st'[x] # "INITIAL" => x \in up[x[2]].rules
  BY <1>1, <1>3 DEF UpfOk
<1> QED
  BY <1>3, <1>5, <1>6, <1>7, <1>8 DEF UpfOk

\* The rules of an accepted request: the created ones are at the UPF, the removed
\* ones have left it.
LEMMA UpfAnswered ==
  ASSUME UpfInv, [Next]_vars, NEW x \in RuleIds, NEW v \in UPFs, Accepted(v)
  PROVE  UpfOk(x)'
<1> SUFFICES ASSUME Open' PROVE UpfOk(x)'
  BY DEF UpfOk
<1>1. /\ Open /\ v \in DOMAIN req /\ pc \in {"send", "an"} /\ v \in seid'
      /\ UNCHANGED <<pc, paths, pool, toRemove, fwd>> /\ (pc = "an" => v \in seid)
      /\ DOMAIN req' = DOMAIN req \ {v} /\ \A u \in DOMAIN req' : req'[u] = req[u]
      /\ up'[v].rules = (up[v].rules \ Removed(v)) \cup InState(v, "INITIAL")
      /\ \A u \in UPFs : u # v => up'[u] = up[u]
  BY Answered DEF UpfInv, RefInv, Open, Without, anVars
<1>2. UpfOk(x) /\ RuleOk(x) /\ ReqOk(v) /\ AnOk
  BY DEF UpfInv, AllUpf, RefInv, PathInv, AllRule, AllReq
<1>3. /\ DOMAIN st' = DOMAIN st \cup req[v]
      /\ x \in DOMAIN st' => st'[x] = IF x \in req[v] THEN "CREATE" ELSE st[x]
  BY DEF Accepted, Build, Set
<1>4. /\ Forwards(x) => x[1] < 0 /\ x[1] \notin pool /\ x[1] \notin toRemove
      /\ x[1] \in Int /\ x[2] \in UPFs
      /\ \A u \in UPFs : x \in up[u].rules => x \in DOMAIN st
      /\ Forwards(x)' = Forwards(x)
  BY <1>1, RuleNumbers DEF Forwards
<1>5. req[v] \subseteq DOMAIN st /\ \A y \in req[v] : y[2] = v
  BY <1>1, <1>2 DEF ReqOk, AnOk
<1>6. DOMAIN st' = DOMAIN st
  BY <1>5 DEF Accepted, Build, Set
<1>7. x \in DOMAIN st => st[x] \in RuleStates
  BY DEF UpfInv, RefInv, PathInv, TypeInv, RuleTyped
<1>8. CASE x \in req[v]
  <2>1. x[2] = v /\ x \in DOMAIN st /\ st'[x] = "CREATE" /\ ~Gone(x)
    BY <1>1, <1>3, <1>5, <1>6, <1>8 DEF Gone
  <2>2. CASE st[x] = "REMOVE"
    <3>1. ~Establishes(v)
      BY <1>1, <1>2, <1>8, <2>1, <2>2 DEF Establishes, ReqOk, RuleOk
    <3>2. x \notin up'[v].rules
      BY <1>1, <2>2, <3>1 , <1>8 DEF Removed, InState
    <3>3. \A u \in UPFs : x \notin up'[u].rules
      BY <1>1, <1>2, <2>1, <3>2 DEF UpfOk
    <3>4. CASE pc = "send"
      <4>1. x[1] \in pool /\ x[1] \in toRemove
        BY <1>1, <1>2, <1>8, <2>1, <2>2, <3>4 DEF ReqOk, RuleOk
      <4>2. Gone(x)' /\ ~Forwards(x)
        BY <1>1, <1>4, <2>1, <3>4, <4>1 DEF Gone
      <4> QED
        BY <1>2, <1>1, <1>4, <1>6, <2>1, <3>3, <4>2 DEF UpfOk
    <3>5. CASE pc = "an"
      <4>1. x[1] < 0 /\ fwd = 0
        BY <1>1, <1>2, <1>8, <2>2, <3>5 DEF ReqOk
      <4>2. ~Forwards(x) /\ x[1] \notin pool
        <5>1. pool \subseteq DOMAIN paths /\ (x[1] \in DOMAIN paths => x[1] > 0)
          BY RuleNumbers
        <5> QED
          BY <1>4, <4>1, <5>1 DEF Forwards
      <4> QED
        BY <1>1, <1>2, <1>4, <1>6, <2>1, <3>3, <4>2 DEF UpfOk
    <3> QED
      BY <1>1, <3>4, <3>5
  <2>3. CASE st[x] # "REMOVE"
    <3>1. x[1] \in pool \/ Forwards(x) \/ st[x] # "INITIAL"
      BY <1>1, <1>2, <1>8, <2>1 DEF ReqOk
    <3>2. x \in up[v].rules => x \in up'[v].rules
      BY <1>1, <2>3 DEF Removed, InState
    <3>3. x[1] \in pool \/ Forwards(x) => x \in up'[v].rules
      <4>1. CASE st[x] = "INITIAL"
        BY <1>1, <1>8, <4>1 DEF InState
      <4>2. CASE st[x] # "INITIAL"
        BY <1>1, <1>2, <2>1, <3>2, <4>2 DEF UpfOk
      <4> QED
        BY <4>1, <4>2
    <3>4. \A u \in UPFs : x \in up'[u].rules => u = v /\ (x[1] \in pool \/ Forwards(x))
      <4>1. x \in up'[v].rules => x \in up[v].rules \/ st[x] = "INITIAL"
        BY <1>1 DEF InState
      <4>2. st[x] = "INITIAL" => x[1] \in pool \/ Forwards(x)
        BY <3>1
      <4>3. ASSUME NEW u \in UPFs, x \in up[u].rules PROVE x[1] \in pool \/ Forwards(x)
        BY <1>1, <1>2, <2>3, <4>3 DEF UpfOk
      <4>4. ASSUME NEW u \in UPFs, u # v PROVE x \notin up'[u].rules
        BY <1>1, <1>2, <2>1, <4>4 DEF UpfOk
      <4> QED
        BY <4>1, <4>2, <4>3, <4>4
    <3>5. ~Gone(x)'
      <4>1. pc = "send" => x[1] \in pool /\ x[1] \notin toRemove
        BY <1>1, <1>2, <1>8, <2>1, <2>3 DEF ReqOk, RuleOk
      <4> QED
        BY <1>1, <4>1 DEF Gone
    <3> QED
      BY <1>1, <1>2, <1>4, <1>6, <2>1, <3>3, <3>4, <3>5 DEF UpfOk
  <2> QED
    BY <2>2, <2>3
<1>9. CASE x \notin req[v]
  <2>a. x \notin Removed(v) /\ x \notin InState(v, "INITIAL")
    BY <1>9 DEF Removed, InState
  <2>1. /\ x \in DOMAIN st => st'[x] = st[x]
        /\ \A u \in UPFs : x \in up'[u].rules <=> x \in up[u].rules
    BY <1>1, <1>3, <1>6, <1>9, <2>a
  <2>2. pc = "an" => (Pending(x) => Pending(x)')
    BY <1>1, <1>9 DEF Pending
  <2>3. x \in DOMAIN st /\ (x[1] \in pool \/ Forwards(x)) => (Gone(x)' <=> Gone(x))
    <3>1. CASE x[2] = v /\ x[1] \in pool /\ x \in DOMAIN st
      <4>1. pc # "send"
        BY <1>1, <1>2, <1>9, <3>1 DEF ReqOk
      <4> QED
        BY <1>1, <4>1 DEF Gone
    <3>2. CASE x[2] # v
      BY <1>1, <3>2 DEF Gone
    <3>3. CASE Forwards(x)
      BY <1>1, <1>4, <3>3 DEF Gone
    <3> QED
      BY <3>1, <3>2, <3>3
  <2>4. /\ x \in DOMAIN st /\ x[1] < 0 => x[2] = DefaultRoute[1]
        /\ x \in DOMAIN st /\ Forwards(x) /\ st[x] = "INITIAL" => pc = "an" /\ Pending(x)
        /\ x \in DOMAIN st /\ (x[1] \in pool \/ Forwards(x)) /\ st[x] # "INITIAL" /\ ~Gone(x) =>
             x \in up[x[2]].rules
        /\ \A u \in UPFs : x \in up[u].rules =>
             /\ x[2] = u /\ ~Gone(x)
             /\ \/ x[1] \in pool \/ Forwards(x)
                \/ pc = "an" /\ x[1] < 0 /\ st[x] = "REMOVE" /\ Pending(x)
    BY <1>1, <1>2 DEF UpfOk
  <2>5. \A u \in UPFs : x \in up[u].rules => ~Gone(x)'
    <3>1. pc = "an" => ~Gone(x)'
      BY <1>1 DEF Gone
    <3> QED
      BY <1>1, <1>4, <2>3, <2>4, <3>1
  <2> QED
    BY <1>1, <1>4, <1>6, <2>1, <2>2, <2>3, <2>4, <2>5 DEF UpfOk
<1> QED
  BY <1>8, <1>9

\* Every step keeps the UPFs' rules in order.
LEMMA UpfStep ==
  ASSUME UpfInv, [Next]_vars, NEW x \in RuleIds
  PROVE  UpfOk(x)'
<1>t. TypeInv /\ PathInv /\ UpfOk(x) /\ RuleOk(x)
  BY DEF UpfInv, RefInv, PathInv, AllUpf, AllRule
<1>n. /\ x[1] \in Int /\ x[2] \in UPFs
      /\ Forwards(x) => x[1] < 0
      /\ x[1] \in DOMAIN paths => x[1] > 0
      /\ pool \subseteq DOMAIN paths /\ toRemove \subseteq DOMAIN paths
      /\ DOMAIN paths = 1..Len(paths) /\ Len(paths) \in Nat
      /\ lastAn \in Nat /\ fwd \in 0..lastAn
      /\ \A u \in UPFs : x \in up[u].rules => x \in DOMAIN st
      /\ x \in DOMAIN st => x[1] \in 1..Len(paths) \/ -x[1] \in 1..lastAn
  BY RuleNumbers
<1>r. toRemove' \subseteq DOMAIN paths'
  BY <1>t, TypeNext DEF TypeInv, DecTyped
<1>s. ASSUME Open, pc \in {"idle", "an"}, x \in DOMAIN st, x[1] \in pool
      PROVE  st[x] \in {"CREATE", "UPDATE"}
  BY <1>t, <1>s, SettledRules
<1>i. ASSUME Open, pc # "an", x \in DOMAIN st, Forwards(x) PROVE st[x] # "INITIAL"
  BY <1>t, <1>i DEF UpfOk
<1>1. ASSUME NEW b \in Deciders, NEW del \in SUBSET Rules,
             NEW put \in SUBSET Rules, NEW mod \in SUBSET Rules, NEW drop \in SUBSET del,
             Classify(b, del, put, mod, drop)
      PROVE  UpfOk(x)'
  <2>1. /\ UNCHANGED <<up, fwd, pool, clean>> /\ pc \in {"none", "idle"} /\ pc' = "apply"
        /\ DOMAIN st' = DOMAIN st
        /\ x \in DOMAIN st => st'[x] \in {st[x], "REMOVE"}
        /\ x \in DOMAIN st /\ x[1] \notin {pcc[r] : r \in del \cap Installed} => st'[x] = st[x]
    BY <1>1 DEF Classify, Decides, RemovePccRules, Marked, Set, upfVars, anVars
  <2>2. Open' /\ x \in DOMAIN st /\ (x[1] \in pool \/ Forwards(x)) => st[x] # "INITIAL"
    <3>1. Open' => Open /\ pc # "an" /\ (x[1] \in pool => pc = "idle")
      BY <1>t, <2>1, OpenBefore DEF TypeInv, DecTyped
    <3> QED
      BY <1>s, <1>i, <3>1
  <2> QED
    BY <1>r, <2>1, <2>2, UpfStays
<1>2. ASSUME NEW b \in Deciders, NEW del \in SUBSET Rules,
             ClassifyFails(b, del)
      PROVE  UpfOk(x)'
  BY <1>2 DEF ClassifyFails, GiveUp, UpfOk, Open
<1>3. ASSUME NEW r \in Rules, NoDataPath(r) PROVE UpfOk(x)'
  BY <1>3 DEF NoDataPath, GiveUp, UpfOk, Open
<1>4. ASSUME NEW r \in Rules, NEW w \in RoutesOf[r], NEW flow \in BOOLEAN,
             ProcessRule(r, w, flow)
      PROVE  UpfOk(x)'
  <2>0. SUFFICES ASSUME Open' PROVE UpfOk(x)'
    BY DEF UpfOk
  <2>1. /\ PathMade(w, r = DefaultRule /\ DefaultPaths = {}, r) /\ r \in todo /\ pc = "apply"
    BY <1>t, <1>4, RulePath
  <2>2. UNCHANGED <<up, fwd>> /\ PreRemoveDataPath(r) /\ pc' = pc
    BY <1>4, <2>0, <2>1 DEF ProcessRule, upfVars, Panic, GiveUp, Open
  <2>3. /\ pool' = pool \cup {Len(paths) + 1} /\ DOMAIN paths' = 1..(Len(paths) + 1)
        /\ ids' = ids \cup RulesAt(Len(paths) + 1, Reached(w))
    BY <2>1 DEF PathMade
  <2>4. \A y \in ids' \ ids : y[1] = Len(paths) + 1
    BY <2>3 DEF RulesAt
  <2>5. /\ DOMAIN st' = DOMAIN st \cup (ids' \ ids)
        /\ x \in DOMAIN st' => st'[x] = IF x \in ids' \ ids THEN "INITIAL"
                                        ELSE IF x[1] = pcc[r] THEN "REMOVE" ELSE st[x]
    BY <2>2 DEF PreRemoveDataPath, Set, Marked
  <2>6. x \in DOMAIN st => x \notin ids' \ ids /\ x[1] # Len(paths) + 1
    BY <1>n, <2>4
  <2>7. pcc[r] \in 0..Len(paths) /\ (pcc[r] # 0 => paths[pcc[r]].rule = r)
    BY <1>t DEF TypeInv, DecTyped, PathInv, RulePaths
  <2>8. x \in DOMAIN st /\ x[1] = pcc[r] => st[x] # "INITIAL" \/ ~(x[1] \in pool \/ Forwards(x))
    <3>1. Open
      BY <2>0, OpenBefore
    <3>2. x \in DOMAIN st /\ x[1] \in pool /\ st[x] = "INITIAL" => paths[x[1]].rule \notin todo
      BY <1>t, <2>1, <3>1 DEF RuleOk
    <3> QED
      BY <1>n, <2>1, <2>7, <3>2
  <2>9. x \in DOMAIN st /\ (x[1] \in pool \/ Forwards(x)) => (st'[x] = "INITIAL" <=> st[x] = "INITIAL")
    BY <2>5, <2>6, <2>8
  <2>10. x \in DOMAIN st' \ DOMAIN st => x[1] > 0 /\ st'[x] = "INITIAL"
    BY <1>n, <2>4, <2>5
  <2> QED
    BY <1>r, <2>1, <2>2, <2>3, <2>5, <2>6, <2>9, <2>10, UpfStays
<1>5. ASSUME Commit PROVE UpfOk(x)'
  <2>1. UNCHANGED <<up, fwd, pool, st>> /\ pc = "apply"
        /\ (pc' = "send" => req' = Collected)
    BY <1>5 DEF Commit, pathVars, upfVars, anVars, SendAll
  <2>2. Open' /\ x \in DOMAIN st /\ x[1] \in pool => x[2] \in DOMAIN Collected
    BY <1>t, CollectedPending, OpenBefore
  <2> QED
    BY <1>r, <2>1, <2>2, UpfStays
<1>6. ASSUME SelectDefaultDataPath PROVE UpfOk(x)'
  <2>1. UNCHANGED <<up, fwd>> /\ pc = "default" /\ pc' = "collect"
    BY <1>6 DEF SelectDefaultDataPath, upfVars
  <2>2. CASE UNCHANGED <<pathVars, far>>
    BY <1>r, <2>1, <2>2, UpfStays DEF pathVars
  <2>3. CASE /\ PathMade(DefaultRoute, TRUE, None)
             /\ st' = Set(st, ids' \ ids, "INITIAL") /\ UNCHANGED toRemove
    <3>1. /\ pool' = pool \cup {Len(paths) + 1} /\ DOMAIN paths' = 1..(Len(paths) + 1)
          /\ ids' = ids \cup RulesAt(Len(paths) + 1, Reached(DefaultRoute))
      BY <2>3 DEF PathMade
    <3>2. \A y \in ids' \ ids : y[1] = Len(paths) + 1
      BY <3>1 DEF RulesAt
    <3>3. /\ DOMAIN st' = DOMAIN st \cup (ids' \ ids)
          /\ x \in DOMAIN st' => st'[x] = IF x \in ids' \ ids THEN "INITIAL" ELSE st[x]
      BY <2>3 DEF Set
    <3>4. x \in DOMAIN st => x \notin ids' \ ids /\ x[1] # Len(paths) + 1
      BY <1>n, <3>2
    <3>5. x \in DOMAIN st' \ DOMAIN st => x[1] > 0 /\ st'[x] = "INITIAL"
      BY <1>n, <3>2, <3>3
    <3>6. x \in DOMAIN st => st'[x] = st[x]
      BY <3>3, <3>4
    <3> QED
      BY <1>r, <2>1, <3>1, <3>3, <3>4, <3>5, <3>6, UpfStays
  <2> QED
    BY <1>t, <1>6, <2>2, <2>3, DefaultPath
<1>7. ASSUME NoDefaultPath PROVE UpfOk(x)'
  BY <1>7 DEF NoDefaultPath, UpfOk, Open
<1>8. ASSUME ActivateUPFSession PROVE UpfOk(x)'
  <2>1. UNCHANGED <<up, fwd, pool, st>> /\ pc = "collect" /\ req' = Collected
    BY <1>8 DEF ActivateUPFSession, pathVars, upfVars, anVars, SendAll
  <2>2. Open' /\ x \in DOMAIN st /\ x[1] \in pool => x[2] \in DOMAIN Collected
    BY <1>t, CollectedPending, OpenBefore
  <2> QED
    BY <1>r, <2>1, <2>2, UpfStays
<1>9. ASSUME NEW v \in UPFs, Accepted(v) PROVE UpfOk(x)'
  BY <1>9, UpfAnswered
<1>10. ASSUME NEW v \in UPFs, Fails(v) PROVE UpfOk(x)'
  BY <1>10 DEF Fails, UpfOk, Open
<1>11. ASSUME NEW v \in UPFs, NotAssociated(v) PROVE UpfOk(x)'
  BY <1>11 DEF NotAssociated, UpfOk, Open
<1>12. ASSUME AllAnswered PROVE UpfOk(x)'
  <2>0. SUFFICES ASSUME Open' PROVE UpfOk(x)'
    BY DEF UpfOk
  <2>1. /\ UNCHANGED <<st, up, fwd>> /\ DOMAIN req = {} /\ pc \in {"send", "an"} /\ pc' = "idle"
        /\ pool' = pool \ toRemove /\ toRemove' = {} /\ Open
    BY <1>12, <2>0 DEF AllAnswered, PostRemoveDataPath, anVars, upfVars, Open
  <2>2. ~Pending(x) /\ ~Gone(x)' /\ Forwards(x)' = Forwards(x)
    BY <2>1 DEF Pending, Gone, Forwards
  <2>3. Forwards(x) => x[1] \notin pool /\ x[1] \notin toRemove
    BY <1>n
  <2>4. \A u \in UPFs : x \in up[u].rules => x[2] = u /\ (x[1] \in pool' \/ Forwards(x))
    <3>1. ASSUME NEW u \in UPFs, x \in up[u].rules PROVE x[2] = u /\ (x[1] \in pool \/ Forwards(x)) /\ ~Gone(x)
      BY <1>t, <2>1, <2>2, <3>1 DEF UpfOk
    <3>2. pc = "an" => pool \cap toRemove = {}
      BY <1>t, <1>n, <2>1, PathsAre DEF PathInv, AllPath, PathOk
    <3> QED
      BY <2>1, <3>1, <3>2 DEF Gone
  <2>5. x \in DOMAIN st /\ (x[1] \in pool' \/ Forwards(x)) /\ st[x] # "INITIAL" => x \in up[x[2]].rules
    <3>1. x[1] \in pool' \/ Forwards(x) => ~Gone(x) /\ (x[1] \in pool \/ Forwards(x))
      BY <2>1, <2>3 DEF Gone
    <3> QED
      BY <1>t, <2>1, <3>1 DEF UpfOk
  <2> QED
    BY <1>t, <2>1, <2>2, <2>4, <2>5 DEF UpfOk
<1>13. ASSUME SetupResponse PROVE UpfOk(x)'
  <2>0. SUFFICES ASSUME Open' PROVE UpfOk(x)'
    BY DEF UpfOk
  <2>1. /\ UNCHANGED <<up, fwd, pool>> /\ pc = "idle" /\ pc' \in {"idle", "an"} /\ Open
        /\ st' = Set(st, DlRules, "UPDATE")
    BY <1>13, <2>0, OpenBefore DEF SetupResponse, NewAn, UpdateAnUpf, upfVars
  <2>2. /\ DlRules \subseteq DOMAIN st /\ DlFars \subseteq DlRules /\ \A y \in DlRules : y[1] \in pool
    BY <1>t, <2>1, DownlinkThere
  <2>3. DOMAIN st' = DOMAIN st /\ (x \in DOMAIN st => st'[x] \in {st[x], "UPDATE"})
    BY <2>1, <2>2 DEF Set
  <2>4. x \in DOMAIN st /\ (x[1] \in pool \/ Forwards(x)) => st[x] # "INITIAL"
    BY <1>s, <1>i, <2>1
  <2> QED
    BY <1>r, <2>1, <2>3, <2>4, UpfStays
<1>14. ASSUME PathSwitchRequest PROVE UpfOk(x)'
  <2>0. SUFFICES ASSUME Open' PROVE UpfOk(x)'
    BY DEF UpfOk
  <2>1. /\ UNCHANGED <<up, fwd, pool>> /\ pc = "idle" /\ pc' \in {"idle", "an"} /\ Open
        /\ st' = Set(st, DlFars, "UPDATE")
    BY <1>14, <2>0, OpenBefore DEF PathSwitchRequest, NewAn, UpdateAnUpf, upfVars
  <2>2. /\ DlRules \subseteq DOMAIN st /\ DlFars \subseteq DlRules /\ \A y \in DlRules : y[1] \in pool
    BY <1>t, <2>1, DownlinkThere
  <2>3. DOMAIN st' = DOMAIN st /\ (x \in DOMAIN st => st'[x] \in {st[x], "UPDATE"})
    BY <2>1, <2>2 DEF Set
  <2>4. x \in DOMAIN st /\ (x[1] \in pool \/ Forwards(x)) => st[x] # "INITIAL"
    BY <1>s, <1>i, <2>1
  <2> QED
    BY <1>r, <2>1, <2>3, <2>4, UpfStays
<1>15. ASSUME Deactivate PROVE UpfOk(x)'
  <2>0. SUFFICES ASSUME Open' PROVE UpfOk(x)'
    BY DEF UpfOk
  <2>1. /\ UNCHANGED <<up, fwd, pool>> /\ pc = "idle" /\ pc' \in {"idle", "an"} /\ Open
        /\ st' = Set(st, {DlFar(p) : p \in pool} \cap DOMAIN st, "UPDATE")
    BY <1>15, <2>0, OpenBefore DEF Deactivate, UpdateAnUpf, upfVars
  <2>3. DOMAIN st' = DOMAIN st /\ (x \in DOMAIN st => st'[x] \in {st[x], "UPDATE"})
    BY <2>1 DEF Set
  <2>4. x \in DOMAIN st /\ (x[1] \in pool \/ Forwards(x)) => st[x] # "INITIAL"
    BY <1>s, <1>i, <2>1
  <2> QED
    BY <1>r, <2>1, <2>3, <2>4, UpfStays
<1>16. ASSUME NEW indirect \in BOOLEAN,
              HandoverPrepared(indirect)
       PROVE  UpfOk(x)'
  <2>0. SUFFICES ASSUME Open' PROVE UpfOk(x)'
    BY DEF UpfOk
  <2>1. /\ UNCHANGED <<up, pool, toRemove, paths>> /\ pc = "idle" /\ pc' \in {"idle", "an"} /\ Open
        /\ lastAn' = lastAn + 1 /\ fwd = 0
    BY <1>16, <2>0, OpenBefore DEF HandoverPrepared, NewAn, upfVars, Open
  <2>2. /\ DlRules \subseteq DOMAIN st /\ DlFars \subseteq DlRules /\ \A y \in DlRules : y[1] \in pool
        /\ DefaultPaths \subseteq pool
    BY <1>t, <2>1, DownlinkThere
  <2>3. ~Forwards(x) /\ ~Gone(x) /\ ~Gone(x)'
    BY <2>1 DEF Forwards, Gone
  <2>4. /\ x \in DOMAIN st /\ x[1] < 0 => x[2] = DefaultRoute[1]
        /\ x \in DOMAIN st /\ x[1] \in pool => x \in up[x[2]].rules
        /\ \A u \in UPFs : x \in up[u].rules => x[2] = u /\ x[1] \in pool
    BY <1>t, <1>s, <2>1, <2>3 DEF UpfOk
  <2>5. CASE indirect
    <3>1. /\ st' = Set(Set(st, DlFars, "UPDATE"), Forwarding(lastAn'), "INITIAL")
          /\ req' = [u \in {AnUpf(p) : p \in DefaultPaths} |-> Forwarding(lastAn')]
          /\ fwd' = lastAn' /\ pc' = "an"
      BY <2>5, <1>16 DEF HandoverPrepared
    <3>2. \A p \in DefaultPaths : AnUpf(p) = DefaultRoute[1]
      BY <1>n, <2>2 DEF UpfInv, StartOk
    <3>3. \A y \in Forwarding(lastAn') : /\ y[1] = -lastAn' /\ y[2] = DefaultRoute[1]
                                         /\ y[2] \in {AnUpf(p) : p \in DefaultPaths}
      BY <3>2 DEF Forwarding
    <3>4. DOMAIN st' = DOMAIN st \cup Forwarding(lastAn')
      BY <2>2, <3>1 DEF Set
    <3>5. x \in Forwarding(lastAn') => st'[x] = "INITIAL" /\ Pending(x)'
      BY <3>1, <3>3 DEF Set, Pending
    <3>6. x \in DOMAIN st => x[1] # -lastAn'
      BY <1>n, <2>1
    <3>7. x[1] \in pool => x[1] # -lastAn'
      BY <1>n, <2>1
    <3>8. CASE x \in Forwarding(lastAn')
      <4>1. x \notin DOMAIN st /\ x[1] \notin pool /\ x[2] = DefaultRoute[1]
        BY <3>3, <3>6, <3>7, <3>8
      <4>2. \A u \in UPFs : x \notin up[u].rules
        BY <1>n, <4>1
      <4> QED
        BY <2>1, <3>1, <3>5, <3>8, <4>1, <4>2 DEF UpfOk
    <3>9. CASE x \notin Forwarding(lastAn')
      <4>1. ~Forwards(x)' \/ x \notin DOMAIN st'
        BY <3>1, <3>4, <3>6, <3>9 DEF Forwards
      <4> QED
        BY <2>1, <2>3, <2>4, <3>4, <3>9, <4>1 DEF UpfOk
    <3> QED
      BY <3>8, <3>9
  <2>6. CASE ~indirect
    <3>1. st' = Set(st, DlFars, "UPDATE") /\ fwd' = 0
      BY <2>6, <1>16 DEF HandoverPrepared
    <3>2. DOMAIN st' = DOMAIN st /\ ~Forwards(x)'
      BY <2>2, <3>1 DEF Set, Forwards
    <3> QED
      BY <2>1, <2>3, <2>4, <3>2 DEF UpfOk
  <2> QED
    BY <2>5, <2>6
<1>17. ASSUME HandoverCompleted PROVE UpfOk(x)'
  <2>0. SUFFICES ASSUME Open' PROVE UpfOk(x)'
    BY DEF UpfOk
  <2> DEFINE F == {y \in DOMAIN st : fwd # 0 /\ y[1] = -fwd}
  <2>1. /\ UNCHANGED <<up, pool, paths>> /\ pc = "idle" /\ pc' = "an" /\ Open /\ fwd' = 0
        /\ st' = Set(st, F, "REMOVE")
        /\ DefaultPaths # {}
        /\ req' = [u \in {AnUpf(p) : p \in DefaultPaths} |-> DlRules \cup F]
    BY <1>17, <2>0, OpenBefore DEF HandoverCompleted, UpdateAnUpf, upfVars, Open
  <2>2. x \in F <=> x \in DOMAIN st /\ Forwards(x)
    BY DEF Forwards
  <2>3. DOMAIN st' = DOMAIN st /\ (x \in F => st'[x] = "REMOVE") /\ (x \notin F /\ x \in DOMAIN st => st'[x] = st[x])
    BY <2>1 DEF Set
  <2>4. ~Forwards(x)' /\ ~Gone(x) /\ ~Gone(x)'
    BY <2>1 DEF Forwards, Gone
  <2>5. x \in F => x[1] < 0 /\ x[2] = DefaultRoute[1] /\ x[1] \notin pool
    BY <1>t, <1>n, <2>1, <2>2 DEF UpfOk
  <2>6. DOMAIN req' = {DefaultRoute[1]} /\ \A u \in DOMAIN req' : F \subseteq req'[u]
    <3>1. \A p \in DefaultPaths : AnUpf(p) = DefaultRoute[1]
      BY <1>n DEF UpfInv, StartOk, DefaultPaths
    <3> QED
      BY <2>1, <3>1
  <2>7. x \in F => Pending(x)'
    BY <2>5, <2>6 DEF Pending
  <2> HIDE DEF F
  <2>8. \A u \in UPFs : x \in up[u].rules => x[2] = u /\ (x[1] \in pool \/ x \in F)
    BY <1>t, <1>n, <2>1, <2>2 DEF UpfOk
  <2>9. x \in DOMAIN st /\ x[1] \in pool => x \in up[x[2]].rules
    BY <1>t, <1>s, <2>1, <2>4 DEF UpfOk
  <2>10. x \in DOMAIN st /\ x[1] < 0 => x[2] = DefaultRoute[1]
    BY <1>t, <2>1 DEF UpfOk
  <2> QED
    BY <2>1, <2>3, <2>4, <2>5, <2>7, <2>8, <2>9, <2>10 DEF UpfOk
<1>18. ASSUME NEW ok \in SUBSET UPFs, NEW n1 \in BOOLEAN,
              Release(ok, n1)
       PROVE  UpfOk(x)'
  BY <1>18 DEF Release, UpfOk, Open
<1>19. ASSUME NEW v \in UPFs, LoseUpf(v) PROVE UpfOk(x)'
  BY <1>19 DEF LoseUpf, UpfOk, Open
<1>20. ASSUME NEW v \in UPFs, Reassociate(v) PROVE UpfOk(x)'
  <2>1. /\ pc' = pc /\ req' = req /\ pool' = pool /\ toRemove' = toRemove /\ st' = st
        /\ fwd' = fwd /\ up' = up /\ clean' = clean
    BY <1>20 DEF Reassociate, pathVars, anVars, upfVars
  <2>2. UpfOk(x)' = UpfOk(x)
    BY <2>1 DEF UpfOk, Open, Forwards, Pending, Gone
  <2> QED
    BY <1>t, <2>2
<1>21. CASE UNCHANGED vars
  <2>1. /\ pc' = pc /\ req' = req /\ pool' = pool /\ toRemove' = toRemove /\ st' = st
        /\ fwd' = fwd /\ up' = up /\ clean' = clean
    BY <1>21 DEF vars, pathVars, anVars, upfVars
  <2>2. UpfOk(x)' = UpfOk(x)
    BY <2>1 DEF UpfOk, Open, Forwards, Pending, Gone
  <2> QED
    BY <1>t, <2>2
<1>22. CASE Next
  BY Steps, <1>1, <1>2, <1>3, <1>4, <1>5, <1>6, <1>7, <1>8, <1>9, <1>10,
     <1>11, <1>12, <1>13, <1>14, <1>15, <1>16, <1>17, <1>18, <1>19, <1>20,
     <1>22
<1> QED
  BY <1>21, <1>22

LEMMA UpfInvariance == OneAnUpf => (Spec => []UpfInv)
<1> SUFFICES ASSUME OneAnUpf PROVE Spec => []UpfInv
  OBVIOUS
<1>1. Init => UpfInv
  <2> SUFFICES ASSUME Init PROVE UpfInv
    OBVIOUS
  <2>1. /\ paths = <<>> /\ DOMAIN st = {} /\ DOMAIN req = {} /\ up = [u \in UPFs |-> Empty]
        /\ DOMAIN qer = {} /\ DOMAIN urr = {}
    BY DEF Init
  <2>2. StartOk /\ AnOk /\ AllUpf
    BY <2>1 DEF StartOk, AnOk, AllUpf, UpfOk, Empty
  <2>3. SeidOk /\ QerOk /\ UrrOk /\ RefsKnown
    BY <2>1 DEF SeidOk, QerOk, UrrOk, RefsKnown, Empty
  <2> QED
    BY <2>2, <2>3, InitPaths DEF UpfInv, RefInv
<1>2. UpfInv /\ [Next]_vars => UpfInv'
  <2> SUFFICES ASSUME UpfInv, [Next]_vars PROVE UpfInv'
    OBVIOUS
  <2>1. RefInv'
    BY PathNext, RefStep DEF UpfInv, RefInv
  <2>2. AllUpf'
    BY UpfStep DEF AllUpf
  <2> QED
    BY <2>1, <2>2, StartStep, AnOkStep DEF UpfInv
<1> QED
  BY <1>1, <1>2, PTL DEF Spec

\* UPF rules: between the handlers, as long as every change was sent and
\* acknowledged, a UPF holds the PDRs and FARs of exactly the activated paths and
\* those of a prepared handover's indirect forwarding, if the routes of the user
\* plane start at one AN UPF.
THEOREM UpfsMatch == OneAnUpf => (Spec => []UpfMatches)
<1>1. UpfInv => UpfMatches
  <2> SUFFICES ASSUME UpfInv, pc = "idle", clean, NEW u \in UPFs
               PROVE  up[u].rules = {x \in DOMAIN st : x[2] = u /\ (x[1] \in Active \/ (fwd # 0 /\ x[1] = -fwd))}
    BY DEF UpfMatches
  <2>1. Open /\ PathInv /\ Active = pool
    BY PoolActive DEF Open, UpfInv, RefInv
  <2>2. DOMAIN st \subseteq RuleIds /\ up[u].rules \subseteq DOMAIN st
    BY <2>1 DEF PathInv, TypeInv, RuleTyped, RulesInv, RulesTyped, Contents
  <2>3. ASSUME NEW x \in up[u].rules PROVE x[2] = u /\ (x[1] \in pool \/ (fwd # 0 /\ x[1] = -fwd))
    BY <2>1, <2>2, <2>3 DEF UpfInv, AllUpf, UpfOk, Forwards
  <2>4. ASSUME NEW x \in DOMAIN st, x[2] = u, x[1] \in pool \/ (fwd # 0 /\ x[1] = -fwd)
        PROVE  x \in up[u].rules
    <3>1. UpfOk(x) /\ ~Gone(x)
      BY <2>2 DEF UpfInv, AllUpf, Gone
    <3>2. st[x] # "INITIAL"
      BY <2>1, <2>4, <3>1, SettledRules DEF UpfOk, Forwards
    <3> QED
      BY <2>1, <2>4, <3>1, <3>2 DEF UpfOk, Forwards
  <2> QED
    BY <2>1, <2>2, <2>3, <2>4
<1> QED
  BY <1>1, UpfInvariance, PTL
=============================================================================
