--------------------------- MODULE SessionRules ---------------------------
(* The data paths of one PDU session and the rules that carry them: the    *)
(* PCC rules of a policy decision become data paths, a path becomes PDRs,  *)
(* FARs, QERs and URRs at the UPFs it runs through, and each rule has a    *)
(* state that says what the next PFCP request must tell its UPF.  Policy   *)
(* decisions, UE modification requests, N2 messages and releases work on   *)
(* them one after the other under SMLock; PFCP requests fail or get lost   *)
(* and UPFs lose their association at any time.                            *)
EXTENDS Integers, FiniteSets, Sequences, Functions

CONSTANTS
  UPFs,           \* the UPFs of the user plane
  Rules,          \* PCC rules; the QoS data a rule refers to has its name
  PduLevel,       \* rules whose flow is the whole session: charged per PDU session
  Charged,        \* rules that refer to charging data, each with its rating group
  Gbr,            \* rules whose QoS data is a GBR flow
  DefaultRule,    \* the rule of precedence 255, or None
  RoutesOf,       \* the user plane paths a rule may get, from the AN's UPF to the anchor
  DefaultRoute,   \* the default path of the selected UPF
  MaxPaths,       \* a bound: the data paths the session ever makes
  MaxQFI,         \* the largest QFI (63 in the code)
  MaxAn,          \* a bound: the AN tunnels the session ever has
  MaxHandlers,    \* a bound: the requests that are handled, the creation too
  MaxFaults,      \* a bound: the faults (PFCP exchanges that fail, UPFs that are
                  \* lost, decisions that cannot be applied)
  None            \* no rule

Ambr == -1        \* the key of a UPF's session AMBR QER; the others are QFIs
DefQFI == 1       \* DefQosQFI, the QFI of the session rule
QFIs == 2..MaxQFI
Keys == {Ambr} \cup 0..MaxQFI
PathIds == 1..MaxPaths

ASSUME RulesAssumption ==
  /\ IsFiniteSet(Rules)
  /\ PduLevel \subseteq Rules /\ Charged \subseteq Rules /\ Gbr \subseteq Rules
  /\ DefaultRule \in Rules \cup {None} /\ None \notin Rules
  /\ MaxPaths \in Nat \ {0} /\ MaxQFI \in Nat /\ MaxQFI >= 2 /\ MaxAn \in Nat
  /\ MaxHandlers \in Nat /\ MaxFaults \in Nat
  /\ DOMAIN RoutesOf = Rules
  /\ \A w \in {DefaultRoute} \cup UNION Range(RoutesOf) : w \in Seq(UPFs) /\ w # <<>>

VARIABLES
  pc,             \* the handler that holds SMLock and how far it is
  by,             \* whose decision is applied: "create", "notify", "uemod", "none"
  pcc,            \* PCCRules with QosDatas: rule -> its path, 0: not there
  final,          \* finalPccRules and finalQosDatas of the decision
  todo,           \* the rules still to be processed, in two passes
  fresh,          \* those that came as a new PCCRule object
  paths,          \* every DataPath made: [ups, def, act, rule, qers, urrs]
  pool,           \* DataPathPool
  toRemove,       \* DataPathToBeRemoved
  st,             \* the state of each PDR and FAR <<path, upf, dir, kind>>
  ids,            \* the PDRs and FARs in pdrPool and farPool of their UPF
  qer,            \* every QER <<upf, key, path>>: [st, pooled]
  qerMap,         \* AMBRQerMap and QerUpfMap: <<upf, key>> -> the QER's path
  qfi,            \* qosDataToQFI, 0: none
  lastQFI,        \* where QFIGenerator looks next
  urr,            \* UrrTable: <<upf, role, path, rule>> -> state
  far,            \* the DL FAR towards the AN of a path: [an, buff]
  an,             \* Tunnel.ANInformation, 0: none
  lastAn,         \* the AN tunnels so far
  ho,             \* the handover: "none" or "prepared"
  fwd,            \* IndirectForwardingTunnel of the handover, 0: none
  req,            \* the PFCP requests to be sent: upf -> its PDRs and FARs
  failed,         \* some PFCP exchange of the handler has failed
  seid,           \* the UPFs whose RemoteSEID is known
  assoc,          \* the UPFs that are associated
  up,             \* external: what a UPF holds: [rules, qers, urrs]
  upFar,          \* external: the DL FAR towards the AN as the UPF has it
  serving,        \* external: the AN tunnel the UE is reached through
  connected,      \* external: the UE has user plane resources at the AN
  clean,          \* history: every change so far was sent and acknowledged
  lost,           \* history: the UPFs that have lost their association
  handlers,       \* history: the requests handled so far
  faults          \* history: the number of faults so far

decVars == <<by, pcc, final, todo, fresh>>
pathVars == <<paths, pool, toRemove, st, ids, qer, qerMap, qfi, lastQFI, urr>>
anVars == <<far, an, lastAn, ho, fwd, serving, connected>>
upfVars == <<seid, up, upFar>>
assocVars == <<assoc, lost>>
bounds == <<handlers, faults>>
vars == <<pc, decVars, pathVars, anVars, req, failed, upfVars, assocVars, clean, bounds>>

Installed == {r \in Rules : pcc[r] # 0}
NoFar == [an |-> 0, buff |-> FALSE]
Empty == [rules |-> {}, qers |-> {}, urrs |-> {}]

Init ==
  /\ pc = "none" /\ by = "create"
  /\ pcc = [r \in Rules |-> 0]
  /\ final = pcc
  /\ todo = {} /\ fresh = {}
  /\ paths = <<>> /\ pool = {} /\ toRemove = {}
  /\ st = <<>> /\ ids = {}
  /\ qer = <<>>
  /\ qerMap = [x \in UPFs \X Keys |-> 0]
  /\ qfi = [r \in Rules |-> 0] /\ lastQFI = 1
  /\ urr = <<>>
  /\ far = [p \in PathIds |-> NoFar]
  /\ an = 0 /\ lastAn = 0 /\ ho = "none" /\ fwd = 0
  /\ req = <<>> /\ failed = FALSE
  /\ seid = {} /\ assoc = UPFs /\ lost = {}
  /\ up = [u \in UPFs |-> Empty]
  /\ upFar = [p \in PathIds |-> NoFar]
  /\ serving = 0 /\ connected = FALSE
  /\ clean = TRUE
  /\ handlers = 0 /\ faults = 0

-----------------------------------------------------------------------------
(* Paths and their rules *)

Upfs(w) == Range(w)
AnUpf(p) == paths[p].ups[1]
Anchor(w) == w[Len(w)]

\* The UL and DL PDR of a path's node, each with its FAR.
RulesAt(p, U) == {<<p, u, d, k>> : u \in U, d \in {"ul", "dl"}, k \in {"pdr", "far"}}
DlPdr(p) == <<p, AnUpf(p), "dl", "pdr">>
DlFar(p) == <<p, AnUpf(p), "dl", "far">>

Active == {p \in pool : paths[p].act}
DefaultPaths == {p \in pool : paths[p].def}

\* f with every x of X set to s.
Set(f, X, s) == [x \in DOMAIN f \cup X |-> IF x \in X THEN s ELSE f[x]]

\* PreRemoveDataPath: the PDRs and FARs of the paths are to be removed.
Marked(s, P) == Set(s, {x \in DOMAIN s : x[1] \in P}, "REMOVE")

\* RemovePDR and its like: a UPF takes identifiers back while it is associated.
TakesBack(u) == u \in assoc

\* DeactivateTunnelAndPDR: the identifiers go back to their UPFs, those of the
\* QERs too, shared or not.
FreedRules(P) == {x \in ids : x[1] \in P /\ TakesBack(x[2])}
Unpooled(P) ==
  [x \in DOMAIN qer |->
     IF TakesBack(x[1]) /\ \E p \in P : x \in paths[p].qers
     THEN [qer[x] EXCEPT !.pooled = FALSE] ELSE qer[x]]
Deactivated(P) ==
  [p \in DOMAIN paths |-> IF p \in P THEN [paths[p] EXCEPT !.act = FALSE] ELSE paths[p]]

\* Mutant: the path stays in DataPathToBeRemoved, its identifiers are kept.
PostRemoveKeepsIds ==
  /\ paths' = Deactivated(toRemove)
  /\ pool' = pool \ toRemove
  /\ toRemove' = {}
  /\ UNCHANGED <<ids, qer>>

\* PostRemoveDataPath: the paths to be removed are deactivated and leave the pool.
PostRemoveDataPath ==
  /\ ids' = ids \ FreedRules(toRemove)
  /\ qer' = Unpooled(toRemove)
  /\ paths' = Deactivated(toRemove)
  /\ pool' = pool \ toRemove
  /\ toRemove' = {}

\* AssignQFI: the QFI of the rule's QoS data, or the generator's next free
\* one, which is searched from where it last stopped; 0 if there is none.
FreeQFIs == {q \in QFIs : \A r \in Rules : qfi[r] # q}
Least(Q) == CHOOSE q \in Q : \A y \in Q : q <= y
AssignQFI(r) ==
  LET ahead == {q \in FreeQFIs : q > lastQFI}
  IN  IF qfi[r] # 0 THEN qfi[r]
      ELSE IF FreeQFIs = {} THEN 0
      ELSE Least(IF ahead # {} THEN ahead ELSE FreeQFIs)

\* The QERs of path p at the UPFs of route w for the given keys: one per UPF
\* and key, made when the maps have none, else the one in the UPF's qerPool.
MadeQers(p, w, K) == {<<x[1], x[2], p>> : x \in {y \in Upfs(w) \X K : qerMap[y] = 0}}
SharedQers(w, K) ==
  {z \in DOMAIN qer : z[1] \in Upfs(w) /\ z[2] \in K /\ z[3] = qerMap[<<z[1], z[2]>>]
                      /\ qer[z].pooled}

\* addUrrToPath: the usage reporting of a node depends on its place in the path.
Role(w, i) == IF i > 1 THEN "n9n6" ELSE IF Len(w) = 1 THEN "n3n6" ELSE "n3n9"
PathUrrs(w) == {<<w[i], Role(w, i), 0, None>> : i \in DOMAIN w}

\* GetOrCreateUrr, for the rating group of PDU level rule q at UPF u: nothing
\* when some path has made one there.
PduInfo(u, q) == \E x \in DOMAIN urr : x[1] = u /\ x[2] = "pdu" /\ x[4] = q

\* AddChargingRules: at the anchor, the URR of rule r and those of the PDU
\* level rules Q that the anchor does not have yet.
ChargingUrrs(p, w, r, Q) ==
  IF r \notin Charged THEN {}
  ELSE {<<Anchor(w), IF r \in PduLevel THEN "pdu" ELSE "flow", p, r>>} \cup
       {<<Anchor(w), "pdu", p, q>> : q \in {q \in Q : ~PduInfo(Anchor(w), q)}}

\* The UPFs of route w whose tunnels are activated: those before the first one
\* that is not associated.
Reached(w) == {w[i] : i \in {j \in DOMAIN w : \A l \in 1..j : w[l] \in assoc}}

\* The DL FAR of a new path leads to the AN tunnel, if there is one.
TowardsAn(p) == [far EXCEPT ![p].an = an]

\* AddDataPath of a new path on route w: it is activated, with the given QER
\* keys and charging URRs, if its UPFs are all associated; if not,
\* ActivateTunnelAndPDR stops at the first one that is not, and the path is
\* added as it is.
AddDataPath(w, def, r, K, C) ==
  LET p == Len(paths) + 1
      ok == Upfs(w) \subseteq assoc
      made == IF ok THEN MadeQers(p, w, K) ELSE {}
      all == IF ok THEN made \cup SharedQers(w, K) ELSE {}
      newUrrs == IF ok THEN PathUrrs(w) \cup C ELSE {}
  IN  /\ paths' = Append(paths,
           [ups |-> w, def |-> def, act |-> ok, rule |-> r,
            qers |-> {x \in all : ~(r \in Gbr /\ x[2] = Ambr)}, urrs |-> newUrrs])
      /\ pool' = pool \cup {p}
      /\ ids' = ids \cup RulesAt(p, Reached(w))
      /\ qer' = Set(qer, made, [st |-> "INITIAL", pooled |-> TRUE])
      /\ qerMap' = Set(qerMap, {<<x[1], x[2]>> : x \in made}, p)
      /\ urr' = Set(urr, newUrrs \ DOMAIN urr, "INITIAL")
      /\ far' = TowardsAn(p)

-----------------------------------------------------------------------------
(* ApplyPccRules *)

Handled == /\ handlers < MaxHandlers
           /\ handlers' = handlers + 1
Fault == /\ faults < MaxFaults
         /\ faults' = faults + 1

\* The local variables of ApplyPccRules are gone.
EndDecision == /\ todo' = {} /\ fresh' = {}
               /\ final' = pcc'

\* How a decision that cannot be applied ends: the creation of the session goes
\* on without it, the other handlers give up.  What was changed so far stays.
GiveUp(b) ==
  /\ pc' = IF b = "create" THEN "default" ELSE "idle"
  /\ clean' = FALSE
  /\ by' = IF b = "create" THEN b ELSE "none"
  /\ EndDecision

\* A handler dies of a nil dereference; the HTTP server survives.
Panic ==
  /\ pc' = IF by = "create" THEN "gone" ELSE "idle"
  /\ clean' = FALSE
  /\ by' = "none"
  /\ EndDecision

\* Whose turn it is to bring a decision.
Decides(b) == /\ pc = IF b = "create" THEN "none" ELSE "idle"
              /\ Handled

\* PCC rules without a model are removed: their paths are marked, and the QoS
\* data that goes with them gives its QFI back.
RemovePccRules(del, drop) ==
  LET P == {pcc[r] : r \in del \cap Installed}
  IN  /\ st' = Marked(st, P)
      /\ toRemove' = toRemove \cup P
      /\ qfi' = [r \in Rules |-> IF r \in drop THEN 0 ELSE qfi[r]]
      /\ pcc' = [r \in Rules |-> IF r \in del THEN 0 ELSE pcc[r]]

\* The classifier: rules in the decision are new or replaced (put), installed
\* rules whose data changed are modified (mod), the others are kept.
Classify(b, del, put, mod, drop) ==
  /\ Decides(b) /\ by' = b
  /\ b = "create" => del = {}
  /\ mod \subseteq Installed
  /\ Len(paths) + Cardinality(put \cup mod) + (IF b = "create" THEN 1 ELSE 0) <= MaxPaths
  /\ RemovePccRules(del, drop)
  /\ final' = [r \in Rules |-> IF r \in del \cup put \cup mod THEN 0 ELSE pcc[r]]
  /\ todo' = put \cup mod
  /\ fresh' = put
  /\ pc' = "apply"
  /\ UNCHANGED <<paths, pool, ids, qer, qerMap, lastQFI, urr, anVars, req, failed,
                 upfVars, assocVars, clean, faults>>

\* IdentifyChargingLevel cannot decode the flow of some rule: the decision is
\* given up, after some of the removals.
ClassifyFails(b, del) ==
  /\ Decides(b)
  /\ b = "create" => del = {}
  /\ RemovePccRules(del, {})
  /\ GiveUp(b)
  /\ Fault
  /\ UNCHANGED <<paths, pool, ids, qer, qerMap, lastQFI,
                 urr, anVars, req, failed, upfVars, assocVars>>

\* The first steps of processRule: the QFI is assigned and the path the rule has
\* had is marked.
StartRule(r) ==
  /\ pc = "apply" /\ r \in todo
  /\ todo \cap PduLevel # {} => r \in PduLevel
  /\ qfi' = [qfi EXCEPT ![r] = AssignQFI(r)]
  /\ lastQFI' = IF qfi[r] = 0 /\ qfi'[r] # 0 THEN qfi'[r] ELSE lastQFI

\* Mutant: the path that rule r has had stays.
KeepsOldPath(r) ==
  /\ UNCHANGED toRemove
  /\ st' = Set(st, ids' \ ids, "INITIAL")

\* Mutant: a new rule's missing path is not told from a path.
RemovesUnknown(r) ==
  /\ toRemove' = toRemove \cup {pcc[r]}
  /\ st' = Set(Marked(st, {pcc[r]}), ids' \ ids, "INITIAL")

\* PreRemoveDataPath of the path that rule r has had.
PreRemoveDataPath(r) ==
  /\ toRemove' = toRemove \cup ({pcc[r]} \ {0})
  /\ st' = Set(Marked(st, {pcc[r]}), ids' \ ids, "INITIAL")

\* The PDU level rules with charging data of the decision, after the first pass.
PduCharged(r) ==
  IF r \in PduLevel THEN {} ELSE {q \in PduLevel \cap Charged : final[q] # 0}

\* CreatePccRuleDataPath finds no user plane path: the decision is given up.
NoDataPath(r) ==
  /\ StartRule(r)
  /\ UNCHANGED <<paths, pool, ids, qer, qerMap, urr, far>>
  /\ PreRemoveDataPath(r)
  /\ UNCHANGED pcc
  /\ GiveUp(by)
  /\ Fault
  /\ UNCHANGED <<an, lastAn, ho, fwd, serving, connected,
                 req, failed, upfVars, assocVars, handlers>>

\* Without charging data of its own, a rule dereferences nil when there are PDU
\* level charging data, and so does a rule whose path could not be activated.
Dies(r, w) ==
  \/ r \notin Charged /\ PduCharged(r) # {}
  \/ ~(Upfs(w) \subseteq assoc)

\* The QERs of a rule's path: AddQoS adds the one of the rule's QFI.
RuleKeys(r, w, def) == {Ambr} \cup (IF def THEN {DefQFI} ELSE {})
                              \cup (IF Dies(r, w) THEN {} ELSE {AssignQFI(r)})

\* CreatePccRuleDataPath on route w, and applyFlowInfoOrPFD: the rule has a flow
\* or a PFD, or it has none and the decision is given up.
ProcessRule(r, w, flow) ==
  LET def == r = DefaultRule /\ DefaultPaths = {}
      C == IF Dies(r, w) THEN {} ELSE ChargingUrrs(Len(paths) + 1, w, r, PduCharged(r))
  IN  /\ StartRule(r)
      /\ AddDataPath(w, def, r, RuleKeys(r, w, def), C)
      /\ PreRemoveDataPath(r)
      /\ pcc' = IF r \in fresh THEN pcc ELSE [pcc EXCEPT ![r] = Len(paths')]
      /\ \/ /\ Dies(r, w) /\ Panic
            /\ UNCHANGED faults
         \/ /\ ~Dies(r, w) /\ ~flow
            /\ GiveUp(by)
            /\ Fault
         \/ /\ ~Dies(r, w) /\ flow
            /\ final' = [final EXCEPT ![r] = Len(paths')]
            /\ todo' = todo \ {r}
            /\ UNCHANGED <<pc, by, clean, fresh, faults>>
      /\ UNCHANGED <<an, lastAn, ho, fwd, serving, connected,
                     req, failed, upfVars, assocVars, handlers>>

\* What a request to the UPFs carries, from ActivateUPFSession: the PDRs and
\* FARs of every activated path.
Collected ==
  [u \in UNION {Upfs(paths[p].ups) : p \in Active} |->
     {x \in DOMAIN st : x[1] \in Active /\ x[2] = u}]
SendAll == /\ pc' = "send"
           /\ req' = Collected
           /\ failed' = FALSE

\* The tables are replaced.  A policy notification goes on to the UPFs; the
\* handler of a UE's modification request does not.
Commit ==
  /\ pc = "apply" /\ todo = {}
  /\ pcc' = final
  /\ EndDecision
  /\ \/ by = "notify" /\ SendAll /\ UNCHANGED <<by, clean>>
     \/ by = "create" /\ pc' = "default" /\ UNCHANGED <<by, req, failed, clean>>
     \/ /\ by = "uemod" /\ pc' = "idle" /\ by' = "none"
        /\ clean' = (clean /\ \A x \in DOMAIN st : x[1] \in Active => st[x] \notin {"INITIAL", "REMOVE"})
        /\ UNCHANGED <<req, failed>>
  /\ UNCHANGED <<pathVars, anVars, upfVars, assocVars, bounds>>

\* SelectDefaultDataPath: unless a rule's path is the default path, the default
\* route becomes one.
SelectDefaultDataPath ==
  /\ pc = "default"
  /\ IF DefaultPaths # {}
       THEN UNCHANGED <<pathVars, far>>
       ELSE /\ AddDataPath(DefaultRoute, TRUE, None, {Ambr, DefQFI}, {})
            /\ st' = Set(st, ids' \ ids, "INITIAL")
            /\ UNCHANGED <<toRemove, qfi, lastQFI>>
  /\ pc' = "collect"
  /\ clean' = (clean /\ DefaultRoute \in Seq(assoc))
  /\ UNCHANGED <<decVars, an, lastAn, ho, fwd, serving, connected, req, failed,
                 upfVars, assocVars, bounds>>

\* The selected UPF has no default path: the creation is rejected.
NoDefaultPath ==
  /\ pc = "default" /\ DefaultPaths = {}
  /\ pc' = "gone"
  /\ UNCHANGED <<decVars, pathVars, anVars, req, failed, upfVars, assocVars, bounds, clean>>

\* The goroutine of the creation calls ActivateUPFSession.
ActivateUPFSession ==
  /\ pc = "collect"
  /\ SendAll
  /\ UNCHANGED <<decVars, pathVars, anVars, upfVars, assocVars, bounds, clean>>

-----------------------------------------------------------------------------
(* PFCP exchanges *)

Without(f, u) == [v \in DOMAIN f \ {u} |-> f[v]]

\* Mutant: only the URRs of the default path go with it.
DefaultUrrsAt(u) ==
  {x \in UNION {paths[p].urrs : p \in Active \cap DefaultPaths} : pc = "send" /\ x[1] = u}

\* The QERs of the UL PDRs and the URRs that go with the paths to UPF u.
QersAt(u) == {x \in UNION {paths[p].qers : p \in Active} : pc = "send" /\ x[1] = u}
UrrsAt(u) == {x \in UNION {paths[p].urrs : p \in Active} : pc = "send" /\ x[1] = u}

\* A session is established at a UPF whose SEID is not known; the requests that
\* follow an N2 message are always modifications.
Establishes(u) == pc = "send" /\ u \notin seid

\* Mutant: a modification request removes nothing.
NoneRemoved(u) == {}

\* Mutant: the states change only when the UPF has accepted the request.
BuildKeepsStates(u) == UNCHANGED <<st, qer, urr>>

\* BuildPfcpSessionEstablishmentRequest and ...ModificationRequest: what is
\* created, updated and removed follows from the states, all become CREATE.
InState(u, s) == {x \in req[u] : st[x] = s}
NewQers(u) == {x \in QersAt(u) : qer[x].st = "INITIAL"}
NewUrrs(u) == {x \in UrrsAt(u) : urr[x] = "INITIAL"}
Updated(u) == IF Establishes(u) THEN {} ELSE InState(u, "UPDATE")
Removed(u) == IF Establishes(u) THEN {} ELSE InState(u, "REMOVE")
Build(u) ==
  /\ st' = Set(st, req[u], "CREATE")
  /\ qer' = [x \in DOMAIN qer |-> IF x \in QersAt(u) THEN [qer[x] EXCEPT !.st = "CREATE"]
                                  ELSE qer[x]]
  /\ urr' = Set(urr, UrrsAt(u), "CREATE")

\* External: the UPF does what the request says, in a new session if it
\* establishes one.  A FAR is created to forward whatever its ApplyAction.
Applied(u) ==
  LET old == IF Establishes(u) THEN Empty ELSE up[u]
  IN  /\ up' = [up EXCEPT ![u] =
           [rules |-> (old.rules \ Removed(u)) \cup InState(u, "INITIAL"),
            qers |-> old.qers \cup NewQers(u), urrs |-> old.urrs \cup NewUrrs(u)]]
      /\ upFar' = [p \in PathIds |->
           IF p \notin DOMAIN paths THEN upFar[p]
           ELSE IF DlFar(p) \in InState(u, "INITIAL") THEN [far[p] EXCEPT !.buff = FALSE]
           ELSE IF DlFar(p) \in Updated(u) THEN far[p]
           ELSE IF DlFar(p) \in Removed(u) THEN NoFar ELSE upFar[p]]

Exchange(u) == /\ pc \in {"send", "an"}
               /\ u \in DOMAIN req
               /\ req' = Without(req, u)
               /\ UNCHANGED <<pc, decVars, paths, pool, toRemove, ids, qerMap, qfi,
                              lastQFI, anVars, assocVars, handlers>>

Accepted(u) ==
  /\ Exchange(u) /\ u \in assoc
  /\ Build(u) /\ Applied(u)
  /\ seid' = IF Establishes(u) THEN seid \cup {u} ELSE seid
  /\ UNCHANGED <<failed, clean, faults>>

\* The UPF refuses, or the request or its answer is lost.
Fails(u) ==
  /\ Exchange(u) /\ u \in assoc
  /\ Build(u)
  /\ Applied(u) \/ UNCHANGED <<up, upFar>>
  /\ failed' = TRUE /\ clean' = FALSE
  /\ Fault
  /\ UNCHANGED seid

\* A UPF that is not associated is not asked, and the states stay.
NotAssociated(u) ==
  /\ Exchange(u) /\ u \notin assoc
  /\ failed' = TRUE /\ clean' = FALSE
  /\ UNCHANGED <<st, qer, urr, upfVars, faults>>

\* All answers are there: the paths to be removed go, whatever the answers
\* were.  Only the creation of a session asks whether they were good.
AllAnswered ==
  /\ pc \in {"send", "an"} /\ DOMAIN req = {}
  /\ PostRemoveDataPath
  /\ pc' = IF pc = "send" /\ by = "create" /\ failed THEN "gone" ELSE "idle"
  /\ by' = "none" /\ failed' = FALSE
  /\ UNCHANGED <<pcc, final, todo, fresh, st, qerMap, qfi, lastQFI, urr, anVars, req,
                 upfVars, assocVars, bounds, clean>>

-----------------------------------------------------------------------------
(* N2 messages: the downlink rules towards the AN *)

\* updateAnUpfPfcpSession: a list of rules for the default path's first UPF.
UpdateAnUpf(list) ==
  IF DefaultPaths = {}
  THEN /\ pc' = "idle" /\ clean' = FALSE
       /\ UNCHANGED <<req, failed>>
  ELSE /\ pc' = "an"
       /\ req' = [u \in {AnUpf(p) : p \in DefaultPaths} |-> list]
       /\ failed' = FALSE
       /\ UNCHANGED clean

DlRules == {DlPdr(p) : p \in Active} \cup {DlFar(p) : p \in Active}
DlFars == {DlFar(p) : p \in Active}

NewAn == /\ pc = "idle" /\ Handled
         /\ lastAn < MaxAn
         /\ lastAn' = lastAn + 1

\* Mutant: only the default path's FAR follows.
UpdateDefaultOnly ==
  /\ an' = lastAn'
  /\ far' = [p \in PathIds |-> IF p \in Active \cap DefaultPaths
                               THEN [far[p] EXCEPT !.an = lastAn'] ELSE far[p]]

\* UpdateANInformation: the DL FARs of the activated paths lead to the new tunnel.
UpdateANInformation ==
  /\ an' = lastAn'
  /\ far' = [p \in PathIds |-> IF p \in Active THEN [far[p] EXCEPT !.an = lastAn'] ELSE far[p]]

\* PDU_RES_SETUP_RSP: DL PDRs and FARs are updated and forward again.
SetupResponse ==
  /\ NewAn
  /\ an' = lastAn'
  /\ far' = [p \in PathIds |-> IF p \in Active THEN [an |-> lastAn', buff |-> FALSE] ELSE far[p]]
  /\ st' = Set(st, DlRules, "UPDATE")
  /\ UpdateAnUpf(DlRules)
  /\ serving' = lastAn' /\ connected' = TRUE
  /\ UNCHANGED <<decVars, paths, pool, toRemove, ids, qer, qerMap, qfi, lastQFI, urr,
                 ho, fwd, upfVars, assocVars, faults>>

\* PATH_SWITCH_REQ: the UE is at another AN already.
PathSwitchRequest ==
  /\ NewAn /\ connected
  /\ UpdateANInformation
  /\ st' = Set(st, DlFars, "UPDATE")
  /\ UpdateAnUpf(DlRules)
  /\ serving' = lastAn'
  /\ UNCHANGED <<decVars, paths, pool, toRemove, ids, qer, qerMap, qfi, lastQFI, urr,
                 ho, fwd, connected, upfVars, assocVars, faults>>

\* UpCnxState DEACTIVATED: the DL FARs of the pool's paths buffer.
Deactivate ==
  /\ pc = "idle" /\ connected /\ Handled
  /\ LET list == {DlFar(p) : p \in pool} \cap DOMAIN st
     IN  /\ far' = [p \in PathIds |-> IF p \in pool THEN [far[p] EXCEPT !.buff = TRUE] ELSE far[p]]
         /\ st' = Set(st, list, "UPDATE")
         /\ UpdateAnUpf(list)
  /\ connected' = FALSE
  /\ UNCHANGED <<decVars, paths, pool, toRemove, ids, qer, qerMap, qfi, lastQFI, urr,
                 an, lastAn, ho, fwd, serving, upfVars, assocVars, faults>>

\* The indirect forwarding rule of a handover: a PDR with its FAR at the default
\* path's first UPF.  Its path number is the target's tunnel, negated.
Forwarding(t) == {<<-t, AnUpf(p), "ul", k>> : p \in DefaultPaths, k \in {"pdr", "far"}}

\* HoState PREPARED: the FARs lead to the target from now on, but are not sent.
\* An indirect forwarding rule is sent; its PDR's identifier is freed at once.
HandoverPrepared(indirect) ==
  /\ NewAn /\ connected
  /\ DefaultPaths # {} /\ \A p \in DefaultPaths : AnUpf(p) \in assoc
  /\ UpdateANInformation
  /\ ho' = "prepared"
  /\ fwd' = IF indirect THEN lastAn' ELSE 0
  /\ IF indirect
       THEN /\ st' = Set(Set(st, DlFars, "UPDATE"), Forwarding(lastAn'), "INITIAL")
            /\ ids' = ids \cup {x \in Forwarding(lastAn') : x[4] = "far"}
            /\ pc' = "an"
            /\ req' = [u \in {AnUpf(p) : p \in DefaultPaths} |-> Forwarding(lastAn')]
            /\ failed' = FALSE
       ELSE /\ st' = Set(st, DlFars, "UPDATE")
            /\ UNCHANGED <<ids, pc, req, failed>>
  /\ clean' = (clean /\ fwd = 0)
  /\ UNCHANGED <<decVars, paths, pool, toRemove, qer, qerMap, qfi, lastQFI, urr,
                 serving, connected, upfVars, assocVars, faults>>

\* HoState COMPLETED: the DL rules and the removal of the forwarding are sent.
HandoverCompleted ==
  /\ pc = "idle" /\ ho = "prepared" /\ Handled
  /\ LET F == {x \in DOMAIN st : fwd # 0 /\ x[1] = -fwd}
     IN  /\ st' = Set(st, F, "REMOVE")
         /\ UpdateAnUpf(DlRules \cup F)
  /\ serving' = an
  /\ ho' = "none" /\ fwd' = 0
  /\ UNCHANGED <<decVars, paths, pool, toRemove, ids, qer, qerMap, qfi, lastQFI, urr,
                 far, an, lastAn, connected, upfVars, assocVars, faults>>

-----------------------------------------------------------------------------
(* Release, and the UPFs *)

\* ReleaseTunnel: every path is deactivated, and the UPFs are asked to delete
\* their session; those in ok do.  If one does not, the session is Active again.
\* A release that the UE asked for (n1) ends with PostRemoveDataPath.
Release(ok, n1) ==
  LET T == UNION {Upfs(paths[p].ups) : p \in pool}
  IN  /\ pc = "idle" /\ Handled
      /\ ok \subseteq T \cap assoc \cap seid
      /\ IF ok = T \cap assoc \cap seid THEN UNCHANGED faults ELSE Fault
      /\ ids' = ids \ FreedRules(pool)
      /\ qer' = Unpooled(pool)
      /\ paths' = Deactivated(pool)
      /\ up' = [u \in UPFs |-> IF u \in ok THEN Empty ELSE up[u]]
      /\ pc' = IF ok = T THEN "released" ELSE "idle"
      /\ clean' = (clean /\ ok = T)
      /\ pool' = IF n1 THEN pool \ toRemove ELSE pool
      /\ toRemove' = IF n1 THEN {} ELSE toRemove
      /\ UNCHANGED <<decVars, st, qerMap, qfi, lastQFI, urr, anVars,
                     req, failed, seid, upFar, assocVars>>

\* External: a UPF loses its association, once.  It keeps its rules, the worse
\* case for what is checked.
LoseUpf(u) ==
  /\ u \in assoc \ lost /\ pc \notin {"gone", "released"}
  /\ Fault
  /\ assoc' = assoc \ {u}
  /\ lost' = lost \cup {u}
  /\ clean' = FALSE
  /\ UNCHANGED <<pc, decVars, pathVars, anVars, req, failed, upfVars, handlers>>

Reassociate(u) ==
  /\ u \in UPFs \ assoc
  /\ assoc' = assoc \cup {u}
  /\ UNCHANGED <<pc, decVars, pathVars, anVars, req, failed, upfVars, lost, clean, bounds>>

Next ==
  \/ /\ pc \in {"none", "idle"}
     /\ \E b \in {"create", "notify", "uemod"}, del, put, mod \in SUBSET Rules :
       /\ del \cap put = {} /\ (del \cup put) \cap mod = {}
       /\ \/ \E drop \in SUBSET del : Classify(b, del, put, mod, drop)
          \/ put = {} /\ mod = {} /\ ClassifyFails(b, del)
  \/ \E r \in Rules : NoDataPath(r) \/ \E w \in RoutesOf[r], flow \in BOOLEAN : ProcessRule(r, w, flow)
  \/ Commit \/ SelectDefaultDataPath \/ NoDefaultPath \/ ActivateUPFSession
  \/ \E u \in UPFs : Accepted(u) \/ Fails(u) \/ NotAssociated(u)
  \/ AllAnswered
  \/ SetupResponse \/ PathSwitchRequest \/ Deactivate
  \/ \E indirect \in BOOLEAN : HandoverPrepared(indirect)
  \/ HandoverCompleted
  \/ \E ok \in SUBSET UPFs, n1 \in BOOLEAN : Release(ok, n1)
  \/ \E u \in UPFs : LoseUpf(u) \/ Reassociate(u)

Spec == Init /\ [][Next]_vars

-----------------------------------------------------------------------------
(* Properties *)

RuleStates == {"INITIAL", "CREATE", "UPDATE", "REMOVE"}
QerIds == UPFs \X Keys \X PathIds
UrrIds == UPFs \X {"n3n6", "n3n9", "n9n6", "flow", "pdu"} \X (0..MaxPaths) \X (Rules \cup {None})
RuleIds == (PathIds \cup {-t : t \in 1..MaxAn}) \X UPFs \X {"ul", "dl"} \X {"pdr", "far"}

\* Every variable keeps its type.
TypeOK ==
  /\ pc \in {"none", "apply", "default", "collect", "send", "an", "idle", "gone", "released"}
  /\ by \in {"create", "notify", "uemod", "none"}
  /\ pcc \in [Rules -> 0..MaxPaths]
  /\ final \in [Rules -> 0..MaxPaths]
  /\ todo \subseteq Rules /\ fresh \subseteq Rules
  /\ Len(paths) <= MaxPaths
  /\ \A p \in DOMAIN paths : /\ paths[p].ups \in Seq(UPFs) /\ paths[p].rule \in Rules \cup {None}
                             /\ paths[p].qers \subseteq DOMAIN qer
                             /\ paths[p].urrs \subseteq DOMAIN urr
  /\ pool \subseteq DOMAIN paths /\ toRemove \subseteq DOMAIN paths
  /\ DOMAIN st \subseteq RuleIds /\ Range(st) \subseteq RuleStates
  /\ ids \subseteq DOMAIN st
  /\ DOMAIN qer \subseteq QerIds /\ qerMap \in [UPFs \X Keys -> 0..MaxPaths]
  /\ qfi \in [Rules -> 0..MaxQFI] /\ lastQFI \in 1..MaxQFI
  /\ DOMAIN urr \subseteq UrrIds /\ Range(urr) \subseteq RuleStates
  /\ an \in 0..MaxAn /\ lastAn \in 0..MaxAn /\ serving \in 0..MaxAn
  /\ ho \in {"none", "prepared"} /\ fwd \in 0..MaxAn
  /\ DOMAIN req \subseteq UPFs /\ seid \subseteq UPFs /\ assoc \subseteq UPFs

\* UPF rules (PreRemoveDataPath, ActivateUPFSession, PostRemoveDataPath): between
\* the handlers, as long as every change was sent and acknowledged, a UPF holds
\* the PDRs and FARs of exactly the activated paths, and those of a prepared
\* handover's indirect forwarding: a removed rule's path leaves it, a new one is
\* there.
UpfMatches ==
  pc = "idle" /\ clean =>
    \A u \in UPFs : up[u].rules = {x \in DOMAIN st : /\ x[2] = u
                                                     /\ (x[1] \in Active \/ (fwd # 0 /\ x[1] = -fwd))}

\* QERs and URRs (AddQoS, addUrrToPath, AddChargingRules): as long as every
\* change was sent and acknowledged, the QERs and URRs that a PDR at a UPF refers
\* to are there too, although paths share them and their identifiers are freed
\* with the first path that goes.
RefsKnown ==
  clean => \A u \in UPFs : \A x \in up[u].rules : x[4] = "pdr" /\ x[1] > 0 =>
     /\ {q \in paths[x[1]].qers : q[1] = u} \subseteq up[u].qers
     /\ {q \in paths[x[1]].urrs : q[1] = u} \subseteq up[u].urrs

\* The downlink (UpdateANInformation, the N2 handlers): while the UE has user
\* plane resources, every path's downlink leads to the AN tunnel it is reached
\* through, or to a target that a handover has been prepared for since (tunnels
\* are numbered as they come), and none is buffered.
DownlinkFollowsAn ==
  pc = "idle" /\ clean /\ connected =>
    \A p \in Active : /\ ~upFar[p].buff
                      /\ \/ upFar[p].an = serving
                         \/ ho = "prepared" /\ upFar[p].an > serving

\* Policy decisions (ApplyPccRules): between the handlers, as long as every
\* change was sent and acknowledged, an activated path is the default path's or
\* that of an installed rule: neither a replaced rule nor a removed one leaves
\* its path behind.
NoOrphanPaths ==
  pc = "idle" /\ clean =>
    \A p \in Active : paths[p].rule = None \/ pcc[paths[p].rule] = p

\* Identifiers (AddPDR, RemovePDR): whatever fails, a UPF that never lost its
\* association has only PDR and FAR identifiers of paths in the pool given away,
\* and none after a release; the FAR of an indirect forwarding, which is never
\* freed, and a rejected creation are the exceptions.
IdsAccounted ==
  pc # "gone" =>
    \A x \in ids : x[2] \in lost \/ x[1] < 0 \/ (x[1] \in pool /\ pc # "released")

\* PFCP requests (build.go): whatever is refused or lost, a rule that the SMF
\* would still create is not at its UPF: no rule is ever created twice.
InitialNotSent ==
  \A u \in UPFs : /\ \A x \in up[u].rules : st[x] # "INITIAL"
                  /\ \A x \in up[u].qers : qer[x].st # "INITIAL"
                  /\ \A x \in up[u].urrs : urr[x] # "INITIAL"
=============================================================================
