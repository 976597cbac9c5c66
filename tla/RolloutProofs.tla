--------------------------- MODULE RolloutProofs ---------------------------
(***************************************************************************)
(* Proofs about the policy rollout, for any number of versions, of faults  *)
(* of the data path and of restarts of the process, and about the fast     *)
(* path, for any rulesets, table sizes, chunk sizes and faults.            *)
(***************************************************************************)
EXTENDS PolicyRollout, FastPath, DataLemmas, TLAPS

\* An edge that has not started yet holds no policy anywhere.
LEMMA RolloutInvInit == RolloutInit => RolloutInv
  BY DEF RolloutInit, RolloutInv, RolloutTypes, VersionsDescend, InstallInv, KernelHolds,
         FwIdle, FwSteps, FaultKinds, None

\* Every step of the comms task, of the firewall task and of the faults keeps
\* the layers in order.
LEMMA RolloutInvStep == RolloutInv /\ [RolloutNext]_rolloutVars => RolloutInv'
<1> SUFFICES ASSUME RolloutInv, [RolloutNext]_rolloutVars PROVE RolloutInv'
  OBVIOUS
<1> USE DEF RolloutInv, RolloutTypes, VersionsDescend, InstallInv, KernelHolds, FwIdle,
            FwSteps, None
<1>1. ASSUME NEW kind \in BundleKinds, PublishBundle(kind) PROVE RolloutInv'
  BY <1>1 DEF PublishBundle
<1>2. CASE ConnectComms \/ PullBreaks
  BY <1>2 DEF ConnectComms, PullBreaks
<1>3. ASSUME NEW v \in 1 .. GraphVersions, PullUpdated(v) PROVE RolloutInv'
  <2>1. v \in Nat /\ v > 0 /\ v >= prCached /\ prCached' = v
    BY <1>3, PolicyRolloutAssumption DEF PullUpdated, NotStale
  <2>2. v >= prEngine
    BY <2>1
  <2>3. prEngine' \in {prEngine, v}
    BY <1>3 DEF PullUpdated, PublishedTo
  <2>4. \/ prWatch' = prWatch
        \/ prWatch' = [version |-> v, changed |-> TRUE] /\ prEngine' = v
    BY <1>3, <2>1, <2>2 DEF PullUpdated, PublishedTo
  <2>5. UNCHANGED <<prFw, prRuleset, prKernel, prXdp, prClass, prFaults, prRestarts>>
    BY <1>3 DEF PullUpdated
  <2>6. RolloutTypes'
    <3>1. prWatch' \in [version: Nat, changed: BOOLEAN]
      <4>1. CASE prWatch' = prWatch
        BY <4>1
      <4>2. CASE prWatch' = [version |-> v, changed |-> TRUE]
        BY <2>1, <4>2
      <4> QED
        BY <2>4, <4>1, <4>2
    <3> QED
      BY <2>1, <2>3, <2>5, <3>1
  <2>7. VersionsDescend'
    BY <2>1, <2>2, <2>3, <2>4, <2>5
  <2>8. InstallInv'
    BY <2>5
  <2> QED
    BY <2>6, <2>7, <2>8
<1>4. CASE TakeRuleset
  BY <1>4 DEF TakeRuleset
<1>5. CASE SwapRuleset
  <2>0. /\ prFw.step = "swap"
        /\ UNCHANGED <<prCached, prEngine, prWatch, prKernel, prXdp, prClass, prFaults, prRestarts>>
    BY <1>5 DEF SwapRuleset
  <2>1. CASE prFw.version < prRuleset
    BY <1>5, <2>1 DEF SwapRuleset
  <2>2. CASE prFw.version = prRuleset
    <3>1. ~(prFw.version < prRuleset) /\ ~(prFw.version > prRuleset)
      BY <2>2
    <3>2. prFw' = [prFw EXCEPT !.step = "xdp", !.previous = prRuleset] /\ prRuleset' = prRuleset
      BY <1>5, <2>2, <3>1 DEF SwapRuleset
    <3>3. RolloutTypes'
      BY <2>0, <3>2
    <3>4. VersionsDescend'
      BY <2>0, <3>2
    <3>5. InstallInv'
      BY <2>0, <2>2, <3>2
    <3> QED
      BY <3>3, <3>4, <3>5
  <2>3. CASE prFw.version > prRuleset
    <3>1. ~(prFw.version < prRuleset) /\ prFw.version # prRuleset
      BY <2>3
    <3>2. prFw' = [prFw EXCEPT !.step = "kernel", !.previous = prRuleset] /\ prRuleset' = prFw.version
      BY <1>5, <2>3, <3>1 DEF SwapRuleset
    <3>3. RolloutTypes'
      BY <2>0, <3>2
    <3>4. VersionsDescend'
      BY <2>0, <3>2
    <3>5. InstallInv'
      BY <2>0, <2>3, <3>2
    <3> QED
      BY <3>3, <3>4, <3>5
  <2> QED
    BY <2>1, <2>2, <2>3
<1>6. CASE KernelApplies
  BY <1>6 DEF KernelApplies
<1>7. CASE KernelRefuses
  BY <1>7 DEF KernelRefuses, RolledBackRuleset, FaultKinds
<1>8. CASE XdpInstalls
  BY <1>8 DEF XdpInstalls
<1>9. ASSUME NEW flush \in BOOLEAN, XdpRefuses(flush) PROVE RolloutInv'
  BY <1>9 DEF XdpRefuses, Flushed, FaultKinds
<1>10. CASE ClassInstalls
  BY <1>10 DEF ClassInstalls
<1>11. ASSUME NEW flush \in BOOLEAN, ClassRefuses(flush) PROVE RolloutInv'
  BY <1>11 DEF ClassRefuses, Flushed, FaultKinds
<1>12. CASE RestartEdge
  BY <1>12 DEF RestartEdge
<1>13. CASE UNCHANGED rolloutVars
  BY <1>13 DEF rolloutVars
<1> QED
  BY <1>1, <1>2, <1>3, <1>4, <1>5, <1>6, <1>7, <1>8, <1>9, <1>10, <1>11, <1>12, <1>13
     DEF RolloutNext, InstallSteps

\* Between installs engine, nftables and XDP rules agree and are no newer
\* than the evaluator's bundle, whichever of the four layers failed how often
\* (FirewallEngine::install, EbpfDataPath::install_rules).
THEOREM LayersStayTogether == RolloutSpec => []LayersAgree
<1>1. RolloutInv => LayersAgree
  BY DEF RolloutInv, RolloutTypes, VersionsDescend, InstallInv, KernelHolds, LayersAgree, FwIdle
<1> QED
  BY <1>1, RolloutInvInit, RolloutInvStep, PTL DEF RolloutSpec

\* No pull, install, fault or rollback takes the cache, the evaluator or the
\* kernel back to an older policy while the process lives (check_not_stale,
\* FirewallEngine::install).
THEOREM PolicyOnlyAdvances == RolloutSpec => NoPolicyRollback
<1>1. RolloutInv /\ [RolloutNext]_rolloutVars =>
        [/\ prRestarts' = prRestarts => prCached' >= prCached /\ prEngine' >= prEngine
         /\ prRestarts' = 0 \/ prFw.previous # None => prKernel' >= prKernel]_rolloutVars
  <2> SUFFICES ASSUME RolloutInv, RolloutNext
               PROVE  /\ prRestarts' = prRestarts => prCached' >= prCached /\ prEngine' >= prEngine
                      /\ prRestarts' = 0 \/ prFw.previous # None => prKernel' >= prKernel
    OBVIOUS
  <2> USE DEF RolloutInv, RolloutTypes, VersionsDescend, InstallInv, KernelHolds, None
  <2>1. ASSUME NEW v \in 1 .. GraphVersions, PullUpdated(v)
        PROVE  /\ prCached' >= prCached /\ prEngine' >= prEngine
               /\ UNCHANGED <<prKernel, prRestarts>>
    BY <2>1, PolicyRolloutAssumption DEF PullUpdated, NotStale, PublishedTo
  <2>2. ASSUME KernelApplies
        PROVE  /\ UNCHANGED <<prCached, prEngine, prRestarts>>
               /\ prRestarts = 0 \/ prFw.previous # None => prKernel' >= prKernel
    BY <2>2 DEF KernelApplies
  <2>3. ASSUME RestartEdge PROVE prRestarts' # prRestarts /\ prKernel' = prKernel
    BY <2>3 DEF RestartEdge
  <2>4. CASE UNCHANGED <<prCached, prEngine, prKernel>>
    BY <2>4
  <2>5. ASSUME ~(\E v \in 1 .. GraphVersions : PullUpdated(v)), ~KernelApplies, ~RestartEdge
        PROVE  UNCHANGED <<prCached, prEngine, prKernel>>
    BY <2>5 DEF RolloutNext, InstallSteps, PublishBundle, ConnectComms, PullBreaks, TakeRuleset,
                SwapRuleset, KernelRefuses, XdpInstalls, XdpRefuses, ClassInstalls, ClassRefuses
  <2> QED
    BY <2>1, <2>2, <2>3, <2>4, <2>5
<1> QED
  BY <1>1, RolloutInvInit, RolloutInvStep, PTL DEF RolloutSpec, NoPolicyRollback

-----------------------------------------------------------------------------
(* The fast path: what a table says. *)

\* The first rule that matches decides, or the default.
LEMMA FirstMatchIs ==
    ASSUME NEW R, NEW rules \in Seq(R), NEW default, NEW f
    PROVE  /\ (\A i \in 1 .. Len(rules) : f \notin rules[i].flows) =>
                FirstMatch(rules, default, f) = default
           /\ \A k \in 1 .. Len(rules) :
                f \in rules[k].flows /\ (\A i \in 1 .. k - 1 : f \notin rules[i].flows) =>
                    FirstMatch(rules, default, f) = rules[k].action
<1> DEFINE hits == {i \in DOMAIN rules : f \in rules[i].flows}
<1>1. DOMAIN rules = 1 .. Len(rules) /\ Len(rules) \in Nat
  BY SeqEntries
<1>2. FirstMatch(rules, default, f) = IF hits = {} THEN default ELSE rules[Min(hits)].action
  BY DEF FirstMatch
<1>3. ASSUME \A i \in 1 .. Len(rules) : f \notin rules[i].flows
      PROVE  FirstMatch(rules, default, f) = default
  BY <1>1, <1>2, <1>3
<1>4. ASSUME NEW k \in 1 .. Len(rules), f \in rules[k].flows, \A i \in 1 .. k - 1 : f \notin rules[i].flows
      PROVE  FirstMatch(rules, default, f) = rules[k].action
  <2>1. k \in hits /\ \A i \in hits : k <= i
    <3> SUFFICES ASSUME NEW i \in hits, ~(k <= i) PROVE FALSE
      BY <1>1, <1>4
    <3>1. i \in 1 .. k - 1
      BY <1>1, <1>4
    <3> QED
      BY <1>4, <3>1
  <2>2. hits \subseteq Nat
    BY <1>1
  <2> HIDE DEF hits
  <2>3. Min(hits) \in hits /\ \A i \in hits : Min(hits) <= i
    BY <2>1 DEF Min
  <2>4. PICK m \in Nat : m = Min(hits)
    BY <2>2, <2>3
  <2>5. k <= m /\ m <= k /\ k \in Nat
    BY <2>1, <2>2, <2>3, <2>4
  <2> QED
    BY <1>2, <2>1, <2>4, <2>5
<1> QED
  BY <1>3, <1>4

LEMMA NothingMatches ==
    ASSUME NEW R, NEW rules \in Seq(R), Len(rules) = 0, NEW default, NEW f
    PROVE  FirstMatch(rules, default, f) = default
<1>1. \A i \in 1 .. Len(rules) : f \notin rules[i].flows
  OBVIOUS
<1> QED
  BY <1>1, FirstMatchIs

\* There is a first match, or none.
LEMMA FirstMatchExists ==
    ASSUME NEW R, NEW rules \in Seq(R), NEW f
    PROVE  \/ \A i \in 1 .. Len(rules) : f \notin rules[i].flows
           \/ \E k \in 1 .. Len(rules) :
                f \in rules[k].flows /\ \A i \in 1 .. k - 1 : f \notin rules[i].flows
<1> DEFINE hits == {i \in 1 .. Len(rules) : f \in rules[i].flows}
<1>1. Len(rules) \in Nat
  BY SeqEntries
<1>2. CASE hits = {}
  BY <1>2
<1>3. CASE hits # {}
  <2>1. hits \subseteq Nat
    BY <1>1
  <2>2. PICK k \in hits : \A i \in hits : k <= i
    <3> HIDE DEF hits
    <3> QED
      BY <1>3, <2>1, LeastNatural
  <2>3. ASSUME NEW i \in 1 .. k - 1 PROVE f \notin rules[i].flows
    <3>1. i \in 1 .. Len(rules) /\ ~(k <= i)
      BY <1>1, <2>2, <2>3
    <3> QED
      BY <2>2, <3>1
  <2> QED
    BY <2>2, <2>3
<1> QED
  BY <1>2, <1>3

LEMMA TableFacts ==
    ASSUME FastPathTypes, NEW t \in TableNames, NEW f
    PROVE  /\ fpMaps[t].count \in Nat /\ fpMaps[t].default \in Actions(t)
           /\ fpMaps[t].slots \in Seq(SlotRules(t))
           /\ \A i \in 1 .. fpMaps[t].count : fpMaps[t].slots[i] \in SlotRules(t)
           /\ NoHit(t, fpMaps[t].count, f) => InForce(fpMaps[t], f) = fpMaps[t].default
           /\ \A k \in 1 .. fpMaps[t].count :
                f \in fpMaps[t].slots[k].flows /\ NoHit(t, k - 1, f) =>
                    InForce(fpMaps[t], f) = fpMaps[t].slots[k].action
<1> DEFINE T == fpMaps[t]
           sub == SubSeq(T.slots, 1, T.count)
<1>1. /\ T.slots \in Seq(SlotRules(t)) /\ T.count \in Nat /\ T.default \in Actions(t)
      /\ T.count <= Len(T.slots) /\ Len(T.slots) \in Nat /\ DOMAIN T.slots = 1 .. Len(T.slots)
  BY SeqEntries DEF FastPathTypes
<1>2. \A i \in 1 .. T.count : T.slots[i] \in SlotRules(t)
  BY <1>1, SeqEntries
<1>3. sub \in Seq(SlotRules(t)) /\ Len(sub) = T.count /\ \A i \in 1 .. T.count : sub[i] = T.slots[i]
  BY <1>1, <1>2
<1>4. InForce(T, f) = FirstMatch(sub, T.default, f)
  BY DEF InForce
<1> HIDE DEF sub
<1>5. NoHit(t, T.count, f) => InForce(T, f) = T.default
  BY <1>1, <1>3, <1>4, FirstMatchIs DEF NoHit
<1>6. ASSUME NEW k \in 1 .. T.count, f \in T.slots[k].flows, NoHit(t, k - 1, f)
      PROVE  InForce(T, f) = T.slots[k].action
  <2>1. f \in sub[k].flows /\ k \in 1 .. Len(sub)
    BY <1>3, <1>6
  <2>2. \A i \in 1 .. k - 1 : f \notin sub[i].flows
    <3> SUFFICES ASSUME NEW i \in 1 .. k - 1 PROVE f \notin sub[i].flows
      OBVIOUS
    <3>1. i \in 1 .. T.count
      BY <1>1
    <3> QED
      BY <1>3, <1>6, <3>1 DEF NoHit
  <2>3. FirstMatch(sub, T.default, f) = sub[k].action
    BY <1>3, <2>1, <2>2, FirstMatchIs
  <2> QED
    BY <1>3, <1>4, <2>1, <2>3
<1> QED
  BY <1>1, <1>2, <1>5, <1>6

-----------------------------------------------------------------------------
(* The fast path: what is compiled for it. *)

LEMMA TerminalFacts ==
    ASSUME NEW p \in DOMAIN FpPolicies
    PROVE  /\ Terminal(FpPolicies[p]) \in Seq(FwRules)
           /\ Len(Terminal(FpPolicies[p])) \in Nat
           /\ DOMAIN Terminal(FpPolicies[p]) = 1 .. Len(Terminal(FpPolicies[p]))
           /\ \A i \in DOMAIN Terminal(FpPolicies[p]) : Terminal(FpPolicies[p])[i] \in FwRules
  BY FastPathAssumption, SeqEntries

\* The compiled prefix: some first rules, each one XDP can express, in place,
\* and the default only when that is all of them.
LEMMA PrefixFacts ==
    ASSUME NEW p \in DOMAIN FpPolicies
    PROVE  LET C == CompileHotPath(FpPolicies[p])
               T == Terminal(FpPolicies[p])
           IN  /\ C.rules \in Seq(SlotRules("rules")) /\ C.default \in Actions("rules")
               /\ Len(C.rules) \in 0 .. Len(T)
               /\ \A i \in 1 .. Len(C.rules) :
                    C.rules[i].flows = T[i].flows /\ (C.rules[i].action = "drop" => T[i].action = "deny")
               /\ C.default = "drop" => Len(C.rules) = Len(T) /\ FpPolicies[p].default = "deny"
<1> DEFINE opaque(T) == {i \in DOMAIN T : ~T[i].pure \/ T[i].action \notin {"allow", "deny"}}
<1>1. PICK T \in Seq(FwRules) : T = Terminal(FpPolicies[p])
  BY TerminalFacts
<1>2. PICK len \in Nat : len = Len(T) /\ DOMAIN T = 1 .. len /\ \A i \in 1 .. len : T[i] \in FwRules
  BY SeqEntries
<1>3. PICK n \in 0 .. len :
        /\ n = IF opaque(T) = {} THEN Len(T) ELSE Min(opaque(T)) - 1
        /\ opaque(T) = {} => n = len
  <2>1. CASE opaque(T) = {}
    BY <1>2, <2>1
  <2>2. CASE opaque(T) # {}
    <3>1. opaque(T) \subseteq Nat /\ opaque(T) \subseteq 1 .. len
      BY <1>2
    <3> HIDE DEF opaque
    <3>2. \E m \in opaque(T) : \A k \in opaque(T) : m <= k
      BY <2>2, <3>1, LeastNatural
    <3>3. Min(opaque(T)) \in opaque(T)
      BY <3>2 DEF Min
    <3>4. PICK m \in 1 .. len : m = Min(opaque(T))
      BY <3>1, <3>3
    <3> QED
      BY <2>2, <3>4
  <2> QED
    BY <2>1, <2>2
<1> DEFINE rule(i) == [flows |-> T[i].flows, action |-> HotPathAction(T[i].action)]
<1>4. CompileHotPath(FpPolicies[p]) =
        [rules |-> [i \in 1 .. n |-> rule(i)],
         default |-> IF opaque(T) = {} THEN HotPathAction(FpPolicies[p].default) ELSE "pass"]
  BY <1>1, <1>3 DEF CompileHotPath
<1> HIDE DEF opaque
<1>5. \A a : HotPathAction(a) \in {"pass", "drop"} /\ (HotPathAction(a) = "drop" => a = "deny")
  BY DEF HotPathAction
<1>6. \A i \in 1 .. n : rule(i) \in SlotRules("rules")
  <2> SUFFICES ASSUME NEW i \in 1 .. n PROVE rule(i) \in SlotRules("rules")
    OBVIOUS
  <2>1. T[i] \in FwRules
    BY <1>2
  <2> QED
    BY <1>5, <2>1 DEF SlotRules, Actions, FwRules
<1>7. \A i \in 1 .. n : rule(i).flows = T[i].flows /\ (rule(i).action = "drop" => T[i].action = "deny")
  BY <1>5
<1> HIDE DEF rule
<1> DEFINE rules == [i \in 1 .. n |-> rule(i)]
<1>8. rules \in Seq(SlotRules("rules")) /\ Len(rules) = n /\ \A i \in 1 .. n : rules[i] = rule(i)
  BY <1>6
<1> HIDE DEF rules
<1>9. /\ CompileHotPath(FpPolicies[p]).rules = rules
      /\ CompileHotPath(FpPolicies[p]).default =
            IF opaque(T) = {} THEN HotPathAction(FpPolicies[p].default) ELSE "pass"
  BY <1>4 DEF rules
<1>10. /\ CompileHotPath(FpPolicies[p]).default \in Actions("rules")
       /\ CompileHotPath(FpPolicies[p]).default = "drop" => n = len /\ FpPolicies[p].default = "deny"
  BY <1>3, <1>5, <1>9 DEF Actions
<1> QED
  BY <1>1, <1>2, <1>7, <1>8, <1>9, <1>10

\* compile_hot_path: a packet its rules drop is one the forward chain drops.
LEMMA CompiledDropsDenied ==
    ASSUME NEW p \in DOMAIN FpPolicies, NEW f,
           FirstMatch(CompileHotPath(FpPolicies[p]).rules, CompileHotPath(FpPolicies[p]).default, f) = "drop"
    PROVE  ForwardVerdict(FpPolicies[p], f) = "drop"
<1>1. PICK T \in Seq(FwRules) : T = Terminal(FpPolicies[p]) /\ Len(T) \in Nat
  BY TerminalFacts
<1>2. PICK C : C = CompileHotPath(FpPolicies[p])
  OBVIOUS
<1>3. PICK R \in Seq(SlotRules("rules")), n \in 0 .. Len(T) :
        /\ R = C.rules /\ n = Len(R)
        /\ \A i \in 1 .. n : R[i].flows = T[i].flows /\ (R[i].action = "drop" => T[i].action = "deny")
        /\ C.default = "drop" => n = Len(T) /\ FpPolicies[p].default = "deny"
  BY <1>1, <1>2, PrefixFacts
<1>4. FirstMatch(R, C.default, f) = "drop"
  BY <1>2, <1>3
<1>5. \/ FirstMatch(T, "none", f) = "deny"
      \/ FirstMatch(T, "none", f) = "none" /\ FpPolicies[p].default # "allow"
  <2>1. CASE \A i \in 1 .. n : f \notin R[i].flows
    <3>1. C.default = "drop"
      BY <1>3, <1>4, <2>1, FirstMatchIs
    <3>2. \A i \in 1 .. Len(T) : f \notin T[i].flows
      BY <1>3, <2>1, <3>1
    <3>3. FirstMatch(T, "none", f) = "none"
      BY <3>2, FirstMatchIs
    <3> QED
      BY <1>3, <3>1, <3>3
  <2>2. ASSUME NEW k \in 1 .. n, f \in R[k].flows, \A i \in 1 .. k - 1 : f \notin R[i].flows
        PROVE  FirstMatch(T, "none", f) = "deny"
    <3>1. R[k].action = "drop"
      BY <1>3, <1>4, <2>2, FirstMatchIs
    <3>2. k \in 1 .. Len(T) /\ \A i \in 1 .. k - 1 : i \in 1 .. n
      BY <1>1, <1>3, <2>2
    <3>3. f \in T[k].flows /\ \A i \in 1 .. k - 1 : f \notin T[i].flows
      BY <1>3, <2>2, <3>2
    <3>4. FirstMatch(T, "none", f) = T[k].action
      BY <3>2, <3>3, FirstMatchIs
    <3> QED
      BY <1>3, <2>2, <3>1, <3>4
  <2> QED
    BY <1>3, <2>1, <2>2, FirstMatchExists
<1> QED
  BY <1>1, <1>5 DEF ForwardVerdict

LEMMA GoalFacts ==
    ASSUME fpSlow \in {0} \cup DOMAIN FpPolicies, NEW t \in TableNames,
           NEW c \in BOOLEAN, c \/ fpSlow # 0
    PROVE  /\ Target(t, c).rules \in Seq(SlotRules(t)) /\ Len(Target(t, c).rules) \in Nat
           /\ \A i \in 1 .. Len(Target(t, c).rules) : Target(t, c).rules[i] \in SlotRules(t)
           /\ Target(t, c).default \in Actions(t)
           /\ c => Len(Target(t, c).rules) = 0 /\ Target("rules", c).default = "pass"
<1>1. /\ Target(t, c).rules \in Seq(SlotRules(t)) /\ Target(t, c).default \in Actions(t)
      /\ c => Target(t, c).rules = <<>> /\ Target("rules", c).default = "pass"
  <2>1. CASE c
    BY <2>1 DEF Target, TableNames, Actions, ClassActions
  <2>2. CASE ~c /\ t = "rules"
    BY <2>2, PrefixFacts DEF Target
  <2>3. CASE ~c /\ t = "class"
    BY <2>3, FastPathAssumption DEF Target, SlotRules, Actions, ClassActions
  <2> QED
    BY <2>1, <2>2, <2>3 DEF TableNames
<1>2. Len(<<>>) = 0
  OBVIOUS
<1> QED
  BY <1>1, <1>2, SeqEntries

\* A table that holds a goal says what the goal says.
LEMMA HoldsSays ==
    ASSUME FastPathTypes, NEW t \in TableNames, NEW goal, goal.rules \in Seq(SlotRules(t)),
           HoldsGoal(t, goal), NEW f
    PROVE  InForce(fpMaps[t], f) = FirstMatch(goal.rules, goal.default, f)
<1>1. PICK R \in Seq(SlotRules(t)), n \in Nat : R = goal.rules /\ n = Len(R)
  BY SeqEntries
<1>2. /\ fpMaps[t].count = n /\ fpMaps[t].default = goal.default
      /\ \A i \in 1 .. n : fpMaps[t].slots[i] = R[i]
  BY <1>1 DEF HoldsGoal
<1>3. CASE \A i \in 1 .. n : f \notin R[i].flows
  <2>1. NoHit(t, n, f)
    BY <1>2, <1>3 DEF NoHit
  <2>2. InForce(fpMaps[t], f) = fpMaps[t].default
    BY <1>2, <2>1, TableFacts
  <2>3. FirstMatch(R, goal.default, f) = goal.default
    BY <1>1, <1>3, FirstMatchIs
  <2> QED
    BY <1>1, <1>2, <2>2, <2>3
<1>4. ASSUME NEW k \in 1 .. n, f \in R[k].flows, \A i \in 1 .. k - 1 : f \notin R[i].flows
      PROVE  InForce(fpMaps[t], f) = FirstMatch(R, goal.default, f)
  <2>1. \A i \in 1 .. k - 1 : i \in 1 .. n
    BY <1>4
  <2>2. NoHit(t, k - 1, f) /\ f \in fpMaps[t].slots[k].flows
    BY <1>2, <1>4, <2>1 DEF NoHit
  <2>3. InForce(fpMaps[t], f) = fpMaps[t].slots[k].action
    BY <1>2, <2>2, TableFacts
  <2>4. FirstMatch(R, goal.default, f) = R[k].action
    BY <1>1, <1>4, FirstMatchIs
  <2> QED
    BY <1>2, <2>3, <2>4
<1> QED
  BY <1>1, <1>3, <1>4, FirstMatchExists

LEMMA DropsAreDenied ==
    ASSUME FastPathTypes, RulesHold, fpLoader = NoUpdate, ~fpStuck,
           NEW f, InForce(fpMaps["rules"], f) = "drop"
    PROVE  ForwardVerdict(FpPolicies[fpSlow], f) = "drop"
<1>1. "rules" \in TableNames /\ fpSlow \in {0} \cup DOMAIN FpPolicies
  BY DEF TableNames, FastPathTypes
<1>2. ~HoldsGoal("rules", Target("rules", TRUE))
  <2> SUFFICES ASSUME HoldsGoal("rules", Target("rules", TRUE)) PROVE FALSE
    OBVIOUS
  <2>1. /\ Target("rules", TRUE).rules \in Seq(SlotRules("rules"))
        /\ Len(Target("rules", TRUE).rules) = 0 /\ Target("rules", TRUE).default = "pass"
    BY <1>1, GoalFacts
  <2>2. FirstMatch(Target("rules", TRUE).rules, Target("rules", TRUE).default, f) = "pass"
    <3>1. PICK R \in Seq(SlotRules("rules")) : R = Target("rules", TRUE).rules /\ Len(R) = 0
      BY <2>1
    <3>2. Len(R) = 0
      BY <3>1
    <3>3. FirstMatch(R, "pass", f) = "pass"
      BY <3>2, NothingMatches
    <3> QED
      BY <2>1, <3>1, <3>3
  <2>3. InForce(fpMaps["rules"], f) = FirstMatch(Target("rules", TRUE).rules, Target("rules", TRUE).default, f)
    BY <1>1, <2>1, HoldsSays
  <2> QED
    BY <2>2, <2>3
<1>3. fpSlow \in DOMAIN FpPolicies /\ HoldsGoal("rules", Target("rules", FALSE))
  BY <1>1, <1>2 DEF RulesHold
<1>4. Target("rules", FALSE) = CompileHotPath(FpPolicies[fpSlow])
  BY DEF Target
<1>5. CompileHotPath(FpPolicies[fpSlow]).rules \in Seq(SlotRules("rules"))
  BY <1>3, PrefixFacts
<1> QED
  BY <1>1, <1>3, <1>4, <1>5, HoldsSays, CompiledDropsDenied

-----------------------------------------------------------------------------
(* The fast path: the walk of a packet. *)

\* A walk leaves everything but the packet alone.
LEMMA WalkLeaves ==
    ASSUME FastPathInv, UNCHANGED <<fpSlow, fpMaps, fpLoader, fpCache, fpStuck>>,
           fpPacket' # NoPacket => DOMAIN fpPacket' = PacketFields
    PROVE  FastPathTypes' /\ LoaderHolds' /\ RulesHold' /\ CacheHolds'
<1>1. FastPathTypes'
  BY DEF FastPathInv, FastPathTypes
<1>2. LoaderHolds'
  BY DEF FastPathInv, LoaderHolds, Goal, Target, HoldsGoal, Quiet
<1>3. RulesHold'
  BY DEF FastPathInv, RulesHold, Target, HoldsGoal
<1>4. CacheHolds'
  BY DEF FastPathInv, CacheHolds, Quiet, MapsVerdict
<1> QED
  BY <1>1, <1>2, <1>3, <1>4

LEMMA ChunkFacts ==
    ASSUME NEW pkt, NEW stage, NEW lo
    PROVE  LET c == Chunk(pkt, stage, lo)
           IN  /\ DOMAIN c = PacketFields /\ c # NoPacket
               /\ c.stage = stage /\ c.flow = pkt.flow /\ c.quiet = pkt.quiet /\ c.lo = lo /\ c.at = 0
<1> DEFINE c == Chunk(pkt, stage, lo)
<1>1. DOMAIN c = PacketFields
  BY DEF Chunk, PacketFields
<1>2. DOMAIN NoPacket = {"stage"} /\ "flow" \in PacketFields
  BY DEF NoPacket, PacketFields
<1>3. c.stage = stage /\ c.flow = pkt.flow /\ c.quiet = pkt.quiet /\ c.lo = lo /\ c.at = 0
  BY DEF Chunk
<1> HIDE DEF c
<1>4. c # NoPacket
  BY <1>1, <1>2
<1> QED
  BY <1>1, <1>3, <1>4 DEF c

\* A table's answer ends the walk with the maps' verdict, or sends it on.
LEMMA ResolvedWalks ==
    ASSUME FastPathTypes, WalkHolds, fpPacket # NoPacket, fpPacket.stage \in TableNames,
           NEW result, fpPacket' = Resolved(result), UNCHANGED <<fpMaps, fpLoader>>,
           fpPacket.quiet => result = InForce(fpMaps[fpPacket.stage], fpPacket.flow) /\ result \in Actions(fpPacket.stage)
    PROVE  WalkHolds' /\ DOMAIN fpPacket' = PacketFields
<1>1. CASE fpPacket.stage = "class" /\ result # "block"
  <2>1. fpPacket' = Chunk(fpPacket, "rules", 1)
    BY <1>1 DEF Resolved
  <2>2. /\ DOMAIN fpPacket' = PacketFields /\ fpPacket' # NoPacket
        /\ fpPacket'.stage = "rules" /\ fpPacket'.flow = fpPacket.flow
        /\ fpPacket'.quiet = fpPacket.quiet /\ fpPacket'.lo = 1 /\ fpPacket'.at = 0
    BY <2>1, ChunkFacts
  <2> SUFFICES ASSUME fpPacket'.quiet PROVE WalkHolds'
    BY <2>2 DEF WalkHolds
  <2>3. /\ fpLoader' = NoUpdate /\ fpPacket'.flow \in FpFlows
        /\ InForce(fpMaps'["class"], fpPacket'.flow) # "block"
    BY <1>1, <2>2 DEF WalkHolds
  <2>4. 1 <= fpMaps'["rules"].count + 1
    BY TableFacts DEF TableNames
  <2>5. \A i : ~(i \in 1 .. 0)
    OBVIOUS
  <2>6. NoHit("rules", fpPacket.lo - 1, fpPacket.flow)'
    BY <2>2, <2>5 DEF NoHit
  <2> QED
    BY <2>2, <2>3, <2>4, <2>6 DEF WalkHolds
<1>2. CASE ~(fpPacket.stage = "class" /\ result # "block")
  <2> DEFINE c == Chunk(fpPacket, "apply", 1)
             act == IF result = "block" THEN "drop" ELSE result
  <2>1. fpPacket' = [c EXCEPT !.action = act]
    BY <1>2 DEF Resolved
  <2>2. DOMAIN c = PacketFields /\ c.stage = "apply" /\ c.flow = fpPacket.flow /\ c.quiet = fpPacket.quiet
    BY ChunkFacts
  <2> HIDE DEF c, act
  <2>3. /\ DOMAIN fpPacket' = PacketFields /\ fpPacket'.stage = "apply"
        /\ fpPacket'.flow = fpPacket.flow /\ fpPacket'.quiet = fpPacket.quiet /\ fpPacket'.action = act
    BY <2>1, <2>2 DEF PacketFields
  <2> SUFFICES ASSUME fpPacket'.quiet PROVE WalkHolds'
    BY <2>3 DEF WalkHolds
  <2>4. fpLoader' = NoUpdate /\ fpPacket'.flow \in FpFlows
    BY <2>3 DEF WalkHolds
  <2>5. act = MapsVerdict(fpPacket.flow)
    <3>1. CASE fpPacket.stage = "class"
      BY <1>2, <2>3, <3>1 DEF MapsVerdict, act
    <3>2. CASE fpPacket.stage = "rules"
      <4>1. InForce(fpMaps["class"], fpPacket.flow) # "block" /\ result # "block"
        BY <2>3, <3>2 DEF WalkHolds, Actions
      <4> QED
        BY <2>3, <3>2, <4>1 DEF MapsVerdict, act
    <3> QED
      BY <3>1, <3>2 DEF TableNames
  <2>6. fpPacket'.action = MapsVerdict(fpPacket.flow)'
    BY <2>3, <2>5 DEF MapsVerdict
  <2> QED
    BY <2>3, <2>4, <2>6 DEF WalkHolds
<1> QED
  BY <1>1, <1>2

LEMMA ArriveAndRead ==
    ASSUME FastPathInv, ReadMeta \/ \E f \in FpFlows : PacketArrives(f)
    PROVE  FastPathInv'
<1>1. FastPathTypes /\ WalkHolds
  BY DEF FastPathInv
<1>2. UNCHANGED <<fpSlow, fpMaps, fpLoader, fpCache, fpStuck>>
  BY DEF ReadMeta, PacketArrives
<1>3. ASSUME NEW f \in FpFlows, PacketArrives(f) PROVE WalkHolds' /\ DOMAIN fpPacket' = PacketFields
  <2>1. /\ DOMAIN fpPacket' = PacketFields /\ fpPacket' # NoPacket
        /\ fpPacket'.stage = "class" /\ fpPacket'.flow = f
        /\ fpPacket'.quiet = (fpLoader = NoUpdate) /\ fpPacket'.lo = 1 /\ fpPacket'.at = 0
    BY <1>3, ChunkFacts DEF PacketArrives
  <2>2. 1 <= fpMaps'["class"].count + 1
    BY <1>1, <1>2, TableFacts DEF TableNames
  <2>3. \A i : ~(i \in 1 .. 0)
    OBVIOUS
  <2>4. NoHit(fpPacket.stage, fpPacket.lo - 1, fpPacket.flow)'
    BY <2>1, <2>3 DEF NoHit
  <2>5. fpPacket'.quiet => fpLoader' = NoUpdate
    BY <1>2, <2>1
  <2>6. fpPacket'.lo \in Nat \ {0} /\ fpPacket'.lo <= fpMaps'[fpPacket'.stage].count + 1
    BY <2>1, <2>2
  <2>7. fpPacket'.stage # "rules" /\ fpPacket'.stage # "apply" /\ fpPacket'.flow \in FpFlows
    BY <2>1
  <2> QED
    BY <2>1, <2>4, <2>5, <2>6, <2>7 DEF WalkHolds
<1>4. ASSUME ReadMeta PROVE WalkHolds' /\ DOMAIN fpPacket' = PacketFields
  <2>1. /\ fpPacket.stage \in {"class", "rules"} /\ fpPacket.at = 0
        /\ fpPacket' = [fpPacket EXCEPT !.at = fpPacket.lo, !.count = fpMaps[fpPacket.stage].count,
                                        !.default = fpMaps[fpPacket.stage].default]
    BY <1>4 DEF ReadMeta
  <2>2. fpPacket # NoPacket
    BY <2>1 DEF NoPacket
  <2>3. DOMAIN fpPacket = PacketFields
    BY <1>1, <2>2 DEF FastPathTypes
  <2>4. /\ DOMAIN fpPacket' = PacketFields /\ fpPacket'.stage = fpPacket.stage
        /\ fpPacket'.flow = fpPacket.flow /\ fpPacket'.quiet = fpPacket.quiet
        /\ fpPacket'.lo = fpPacket.lo /\ fpPacket'.at = fpPacket.lo
        /\ fpPacket'.count = fpMaps[fpPacket.stage].count
        /\ fpPacket'.default = fpMaps[fpPacket.stage].default
    BY <2>1, <2>3 DEF PacketFields
  <2> SUFFICES ASSUME fpPacket'.quiet PROVE WalkHolds'
    BY <2>4 DEF WalkHolds
  <2>5. /\ fpLoader = NoUpdate /\ fpPacket.flow \in FpFlows
        /\ fpPacket.lo \in Nat \ {0} /\ fpPacket.lo <= fpMaps[fpPacket.stage].count + 1
        /\ NoHit(fpPacket.stage, fpPacket.lo - 1, fpPacket.flow)
        /\ fpPacket.stage = "rules" => InForce(fpMaps["class"], fpPacket.flow) # "block"
    BY <2>1, <2>2, <2>4, <1>1 DEF WalkHolds
  <2>6. fpMaps[fpPacket.stage].count \in Nat
    BY <1>1, <2>1, TableFacts DEF TableNames
  <2>7. fpPacket.lo \in fpPacket.lo .. fpMaps[fpPacket.stage].count + 1
    BY <2>5, <2>6
  <2>8. NoHit(fpPacket.stage, fpPacket.at - 1, fpPacket.flow)'
    BY <1>2, <2>4, <2>5 DEF NoHit
  <2> QED
    BY <1>2, <2>1, <2>4, <2>5, <2>7, <2>8 DEF WalkHolds
<1> QED
  BY <1>2, <1>3, <1>4, WalkLeaves DEF FastPathInv

\* What a quiet packet in the middle of a chunk knows of its table.
LEMMA ScanFacts ==
    ASSUME FastPathTypes, WalkHolds, Scanning
    PROVE  /\ fpPacket # NoPacket /\ fpPacket.stage \in TableNames /\ DOMAIN fpPacket = PacketFields
           /\ fpPacket.quiet =>
                /\ fpLoader = NoUpdate /\ fpPacket.flow \in FpFlows
                /\ fpPacket.lo \in Nat \ {0} /\ fpPacket.at \in Nat \ {0}
                /\ fpMaps[fpPacket.stage].count \in Nat
                /\ fpPacket.at <= fpMaps[fpPacket.stage].count + 1 /\ fpPacket.lo <= fpPacket.at
                /\ fpPacket.count = fpMaps[fpPacket.stage].count
                /\ fpPacket.default = fpMaps[fpPacket.stage].default
                /\ NoHit(fpPacket.stage, fpPacket.at - 1, fpPacket.flow)
                /\ fpPacket.stage = "rules" => InForce(fpMaps["class"], fpPacket.flow) # "block"
<1>1. fpPacket.stage \in {"class", "rules"} /\ fpPacket.at # 0
  BY DEF Scanning
<1>2. fpPacket # NoPacket
  BY <1>1 DEF NoPacket
<1>3. fpPacket.stage \in TableNames
  BY <1>1 DEF TableNames
<1>4. DOMAIN fpPacket = PacketFields
  BY <1>2 DEF FastPathTypes
<1>5. fpMaps[fpPacket.stage].count \in Nat
  BY <1>3, TableFacts
<1>6. ASSUME fpPacket.quiet
      PROVE  /\ fpLoader = NoUpdate /\ fpPacket.flow \in FpFlows /\ fpPacket.lo \in Nat \ {0}
             /\ fpPacket.at \in fpPacket.lo .. fpMaps[fpPacket.stage].count + 1
             /\ fpPacket.count = fpMaps[fpPacket.stage].count
             /\ fpPacket.default = fpMaps[fpPacket.stage].default
             /\ NoHit(fpPacket.stage, fpPacket.at - 1, fpPacket.flow)
             /\ fpPacket.stage = "rules" => InForce(fpMaps["class"], fpPacket.flow) # "block"
  BY <1>1, <1>2, <1>6 DEF WalkHolds
<1>7. ASSUME fpPacket.quiet
      PROVE  /\ fpPacket.at \in Nat \ {0}
             /\ fpPacket.at <= fpMaps[fpPacket.stage].count + 1 /\ fpPacket.lo <= fpPacket.at
  BY <1>5, <1>6, <1>7
<1> QED
  BY <1>2, <1>3, <1>4, <1>5, <1>6, <1>7

LEMMA ScanKeeps ==
    ASSUME FastPathInv, ScanSlot
    PROVE  FastPathInv'
<1>1. FastPathTypes /\ WalkHolds /\ Scanning
  BY DEF FastPathInv, ScanSlot
<1>2. UNCHANGED <<fpSlow, fpMaps, fpLoader, fpCache, fpStuck>>
  BY DEF ScanSlot
<1> DEFINE rule == fpMaps[fpPacket.stage].slots[fpPacket.at]
<1>3. CASE fpPacket.flow \in rule.flows
  <2>1. fpPacket' = Resolved(rule.action)
    BY <1>3 DEF ScanSlot
  <2>2. ASSUME fpPacket.quiet
        PROVE  rule.action = InForce(fpMaps[fpPacket.stage], fpPacket.flow) /\ rule.action \in Actions(fpPacket.stage)
    <3>1. fpPacket.at \in 1 .. fpMaps[fpPacket.stage].count
      BY <1>1, <2>2, ScanFacts DEF ScanSlot
    <3>2. rule \in SlotRules(fpPacket.stage)
      BY <1>1, <3>1, ScanFacts, TableFacts
    <3>3. NoHit(fpPacket.stage, fpPacket.at - 1, fpPacket.flow) /\ fpPacket.stage \in TableNames
      BY <1>1, <2>2, ScanFacts
    <3>4. rule.action = InForce(fpMaps[fpPacket.stage], fpPacket.flow)
      BY <1>1, <1>3, <3>1, <3>3, TableFacts
    <3> QED
      BY <3>2, <3>4 DEF SlotRules
  <2> HIDE DEF rule
  <2>3. WalkHolds' /\ DOMAIN fpPacket' = PacketFields
    BY <1>1, <1>2, <2>1, <2>2, ScanFacts, ResolvedWalks
  <2> QED
    BY <1>2, <2>3, WalkLeaves DEF FastPathInv
<1>4. CASE fpPacket.flow \notin rule.flows
  <2>1. fpPacket' = [fpPacket EXCEPT !.at = @ + 1]
    BY <1>4 DEF ScanSlot
  <2>2. DOMAIN fpPacket = PacketFields /\ fpPacket.stage \in TableNames
    BY <1>1, ScanFacts
  <2>3. /\ DOMAIN fpPacket' = PacketFields /\ fpPacket'.stage = fpPacket.stage
        /\ fpPacket'.flow = fpPacket.flow /\ fpPacket'.quiet = fpPacket.quiet
        /\ fpPacket'.lo = fpPacket.lo /\ fpPacket'.at = fpPacket.at + 1
        /\ fpPacket'.count = fpPacket.count /\ fpPacket'.default = fpPacket.default
    BY <2>1, <2>2 DEF PacketFields
  <2>4. ASSUME fpPacket'.quiet PROVE WalkHolds'
    <3>1. /\ fpLoader = NoUpdate /\ fpPacket.flow \in FpFlows
          /\ fpPacket.count = fpMaps[fpPacket.stage].count
          /\ fpPacket.default = fpMaps[fpPacket.stage].default
          /\ NoHit(fpPacket.stage, fpPacket.at - 1, fpPacket.flow)
          /\ fpPacket.stage = "rules" => InForce(fpMaps["class"], fpPacket.flow) # "block"
      BY <1>1, <2>3, <2>4, ScanFacts
    <3>2. PICK at \in Nat \ {0}, lo \in Nat \ {0}, n \in Nat :
            at = fpPacket.at /\ lo = fpPacket.lo /\ n = fpMaps[fpPacket.stage].count /\ lo <= at /\ at <= n
      BY <1>1, <2>3, <2>4, ScanFacts DEF ScanSlot
    <3>3. NoHit(fpPacket.stage, at, fpPacket.flow)
      <4> SUFFICES ASSUME NEW i \in 1 .. at PROVE fpPacket.flow \notin fpMaps[fpPacket.stage].slots[i].flows
        BY DEF NoHit
      <4>1. i = at \/ i \in 1 .. at - 1
        OBVIOUS
      <4> QED
        BY <1>4, <3>1, <3>2, <4>1 DEF NoHit
    <3>4. NoHit(fpPacket.stage, fpPacket.at - 1, fpPacket.flow)'
      <4>1. fpPacket'.at - 1 = at
        BY <2>3, <3>2
      <4> QED
        BY <1>2, <2>3, <3>3, <4>1 DEF NoHit
    <3>5. /\ fpPacket'.lo \in Nat \ {0} /\ fpPacket'.lo <= fpMaps'[fpPacket'.stage].count + 1
          /\ fpPacket'.at # 0 /\ fpPacket'.at \in fpPacket'.lo .. fpMaps'[fpPacket'.stage].count + 1
      BY <1>2, <2>3, <3>2
    <3>6. /\ fpLoader' = NoUpdate /\ fpPacket'.flow \in FpFlows
          /\ fpPacket'.stage \in {"class", "rules"} /\ fpPacket'.stage # "apply"
          /\ fpPacket'.count = fpMaps'[fpPacket'.stage].count
          /\ fpPacket'.default = fpMaps'[fpPacket'.stage].default
          /\ fpPacket'.stage = "rules" => InForce(fpMaps'["class"], fpPacket'.flow) # "block"
      BY <1>2, <2>2, <2>3, <3>1 DEF TableNames
    <3> QED
      BY <3>4, <3>5, <3>6 DEF WalkHolds
  <2>5. WalkHolds'
    BY <2>4 DEF WalkHolds
  <2> QED
    BY <1>2, <2>3, <2>5, WalkLeaves DEF FastPathInv
<1> QED
  BY <1>3, <1>4

LEMMA EndChunkKeeps ==
    ASSUME FastPathInv, EndChunk
    PROVE  FastPathInv'
<1>1. FastPathTypes /\ WalkHolds /\ Scanning
  BY DEF FastPathInv, EndChunk
<1>2. UNCHANGED <<fpSlow, fpMaps, fpLoader, fpCache, fpStuck>>
  BY DEF EndChunk
<1>3. PICK end : end = ChunkEnd
  OBVIOUS
<1>4. fpPacket.at = end \/ fpPacket.at > fpPacket.count
  BY <1>3 DEF EndChunk
<1>5. ASSUME fpPacket.quiet
      PROVE  end \in Nat \ {0} /\ fpPacket.lo < end
  <2>1. fpPacket.lo \in Nat \ {0} /\ FwChunk \in Nat \ {0}
    BY <1>1, <1>5, ScanFacts, FastPathAssumption
  <2> QED
    BY <1>3, <2>1 DEF ChunkEnd
<1>6. CASE end <= fpPacket.count
  <2>1. fpPacket' = Chunk(fpPacket, fpPacket.stage, end)
    BY <1>3, <1>6 DEF EndChunk
  <2>2. /\ DOMAIN fpPacket' = PacketFields /\ fpPacket'.stage = fpPacket.stage
        /\ fpPacket'.flow = fpPacket.flow /\ fpPacket'.quiet = fpPacket.quiet
        /\ fpPacket'.lo = end /\ fpPacket'.at = 0
    BY <2>1, ChunkFacts
  <2>3. ASSUME fpPacket'.quiet PROVE WalkHolds'
    <3>1. /\ fpLoader = NoUpdate /\ fpPacket.flow \in FpFlows
          /\ NoHit(fpPacket.stage, fpPacket.at - 1, fpPacket.flow)
          /\ fpPacket.stage = "rules" => InForce(fpMaps["class"], fpPacket.flow) # "block"
          /\ fpPacket.stage \in TableNames
      BY <1>1, <2>2, <2>3, ScanFacts
    <3>2. PICK at \in Nat \ {0}, n \in Nat :
            at = fpPacket.at /\ n = fpMaps[fpPacket.stage].count /\ n = fpPacket.count
      BY <1>1, <2>2, <2>3, ScanFacts
    <3>3. end \in Nat \ {0} /\ end <= n /\ end <= at
      BY <1>4, <1>5, <1>6, <2>2, <2>3, <3>2
    <3>4. NoHit(fpPacket.stage, end - 1, fpPacket.flow)
      <4> SUFFICES ASSUME NEW i \in 1 .. end - 1 PROVE fpPacket.flow \notin fpMaps[fpPacket.stage].slots[i].flows
        BY DEF NoHit
      <4>1. i \in 1 .. at - 1
        BY <3>3
      <4> QED
        BY <3>1, <3>2, <4>1 DEF NoHit
    <3>5. NoHit(fpPacket.stage, fpPacket.lo - 1, fpPacket.flow)'
      BY <1>2, <2>2, <3>4 DEF NoHit
    <3>6. fpPacket'.lo \in Nat \ {0} /\ fpPacket'.lo <= fpMaps'[fpPacket'.stage].count + 1
      BY <1>2, <2>2, <3>2, <3>3
    <3>7. /\ fpLoader' = NoUpdate /\ fpPacket'.flow \in FpFlows
          /\ fpPacket'.stage \in {"class", "rules"} /\ fpPacket'.stage # "apply"
          /\ fpPacket'.stage = "rules" => InForce(fpMaps'["class"], fpPacket'.flow) # "block"
      BY <1>2, <2>2, <3>1 DEF TableNames
    <3> QED
      BY <2>2, <3>5, <3>6, <3>7 DEF WalkHolds
  <2>4. WalkHolds'
    BY <2>3 DEF WalkHolds
  <2> QED
    BY <1>2, <2>2, <2>4, WalkLeaves DEF FastPathInv
<1>7. CASE ~(end <= fpPacket.count)
  <2>1. fpPacket' = Resolved(fpPacket.default)
    BY <1>3, <1>7 DEF EndChunk
  <2>2. ASSUME fpPacket.quiet
        PROVE  /\ fpPacket.default = InForce(fpMaps[fpPacket.stage], fpPacket.flow)
               /\ fpPacket.default \in Actions(fpPacket.stage)
    <3>1. PICK at \in Nat \ {0}, n \in Nat :
            /\ at = fpPacket.at /\ n = fpMaps[fpPacket.stage].count /\ n = fpPacket.count /\ at <= n + 1
            /\ fpPacket.default = fpMaps[fpPacket.stage].default
            /\ NoHit(fpPacket.stage, at - 1, fpPacket.flow)
      BY <1>1, <2>2, ScanFacts
    <3>2. at - 1 = n
      BY <1>4, <1>5, <1>7, <2>2, <3>1
    <3>3. NoHit(fpPacket.stage, n, fpPacket.flow)
      BY <3>1, <3>2
    <3> QED
      BY <1>1, <3>1, <3>3, ScanFacts, TableFacts
  <2>3. WalkHolds' /\ DOMAIN fpPacket' = PacketFields
    BY <1>1, <1>2, <2>1, <2>2, ScanFacts, ResolvedWalks
  <2> QED
    BY <1>2, <2>3, WalkLeaves DEF FastPathInv
<1> QED
  BY <1>6, <1>7

-----------------------------------------------------------------------------
(* The fast path: what happens to the cache. *)

\* A step that changes only the cache and the packet, and caches nothing
\* quiet but what was there or what the tables say.
LEMMA CacheKeeps ==
    ASSUME FastPathInv, UNCHANGED <<fpSlow, fpMaps, fpLoader, fpStuck>>,
           DOMAIN fpCache' = FpFlows,
           \A f \in FpFlows : fpCache'[f] = Uncached \/ DOMAIN fpCache'[f] = {"action", "age", "quiet"},
           \A f \in FpFlows : Quiet(f)' =>
                \/ Quiet(f) /\ fpCache'[f].action = fpCache[f].action
                \/ fpLoader = NoUpdate /\ fpCache'[f].action = MapsVerdict(f),
           fpPacket' # NoPacket => DOMAIN fpPacket' = PacketFields, WalkHolds'
    PROVE  FastPathInv'
<1>1. FastPathTypes'
  BY DEF FastPathInv, FastPathTypes
<1>2. LoaderHolds'
  <2>1. NoUpdate.step = "idle"
    BY DEF NoUpdate
  <2>2. LoaderHolds /\ UNCHANGED <<fpSlow, fpMaps, fpLoader>>
    BY DEF FastPathInv
  <2>3. Goal' = Goal /\ \A t, goal : HoldsGoal(t, goal)' = HoldsGoal(t, goal)
    BY <2>2 DEF Goal, Target, HoldsGoal
  <2>4. ASSUME fpLoader'.step \in {"list", "flush"}, NEW f \in FpFlows, Quiet(f)'
        PROVE  IF fpLoader'.step = "list" THEN f \in fpLoader'.keys \cup fpLoader'.todo ELSE f \in fpLoader'.keys
    <3>1. Quiet(f)
      BY <2>1, <2>2, <2>4
    <3> QED
      BY <2>2, <2>4, <3>1 DEF LoaderHolds
  <2>5. fpLoader'.step \in {"list", "flush"} => HoldsGoal(fpLoader.table, Goal)'
    BY <2>2, <2>3 DEF LoaderHolds, HoldsGoal
  <2>6. fpLoader'.step = "slots" =>
        /\ fpLoader'.todo = FpFlows /\ fpLoader'.slot <= Len(Goal'.rules) + 1
        /\ fpLoader'.slot <= Len(fpMaps'[fpLoader'.table].slots) + 1
        /\ \A i \in 1 .. fpLoader'.slot - 1 : fpMaps'[fpLoader'.table].slots[i] = Goal'.rules[i]
    BY <2>2, <2>3 DEF LoaderHolds
  <2> QED
    BY <2>4, <2>5, <2>6 DEF LoaderHolds
<1>3. RulesHold'
  BY DEF FastPathInv, RulesHold, Target, HoldsGoal
<1>4. CacheHolds'
  <2> SUFFICES ASSUME fpLoader' = NoUpdate, ~fpStuck', NEW f \in FpFlows, Quiet(f)'
               PROVE  fpCache'[f].action = MapsVerdict(f)'
    BY DEF CacheHolds
  <2>1. fpCache'[f].action = MapsVerdict(f)
    BY DEF FastPathInv, CacheHolds
  <2> QED
    BY <2>1 DEF MapsVerdict
<1> QED
  BY <1>1, <1>2, <1>3, <1>4 DEF FastPathInv

LEMMA ApplyKeeps ==
    ASSUME FastPathInv, ApplyVerdict
    PROVE  FastPathInv'
<1> DEFINE entry == [action |-> fpPacket.action, age |-> fpPacket.age, quiet |-> fpPacket.quiet]
<1>1. /\ FastPathTypes /\ WalkHolds /\ fpPacket.stage = "apply"
      /\ fpCache' = [fpCache EXCEPT ![fpPacket.flow] = entry] /\ fpPacket' = NoPacket
      /\ UNCHANGED <<fpSlow, fpMaps, fpLoader, fpStuck>>
  BY DEF FastPathInv, ApplyVerdict
<1>2. fpPacket # NoPacket
  BY <1>1 DEF NoPacket
<1>3. DOMAIN entry = {"action", "age", "quiet"} /\ entry.action = fpPacket.action /\ entry.quiet = fpPacket.quiet
  OBVIOUS
<1> HIDE DEF entry
<1>4. DOMAIN fpCache' = FpFlows /\ \A f \in FpFlows : fpCache'[f] = IF f = fpPacket.flow THEN entry ELSE fpCache[f]
  BY <1>1 DEF FastPathTypes
<1>5. \A f \in FpFlows : fpCache'[f] = Uncached \/ DOMAIN fpCache'[f] = {"action", "age", "quiet"}
  BY <1>1, <1>3, <1>4 DEF FastPathTypes
<1>6. ASSUME NEW f \in FpFlows, Quiet(f)'
      PROVE  \/ Quiet(f) /\ fpCache'[f].action = fpCache[f].action
             \/ fpLoader = NoUpdate /\ fpCache'[f].action = MapsVerdict(f)
  <2>1. CASE f = fpPacket.flow
    <3>1. fpPacket.quiet /\ fpCache'[f].action = fpPacket.action
      BY <1>3, <1>4, <1>6, <2>1 DEF Quiet
    <3> QED
      BY <1>1, <1>2, <2>1, <3>1 DEF WalkHolds
  <2>2. CASE f # fpPacket.flow
    BY <1>4, <1>6, <2>2 DEF Quiet
  <2> QED
    BY <2>1, <2>2
<1>7. WalkHolds'
  BY <1>1 DEF WalkHolds
<1> QED
  BY <1>1, <1>4, <1>5, <1>6, <1>7, CacheKeeps

LEMMA EvictKeeps ==
    ASSUME FastPathInv, NEW f \in FpFlows, LruEvicts(f)
    PROVE  FastPathInv'
<1>1. /\ FastPathTypes /\ WalkHolds /\ fpCache' = [fpCache EXCEPT ![f] = Uncached]
      /\ UNCHANGED <<fpSlow, fpMaps, fpLoader, fpStuck, fpPacket>>
  BY DEF FastPathInv, LruEvicts
<1>2. /\ DOMAIN fpCache' = FpFlows
      /\ \A g \in FpFlows : fpCache'[g] = Uncached \/ fpCache'[g] = fpCache[g]
  BY <1>1 DEF FastPathTypes
<1>3. /\ \A g \in FpFlows : fpCache'[g] = Uncached \/ DOMAIN fpCache'[g] = {"action", "age", "quiet"}
      /\ \A g \in FpFlows : Quiet(g)' => Quiet(g) /\ fpCache'[g].action = fpCache[g].action
  BY <1>1, <1>2 DEF FastPathTypes, Quiet
<1>4. WalkHolds' /\ (fpPacket' # NoPacket => DOMAIN fpPacket' = PacketFields)
  BY <1>1 DEF WalkHolds, NoHit, MapsVerdict, FastPathTypes
<1> QED
  BY <1>1, <1>2, <1>3, <1>4, CacheKeeps

\* Time passes over a cached verdict, or a packet, and changes its age only.
LEMMA AgedFacts ==
    ASSUME NEW r, "age" \in DOMAIN r
    PROVE  /\ DOMAIN Aged(r) = DOMAIN r
           /\ \A x \in DOMAIN r : x # "age" => Aged(r)[x] = r[x]
  BY DEF Aged

LEMMA TicksKeep ==
    ASSUME FastPathInv, KtimeTicks
    PROVE  FastPathInv'
<1>1. /\ FastPathTypes /\ WalkHolds
      /\ fpCache' = [f \in FpFlows |-> Aged(fpCache[f])] /\ fpPacket' = Aged(fpPacket)
      /\ UNCHANGED <<fpSlow, fpMaps, fpLoader, fpStuck>>
  BY DEF FastPathInv, KtimeTicks
<1>2. Aged(Uncached) = Uncached /\ Aged(NoPacket) = NoPacket
  BY DEF Aged
<1>3. \A f \in FpFlows :
        \/ fpCache[f] = Uncached /\ fpCache'[f] = Uncached
        \/ /\ DOMAIN fpCache'[f] = {"action", "age", "quiet"} /\ fpCache[f] # Uncached
           /\ fpCache'[f].action = fpCache[f].action /\ fpCache'[f].quiet = fpCache[f].quiet
  <2> SUFFICES ASSUME NEW f \in FpFlows, fpCache[f] # Uncached
               PROVE  /\ DOMAIN fpCache'[f] = {"action", "age", "quiet"}
                      /\ fpCache'[f].action = fpCache[f].action /\ fpCache'[f].quiet = fpCache[f].quiet
    BY <1>1, <1>2
  <2>1. DOMAIN fpCache[f] = {"action", "age", "quiet"}
    BY <1>1 DEF FastPathTypes
  <2>2. fpCache'[f] = Aged(fpCache[f])
    BY <1>1
  <2> QED
    BY <2>1, <2>2, AgedFacts
<1>4. DOMAIN fpCache' = FpFlows
  BY <1>1
<1>5. \A f \in FpFlows : Quiet(f)' => Quiet(f) /\ fpCache'[f].action = fpCache[f].action
  BY <1>3 DEF Quiet
<1>6. CASE fpPacket = NoPacket
  <2>1. fpPacket' = NoPacket /\ WalkHolds'
    BY <1>1, <1>2, <1>6 DEF WalkHolds
  <2> QED
    BY <1>1, <1>3, <1>4, <1>5, <2>1, CacheKeeps
<1>7. CASE fpPacket # NoPacket
  <2>1. DOMAIN fpPacket = PacketFields
    BY <1>1, <1>7 DEF FastPathTypes
  <2>2. DOMAIN fpPacket' = PacketFields /\ \A x \in PacketFields : x # "age" => fpPacket'[x] = fpPacket[x]
    BY <1>1, <2>1, AgedFacts DEF PacketFields
  <2>3. /\ fpPacket'.stage = fpPacket.stage /\ fpPacket'.flow = fpPacket.flow
        /\ fpPacket'.quiet = fpPacket.quiet /\ fpPacket'.lo = fpPacket.lo /\ fpPacket'.at = fpPacket.at
        /\ fpPacket'.count = fpPacket.count /\ fpPacket'.default = fpPacket.default
        /\ fpPacket'.action = fpPacket.action
    BY <2>2 DEF PacketFields
  <2>4. WalkHolds'
    BY <1>1, <1>7, <2>3 DEF WalkHolds, NoHit, MapsVerdict
  <2> QED
    BY <1>1, <1>3, <1>4, <1>5, <2>2, <2>4, CacheKeeps
<1> QED
  BY <1>6, <1>7

-----------------------------------------------------------------------------
(* The fast path: the loader. *)

\* While an update is under way no packet is quiet.
LEMMA BusyFacts ==
    ASSUME FastPathInv, fpLoader.step # "idle"
    PROVE  /\ fpLoader # NoUpdate /\ fpLoader \in Updates
           /\ fpSlow # 0 /\ fpSlow \in DOMAIN FpPolicies
           /\ fpPacket' = fpPacket => WalkHolds'
           /\ fpPacket # NoPacket => DOMAIN fpPacket = PacketFields
           /\ Goal = Target(fpLoader.table, fpLoader.clearing)
           /\ Goal.rules \in Seq(SlotRules(fpLoader.table)) /\ Len(Goal.rules) \in Nat
           /\ \A i \in 1 .. Len(Goal.rules) : Goal.rules[i] \in SlotRules(fpLoader.table)
           /\ Goal.default \in Actions(fpLoader.table)
<1>1. fpLoader # NoUpdate
  BY DEF NoUpdate
<1>2. /\ fpLoader \in Updates /\ fpSlow # 0 /\ fpSlow \in {0} \cup DOMAIN FpPolicies
      /\ fpPacket # NoPacket => DOMAIN fpPacket = PacketFields
  BY <1>1 DEF FastPathInv, FastPathTypes
<1>3. fpPacket # NoPacket => ~fpPacket.quiet
  BY <1>1 DEF FastPathInv, WalkHolds
<1>4. fpPacket' = fpPacket => WalkHolds'
  BY <1>3 DEF WalkHolds
<1>5. fpLoader.table \in TableNames /\ fpLoader.clearing \in BOOLEAN
  BY <1>2 DEF Updates
<1>6. Goal = Target(fpLoader.table, fpLoader.clearing)
  BY DEF Goal
<1> QED
  BY <1>1, <1>2, <1>4, <1>5, <1>6, GoalFacts

LEMMA UpdateFacts ==
    ASSUME NEW t \in TableNames, NEW c \in BOOLEAN
    PROVE  /\ Update(t, c) \in Updates /\ Update(t, c) # NoUpdate
           /\ Update(t, c).step = "slots" /\ Update(t, c).table = t
           /\ Update(t, c).clearing = c /\ Update(t, c).slot = 1 /\ Update(t, c).todo = FpFlows
<1>1. /\ Update(t, c) \in Updates /\ Update(t, c).step = "slots" /\ Update(t, c).table = t
      /\ Update(t, c).clearing = c /\ Update(t, c).slot = 1 /\ Update(t, c).todo = FpFlows
  BY DEF Update, Updates
<1>2. NoUpdate.step = "idle"
  BY DEF NoUpdate
<1> QED
  BY <1>1, <1>2

\* An update that has just begun, of tables that stay as they are.
LEMMA BeginsUpdate ==
    ASSUME NEW t \in TableNames, NEW c \in BOOLEAN, fpLoader' = Update(t, c),
           Target(t, c)'.rules \in Seq(SlotRules(t)), FastPathTypes, fpMaps' = fpMaps
    PROVE  LoaderHolds'
<1>1. PICK R \in Seq(SlotRules(t)), n \in Nat : R = Target(t, c)'.rules /\ n = Len(R)
  BY SeqEntries
<1>2. /\ fpLoader'.step = "slots" /\ fpLoader'.table = t /\ fpLoader'.clearing = c
      /\ fpLoader'.slot = 1 /\ fpLoader'.todo = FpFlows
  BY UpdateFacts
<1>3. Goal'.rules = R
  BY <1>1, <1>2 DEF Goal, Target
<1>4. PICK k \in Nat : k = Len(fpMaps[t].slots)
  BY TableFacts, SeqEntries
<1>5. 1 <= n + 1 /\ 1 <= k + 1 /\ \A i : ~(i \in 1 .. 1 - 1)
  OBVIOUS
<1>6. /\ fpLoader'.slot <= Len(Goal'.rules) + 1
      /\ fpLoader'.slot <= Len(fpMaps'[fpLoader'.table].slots) + 1
      /\ \A i \in 1 .. fpLoader'.slot - 1 : fpMaps'[fpLoader'.table].slots[i] = Goal'.rules[i]
  BY <1>1, <1>2, <1>3, <1>4, <1>5
<1> QED
  BY <1>2, <1>6 DEF LoaderHolds

LEMMA InstallKeeps ==
    ASSUME FastPathInv, NEW p \in DOMAIN FpPolicies, InstallPolicy(p)
    PROVE  FastPathInv'
<1>1. /\ FastPathTypes /\ fpSlow' = p /\ fpLoader' = Update("rules", FALSE)
      /\ fpPacket' = IF fpPacket = NoPacket THEN NoPacket ELSE [fpPacket EXCEPT !.quiet = FALSE]
      /\ UNCHANGED <<fpMaps, fpCache, fpStuck>>
  BY DEF FastPathInv, InstallPolicy
<1>2. "rules" \in TableNames
  BY DEF TableNames
<1>3. p # 0
  BY FastPathAssumption
<1>4. fpLoader' \in Updates /\ fpLoader' # NoUpdate /\ fpLoader'.table = "rules"
  BY <1>1, <1>2, UpdateFacts
<1>5. fpPacket' # NoPacket => DOMAIN fpPacket' = PacketFields /\ fpPacket'.quiet = FALSE
  BY <1>1 DEF FastPathTypes, PacketFields
<1>6. FastPathTypes'
  BY <1>1, <1>3, <1>4, <1>5 DEF FastPathTypes
<1>7. Target("rules", FALSE)'.rules \in Seq(SlotRules("rules"))
  BY <1>1, PrefixFacts DEF Target
<1>8. LoaderHolds'
  BY <1>1, <1>2, <1>7, BeginsUpdate
<1>9. RulesHold' /\ CacheHolds' /\ WalkHolds'
  BY <1>4, <1>5 DEF RulesHold, CacheHolds, WalkHolds
<1> QED
  BY <1>6, <1>8, <1>9 DEF FastPathInv

\* A failed update: its table is flushed, or the flush is what failed.
LEMMA FailureKeeps ==
    ASSUME FastPathInv, fpLoader.step # "idle", UpdateFailed,
           UNCHANGED <<fpSlow, fpMaps, fpCache, fpPacket>>
    PROVE  FastPathInv'
<1>1. /\ FastPathTypes /\ RulesHold /\ WalkHolds' /\ fpLoader \in Updates /\ fpSlow # 0
      /\ fpSlow \in DOMAIN FpPolicies
      /\ fpLoader' = IF fpLoader.clearing THEN NoUpdate ELSE Update(fpLoader.table, TRUE)
      /\ fpStuck' = (fpStuck \/ fpLoader.clearing)
  BY BusyFacts DEF FastPathInv, UpdateFailed
<1>2. fpLoader.table \in TableNames /\ fpLoader.clearing \in BOOLEAN
  BY <1>1 DEF Updates
<1>3. CASE fpLoader.clearing
  <2>1. fpLoader' = NoUpdate /\ fpStuck' = TRUE
    BY <1>1, <1>3
  <2>2. FastPathTypes' /\ RulesHold' /\ CacheHolds'
    BY <1>1, <2>1 DEF FastPathTypes, RulesHold, CacheHolds
  <2>3. fpLoader'.step = "idle"
    BY <2>1 DEF NoUpdate
  <2>4. LoaderHolds'
    BY <2>3 DEF LoaderHolds
  <2> QED
    BY <1>1, <2>2, <2>4 DEF FastPathInv
<1>4. CASE ~fpLoader.clearing
  <2>1. fpLoader' = Update(fpLoader.table, TRUE) /\ fpStuck' = fpStuck
    BY <1>1, <1>4 DEF FastPathTypes
  <2>2. fpLoader' \in Updates /\ fpLoader' # NoUpdate /\ fpLoader'.table = fpLoader.table
    BY <1>2, <2>1, UpdateFacts
  <2>3. FastPathTypes' /\ CacheHolds'
    BY <1>1, <2>1, <2>2 DEF FastPathTypes, CacheHolds
  <2>4. RulesHold'
    BY <1>1, <2>1, <2>2 DEF RulesHold, HoldsGoal, Target
  <2>5. Target(fpLoader.table, TRUE).rules \in Seq(SlotRules(fpLoader.table))
    BY <1>1, <1>2, GoalFacts
  <2>6. \A t : Target(t, TRUE)' = Target(t, TRUE)
    BY DEF Target
  <2>7. LoaderHolds'
    <3>1. PICK t \in TableNames : t = fpLoader.table
      BY <1>2
    <3>2. fpLoader' = Update(t, TRUE) /\ Target(t, TRUE)'.rules \in Seq(SlotRules(t))
      BY <2>1, <2>5, <2>6, <3>1
    <3> QED
      BY <1>1, <3>2, BeginsUpdate
  <2> QED
    BY <1>1, <2>3, <2>4, <2>7 DEF FastPathInv
<1> QED
  BY <1>3, <1>4

LEMMA WrittenFacts ==
    ASSUME NEW S, NEW s \in Seq(S), NEW i \in 1 .. Len(s) + 1, NEW r \in S
    PROVE  /\ Written(s, i, r) \in Seq(S) /\ Len(Written(s, i, r)) \in Nat
           /\ Len(s) <= Len(Written(s, i, r)) /\ i <= Len(Written(s, i, r))
           /\ Written(s, i, r)[i] = r
           /\ \A j \in 1 .. i - 1 : Written(s, i, r)[j] = s[j]
<1>1. CASE i <= Len(s)
  BY <1>1 DEF Written
<1>2. CASE ~(i <= Len(s))
  <2>1. Written(s, i, r) = Append(s, r) /\ i = Len(s) + 1
    BY <1>2 DEF Written
  <2> QED
    BY <2>1
<1> QED
  BY <1>1, <1>2

LEMMA WriteSlotKeeps ==
    ASSUME FastPathInv, WriteSlot
    PROVE  FastPathInv'
<1>1. /\ fpLoader.step = "slots" /\ fpLoader.slot <= Len(Goal.rules)
      /\ fpMaps' = [fpMaps EXCEPT ![fpLoader.table].slots = Written(@, fpLoader.slot, Goal.rules[fpLoader.slot])]
      /\ fpLoader' = [fpLoader EXCEPT !.slot = @ + 1]
      /\ UNCHANGED <<fpSlow, fpCache, fpPacket, fpStuck>>
  BY DEF WriteSlot
<1>2. /\ fpLoader # NoUpdate /\ fpLoader \in Updates /\ fpSlow # 0
      /\ WalkHolds' /\ FastPathTypes /\ LoaderHolds /\ RulesHold
  BY <1>1, BusyFacts DEF FastPathInv
<1>3. PICK t \in TableNames : t = fpLoader.table
  BY <1>2 DEF Updates
<1>4. PICK k \in Nat \ {0} : k = fpLoader.slot
  BY <1>2 DEF Updates
<1>5. PICK R \in Seq(SlotRules(t)), n \in Nat :
        R = Goal.rules /\ n = Len(R) /\ \A i \in 1 .. n : R[i] \in SlotRules(t)
  BY <1>1, <1>3, BusyFacts
<1>6. PICK s \in Seq(SlotRules(t)), m \in Nat : s = fpMaps[t].slots /\ m = Len(s)
  BY <1>2, TableFacts, SeqEntries
<1>7. k <= n /\ k <= m + 1 /\ (\A i \in 1 .. k - 1 : s[i] = R[i]) /\ fpLoader.todo = FpFlows
  BY <1>1, <1>2, <1>3, <1>4, <1>5, <1>6 DEF LoaderHolds
<1> DEFINE w == Written(s, k, R[k])
<1>8. /\ w \in Seq(SlotRules(t)) /\ Len(w) \in Nat /\ m <= Len(w) /\ k <= Len(w)
      /\ w[k] = R[k] /\ \A i \in 1 .. k - 1 : w[i] = s[i]
  <2>1. PICK r \in SlotRules(t) : r = R[k]
    BY <1>5, <1>7
  <2>2. k \in 1 .. Len(s) + 1
    BY <1>6, <1>7
  <2> DEFINE S == SlotRules(t)
  <2> s \in Seq(S) /\ r \in S
    OBVIOUS
  <2> HIDE DEF S
  <2>3. /\ Written(s, k, r) \in Seq(S) /\ Len(Written(s, k, r)) \in Nat
        /\ Len(s) <= Len(Written(s, k, r)) /\ k <= Len(Written(s, k, r))
        /\ Written(s, k, r)[k] = r /\ \A j \in 1 .. k - 1 : Written(s, k, r)[j] = s[j]
    BY <2>2, WrittenFacts
  <2> QED
    BY <1>6, <2>1, <2>3 DEF S
<1>9. DOMAIN fpMaps = TableNames /\ fpMaps[t] \in [slots : Seq(SlotRules(t)), count : Nat, default : Actions(t)]
  BY <1>2 DEF FastPathTypes
<1>10. fpMaps' = [fpMaps EXCEPT ![t].slots = w]
  BY <1>1, <1>3, <1>4, <1>5, <1>6
<1> HIDE DEF w
<1>11. /\ DOMAIN fpMaps' = TableNames /\ \A u \in TableNames : u # t => fpMaps'[u] = fpMaps[u]
       /\ fpMaps'[t] = [fpMaps[t] EXCEPT !.slots = w]
  BY <1>9, <1>10
<1>12. /\ fpMaps'[t].slots = w /\ fpMaps'[t].count = fpMaps[t].count
       /\ fpMaps'[t] \in [slots : Seq(SlotRules(t)), count : Nat, default : Actions(t)]
  BY <1>8, <1>9, <1>11
<1>13. fpMaps'[t].count <= Len(fpMaps'[t].slots)
  <2>1. PICK c \in Nat : c = fpMaps[t].count /\ c <= m
    BY <1>2, <1>6, <1>9 DEF FastPathTypes
  <2> QED
    BY <1>8, <1>12, <2>1
<1>14. /\ fpLoader' \in Updates /\ fpLoader' # NoUpdate /\ fpLoader'.step = "slots" /\ fpLoader'.table = t
       /\ fpLoader'.clearing = fpLoader.clearing /\ fpLoader'.slot = k + 1 /\ fpLoader'.todo = fpLoader.todo
  <2>1. /\ fpLoader' \in Updates /\ fpLoader'.step = "slots" /\ fpLoader'.table = t
        /\ fpLoader'.clearing = fpLoader.clearing /\ fpLoader'.slot = k + 1 /\ fpLoader'.todo = fpLoader.todo
    BY <1>1, <1>2, <1>3, <1>4 DEF Updates
  <2> QED
    BY <2>1 DEF NoUpdate
<1>15. FastPathTypes'
  <2>1. \A u \in TableNames :
            /\ fpMaps'[u] \in [slots : Seq(SlotRules(u)), count : Nat, default : Actions(u)]
            /\ fpMaps'[u].count <= Len(fpMaps'[u].slots)
    <3> SUFFICES ASSUME NEW u \in TableNames, u # t
                 PROVE  /\ fpMaps'[u] \in [slots : Seq(SlotRules(u)), count : Nat, default : Actions(u)]
                        /\ fpMaps'[u].count <= Len(fpMaps'[u].slots)
      BY <1>12, <1>13
    <3> QED
      BY <1>2, <1>11 DEF FastPathTypes
  <2> QED
    BY <1>1, <1>2, <1>11, <1>14, <2>1 DEF FastPathTypes
<1>16. LoaderHolds'
  <2>1. Goal'.rules = R
    BY <1>1, <1>3, <1>5, <1>14 DEF Goal, Target
  <2>2. k + 1 <= n + 1 /\ k + 1 <= Len(w) + 1
    BY <1>7, <1>8
  <2>3. \A i \in 1 .. (k + 1) - 1 : w[i] = R[i]
    <3> SUFFICES ASSUME NEW i \in 1 .. (k + 1) - 1 PROVE w[i] = R[i]
      OBVIOUS
    <3>1. i = k \/ i \in 1 .. k - 1
      OBVIOUS
    <3> QED
      BY <1>7, <1>8, <3>1
  <2> QED
    BY <1>5, <1>7, <1>12, <1>14, <2>1, <2>2, <2>3 DEF LoaderHolds
<1>17. RulesHold'
  <2> SUFFICES ASSUME t = "class" PROVE RulesHold'
    BY <1>14 DEF RulesHold, TableNames
  <2>1. fpMaps'["rules"] = fpMaps["rules"]
    BY <1>11 DEF TableNames
  <2> QED
    BY <1>1, <1>2, <1>3, <2>1 DEF RulesHold, HoldsGoal, Target
<1>18. CacheHolds'
  BY <1>14 DEF CacheHolds
<1> QED
  BY <1>2, <1>15, <1>16, <1>17, <1>18 DEF FastPathInv

LEMMA WriteMetaKeeps ==
    ASSUME FastPathInv, WriteMeta
    PROVE  FastPathInv'
<1>1. /\ fpLoader.step = "slots" /\ fpLoader.slot = Len(Goal.rules) + 1
      /\ fpMaps' = [fpMaps EXCEPT ![fpLoader.table].count = Len(Goal.rules),
                                  ![fpLoader.table].default = Goal.default]
      /\ fpLoader' = [fpLoader EXCEPT !.step = "list"]
      /\ UNCHANGED <<fpSlow, fpCache, fpPacket, fpStuck>>
  BY DEF WriteMeta
<1>2. /\ fpLoader # NoUpdate /\ fpLoader \in Updates /\ fpSlow # 0
      /\ WalkHolds' /\ FastPathTypes /\ LoaderHolds /\ RulesHold
  BY <1>1, BusyFacts DEF FastPathInv
<1>3. PICK t \in TableNames : t = fpLoader.table
  BY <1>2 DEF Updates
<1>4. PICK R \in Seq(SlotRules(t)), n \in Nat, d \in Actions(t) : R = Goal.rules /\ n = Len(R) /\ d = Goal.default
  BY <1>1, <1>3, BusyFacts
<1>5. PICK s \in Seq(SlotRules(t)), m \in Nat : s = fpMaps[t].slots /\ m = Len(s)
  BY <1>2, TableFacts, SeqEntries
<1>6. n <= m /\ \A i \in 1 .. n : s[i] = R[i]
  <2>1. fpLoader.slot = n + 1 /\ (n + 1) - 1 = n
    BY <1>1, <1>4
  <2>2. fpLoader.slot <= m + 1 /\ \A i \in 1 .. fpLoader.slot - 1 : s[i] = R[i]
    BY <1>1, <1>2, <1>3, <1>4, <1>5 DEF LoaderHolds
  <2> QED
    BY <2>1, <2>2
<1>7. DOMAIN fpMaps = TableNames /\ fpMaps[t] \in [slots : Seq(SlotRules(t)), count : Nat, default : Actions(t)]
  BY <1>2 DEF FastPathTypes
<1>8. fpMaps' = [fpMaps EXCEPT ![t].count = n, ![t].default = d]
  BY <1>1, <1>3, <1>4
<1>9. /\ DOMAIN fpMaps' = TableNames /\ \A u \in TableNames : u # t => fpMaps'[u] = fpMaps[u]
      /\ fpMaps'[t] = [fpMaps[t] EXCEPT !.count = n, !.default = d]
  BY <1>7, <1>8
<1>10. /\ fpMaps'[t].slots = s /\ fpMaps'[t].count = n /\ fpMaps'[t].default = d
       /\ fpMaps'[t] \in [slots : Seq(SlotRules(t)), count : Nat, default : Actions(t)]
       /\ fpMaps'[t].count <= Len(fpMaps'[t].slots)
  BY <1>5, <1>6, <1>7, <1>9
<1>11. /\ fpLoader' \in Updates /\ fpLoader' # NoUpdate /\ fpLoader'.step = "list" /\ fpLoader'.table = t
       /\ fpLoader'.clearing = fpLoader.clearing /\ fpLoader'.todo = FpFlows
  <2>1. /\ fpLoader' \in Updates /\ fpLoader'.step = "list" /\ fpLoader'.table = t
        /\ fpLoader'.clearing = fpLoader.clearing /\ fpLoader'.todo = fpLoader.todo
    BY <1>1, <1>2, <1>3 DEF Updates
  <2>2. fpLoader.todo = FpFlows
    BY <1>1, <1>2 DEF LoaderHolds
  <2> QED
    BY <2>1, <2>2 DEF NoUpdate
<1>12. FastPathTypes'
  <2>1. \A u \in TableNames :
            /\ fpMaps'[u] \in [slots : Seq(SlotRules(u)), count : Nat, default : Actions(u)]
            /\ fpMaps'[u].count <= Len(fpMaps'[u].slots)
    <3> SUFFICES ASSUME NEW u \in TableNames, u # t
                 PROVE  /\ fpMaps'[u] \in [slots : Seq(SlotRules(u)), count : Nat, default : Actions(u)]
                        /\ fpMaps'[u].count <= Len(fpMaps'[u].slots)
      BY <1>10
    <3> QED
      BY <1>2, <1>9 DEF FastPathTypes
  <2> QED
    BY <1>1, <1>2, <1>9, <1>11, <2>1 DEF FastPathTypes
<1>13. LoaderHolds'
  <2>1. Goal'.rules = R /\ Goal'.default = d
    BY <1>1, <1>3, <1>4, <1>11 DEF Goal, Target
  <2>2. HoldsGoal(fpLoader.table, Goal)'
    BY <1>4, <1>6, <1>10, <1>11, <2>1 DEF HoldsGoal
  <2> QED
    BY <1>11, <2>2 DEF LoaderHolds
<1>14. RulesHold'
  <2> SUFFICES ASSUME t = "class" PROVE RulesHold'
    BY <1>11 DEF RulesHold, TableNames
  <2>1. fpMaps'["rules"] = fpMaps["rules"]
    BY <1>9 DEF TableNames
  <2> QED
    BY <1>1, <1>2, <1>3, <2>1 DEF RulesHold, HoldsGoal, Target
<1>15. CacheHolds'
  BY <1>11 DEF CacheHolds
<1> QED
  BY <1>2, <1>12, <1>13, <1>14, <1>15 DEF FastPathInv

\* The flush lists the keys and removes them; the tables stay as they are.
LEMMA FlushKeeps ==
    ASSUME FastPathInv, Flushing \/ ListFails
    PROVE  FastPathInv'
<1>1. fpLoader.step \in {"list", "flush"} /\ UNCHANGED <<fpSlow, fpMaps, fpPacket, fpStuck>>
  BY DEF Flushing, ListKey, ListEnds, ListFails, RemoveKey
<1>2. fpLoader.step # "idle" /\ fpPacket' = fpPacket
  BY <1>1
<1>3. /\ fpLoader # NoUpdate /\ fpLoader \in Updates /\ fpSlow # 0
      /\ WalkHolds' /\ FastPathTypes /\ LoaderHolds /\ RulesHold
  BY <1>2, BusyFacts DEF FastPathInv
<1>4. /\ fpLoader' \in Updates /\ fpLoader'.table = fpLoader.table
      /\ fpLoader'.clearing = fpLoader.clearing
      /\ DOMAIN fpCache' = FpFlows
      /\ \A f \in FpFlows : fpCache'[f] = Uncached \/ DOMAIN fpCache'[f] = {"action", "age", "quiet"}
      /\ \/ /\ fpLoader'.step = "list"
            /\ \A f \in FpFlows : Quiet(f)' => f \in fpLoader'.keys \cup fpLoader'.todo
         \/ /\ fpLoader'.step = "flush"
            /\ \A f \in FpFlows : Quiet(f)' => f \in fpLoader'.keys
  <2>1. ASSUME NEW f \in FpFlows, ListKey(f)
        PROVE  <1>4!:
    <3>1. /\ fpLoader.step = "list" /\ fpCache' = fpCache
          /\ fpLoader' = [fpLoader EXCEPT !.todo = @ \ {f},
                                          !.keys = IF fpCache[f] = Uncached THEN @ ELSE @ \cup {f}]
      BY <2>1 DEF ListKey
    <3>2. /\ fpLoader' \in Updates /\ fpLoader'.step = "list" /\ fpLoader'.table = fpLoader.table
          /\ fpLoader'.clearing = fpLoader.clearing /\ fpLoader'.todo = fpLoader.todo \ {f}
          /\ fpLoader'.keys = IF fpCache[f] = Uncached THEN fpLoader.keys ELSE fpLoader.keys \cup {f}
      BY <1>3, <3>1 DEF Updates
    <3>3. ASSUME NEW g \in FpFlows, Quiet(g)' PROVE g \in fpLoader'.keys \cup fpLoader'.todo
      <4>1. Quiet(g) /\ fpCache[g] # Uncached
        BY <3>1, <3>3 DEF Quiet
      <4>2. g \in fpLoader.keys \cup fpLoader.todo
        BY <1>3, <3>1, <4>1 DEF LoaderHolds
      <4> QED
        BY <3>2, <4>1, <4>2
    <3> QED
      BY <1>3, <3>1, <3>2, <3>3 DEF FastPathTypes
  <2>2. CASE ListEnds
    <3>1. /\ fpLoader.step = "list" /\ fpLoader.todo = {} /\ fpCache' = fpCache
          /\ fpLoader' = [fpLoader EXCEPT !.step = "flush"]
      BY <2>2 DEF ListEnds
    <3>2. /\ fpLoader' \in Updates /\ fpLoader'.step = "flush" /\ fpLoader'.table = fpLoader.table
          /\ fpLoader'.clearing = fpLoader.clearing /\ fpLoader'.keys = fpLoader.keys
      BY <1>3, <3>1 DEF Updates
    <3>3. \A g \in FpFlows : Quiet(g)' => g \in fpLoader'.keys
      BY <1>3, <3>1, <3>2 DEF LoaderHolds, Quiet
    <3> QED
      BY <1>3, <3>1, <3>2, <3>3 DEF FastPathTypes
  <2>3. CASE ListFails
    <3>1. /\ fpLoader' = [fpLoader EXCEPT !.step = "flush", !.todo = {}]
          /\ fpCache' = [f \in FpFlows |-> IF f \in fpLoader.keys \/ fpCache[f] = Uncached THEN fpCache[f]
                                           ELSE [fpCache[f] EXCEPT !.quiet = FALSE]]
      BY <2>3 DEF ListFails
    <3>2. /\ fpLoader' \in Updates /\ fpLoader'.step = "flush" /\ fpLoader'.table = fpLoader.table
          /\ fpLoader'.clearing = fpLoader.clearing /\ fpLoader'.keys = fpLoader.keys
      BY <1>3, <3>1 DEF Updates
    <3>3. /\ DOMAIN fpCache' = FpFlows
          /\ \A g \in FpFlows :
                \/ g \in fpLoader.keys /\ fpCache'[g] = fpCache[g]
                \/ fpCache'[g] = Uncached
                \/ DOMAIN fpCache'[g] = {"action", "age", "quiet"} /\ fpCache'[g].quiet = FALSE
      BY <1>3, <3>1 DEF FastPathTypes
    <3>4. \A g \in FpFlows : Quiet(g)' => g \in fpLoader'.keys
      BY <3>2, <3>3 DEF Quiet
    <3> QED
      BY <1>3, <3>2, <3>3, <3>4 DEF FastPathTypes
  <2>4. ASSUME NEW f \in FpFlows, RemoveKey(f)
        PROVE  <1>4!:
    <3>1. /\ fpLoader.step = "flush" /\ fpLoader' = [fpLoader EXCEPT !.keys = @ \ {f}]
          /\ fpCache' = [fpCache EXCEPT ![f] = Uncached]
      BY <2>4 DEF RemoveKey
    <3>2. /\ fpLoader' \in Updates /\ fpLoader'.step = "flush" /\ fpLoader'.table = fpLoader.table
          /\ fpLoader'.clearing = fpLoader.clearing /\ fpLoader'.keys = fpLoader.keys \ {f}
      BY <1>3, <3>1 DEF Updates
    <3>3. /\ DOMAIN fpCache' = FpFlows
          /\ \A g \in FpFlows : fpCache'[g] = IF g = f THEN Uncached ELSE fpCache[g]
      BY <1>3, <3>1 DEF FastPathTypes
    <3>4. ASSUME NEW g \in FpFlows, Quiet(g)' PROVE g \in fpLoader'.keys
      <4>1. g # f /\ Quiet(g)
        BY <3>3, <3>4 DEF Quiet
      <4> QED
        BY <1>3, <3>1, <3>2, <4>1 DEF LoaderHolds
    <3> QED
      BY <1>3, <3>2, <3>3, <3>4 DEF FastPathTypes
  <2> QED
    BY <2>1, <2>2, <2>3, <2>4 DEF Flushing
<1>5. fpLoader' # NoUpdate
  BY <1>4 DEF NoUpdate
<1>6. FastPathTypes'
  BY <1>1, <1>3, <1>4 DEF FastPathTypes
<1>7. LoaderHolds'
  <2>1. Goal' = Goal /\ HoldsGoal(fpLoader.table, Goal)
    BY <1>1, <1>3, <1>4 DEF Goal, Target, LoaderHolds
  <2>2. HoldsGoal(fpLoader.table, Goal)'
    BY <1>1, <1>4, <2>1 DEF HoldsGoal
  <2> QED
    BY <1>4, <2>2 DEF LoaderHolds
<1>8. RulesHold' /\ CacheHolds'
  BY <1>1, <1>3, <1>4, <1>5 DEF RulesHold, CacheHolds, HoldsGoal, Target
<1> QED
  BY <1>3, <1>6, <1>7, <1>8 DEF FastPathInv

\* An update that is done has left no verdict from before it.
LEMMA DoneKeeps ==
    ASSUME FastPathInv, UpdateDone
    PROVE  FastPathInv'
<1>1. /\ fpLoader.step = "flush" /\ fpLoader.keys = {}
      /\ fpLoader' = IF fpLoader.table = "rules" /\ ~fpLoader.clearing THEN Update("class", FALSE) ELSE NoUpdate
      /\ UNCHANGED <<fpSlow, fpMaps, fpCache, fpPacket, fpStuck>>
  BY DEF UpdateDone
<1>2. /\ fpLoader # NoUpdate /\ fpLoader \in Updates /\ fpSlow # 0 /\ fpSlow \in DOMAIN FpPolicies
      /\ WalkHolds' /\ FastPathTypes /\ LoaderHolds /\ RulesHold
  BY <1>1, BusyFacts DEF FastPathInv
<1>3. HoldsGoal(fpLoader.table, Target(fpLoader.table, fpLoader.clearing)) /\ \A f \in FpFlows : ~Quiet(f)
  BY <1>1, <1>2 DEF LoaderHolds, Goal
<1>4. fpLoader.table \in TableNames /\ fpLoader.clearing \in BOOLEAN
  BY <1>2 DEF Updates
<1>5. CacheHolds'
  BY <1>1, <1>3 DEF CacheHolds, Quiet
<1>6. RulesHold'
  <2>1. CASE fpLoader.table = "class"
    BY <1>1, <1>2, <2>1 DEF RulesHold, HoldsGoal, Target
  <2>2. CASE fpLoader.table = "rules"
    <3>1. \/ HoldsGoal("rules", Target("rules", TRUE))
          \/ HoldsGoal("rules", Target("rules", FALSE))
      BY <1>3, <1>4, <2>2
    <3> QED
      BY <1>1, <1>2, <3>1 DEF RulesHold, HoldsGoal, Target
  <2> QED
    BY <1>4, <2>1, <2>2 DEF TableNames
<1>7. CASE fpLoader.table = "rules" /\ ~fpLoader.clearing
  <2>1. fpLoader' = Update("class", FALSE) /\ "class" \in TableNames
    BY <1>1, <1>7 DEF TableNames
  <2>2. fpLoader' \in Updates
    BY <2>1, UpdateFacts
  <2>3. FastPathTypes'
    BY <1>1, <1>2, <2>2 DEF FastPathTypes
  <2>4. Target("class", FALSE)'.rules \in Seq(SlotRules("class"))
    <3>1. Target("class", FALSE).rules \in Seq(SlotRules("class"))
      BY <1>2, <2>1, GoalFacts
    <3> QED
      BY <1>1, <3>1 DEF Target
  <2>5. LoaderHolds'
    BY <1>1, <1>2, <2>1, <2>4, BeginsUpdate
  <2> QED
    BY <1>2, <1>5, <1>6, <2>3, <2>5 DEF FastPathInv
<1>8. CASE ~(fpLoader.table = "rules" /\ ~fpLoader.clearing)
  <2>1. fpLoader' = NoUpdate /\ fpLoader'.step = "idle"
    BY <1>1, <1>8 DEF NoUpdate
  <2>2. FastPathTypes' /\ LoaderHolds'
    BY <1>1, <1>2, <2>1 DEF FastPathTypes, LoaderHolds
  <2> QED
    BY <1>2, <1>5, <1>6, <2>2 DEF FastPathInv
<1> QED
  BY <1>7, <1>8

-----------------------------------------------------------------------------
(* The fast path: the theorem. *)

LEMMA FastPathInvInit == FastPathInit => FastPathInv
<1> SUFFICES ASSUME FastPathInit PROVE FastPathInv
  OBVIOUS
<1>1. /\ fpSlow = 0 /\ fpLoader = NoUpdate /\ fpPacket = NoPacket /\ fpStuck = FALSE
      /\ fpMaps = [t \in {"rules", "class"} |-> EmptyTable(IF t = "rules" THEN "pass" ELSE "inspect")]
      /\ fpCache = [f \in FpFlows |-> Uncached]
  BY DEF FastPathInit
<1>2. DOMAIN fpMaps = TableNames
  BY <1>1 DEF TableNames
<1>3. /\ fpMaps["rules"] = [slots |-> <<>>, count |-> 0, default |-> "pass"]
      /\ fpMaps["class"] = [slots |-> <<>>, count |-> 0, default |-> "inspect"]
  BY <1>1 DEF EmptyTable
<1>4. \A t \in TableNames :
        /\ fpMaps[t] \in [slots : Seq(SlotRules(t)), count : Nat, default : Actions(t)]
        /\ fpMaps[t].count <= Len(fpMaps[t].slots)
  <2> SUFFICES ASSUME NEW t \in TableNames
               PROVE  /\ fpMaps[t] \in [slots : Seq(SlotRules(t)), count : Nat, default : Actions(t)]
                      /\ fpMaps[t].count <= Len(fpMaps[t].slots)
    OBVIOUS
  <2>1. PICK d \in Actions(t) : fpMaps[t] = [slots |-> <<>>, count |-> 0, default |-> d]
    BY <1>3 DEF TableNames, Actions, ClassActions
  <2>2. <<>> \in Seq(SlotRules(t)) /\ Len(<<>>) = 0 /\ 0 \in Nat
    OBVIOUS
  <2>3. fpMaps[t].slots = <<>> /\ fpMaps[t].count = 0
    BY <2>1
  <2> QED
    BY <2>1, <2>2, <2>3
<1>5. FastPathTypes
  BY <1>1, <1>2, <1>4 DEF FastPathTypes
<1>6. LoaderHolds
  <2>1. fpLoader.step = "idle"
    BY <1>1 DEF NoUpdate
  <2> QED
    BY <2>1 DEF LoaderHolds
<1>7. RulesHold
  <2>1. /\ Target("rules", TRUE).rules = <<>> /\ Target("rules", TRUE).default = "pass"
        /\ Len(<<>>) = 0 /\ fpMaps["rules"].count = 0 /\ fpMaps["rules"].default = "pass"
    BY <1>3 DEF Target
  <2>2. \A i : ~(i \in 1 .. 0)
    OBVIOUS
  <2>3. HoldsGoal("rules", Target("rules", TRUE))
    BY <2>1, <2>2 DEF HoldsGoal
  <2> QED
    BY <2>3 DEF RulesHold
<1>8. WalkHolds /\ CacheHolds
  BY <1>1 DEF WalkHolds, CacheHolds, Quiet
<1> QED
  BY <1>5, <1>6, <1>7, <1>8 DEF FastPathInv

LEMMA FastPathInvStep ==
    FastPathInv /\ [FastPathNext]_fastPathVars => FastPathInv'
<1> SUFFICES ASSUME FastPathInv, [FastPathNext]_fastPathVars PROVE FastPathInv'
  OBVIOUS
<1>1. ASSUME NEW p \in DOMAIN FpPolicies, InstallPolicy(p) PROVE FastPathInv'
  BY <1>1, InstallKeeps
<1>2. CASE MarshalRefuses
  <2>1. /\ fpLoader.step # "idle" /\ UpdateFailed /\ UNCHANGED <<fpSlow, fpMaps, fpCache, fpPacket>>
    BY <1>2 DEF MarshalRefuses
  <2> QED
    BY <2>1, FailureKeeps
<1>3. CASE MapFails
  <2>1. /\ fpLoader.step # "idle" /\ UpdateFailed /\ UNCHANGED <<fpSlow, fpMaps, fpCache, fpPacket>>
    BY <1>3 DEF MapFails
  <2> QED
    BY <2>1, FailureKeeps
<1>4. CASE WriteSlot
  BY <1>4, WriteSlotKeeps
<1>5. CASE WriteMeta
  BY <1>5, WriteMetaKeeps
<1>6. CASE Flushing \/ ListFails
  BY <1>6, FlushKeeps
<1>7. CASE UpdateDone
  BY <1>7, DoneKeeps
<1>8. CASE ReadMeta \/ \E f \in FpFlows : PacketArrives(f)
  BY <1>8, ArriveAndRead
<1>9. CASE ScanSlot
  BY <1>9, ScanKeeps
<1>10. CASE EndChunk
  BY <1>10, EndChunkKeeps
<1>11. CASE ApplyVerdict
  BY <1>11, ApplyKeeps
<1>12. CASE KtimeTicks
  BY <1>12, TicksKeep
<1>13. ASSUME NEW f \in FpFlows, LruEvicts(f) PROVE FastPathInv'
  BY <1>13, EvictKeeps
<1>14. CASE UNCHANGED fastPathVars
  <2>1. WalkHolds'
    BY <1>14 DEF FastPathInv, WalkHolds, NoHit, MapsVerdict, fastPathVars
  <2> QED
    BY <1>14, <2>1, WalkLeaves DEF fastPathVars, FastPathInv, FastPathTypes
<1> QED
  BY <1>1, <1>2, <1>3, <1>4, <1>5, <1>6, <1>7, <1>8, <1>9, <1>10, <1>11, <1>12, <1>13, <1>14
     DEF FastPathNext, LoaderSteps, PacketSteps

\* Between updates a cached verdict, unless its packet was on its way during
\* one or a flush cut short missed it, is what the tables say, and the fast
\* path drops only what the block class or nftables' forward chain drops:
\* whatever rulesets are installed and whatever prefix of them compile_hot_path
\* could express, for every chunk and table size, and wherever a map write or a
\* flush failed.  Packets to the edge itself never meet that chain.
THEOREM DropsOnlyDenied == FastPathSpec => []FastPathSound
<1>1. FastPathInv => FastPathSound
  <2> SUFFICES ASSUME FastPathInv, fpLoader = NoUpdate, ~fpStuck,
                      NEW f \in FpFlows, Served(fpCache[f]), fpCache[f].quiet
               PROVE  /\ fpCache[f].action = MapsVerdict(f)
                      /\ fpCache[f].action = "drop" =>
                            \/ InForce(fpMaps["class"], f) = "block"
                            \/ ForwardVerdict(FpPolicies[fpSlow], f) = "drop"
    BY DEF FastPathSound
  <2>1. fpCache[f].action = MapsVerdict(f)
    BY DEF FastPathInv, CacheHolds, Quiet, Served
  <2>2. ASSUME fpCache[f].action = "drop", InForce(fpMaps["class"], f) # "block"
        PROVE  ForwardVerdict(FpPolicies[fpSlow], f) = "drop"
    <3>1. InForce(fpMaps["rules"], f) = "drop"
      BY <2>1, <2>2 DEF MapsVerdict
    <3> QED
      BY <3>1, DropsAreDenied DEF FastPathInv
  <2> QED
    BY <2>1, <2>2
<1> QED
  BY <1>1, FastPathInvInit, FastPathInvStep, PTL DEF FastPathSpec
=============================================================================
