-------------------------- MODULE SupervisionProofs --------------------------
(* Proofs about the supervisors that restart things: the self-healing of    *)
(* the child processes (SelfHealing), the watchdog above it (Watchdog), and *)
(* the supervisor that boots and drains the edge (EdgeSupervisor).          *)
EXTENDS SelfHealing, Watchdog, EdgeSupervisor, DataLemmas, TLAPS

-----------------------------------------------------------------------------
(* Self-healing. *)

\* A saturating count keeps its order and its reach.
LEMMA OneMoreFacts ==
    ASSUME NEW m \in Nat, NEW n \in Nat, m <= n
    PROVE  /\ OneMore(m) \in Nat /\ OneMore(n) \in Nat /\ OneMore(m) <= OneMore(n)
           /\ n >= FailedRequired => OneMore(n) >= FailedRequired
  BY SelfHealingAssumption DEF OneMore

\* A poll that ends in failed has its reason: the silence lasted, or the last
\* answer was a storm.
LEMMA FailedForCause ==
    ASSUME HealingInv, shPhase = "judge", NextState(shProbe) = "failed"
    PROVE  \/ (IF Unanswered(shProbe) THEN OneMore(shStreak) ELSE 0) >= FailedRequired
           \/ (IF Unanswered(shProbe) THEN shStorm ELSE shProbe = "storm")
<1>1. shUnwell \in Nat /\ shStreak \in Nat /\ shUnwell <= shStreak
  BY DEF HealingInv, HealingTypes
<1>2. /\ OneMore(shUnwell) \in Nat /\ OneMore(shStreak) \in Nat
      /\ OneMore(shUnwell) <= OneMore(shStreak)
      /\ shStreak >= FailedRequired => OneMore(shStreak) >= FailedRequired
  BY <1>1, OneMoreFacts
<1>3. CASE Unanswered(shProbe)
  <2>1. shProbe # "well" /\ shProbe # "storm" /\ shProbe # "lossy"
    BY <1>3 DEF Unanswered
  <2>2. OneMore(shUnwell) >= FailedRequired \/ shState = "failed"
    BY <1>3, <2>1 DEF NextState, IpsState, SwgState, UnwellAfter
  <2> QED
    BY <1>2, <1>3, <2>2, SelfHealingAssumption DEF HealingInv
<1>4. CASE ~Unanswered(shProbe)
  <2>1. ~(0 >= FailedRequired)
    BY SelfHealingAssumption
  <2>2. shProbe = "storm"
    BY <1>4, <2>1
       DEF NextState, IpsState, SwgState, UnwellAfter, HealingInv, HealingTypes, ProbeHolds, Unanswered
  <2> QED
    BY <1>4, <2>2
<1> QED
  BY <1>3, <1>4

LEMMA JudgeKeepsHealingInv ==
    ASSUME HealingInv, JudgeProbe
    PROVE  HealingInv'
<1>1. /\ shState' = NextState(shProbe)
      /\ shUnwell' = UnwellAfter(shProbe)
      /\ shAttempts' = IF NextState(shProbe) = "healthy" THEN 0 ELSE shAttempts
      /\ shPhase' = IF NextState(shProbe) = "failed" THEN "backoff" ELSE "sleep"
      /\ shStreak' = IF Unanswered(shProbe) THEN OneMore(shStreak) ELSE 0
      /\ shStorm' = IF Unanswered(shProbe) THEN shStorm ELSE shProbe = "storm"
  BY DEF JudgeProbe
<1>2. shPhase = "judge" /\ shKind' = shKind /\ shBounded' = shBounded
  BY DEF JudgeProbe
<1>3. /\ shUnwell \in Nat /\ shStreak \in Nat /\ shUnwell <= shStreak
      /\ shAttempts \in Nat /\ shAttempts <= MaxRestarts
      /\ shBounded => shAttempts < MaxRestarts
  BY <1>2, SelfHealingAssumption DEF HealingInv, HealingTypes
<1>4. /\ OneMore(shUnwell) \in Nat /\ OneMore(shStreak) \in Nat
      /\ OneMore(shUnwell) <= OneMore(shStreak)
  BY <1>3, OneMoreFacts
<1>5. shUnwell' \in Nat /\ shStreak' \in Nat /\ shUnwell' <= shStreak'
  BY <1>1, <1>4 DEF UnwellAfter
<1>6. /\ shAttempts' \in Nat /\ shAttempts' <= MaxRestarts
      /\ shBounded => shAttempts' < MaxRestarts
  BY <1>1, <1>3, SelfHealingAssumption
<1>7. shStorm' \in BOOLEAN /\ shKind' \in {"ips", "swg"} /\ shBounded' \in BOOLEAN
  BY <1>1, <1>2 DEF HealingInv, HealingTypes
<1>8. shState' = "failed" => shStreak' >= FailedRequired \/ shStorm'
  BY <1>1, <1>2, FailedForCause
<1>9. shPhase' \in {"sleep", "backoff"} /\ (shPhase' = "backoff" => shState' = "failed")
  BY <1>1
<1> QED
  BY <1>2, <1>5, <1>6, <1>7, <1>8, <1>9, SelfHealingAssumption DEF HealingInv, HealingTypes, ProbeHolds

LEMMA HealingInvStep ==
    ASSUME HealingInv, [HealingNext]_healingVars
    PROVE  HealingInv'
<1> USE SelfHealingAssumption DEF HealingInv, HealingTypes, ProbeHolds
<1>1. CASE ProbeChild
  <2>1. /\ shProbe' \in {"dead", "silent", "lossy", "storm", "well"}
        /\ shKind # "ips" => shProbe' \in {"dead", "silent", "well"}
    BY <1>1 DEF ProbeChild, Observations
  <2> QED
    BY <1>1, <2>1 DEF ProbeChild
<1>2. CASE JudgeProbe
  BY <1>2, JudgeKeepsHealingInv
<1>3. CASE BeginRestart
  BY <1>3 DEF BeginRestart
<1>4. CASE RestartRecovers
  BY <1>4 DEF RestartRecovers
<1>5. CASE ChildRestartFails
  BY <1>5 DEF ChildRestartFails, FailedOrExhausted
<1>6. CASE StopHealing
  BY <1>6 DEF StopHealing
<1>7. CASE ChildDies
  BY <1>7 DEF ChildDies
<1>8. ASSUME NEW c \in ShConfigs, SetActiveConfig(c) PROVE HealingInv'
  BY <1>8 DEF SetActiveConfig
<1>9. CASE UNCHANGED healingVars
  BY <1>9 DEF healingVars
<1> QED
  BY <1>1, <1>2, <1>3, <1>4, <1>5, <1>6, <1>7, <1>8, <1>9 DEF HealingNext

\* No supervisor restarts its child on a transient miss: only after
\* FailedRequired probes in a row went unanswered or a packet-drop storm; and
\* it hands off exactly when a budget is set and spent; for any thresholds,
\* with and without a budget.
THEOREM HealingRestartsWarranted == HealingSpec => []RestartsWarranted
<1>1. HealingInit => HealingInv
  <2> SUFFICES ASSUME HealingInit PROVE HealingInv
    OBVIOUS
  <2>1. shState # "failed" /\ shPhase = "sleep" /\ shKind \in {"ips", "swg"} /\ shBounded \in BOOLEAN
    BY DEF HealingInit
  <2>2. shUnwell = 0 /\ shAttempts = 0 /\ shStreak = 0 /\ shStorm = FALSE
    BY DEF HealingInit
  <2>3. HealingTypes /\ ProbeHolds
    BY <2>1, <2>2 DEF HealingTypes, ProbeHolds
  <2>4. shUnwell <= shStreak /\ shAttempts < MaxRestarts /\ shAttempts <= MaxRestarts
    BY <2>2, SelfHealingAssumption
  <2> QED
    BY <2>1, <2>3, <2>4 DEF HealingInv
<1>2. HealingInv /\ [HealingNext]_healingVars => HealingInv'
  BY HealingInvStep
<1>3. HealingInv => RestartsWarranted
  BY DEF HealingInv, RestartsWarranted
<1> QED
  BY <1>1, <1>2, <1>3, PTL DEF HealingSpec

-----------------------------------------------------------------------------
(* The watchdog. *)

\* While the list is not worked off, the subsystem served next is one of it.
LEMMA NextDownListed ==
    ASSUME wdQueue \subseteq Watched, wdQueue # {}
    PROVE  NextDown \in wdQueue
<1> DEFINE Places == {Position(s) : s \in wdQueue}
<1>1. \A s \in wdQueue : Position(s) \in Nat
  <2> SUFFICES ASSUME NEW s \in wdQueue PROVE Position(s) \in Nat
    OBVIOUS
  <2>1. \E i \in DOMAIN WdSubsystems : WdSubsystems[i] = s
    BY DEF Watched, ToSet
  <2>2. Position(s) \in DOMAIN WdSubsystems
    BY <2>1 DEF Position
  <2> QED
    BY <2>2, WatchdogAssumption
<1>2. PICK n \in Places : \A m \in Places : n <= m
  BY <1>1, LeastNatural
<1>3. PICK s \in wdQueue : n = Position(s)
  BY <1>2
<1>4. \A t \in wdQueue : Position(s) <= Position(t)
  BY <1>2, <1>3
<1> QED
  BY <1>4 DEF NextDown

\* The entry of s with one more sample is an entry whose count the samples
\* still cover.
LEMMA CountedFacts ==
    ASSUME WatchdogInv, wdPhase = "work", NEW s \in wdQueue
    PROVE  /\ s \in Watched /\ Counted(s) \in Escalations
           /\ Counted(s).downs <= wdStreak[s]
           /\ Counted(s).attempts <= wdFailed[s]
           /\ Counted(s).tier \in {"edge", "alerted"} => wdFailed[s] >= RestartAttempts
<1>1. /\ s \in Watched /\ wdStreak[s] \in Nat /\ wdFailed[s] \in Nat /\ wdStreak[s] >= 1
      /\ s \in DOMAIN wdEsc => Capped(wdEsc[s].downs + 1) <= wdStreak[s]
  BY DEF WatchdogInv, WatchdogTypes, CountsHold, Uncounted, Serving
<1>2. \A n \in Nat : Capped(n) \in Nat
  BY WatchdogAssumption DEF Capped
<1>3. CASE s \in DOMAIN wdEsc
  <2>1. wdEsc[s] \in Escalations
    BY <1>3 DEF WatchdogInv, WatchdogTypes
  <2>2. Counted(s) = [wdEsc[s] EXCEPT !.downs = Capped(@ + 1)]
    BY <1>3 DEF Counted
  <2>3. wdEsc[s].attempts <= wdFailed[s]
    BY <1>3 DEF WatchdogInv, AttemptsHold, Serving
  <2>4. wdEsc[s].tier \in {"edge", "alerted"} => wdFailed[s] >= RestartAttempts
    BY <1>3 DEF WatchdogInv, TiersHold
  <2> QED
    BY <1>1, <1>2, <1>3, <2>1, <2>2, <2>3, <2>4 DEF Escalations
<1>4. CASE s \notin DOMAIN wdEsc
  <2>1. Counted(s) = [NewEscalation EXCEPT !.downs = Capped(@ + 1)]
    BY <1>4 DEF Counted
  <2>2. Capped(0 + 1) = 1
    BY WatchdogAssumption DEF Capped
  <2>3. /\ NewEscalation \in Escalations /\ NewEscalation.downs = 0
        /\ NewEscalation.tier = "subsystem" /\ NewEscalation.attempts = 0
    BY DEF NewEscalation, Escalations
  <2>4. /\ Counted(s) \in Escalations /\ Counted(s).downs = 1
        /\ Counted(s).tier = "subsystem" /\ Counted(s).attempts = 0
    BY <2>1, <2>2, <2>3 DEF Escalations
  <2> QED
    BY <1>1, <2>4
<1> QED
  BY <1>3, <1>4

\* A subsystem is counted and struck off the list.
LEMMA CountAndGoOn ==
    ASSUME WatchdogInv, wdPhase = "work", wdQueue # {}, NEW e \in Escalations,
           e.downs <= wdStreak[NextDown], e.attempts <= wdFailed[NextDown],
           e.tier \in {"edge", "alerted"} => wdFailed[NextDown] >= RestartAttempts,
           wdEsc' = Updated(NextDown, e), wdQueue' = wdQueue \ {NextDown},
           UNCHANGED <<wdDown, wdPhase, wdStreak, wdFailed>>
    PROVE  WatchdogInv'
<1>1. NextDown \in wdQueue /\ NextDown \in Watched
  BY NextDownListed DEF WatchdogInv, WatchdogTypes
<1> DEFINE d == NextDown
<1>2. /\ DOMAIN wdEsc' = DOMAIN wdEsc \cup {d} /\ wdEsc'[d] = e
      /\ \A t \in DOMAIN wdEsc \ {d} : wdEsc'[t] = wdEsc[t]
  BY DEF Updated
<1> HIDE DEF d
<1>3. WatchdogTypes'
  BY <1>1, <1>2 DEF WatchdogInv, WatchdogTypes, d
<1>4. TiersHold'
  BY <1>2 DEF WatchdogInv, TiersHold, d
<1>5. CountsHold'
  <2>1. \A s : Uncounted(s)' <=> Uncounted(s) /\ s # d
    BY DEF Uncounted, Serving, d
  <2> QED
    BY <1>2, <2>1 DEF WatchdogInv, CountsHold, d
<1>6. AttemptsHold'
  BY <1>2 DEF WatchdogInv, AttemptsHold, Serving, d
<1>7. PhaseHolds'
  BY DEF PhaseHolds
<1> QED
  BY <1>3, <1>4, <1>5, <1>6, <1>7 DEF WatchdogInv

LEMMA SampleKeepsInv ==
    ASSUME WatchdogInv, Sample
    PROVE  WatchdogInv'
<1>1. /\ wdPhase = "sleep" /\ wdQueue = {} /\ wdQueue' = wdDown /\ wdPhase' = "work"
      /\ wdDown' = wdDown /\ wdDown \subseteq Watched
  BY DEF Sample, WatchdogInv, WatchdogTypes, PhaseHolds
<1>2. /\ DOMAIN wdEsc' = DOMAIN wdEsc \ (Watched \ wdDown)
      /\ \A s \in DOMAIN wdEsc' : s \in DOMAIN wdEsc /\ s \in wdDown /\ wdEsc'[s] = wdEsc[s]
  <2>1. wdEsc' = [s \in DOMAIN wdEsc \ (Watched \ wdDown) |-> wdEsc[s]]
    BY DEF Sample, Reaped, Without
  <2> QED
    BY <2>1 DEF WatchdogInv, WatchdogTypes
<1>3. /\ wdStreak' = [s \in Watched |-> IF s \in wdDown THEN Capped(wdStreak[s] + 1) ELSE 0]
      /\ wdFailed' = [s \in Watched |-> IF s \in wdDown THEN wdFailed[s] ELSE 0]
  BY DEF Sample
<1>4. \A n \in Nat : Capped(n) \in Nat /\ (n >= 1 => Capped(n) >= 1)
  BY WatchdogAssumption DEF Capped
<1>5. \A s \in Watched : wdStreak[s] \in Nat /\ wdFailed[s] \in Nat
  BY DEF WatchdogInv, WatchdogTypes
<1>6. \A s \in wdDown : /\ wdStreak'[s] = Capped(wdStreak[s] + 1) /\ wdStreak'[s] >= 1
                        /\ wdFailed'[s] = wdFailed[s]
  BY <1>1, <1>3, <1>4, <1>5
<1>7. WatchdogTypes'
  <2>1. wdStreak' \in [Watched -> Nat] /\ wdFailed' \in [Watched -> Nat]
    BY <1>3, <1>4, <1>5
  <2> QED
    BY <1>1, <1>2, <2>1 DEF WatchdogInv, WatchdogTypes
<1>8. TiersHold'
  BY <1>2, <1>6 DEF WatchdogInv, TiersHold
<1>9. CountsHold'
  <2>1. \A s : Uncounted(s)' <=> s \in wdDown
    BY <1>1 DEF Uncounted, Serving
  <2>2. \A s \in DOMAIN wdEsc : wdEsc[s].downs \in Nat /\ wdEsc[s].downs <= wdStreak[s]
    BY <1>1 DEF WatchdogInv, WatchdogTypes, CountsHold, Uncounted, Escalations
  <2>3. \A m, n \in Nat : m <= n => Capped(m + 1) <= Capped(n + 1)
    BY WatchdogAssumption DEF Capped
  <2>4. \A s \in DOMAIN wdEsc' : Capped(wdEsc'[s].downs + 1) <= wdStreak'[s]
    BY <1>1, <1>2, <1>5, <1>6, <2>2, <2>3
  <2> QED
    BY <1>1, <1>2, <1>6, <2>1, <2>4 DEF CountsHold
<1>10. AttemptsHold'
  BY <1>1, <1>2, <1>6 DEF WatchdogInv, AttemptsHold, Serving
<1>11. PhaseHolds'
  BY <1>1 DEF PhaseHolds
<1> QED
  BY <1>7, <1>8, <1>9, <1>10, <1>11 DEF WatchdogInv

\* Backoff and restart serve the head of a list that stays as it is.
LEMMA BackoffKeepsInv ==
    ASSUME WatchdogInv, BeginBackoff \/ BackoffEnds
    PROVE  WatchdogInv'
<1> SUFFICES ASSUME NEW d, d = NextDown PROVE WatchdogInv'
  OBVIOUS
<1>1. /\ wdQueue # {} /\ wdPhase \in {"work", "backoff"} /\ d \in wdQueue /\ d \in Watched
      /\ NextDown' = NextDown
      /\ UNCHANGED <<wdDown, wdQueue, wdStreak, wdFailed>>
  <2>1. wdQueue # {} /\ wdPhase \in {"work", "backoff"}
    BY DEF BeginBackoff, BackoffEnds, WatchdogInv, PhaseHolds
  <2>2. UNCHANGED <<wdDown, wdQueue, wdStreak, wdFailed>>
    BY DEF BeginBackoff, BackoffEnds
  <2>3. NextDown' = NextDown
    BY <2>2 DEF NextDown
  <2> QED
    BY <2>1, <2>2, <2>3, NextDownListed DEF WatchdogInv, WatchdogTypes
<1>2. PICK e \in Escalations :
        /\ DOMAIN wdEsc' = DOMAIN wdEsc \cup {d} /\ wdEsc'[d] = e
        /\ \A t \in DOMAIN wdEsc \ {d} : wdEsc'[t] = wdEsc[t]
        /\ e.downs <= wdStreak[d] /\ e.downs >= DownThreshold
        /\ e.tier \in {"edge", "alerted"} => wdFailed[d] >= RestartAttempts
        /\ wdPhase = "work" => wdPhase' = "backoff" /\ e.attempts <= wdFailed[d]
        /\ wdPhase = "backoff" => wdPhase' = "restart" /\ e.attempts <= wdFailed[d] + 1
  <2>1. CASE BeginBackoff
    <3>1. /\ wdPhase = "work" /\ wdPhase' = "backoff" /\ wdEsc' = Updated(d, Counted(d))
          /\ ~(Counted(d).downs < DownThreshold)
      BY <2>1 DEF BeginBackoff, WithinThreshold
    <3>2. /\ Counted(d) \in Escalations /\ Counted(d).downs <= wdStreak[d]
          /\ Counted(d).attempts <= wdFailed[d]
          /\ Counted(d).tier \in {"edge", "alerted"} => wdFailed[d] >= RestartAttempts
      BY <1>1, <3>1, CountedFacts
    <3>3. Counted(d).downs >= DownThreshold
      BY <3>1, <3>2, WatchdogAssumption DEF Escalations
    <3>4. /\ DOMAIN wdEsc' = DOMAIN wdEsc \cup {d} /\ wdEsc'[d] = Counted(d)
          /\ \A t \in DOMAIN wdEsc \ {d} : wdEsc'[t] = wdEsc[t]
      BY <3>1 DEF Updated
    <3> QED
      BY <3>1, <3>2, <3>3, <3>4
  <2>2. CASE BackoffEnds
    <3> DEFINE e == [wdEsc[d] EXCEPT !.attempts = @ + 1]
    <3>1. /\ wdPhase = "backoff" /\ wdPhase' = "restart"
          /\ wdEsc' = [wdEsc EXCEPT ![d].attempts = @ + 1]
      BY <2>2 DEF BackoffEnds
    <3>2. /\ d \in DOMAIN wdEsc /\ wdEsc[d] \in Escalations
          /\ wdEsc[d].downs >= DownThreshold
      BY <3>1 DEF WatchdogInv, WatchdogTypes, PhaseHolds
    <3>3. /\ wdEsc[d].downs <= wdStreak[d] /\ wdEsc[d].attempts <= wdFailed[d]
      BY <3>1, <3>2 DEF WatchdogInv, CountsHold, AttemptsHold, Uncounted, Serving
    <3>4. wdEsc[d].tier \in {"edge", "alerted"} => wdFailed[d] >= RestartAttempts
      BY <3>2 DEF WatchdogInv, TiersHold
    <3>5. /\ e \in Escalations /\ e.downs = wdEsc[d].downs /\ e.tier = wdEsc[d].tier
          /\ e.attempts = wdEsc[d].attempts + 1
      BY <3>2 DEF Escalations
    <3>6. wdFailed[d] \in Nat
      BY <1>1 DEF WatchdogInv, WatchdogTypes
    <3>7. e.attempts <= wdFailed[d] + 1
      BY <3>2, <3>3, <3>5, <3>6 DEF Escalations
    <3>8. /\ DOMAIN wdEsc' = DOMAIN wdEsc \cup {d} /\ wdEsc'[d] = e
          /\ \A t \in DOMAIN wdEsc \ {d} : wdEsc'[t] = wdEsc[t]
      BY <3>1, <3>2
    <3> HIDE DEF e
    <3> QED
      BY <3>1, <3>2, <3>3, <3>4, <3>5, <3>7, <3>8
  <2> QED
    BY <2>1, <2>2
<1>3. WatchdogTypes'
  BY <1>1, <1>2 DEF WatchdogInv, WatchdogTypes
<1>4. TiersHold'
  BY <1>1, <1>2 DEF WatchdogInv, TiersHold
<1>5. CountsHold'
  <2>1. \A s : s # d => (Uncounted(s)' <=> Uncounted(s))
    BY <1>1, <1>2 DEF Uncounted, Serving
  <2>2. ~Uncounted(d)'
    BY <1>1, <1>2 DEF Uncounted, Serving
  <2> QED
    BY <1>1, <1>2, <2>1, <2>2 DEF WatchdogInv, CountsHold
<1>6. AttemptsHold'
  <2>1. \A t \in DOMAIN wdEsc \ {d} : wdEsc[t].attempts <= wdFailed[t]
    BY <1>1 DEF WatchdogInv, AttemptsHold
  <2>2. Serving(d)'
    BY <1>1, <1>2 DEF Serving
  <2> QED
    BY <1>1, <1>2, <2>1, <2>2 DEF AttemptsHold
<1>7. PhaseHolds'
  BY <1>1, <1>2 DEF PhaseHolds
<1> QED
  BY <1>3, <1>4, <1>5, <1>6, <1>7 DEF WatchdogInv

LEMMA RestartKeepsInv ==
    ASSUME WatchdogInv, RestartOk \/ RestartFails
    PROVE  WatchdogInv'
<1> SUFFICES ASSUME NEW d, d = NextDown PROVE WatchdogInv'
  OBVIOUS
<1>1. /\ wdPhase = "restart" /\ wdPhase' = "work" /\ wdQueue' = wdQueue \ {d}
      /\ wdDown' \subseteq wdDown
  BY DEF RestartOk, RestartFails, TrustRestart
<1>2. /\ wdQueue # {} /\ d \in DOMAIN wdEsc /\ d \in Watched
      /\ wdEsc[d] \in Escalations /\ wdEsc[d].downs >= DownThreshold
  BY <1>1 DEF WatchdogInv, WatchdogTypes, PhaseHolds
<1>3. /\ wdEsc[d].downs <= wdStreak[d] /\ wdEsc[d].attempts <= wdFailed[d] + 1
      /\ wdFailed[d] \in Nat
  <2>1. wdEsc[d].attempts \in Nat /\ wdFailed[d] \in Nat
    BY <1>2 DEF WatchdogInv, WatchdogTypes, Escalations
  <2>2. wdEsc[d].attempts <= wdFailed[d] \/ wdEsc[d].attempts <= wdFailed[d] + 1
    BY <1>1, <1>2 DEF WatchdogInv, AttemptsHold
  <2>3. wdEsc[d].downs <= wdStreak[d]
    BY <1>1, <1>2 DEF WatchdogInv, CountsHold, Uncounted, Serving
  <2> QED
    BY <2>1, <2>2, <2>3
<1>4. /\ \A s : s # d => (Uncounted(s)' <=> Uncounted(s))
      /\ ~Uncounted(d)'
  BY <1>1 DEF Uncounted, Serving
<1>5. \A t \in DOMAIN wdEsc \ {d} : wdEsc[t].attempts <= wdFailed[t]
  BY <1>1 DEF WatchdogInv, AttemptsHold, Serving
<1>6. CASE RestartOk
  <2>1. /\ wdEsc' = [s \in DOMAIN wdEsc \ {d} |-> wdEsc[s]]
        /\ wdFailed' = [wdFailed EXCEPT ![d] = 0] /\ wdStreak' = [wdStreak EXCEPT ![d] = 0]
    BY <1>6 DEF RestartOk, TrustRestart, Without
  <2>2. /\ wdFailed' \in [Watched -> Nat] /\ wdStreak' \in [Watched -> Nat]
        /\ \A s \in Watched \ {d} : wdFailed'[s] = wdFailed[s] /\ wdStreak'[s] = wdStreak[s]
    BY <2>1 DEF WatchdogInv, WatchdogTypes
  <2>3. /\ DOMAIN wdEsc' = DOMAIN wdEsc \ {d} /\ DOMAIN wdEsc \subseteq Watched
        /\ \A s \in DOMAIN wdEsc' : wdEsc'[s] = wdEsc[s] /\ s # d /\ s \in Watched
        /\ wdQueue \subseteq Watched
    BY <2>1 DEF WatchdogInv, WatchdogTypes
  <2>4. WatchdogTypes'
    BY <1>1, <2>2, <2>3 DEF WatchdogInv, WatchdogTypes
  <2>5. TiersHold'
    BY <2>2, <2>3 DEF WatchdogInv, TiersHold
  <2>6. CountsHold'
    BY <1>1, <1>4, <2>2, <2>3 DEF WatchdogInv, CountsHold
  <2>7. AttemptsHold'
    BY <1>5, <2>2, <2>3 DEF AttemptsHold
  <2>8. PhaseHolds'
    BY <1>1 DEF PhaseHolds
  <2> QED
    BY <2>4, <2>5, <2>6, <2>7, <2>8 DEF WatchdogInv
<1>7. CASE RestartFails
  <2> DEFINE e == [wdEsc[d] EXCEPT !.tier = TierAfterFailure(wdEsc[d].attempts)]
  <2>1. /\ wdEsc' = [wdEsc EXCEPT ![d].tier = TierAfterFailure(wdEsc[d].attempts)]
        /\ wdFailed' = [wdFailed EXCEPT ![d] = @ + 1] /\ wdStreak' = wdStreak
    BY <1>7 DEF RestartFails
  <2>2. /\ e \in Escalations /\ e.downs = wdEsc[d].downs /\ e.attempts = wdEsc[d].attempts
        /\ e.tier = TierAfterFailure(wdEsc[d].attempts)
    BY <1>2 DEF Escalations, TierAfterFailure
  <2>3. /\ DOMAIN wdEsc' = DOMAIN wdEsc /\ wdEsc'[d] = e /\ DOMAIN wdEsc \subseteq Watched
        /\ \A t \in DOMAIN wdEsc \ {d} : wdEsc'[t] = wdEsc[t]
    BY <1>2, <2>1 DEF WatchdogInv, WatchdogTypes
  <2> HIDE DEF e
  <2>4. /\ wdFailed' \in [Watched -> Nat] /\ wdFailed'[d] = wdFailed[d] + 1
        /\ \A s \in Watched \ {d} : wdFailed'[s] = wdFailed[s]
    BY <1>2, <2>1 DEF WatchdogInv, WatchdogTypes
  <2>5. e.tier \in {"edge", "alerted"} => wdFailed'[d] >= RestartAttempts
    <3>1. e.tier \in {"edge", "alerted"} => wdEsc[d].attempts >= RestartAttempts
      BY <2>2 DEF TierAfterFailure
    <3>2. wdEsc[d].attempts \in Nat
      BY <1>2 DEF Escalations
    <3> QED
      BY <1>3, <2>4, <3>1, <3>2, WatchdogAssumption
  <2>6. WatchdogTypes'
    <3>1. wdQueue' \subseteq Watched /\ wdDown' \subseteq Watched /\ wdPhase' = "work"
      BY <1>1 DEF WatchdogInv, WatchdogTypes
    <3>2. \A t \in DOMAIN wdEsc' : wdEsc'[t] \in Escalations
      BY <2>2, <2>3 DEF WatchdogInv, WatchdogTypes
    <3>3. wdStreak' \in [Watched -> Nat]
      BY <2>1 DEF WatchdogInv, WatchdogTypes
    <3> QED
      BY <2>3, <2>4, <3>1, <3>2, <3>3 DEF WatchdogTypes
  <2>7. TiersHold'
    BY <2>3, <2>4, <2>5 DEF WatchdogInv, TiersHold
  <2>8. CountsHold'
    BY <1>1, <1>3, <1>4, <2>1, <2>2, <2>3 DEF WatchdogInv, CountsHold
  <2>9. AttemptsHold'
    BY <1>3, <1>5, <2>2, <2>3, <2>4 DEF AttemptsHold
  <2>10. PhaseHolds'
    BY <1>1 DEF PhaseHolds
  <2> QED
    BY <2>6, <2>7, <2>8, <2>9, <2>10 DEF WatchdogInv
<1> QED
  BY <1>6, <1>7

LEMMA WatchdogInvStep ==
    ASSUME WatchdogInv, [WatchdogNext]_watchdogVars
    PROVE  WatchdogInv'
<1>1. CASE Sample
  BY <1>1, SampleKeepsInv
<1>2. CASE EndPoll
  <2>1. /\ wdPhase = "work" /\ wdQueue = {} /\ wdPhase' = "sleep"
        /\ UNCHANGED <<wdDown, wdQueue, wdEsc, wdStreak, wdFailed>>
    BY <1>2 DEF EndPoll
  <2>2. WatchdogTypes' /\ TiersHold' /\ PhaseHolds'
    BY <2>1 DEF WatchdogInv, WatchdogTypes, TiersHold, PhaseHolds
  <2>3. CountsHold' /\ AttemptsHold'
    BY <2>1 DEF WatchdogInv, CountsHold, AttemptsHold, Uncounted, Serving
  <2> QED
    BY <2>2, <2>3 DEF WatchdogInv
<1>3. CASE PassOver
  <2>1. /\ wdPhase = "work" /\ wdQueue # {} /\ wdEsc' = Updated(NextDown, Counted(NextDown))
        /\ wdQueue' = wdQueue \ {NextDown}
        /\ UNCHANGED <<wdDown, wdPhase, wdStreak, wdFailed>>
    BY <1>3 DEF PassOver
  <2>2. NextDown \in wdQueue
    BY <2>1, NextDownListed DEF WatchdogInv, WatchdogTypes
  <2> QED
    BY <2>1, <2>2, CountedFacts, CountAndGoOn
<1>4. CASE BeginBackoff \/ BackoffEnds
  BY <1>4, BackoffKeepsInv
<1>5. CASE RestartOk \/ RestartFails
  BY <1>5, RestartKeepsInv
<1>6. CASE EdgeRestart \/ EdgeRestartFails
  <2> DEFINE d == NextDown
  <2>1. wdPhase = "work" /\ wdQueue # {} /\ Counted(d).tier = "edge"
    BY <1>6 DEF EdgeRestart, EdgeRestartFails, AtEdgeTier
  <2>2. d \in wdQueue
    BY <2>1, NextDownListed DEF WatchdogInv, WatchdogTypes
  <2>3. /\ d \in Watched /\ Counted(d) \in Escalations /\ Counted(d).downs <= wdStreak[d]
        /\ Counted(d).attempts <= wdFailed[d] /\ wdFailed[d] >= RestartAttempts
    BY <2>1, <2>2, CountedFacts
  <2> HIDE DEF d
  <2>4. CASE EdgeRestart
    <3>1. /\ wdPhase' = "stopped" /\ wdEsc' = Updated(d, Counted(d))
          /\ UNCHANGED <<wdDown, wdQueue, wdStreak, wdFailed>>
      BY <2>4 DEF EdgeRestart, d
    <3>2. /\ DOMAIN wdEsc' = DOMAIN wdEsc \cup {d} /\ wdEsc'[d] = Counted(d)
          /\ \A t \in DOMAIN wdEsc \ {d} : wdEsc'[t] = wdEsc[t]
      BY <3>1 DEF Updated
    <3> QED
      BY <2>3, <3>1, <3>2 DEF WatchdogInv, WatchdogTypes, TiersHold
  <2>5. CASE EdgeRestartFails
    <3> DEFINE e == [Counted(d) EXCEPT !.tier = "alerted"]
    <3>1. /\ wdEsc' = Updated(d, e) /\ wdQueue' = wdQueue \ {d}
          /\ UNCHANGED <<wdDown, wdPhase, wdStreak, wdFailed>>
      BY <2>5 DEF EdgeRestartFails, d
    <3>2. /\ e \in Escalations /\ e.downs = Counted(d).downs
          /\ e.attempts = Counted(d).attempts
      BY <2>3 DEF Escalations
    <3> HIDE DEF e
    <3> QED
      BY <2>1, <2>3, <3>1, <3>2, CountAndGoOn DEF d
  <2> QED
    BY <1>6, <2>4, <2>5
<1>7. CASE StopWatching
  BY <1>7 DEF StopWatching, WatchdogInv, WatchdogTypes, TiersHold
<1>8. CASE UNCHANGED watchdogVars \/ \E s \in Watched : Toggle(s)
  <2>1. /\ UNCHANGED <<wdPhase, wdQueue, wdEsc, wdStreak, wdFailed>>
        /\ wdDown' \subseteq Watched
    BY <1>8 DEF Toggle, watchdogVars, WatchdogInv, WatchdogTypes
  <2>2. NextDown' = NextDown
    BY <2>1 DEF NextDown
  <2>3. WatchdogTypes' /\ TiersHold' /\ (PhaseHolds => PhaseHolds')
    BY <2>1, <2>2 DEF WatchdogInv, WatchdogTypes, TiersHold, PhaseHolds
  <2>4. \A s : (Uncounted(s)' <=> Uncounted(s)) /\ (Serving(s)' <=> Serving(s))
    BY <2>1, <2>2 DEF Uncounted, Serving
  <2>5. (CountsHold => CountsHold') /\ (AttemptsHold => AttemptsHold')
    BY <2>1, <2>4 DEF CountsHold, AttemptsHold
  <2> QED
    BY <2>1, <2>3, <2>5 DEF WatchdogInv
<1> QED
  BY <1>1, <1>2, <1>3, <1>4, <1>5, <1>6, <1>7, <1>8 DEF WatchdogNext, WatchdogLoop

\* The watchdog's hammers fall only on sustained outages: a restart follows
\* DownThreshold samples in a row that found the subsystem down, an appliance
\* restart or an alert RestartAttempts failed restarts; for any subsystems,
\* thresholds, flapping, and ages of the sample.
THEOREM WatchdogHammerSustained == WatchdogSpec => []HammerOnlySustained
<1>1. WatchdogInit => WatchdogInv
  <2> SUFFICES ASSUME WatchdogInit PROVE WatchdogInv
    OBVIOUS
  <2>1. DOMAIN wdEsc = {} /\ wdQueue = {} /\ wdDown = {} /\ wdPhase = "sleep"
    BY DEF WatchdogInit
  <2>2. wdStreak \in [Watched -> Nat] /\ wdFailed \in [Watched -> Nat]
    BY DEF WatchdogInit
  <2> QED
    BY <2>1, <2>2 DEF WatchdogInv, WatchdogTypes, TiersHold, CountsHold, AttemptsHold, PhaseHolds
<1>2. WatchdogInv /\ [WatchdogNext]_watchdogVars => WatchdogInv'
  BY WatchdogInvStep
<1>3. WatchdogInv => HammerOnlySustained
  <2> SUFFICES ASSUME WatchdogInv PROVE HammerOnlySustained
    OBVIOUS
  <2>1. ASSUME wdPhase \in {"backoff", "restart"}
        PROVE  wdStreak[NextDown] >= DownThreshold
    <3>1. /\ NextDown \in DOMAIN wdEsc /\ NextDown \in Watched
          /\ wdEsc[NextDown].downs >= DownThreshold
          /\ wdEsc[NextDown].downs <= wdStreak[NextDown]
      BY <2>1 DEF WatchdogInv, WatchdogTypes, PhaseHolds, CountsHold, Uncounted, Serving
    <3>2. wdEsc[NextDown].downs \in Nat /\ wdStreak[NextDown] \in Nat
      BY <3>1 DEF WatchdogInv, WatchdogTypes, Escalations
    <3> QED
      BY <3>1, <3>2, WatchdogAssumption
  <2> QED
    BY <2>1 DEF HammerOnlySustained, WatchdogInv, TiersHold
<1> QED
  BY <1>1, <1>2, <1>3, PTL DEF WatchdogSpec

-----------------------------------------------------------------------------
(* Boot and drain. *)

LEMMA TelemetryBoots == "telemetry" \in Subsystems
<1>1. Producers \in Seq(ToSet(Producers))
  BY EdgeSupervisorAssumption
<1>2. Len(Producers) \in Nat
  BY <1>1
<1>3. Boot = <<"telemetry">> \o Producers
  BY DEF Boot
<1>4. 1 \in DOMAIN Boot /\ Boot[1] = "telemetry"
  BY <1>1, <1>2, <1>3
<1> QED
  BY <1>4 DEF Subsystems, ToSet

LEMMA EdgeTypesStep ==
    ASSUME EdgeTypes, EdgeNext PROVE EdgeTypes'
<1>1. ASSUME StartNext PROVE EdgeTypes'
  <2>1. /\ esTask' = [esTask EXCEPT ![Boot[esBooted + 1]] = "running"]
        /\ esPins' \subseteq esPins \cup {"health_entries", "handle_clone"}
        /\ UNCHANGED <<esHung, esFired, esResult>>
    BY <1>1 DEF StartNext
  <2> QED
    BY <2>1 DEF EdgeTypes
<1>2. ASSUME \/ StartFails \/ Booted \/ HealthTick \/ OperatorStops \/ AwaitExitPolls
             \/ HealthProbed \/ HealthExits \/ HealthJoined \/ RunReturns
             \/ TelemetryLetsGo \/ FlushBegins \/ FlushReturns \/ FlushStops
      PROVE  EdgeTypes'
  <2>1. /\ UNCHANGED <<esTask, esResult, esHung>> /\ esPins' \subseteq esPins
        /\ esFired' = esFired \/ esFired' = TRUE
    BY <1>2 DEF StartFails, Booted, HealthTick, OperatorStops, AwaitExitPolls, LeaveRunning,
         HealthProbed, HealthExits, HealthJoined, RunReturns, TelemetryLetsGo, FlushBegins,
         FlushReturns, FlushStops
  <2> QED
    BY <2>1 DEF EdgeTypes
<1>3. ASSUME \/ PipelineSeals \/ FlushSends \/ BridgeForwards \/ BridgeStops
             \/ PipelineTakes \/ PipelineCloses \/ \E e \in EsEvents : Report(e)
      PROVE  EdgeTypes'
  <2>1. UNCHANGED <<esTask, esResult, esHung, esFired>> /\ esPins' \subseteq esPins
    BY <1>3 DEF PipelineSeals, FlushSends, BridgeForwards, BridgeStops, PipelineTakes,
         PipelineCloses, Report
  <2> QED
    BY <2>1 DEF EdgeTypes
<1>4. ASSUME NEW s \in Subsystems, ProducerEnds(s, "done") \/ ProducerEnds(s, "failed") \/ Hang(s)
      PROVE  EdgeTypes'
  BY <1>4 DEF ProducerEnds, Hang, EdgeTypes
<1>5. ASSUME NEW s \in Subsystems, Drained(s) \/ DrainTimesOut(s) PROVE EdgeTypes'
  BY <1>5 DEF Drained, DrainTimesOut, EdgeTypes
<1>6. ASSUME TelemetryJoins PROVE EdgeTypes'
  BY <1>6 DEF TelemetryJoins, EdgeTypes
<1> QED
  BY <1>1, <1>2, <1>3, <1>4, <1>5, <1>6 DEF EdgeNext

LEMMA PinsStep ==
    ASSUME EdgeTypes, PinsHold, EdgeNext PROVE PinsHold'
<1>1. "telemetry" \in Subsystems
  BY TelemetryBoots
<1>2. ASSUME StartNext PROVE PinsHold'
  <2>1. /\ esPhase = "starting" /\ UNCHANGED <<esPhase, esFired>>
        /\ esTask' = [esTask EXCEPT ![Boot[esBooted + 1]] = "running"]
        /\ IF Boot[esBooted + 1] = "telemetry" THEN esPipeline' = "running" /\ esFlush' = "waiting"
                                               ELSE UNCHANGED <<esPipeline, esFlush>>
    BY <1>2 DEF StartNext
  <2>2. esTask'["telemetry"] = "running" =>
          esTask["telemetry"] = "running" \/ Boot[esBooted + 1] = "telemetry"
    BY <1>1, <2>1 DEF EdgeTypes
  <2>3. esTask'["telemetry"] = "running" =>
          esPipeline' \in {"running", "done"} /\ esFlush' \in {"waiting", "sending", "done"}
    BY <2>1, <2>2 DEF PinsHold
  <2> QED
    BY <2>1, <2>3 DEF PinsHold, Draining
<1>3. ASSUME StartFails \/ Booted PROVE PinsHold'
  BY <1>3 DEF StartFails, Booted, PinsHold, Draining
<1>4. ASSUME OperatorStops \/ AwaitExitPolls PROVE PinsHold'
  BY <1>4 DEF OperatorStops, AwaitExitPolls, LeaveRunning, PinsHold, Draining
<1>5. ASSUME HealthJoined \/ RunReturns \/ HealthTick \/ HealthProbed \/ HealthExits PROVE PinsHold'
  <2>1. ASSUME HealthJoined PROVE PinsHold'
    BY <2>1 DEF HealthJoined, PinsHold, Draining
  <2>2. ASSUME RunReturns PROVE PinsHold'
    BY <2>2 DEF RunReturns, PinsHold, Draining
  <2>3. ASSUME HealthTick \/ HealthProbed \/ HealthExits PROVE PinsHold'
    BY <2>3 DEF HealthTick, HealthProbed, HealthExits, PinsHold, Draining
  <2> QED
    BY <1>5, <2>1, <2>2, <2>3
<1>6. ASSUME \/ PipelineSeals \/ FlushSends \/ BridgeForwards \/ BridgeStops
             \/ PipelineTakes \/ PipelineCloses \/ (\E e \in EsEvents : Report(e))
             \/ TelemetryLetsGo \/ FlushBegins \/ FlushReturns \/ FlushStops
             \/ \E s \in Subsystems : Hang(s) \/ Drained(s) \/ DrainTimesOut(s)
      PROVE  PinsHold'
  <2>1. /\ UNCHANGED <<esPhase, esBooted, esFired, esTask>> /\ esPins' \subseteq esPins
        /\ esPipeline' \in {esPipeline, "done"} /\ esFlush' \in {esFlush, "waiting", "sending", "done"}
    BY <1>6 DEF PipelineSeals, FlushSends, BridgeForwards, BridgeStops, PipelineTakes,
         PipelineCloses, Report, TelemetryLetsGo, FlushBegins, FlushReturns, FlushStops, Hang,
         Drained, DrainTimesOut
  <2> QED
    BY <2>1 DEF PinsHold, Draining
<1>7. ASSUME NEW s \in Subsystems, ProducerEnds(s, "done") \/ ProducerEnds(s, "failed")
      PROVE  PinsHold'
  <2>1. /\ UNCHANGED <<esPhase, esBooted, esFired, esPins, esPipeline, esFlush>>
        /\ s # "telemetry"
        /\ \E how \in {"done", "failed"} : esTask' = [esTask EXCEPT ![s] = how]
    BY <1>7 DEF ProducerEnds
  <2>2. esTask'["telemetry"] = esTask["telemetry"]
    BY <1>1, <2>1 DEF EdgeTypes
  <2> QED
    BY <2>1, <2>2 DEF PinsHold, Draining
<1>8. ASSUME TelemetryJoins PROVE PinsHold'
  <2>1. /\ UNCHANGED <<esPhase, esBooted, esFired, esPins, esPipeline, esFlush>>
        /\ esTask'["telemetry"] = "done"
    BY <1>1, <1>8 DEF TelemetryJoins, EdgeTypes
  <2> QED
    BY <2>1 DEF PinsHold, Draining
<1> QED
  BY <1>2, <1>3, <1>4, <1>5, <1>6, <1>7, <1>8 DEF EdgeNext

\* A drain after a complete boot waits on the telemetry task only while its
\* flush loop is in the network: otherwise somebody is about to let go of the
\* pipeline, or the pipeline is about to close, or the task to join its two.
LEMMA TelemetryNeverStuck ==
    ASSUME EdgeTypes, PinsHold, esPhase = "draining", esTask["telemetry"] = "running",
           esFlush # "sending"
    PROVE  Busy
<1>1. esFired /\ "entries" \notin esPins /\ "health_entries" \notin esPins
      /\ esPipeline \in {"running", "done"} /\ esFlush \in {"waiting", "done"}
  BY DEF PinsHold
<1>2. CASE esPins \cap {"bridge", "handle_clone"} # {} \/ esFlush = "waiting"
  BY <1>1, <1>2 DEF Busy
<1>3. CASE esPins \cap {"bridge", "handle_clone"} = {} /\ esFlush = "done"
  <2>1. esPins = {}
    BY <1>1, <1>3 DEF EdgeTypes
  <2> QED
    BY <1>1, <1>3, <2>1 DEF Busy
<1> QED
  BY <1>1, <1>2, <1>3

\* Only the end of its budget gives a task the result "timeout".
LEMMA OnlyBudgetsTimeOut ==
    ASSUME EdgeTypes, EdgeNext, NEW s \in Subsystems, TimesOut(s) PROVE DrainTimesOut(s)
<1>1. esResult' # esResult
  BY DEF TimesOut
<1>2. PICK t \in Subsystems : Drained(t) \/ DrainTimesOut(t)
  BY <1>1 DEF EdgeNext, StartNext, StartFails, Booted, HealthTick, OperatorStops,
     AwaitExitPolls, LeaveRunning, ProducerEnds, Hang, Report, PipelineSeals, FlushBegins,
     FlushSends, FlushReturns, HealthProbed, HealthExits, HealthJoined, RunReturns, BridgeForwards,
     BridgeStops, PipelineTakes, PipelineCloses, FlushStops, TelemetryLetsGo, TelemetryJoins
<1>3. t = s
  BY <1>2 DEF Drained, DrainTimesOut, EdgeTypes, TimesOut
<1>4. ~Drained(s)
  BY DEF Drained, EdgeTypes, TimesOut
<1> QED
  BY <1>2, <1>3, <1>4

LEMMA EdgeStep ==
    ASSUME EdgeInv, [EdgeNext]_edgeVars PROVE EdgeInv'
<1>1. CASE UNCHANGED edgeVars
  BY <1>1 DEF edgeVars, EdgeInv, EdgeTypes, PinsHold
<1>2. CASE EdgeNext
  BY <1>2, EdgeTypesStep, PinsStep DEF EdgeInv
<1> QED
  BY <1>1, <1>2

\* For any number of producers, events and hangs: once every subsystem has
\* booted, a drain budget runs out only on a task that hangs itself or on
\* telemetry inside its connect or flush_one, so the order in which
\* Supervisor::run drops what pins the pipeline is right.
THEOREM DrainNeverDeadlocks == EdgeSpec => OnlyHungTasksTimeOut
<1>1. EdgeInit => EdgeInv
  BY TelemetryBoots DEF EdgeInit, EdgeInv, EdgeTypes, PinsHold
<1>2. EdgeInv /\ [EdgeNext]_edgeVars => EdgeInv'
  BY EdgeStep
<1>3. ASSUME EdgeInv, EdgeNext
      PROVE  ~BootFailed => \A s \in Subsystems : TimesOut(s) => Unresponsive(s)
  <2> SUFFICES ASSUME ~BootFailed, NEW s \in Subsystems, TimesOut(s) PROVE Unresponsive(s)
    OBVIOUS
  <2>1. EdgeTypes /\ PinsHold
    BY <1>3 DEF EdgeInv
  <2>2. Draining /\ esTask[s] = "running" /\ ~Busy
    BY <1>3, <2>1, OnlyBudgetsTimeOut DEF DrainTimesOut
  <2>3. esPhase = "draining"
    BY <2>1, <2>2 DEF Draining, PinsHold, BootFailed
  <2>4. CASE s = "telemetry"
    BY <2>1, <2>2, <2>3, <2>4, TelemetryNeverStuck DEF Unresponsive
  <2>5. CASE s # "telemetry"
    BY <2>2, <2>5 DEF Busy, Unresponsive
  <2> QED
    BY <2>4, <2>5
<1>4. EdgeInv /\ [EdgeNext]_edgeVars =>
        [~BootFailed => \A s \in Subsystems : TimesOut(s) => Unresponsive(s)]_edgeVars
  BY <1>3
<1> QED
  BY <1>1, <1>2, <1>4, PTL DEF EdgeSpec, OnlyHungTasksTimeOut
=============================================================================
