------------------------------ MODULE Failover ------------------------------
(* sng-sdwan's dual-WAN failover: the SLA monitor turns probe results into  *)
(* violations, the failover engine picks the active path, and the bandwidth *)
(* aggregator spreads packets over the links while all of them are healthy. *)
EXTENDS Integers, Sequences, FiniteSets, SequencesExt

CONSTANTS
    Members,        \* the failover group: primary, then backups by priority
    Watches,        \* SlaMonitor.watches: <<path, class>>, in order
    Breaches,       \* SlaPolicy.consecutive_breaches
    FailbackModes,  \* FailbackMode: immediate, manual, delay
    FailbackDelay,  \* stabilisation window, in ticks
    Weights,        \* BondMember.weight of each member
    PacketsMax      \* bound on the packets assigned

ASSUME FailoverAssumption ==
    /\ Members \in Seq(ToSet(Members)) /\ Members # <<>> /\ IsInjective(Members)
    /\ Watches \in Seq(ToSet(Watches)) /\ \A w \in ToSet(Watches) : w[1] \in ToSet(Members)
    /\ Breaches \in Nat \ {0} /\ FailbackDelay \in Nat
    /\ Weights \in [ToSet(Members) -> Nat \ {0}]

Paths == ToSet(Members)
Primary == Head(Members)
Backups == Tail(Members)

\* Ages are counted up to the window they are compared with.
Never == -1

VARIABLES
    foMode,      \* FailoverPolicy.failback, fixed when the engine is built
    foUnhealthy, \* FailoverState.unhealthy
    foSince,     \* how long ago primary_healthy_since_ms is (Never: None)
    foActive,    \* the active path
    foCounter,   \* SlaMonitor.counters: per path
    foReported,  \* paths whose violation the monitor's caller has yet to pass on
    foStable     \* history: ticks since the engine last heard of a primary breach

failoverVars == <<foMode, foUnhealthy, foSince, foActive, foCounter, foReported, foStable>>

FailoverInit ==
    /\ foMode \in FailbackModes
    /\ foUnhealthy = {} /\ foSince = Never /\ foActive = Primary
    /\ foCounter = [p \in Paths |-> 0]
    /\ foReported = {} /\ foStable = FailbackDelay

-----------------------------------------------------------------------------
(* FailoverEngine. *)

FirstHealthy(seq, unhealthy) ==
    LET healthy == {i \in DOMAIN seq : seq[i] \notin unhealthy}
    IN  IF healthy = {} THEN Primary ELSE seq[Min(healthy)]

FailbackDueMutant(since) == foMode # "manual"

FailbackDue(since) ==
    \/ foMode = "immediate"
    \/ foMode = "delay" /\ since # Never /\ since >= FailbackDelay

ResolveActiveMutant(unhealthy, since, force) ==
    IF Primary \notin unhealthy
    THEN IF force \/ FailbackDue(since)
         THEN Primary ELSE FirstHealthy(Backups, unhealthy)
    ELSE FirstHealthy(Members, unhealthy)

\* The primary while it is healthy and held or due; a healthy backup while
\* the primary is down or serves its window; the primary as a last resort.
ResolveActive(unhealthy, since, force) ==
    IF Primary \notin unhealthy
    THEN IF foActive = Primary \/ force \/ FailbackDue(since)
         THEN Primary ELSE FirstHealthy(Backups, unhealthy)
    ELSE FirstHealthy(Members, unhealthy)

Recompute(unhealthy, since, force) ==
    /\ foUnhealthy' = unhealthy /\ foSince' = since
    /\ foActive' = ResolveActive(unhealthy, since, force)

SinceAfterViolation(p) == IF p = Primary THEN Never ELSE foSince

\* Whoever runs the monitor passes a violation on, later than other reports.
OnViolation(p) ==
    /\ p \in foReported /\ foReported' = foReported \ {p}
    /\ Recompute(foUnhealthy \cup {p}, SinceAfterViolation(p), FALSE)
    /\ foStable' = IF p = Primary THEN 0 ELSE foStable
    /\ UNCHANGED <<foMode, foCounter>>

\* Every report arms the window anew, also one about a healthy primary.
SinceAfterRecovery(p) == IF p = Primary THEN 0 ELSE foSince

OnRecovery(p) ==
    /\ Recompute(foUnhealthy \ {p}, SinceAfterRecovery(p), FALSE)
    /\ UNCHANGED <<foMode, foCounter, foReported, foStable>>

\* The operator's call sets the healthy time to the epoch.
ManualFailback ==
    /\ LET since == IF Primary \notin foUnhealthy THEN FailbackDelay ELSE foSince
       IN  Recompute(foUnhealthy, since, TRUE)
    /\ UNCHANGED <<foMode, foCounter, foReported, foStable>>

Poll ==
    /\ Recompute(foUnhealthy, foSince, FALSE)
    /\ UNCHANGED <<foMode, foCounter, foReported, foStable>>

Older(age) == IF age = Never \/ age = FailbackDelay THEN age ELSE age + 1

TimeGoesBy ==
    /\ foSince' = Older(foSince) /\ foStable' = IF Primary \in foUnhealthy THEN 0 ELSE Older(foStable)
    /\ UNCHANGED <<foMode, foUnhealthy, foActive, foCounter, foReported>>

-----------------------------------------------------------------------------
(* SlaMonitor. *)

\* record_evaluation for one watch; bad is the set of watches whose path's
\* stored probe breaches, skipped those without a probe.  The counter is the
\* path's: the watches of one path share it.
CountedWatch(acc, w, bad, skipped) ==
    IF w \in skipped THEN acc
    ELSE IF w \notin bad THEN [acc EXCEPT !.counter[w[1]] = 0]
    ELSE LET n == acc.counter[w[1]] + 1
         IN  IF n >= Breaches
             THEN [counter |-> [acc.counter EXCEPT ![w[1]] = 0], emitted |-> acc.emitted \cup {w[1]}]
             ELSE [acc EXCEPT !.counter[w[1]] = n]

EvaluateWatches(bad, skipped) ==
    LET Pass[n \in 0 .. Len(Watches)] ==
          IF n = 0 THEN [counter |-> foCounter, emitted |-> {}]
          ELSE CountedWatch(Pass[n - 1], Watches[n], bad, skipped)
    IN  Pass[Len(Watches)]

\* One pass of the monitor.  It reads the stored probes, old or new: the same
\* probe counts again at every pass.
SlaTick(bad, skipped) ==
    LET result == EvaluateWatches(bad, skipped)
    IN  /\ foCounter' = result.counter
        /\ foReported' = foReported \cup result.emitted
        /\ UNCHANGED <<foMode, foUnhealthy, foSince, foActive, foStable>>

FailoverNext ==
    \/ \E bad, skipped \in SUBSET ToSet(Watches) : bad \cap skipped = {} /\ SlaTick(bad, skipped)
    \/ \E p \in Paths : OnViolation(p) \/ OnRecovery(p)
    \/ ManualFailback \/ Poll \/ TimeGoesBy

FailoverSpec == FailoverInit /\ [][FailoverNext]_failoverVars

-----------------------------------------------------------------------------
(* The bandwidth aggregator. *)

VARIABLES
    bwSent,     \* packets each member was given while bonded
    bwCursor,   \* weighted_cursor
    bwSeq       \* seq

bondVars == <<bwSent, bwCursor, bwSeq>>

BondInit == bwSent = [p \in Paths |-> 0] /\ bwCursor = 0 /\ bwSeq = 0

\* The weights of the first n members.
WeightOfFirst[n \in 0 .. Len(Members)] == IF n = 0 THEN 0 ELSE WeightOfFirst[n - 1] + Weights[Members[n]]
TotalWeight == WeightOfFirst[Len(Members)]

NextWeightedMutant(cursor) ==
    CHOOSE p \in Paths : \E i \in DOMAIN Members :
        /\ p = Members[i] /\ cursor % TotalWeight <= WeightOfFirst[i]
        /\ \A j \in 1 .. i - 1 : cursor % TotalWeight > WeightOfFirst[j]

\* The member whose share of the cycle the cursor is in.
NextWeighted(cursor) ==
    CHOOSE p \in Paths : \E i \in DOMAIN Members :
        /\ p = Members[i] /\ cursor % TotalWeight < WeightOfFirst[i]
        /\ \A j \in 1 .. i - 1 : cursor % TotalWeight >= WeightOfFirst[j]

\* assign: bonded only while every member is healthy, else the first healthy
\* one carries everything and the cursor stands still.
AssignPacket(healthy) ==
    /\ bwSeq < PacketsMax /\ healthy # {}
    /\ bwSeq' = bwSeq + 1
    /\ IF healthy = Paths
       THEN /\ bwSent' = [bwSent EXCEPT ![NextWeighted(bwCursor)] = @ + 1]
            /\ bwCursor' = bwCursor + 1
       ELSE UNCHANGED <<bwSent, bwCursor>>

BondNext == \E healthy \in SUBSET Paths : AssignPacket(healthy)

BondSpec == BondInit /\ [][BondNext]_bondVars

\* Over whole cycles every link carries exactly its share of the bonded
\* packets, and inside one it is never a cycle ahead or behind, whatever
\* health changes interrupt the bonding.
BondShares ==
    \A p \in Paths :
        /\ bwCursor % TotalWeight = 0 => bwSent[p] * TotalWeight = bwCursor * Weights[p]
        /\ bwSent[p] - (bwCursor \div TotalWeight) * Weights[p] \in 0 .. Weights[p]

-----------------------------------------------------------------------------
(* Properties of failover. *)

\* No flapping: in delay mode traffic leaves a healthy backup for the primary
\* only when the primary has gone the whole window without a breach, and in
\* manual mode only when the operator says so.
NoEarlyFailback ==
    [][(foActive # Primary /\ foActive' = Primary /\ foActive \notin foUnhealthy' /\ ~ManualFailback) =>
        \/ foMode = "immediate"
        \/ foMode = "delay" /\ foStable >= FailbackDelay]_failoverVars

Priority(p) == CHOOSE i \in DOMAIN Members : Members[i] = p

\* "The first healthy backup wins when the primary is unhealthy": traffic sits
\* on a path reported unhealthy only when all are, and it leaves a healthy path
\* only for one of higher priority, in whatever order late violations, repeated
\* recoveries, polls and the operator's call reach the engine.
SwitchesWarranted ==
    [][/\ foActive' \in foUnhealthy' => Paths \subseteq foUnhealthy'
       /\ foActive' # foActive /\ foActive \notin foUnhealthy' =>
              Priority(foActive') < Priority(foActive)]_failoverVars

-----------------------------------------------------------------------------
(* The inductive strengthenings that the proofs use. *)

\* How much of its share of a cycle member i has had when the cycle has given
\* out turn packets.
PartOfShare(i, turn) ==
    LET past == turn - WeightOfFirst[i - 1]
    IN  IF past < 0 THEN 0 ELSE IF past > Weights[Members[i]] THEN Weights[Members[i]] ELSE past

BondInv ==
    /\ bwCursor \in Nat /\ bwSent \in [Paths -> Int]
    /\ \A i \in DOMAIN Members :
        bwSent[Members[i]] = (bwCursor \div TotalWeight) * Weights[Members[i]]
                             + PartOfShare(i, bwCursor % TotalWeight)

\* The path in use is healthy while any path is.
HealthyServes == foActive \in Paths /\ (foActive \in foUnhealthy => Paths \subseteq foUnhealthy)

\* The engine's idea of how long the primary has been healthy is not ahead of
\* the truth while the traffic is elsewhere; the operator's call, which is,
\* has brought it back.
FailoverInv ==
    /\ foActive \in Paths
    /\ foSince \in {Never} \cup 0 .. FailbackDelay /\ foStable \in 0 .. FailbackDelay
    /\ Primary \in foUnhealthy => foSince = Never
    /\ foActive # Primary => foSince <= foStable

=============================================================================
