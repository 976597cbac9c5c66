----------------------------- MODULE SelfHealing -----------------------------
(* The two in-process supervisors that keep a child process alive: sng-ips' *)
(* HealthSupervisor for Suricata and sng-swg's EnvoySupervisor for Envoy.   *)
(* Both poll, suppress flaps, restart under a backoff with the last config  *)
(* seen healthy, and hand off to the watchdog when a budget is set and spent. *)
EXTENDS Naturals, FiniteSets

CONSTANTS
    ShConfigs,      \* configuration files the manager applies
    FirstConfig,    \* the one the supervisor is created with
    BadConfigs,     \* those under which the child never reports healthy
    FailedRequired, \* failed_consecutive_required
    MaxRestarts,    \* restart_max_attempts, where one is set
    ShApplies       \* bound on the configurations applied

ASSUME SelfHealingAssumption ==
    /\ FirstConfig \in ShConfigs /\ BadConfigs \subseteq ShConfigs
    /\ FailedRequired \in Nat \ {0} /\ MaxRestarts \in Nat \ {0}

NoConfig == "none"

VARIABLES
    shKind,     \* "ips" or "swg"
    shBounded,  \* restart_max_attempts is Some(MaxRestarts); None by default
    shAlive,    \* external: the child process runs
    shConfig,   \* external: the configuration it was last given
    shActive,   \* active_config
    shGood,     \* last_known_good
    shState,    \* HealthMonitor.state, EnvoySupervisor.state
    shUnwell,   \* consecutive_dead, consecutive_unhealthy; saturates at FailedRequired
    shAttempts, \* episode_attempts; saturates at MaxRestarts
    shPhase,    \* sleep, judge, backoff, restart, handed_off, stopped
    shProbe,    \* what the probe being judged showed
    shPath,     \* restart_path
    shStreak,   \* history: probes in a row without an answer, up to FailedRequired
    shStorm,    \* history: the last answered probe was over the drop limit
    shSeen,     \* history: configurations a healthy probe was made under
    shApplied   \* history: configurations applied so far

healingVars == <<shKind, shBounded, shAlive, shConfig, shActive, shGood, shState, shUnwell,
                 shAttempts, shPhase, shProbe, shPath, shStreak, shStorm, shSeen, shApplied>>

HealingInit ==
    /\ shKind \in {"ips", "swg"} /\ shBounded \in BOOLEAN
    /\ shAlive = TRUE /\ shConfig = FirstConfig /\ shActive = FirstConfig
    /\ shGood = NoConfig
    /\ shState = IF shKind = "ips" THEN "healthy" ELSE "unknown"
    /\ shUnwell = 0 /\ shAttempts = 0 /\ shPhase = "sleep"
    /\ shProbe = "none" /\ shPath = NoConfig
    /\ shStreak = 0 /\ shStorm = FALSE /\ shSeen = {} /\ shApplied = 0

-----------------------------------------------------------------------------
(* The poll. *)

\* External: what a probe of the child can show.  Suricata is dead or does
\* not answer, drops packets beyond a limit, or is well; Envoy is dead, not
\* ready, or ready.
Observations ==
    IF ~shAlive THEN {"dead"}
    ELSE {"silent"} \cup (IF shKind = "ips" THEN {"lossy", "storm"} ELSE {})
         \cup (IF shConfig \in BadConfigs THEN {} ELSE {"well"})

Unanswered(seen) == seen \in {"dead", "silent"}

OneMore(n) == IF n < FailedRequired THEN n + 1 ELSE n

UnwellAfter(seen) == IF Unanswered(seen) THEN OneMore(shUnwell) ELSE 0

IpsStateMutant(seen) ==
    CASE Unanswered(seen) -> "failed"
      [] seen = "storm" -> "failed"
      [] seen = "lossy" -> "degraded"
      [] seen = "well" -> "healthy"

\* HealthMonitor::compute_next.
IpsState(seen) ==
    CASE Unanswered(seen) ->
            IF UnwellAfter(seen) >= FailedRequired \/ shState = "failed"
            THEN "failed" ELSE "degraded"
      [] seen = "storm" -> "failed"
      [] seen = "lossy" -> "degraded"
      [] seen = "well" -> "healthy"

\* health::evaluate and the flap suppression of EnvoySupervisor::run.
SwgState(seen) ==
    IF seen = "well" THEN "healthy"
    ELSE IF UnwellAfter(seen) >= FailedRequired THEN "failed" ELSE "degraded"

NextState(seen) == IF shKind = "ips" THEN IpsState(seen) ELSE SwgState(seen)

\* is_alive, then stats or /ready.  A child that dies between the two has not
\* answered.
ProbeChild ==
    /\ shPhase = "sleep"
    /\ shProbe' \in Observations
    /\ shPhase' = "judge"
    /\ shSeen' = IF shProbe' = "well" THEN shSeen \cup {shConfig} ELSE shSeen
    /\ UNCHANGED <<shKind, shBounded, shAlive, shConfig, shActive, shGood, shState, shUnwell,
                   shAttempts, shPath, shStreak, shStorm, shApplied>>

\* A healthy probe promotes the active config and closes the episode; a
\* failed one starts a restart's backoff.
JudgeProbe ==
    /\ shPhase = "judge"
    /\ shState' = NextState(shProbe)
    /\ shUnwell' = UnwellAfter(shProbe)
    /\ shGood' = IF NextState(shProbe) = "healthy" THEN shActive ELSE shGood
    /\ shAttempts' = IF NextState(shProbe) = "healthy" THEN 0 ELSE shAttempts
    /\ shPhase' = IF NextState(shProbe) = "failed" THEN "backoff" ELSE "sleep"
    /\ shStreak' = IF Unanswered(shProbe) THEN OneMore(shStreak) ELSE 0
    /\ shStorm' = IF Unanswered(shProbe) THEN shStorm ELSE shProbe = "storm"
    /\ shSeen' = IF shProbe = "well" THEN shSeen \cup {shConfig} ELSE shSeen
    /\ shProbe' = "none"
    /\ UNCHANGED <<shKind, shBounded, shAlive, shConfig, shActive, shPath, shApplied>>

-----------------------------------------------------------------------------
(* perform_restart, after the backoff. *)

BeginRestartMutant ==
    /\ shPhase = "backoff"
    /\ shAttempts' = 1
    /\ shPath' = IF shGood = NoConfig THEN shActive ELSE shGood
    /\ shAlive' \in (IF shKind = "ips" THEN {FALSE, shAlive} ELSE {shAlive})
    /\ shPhase' = "restart"
    /\ UNCHANGED <<shKind, shBounded, shConfig, shActive, shGood, shState, shUnwell,
                   shProbe, shStreak, shStorm, shSeen, shApplied>>

\* The attempt is counted, the config chosen, Suricata stopped as far as it
\* goes; Envoy keeps running until its successor has taken over.
BeginRestart ==
    /\ shPhase = "backoff"
    /\ shAttempts' = IF shAttempts < MaxRestarts THEN shAttempts + 1 ELSE shAttempts
    /\ shPath' = IF shGood = NoConfig THEN shActive ELSE shGood
    /\ shAlive' \in (IF shKind = "ips" THEN {FALSE, shAlive} ELSE {shAlive})
    /\ shPhase' = "restart"
    /\ UNCHANGED <<shKind, shBounded, shConfig, shActive, shGood, shState, shUnwell,
                   shProbe, shStreak, shStorm, shSeen, shApplied>>

\* The start succeeds and the child is alive right after it.  Envoy's count
\* of bad probes is reset, Suricata's monitor is not.
RestartRecovers ==
    /\ shPhase = "restart"
    /\ shAlive' = TRUE /\ shConfig' = shPath /\ shPath' = NoConfig
    /\ shAttempts' = 0 /\ shPhase' = "sleep"
    /\ shUnwell' = IF shKind = "swg" THEN 0 ELSE shUnwell
    /\ UNCHANGED <<shKind, shBounded, shActive, shGood, shState, shProbe, shStreak, shStorm,
                   shSeen, shApplied>>

FailedOrExhausted(attempt) ==
    IF shBounded /\ attempt >= MaxRestarts THEN "handed_off" ELSE "sleep"

\* The start fails, which leaves the child as it is, or the child is gone
\* again when it is looked at.
ChildRestartFails ==
    /\ shPhase = "restart"
    /\ \/ shAlive' = FALSE /\ shConfig' = shPath
       \/ UNCHANGED <<shAlive, shConfig>>
    /\ shPath' = NoConfig
    /\ shPhase' = FailedOrExhausted(shAttempts)
    /\ UNCHANGED <<shKind, shBounded, shActive, shGood, shState, shUnwell, shAttempts, shProbe,
                   shStreak, shStorm, shSeen, shApplied>>

\* The shutdown signal is looked at in both sleeps.
StopHealing ==
    /\ shPhase \in {"sleep", "backoff"}
    /\ shPhase' = "stopped"
    /\ UNCHANGED <<shKind, shBounded, shAlive, shConfig, shActive, shGood, shState, shUnwell,
                   shAttempts, shProbe, shPath, shStreak, shStorm, shSeen, shApplied>>

Healing == ProbeChild \/ JudgeProbe \/ BeginRestart \/ RestartRecovers \/ ChildRestartFails

-----------------------------------------------------------------------------
(* The outside. *)

\* What comes after the supervisor's end makes no difference to it.
Watching == shPhase \notin {"handed_off", "stopped"}

ChildDies ==
    /\ shAlive /\ Watching
    /\ shAlive' = FALSE
    /\ UNCHANGED <<shKind, shBounded, shConfig, shActive, shGood, shState, shUnwell, shAttempts,
                   shPhase, shProbe, shPath, shStreak, shStorm, shSeen, shApplied>>

\* set_active_config; the manager has the child reload at the same time.
SetActiveConfig(c) ==
    /\ shApplied < ShApplies /\ Watching
    /\ shApplied' = shApplied + 1
    /\ shActive' = c /\ shConfig' = c
    /\ UNCHANGED <<shKind, shBounded, shAlive, shGood, shState, shUnwell, shAttempts,
                   shPhase, shProbe, shPath, shStreak, shStorm, shSeen>>

HealingNext ==
    \/ ProbeChild \/ JudgeProbe \/ BeginRestart \/ RestartRecovers \/ ChildRestartFails
    \/ StopHealing \/ ChildDies
    \/ \E c \in ShConfigs : SetActiveConfig(c)

HealingFairness == WF_healingVars(Healing)

HealingSpec == HealingInit /\ [][HealingNext]_healingVars /\ HealingFairness

-----------------------------------------------------------------------------
(* Properties. *)

\* "A single transient miss never restarts": a restart is under way only
\* after FailedRequired probes in a row went unanswered, or Suricata was last
\* seen dropping packets beyond the limit; and the supervisor hands off when
\* a budget is set and spent, neither earlier nor later.
RestartsWarranted ==
    /\ shPhase \in {"backoff", "restart"} => shStreak >= FailedRequired \/ shStorm
    /\ shPhase = "handed_off" => shBounded /\ shAttempts = MaxRestarts
    /\ shBounded /\ shPhase \in {"sleep", "backoff"} => shAttempts < MaxRestarts

\* A failure episode is not left alone: after a failed restart the child
\* answers again, the supervisor hands off to the watchdog or, without a
\* budget, restarts the child once more.
EpisodesEnd ==
    shAttempts > 0 /\ shPhase = "sleep" ~>
        \/ shAttempts = 0 \/ shState # "failed" \/ shPhase \in {"handed_off", "stopped"}
        \/ ~shBounded /\ shPhase = "restart"

\* What last_known_good is documented to be (health.rs, envoy_supervisor.rs):
\* a "config under which the subsystem was observed `Healthy`".
LastKnownGoodWasSeenHealthy == shGood \in shSeen \cup {NoConfig}

-----------------------------------------------------------------------------
(* The inductive strengthening that the proofs use. *)

HealingTypes ==
    /\ shKind \in {"ips", "swg"} /\ shBounded \in BOOLEAN /\ shStorm \in BOOLEAN
    /\ shUnwell \in Nat /\ shStreak \in Nat /\ shAttempts \in Nat
    /\ shPhase \in {"sleep", "judge", "backoff", "restart", "handed_off", "stopped"}

\* What a probe that is being judged can have shown, by kind.
ProbeHolds ==
    shPhase = "judge" =>
        /\ shProbe \in {"dead", "silent", "lossy", "storm", "well"}
        /\ shKind # "ips" => shProbe \in {"dead", "silent", "well"}

\* The monitor's count is never ahead of the probes, and the verdict outlives
\* a restart: a monitor that says failed still has its reason.
HealingInv ==
    /\ HealingTypes /\ ProbeHolds
    /\ shUnwell <= shStreak
    /\ shState = "failed" => shStreak >= FailedRequired \/ shStorm
    /\ shPhase \in {"backoff", "restart"} => shState = "failed"
    /\ shAttempts <= MaxRestarts
    /\ shPhase = "handed_off" => shBounded /\ shAttempts = MaxRestarts
    /\ shBounded /\ shPhase \in {"sleep", "judge", "backoff"} => shAttempts < MaxRestarts
=============================================================================
