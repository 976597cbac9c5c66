------------------------------ MODULE Watchdog ------------------------------
(* sng-edge's top-level watchdog: samples the health of the subsystems and  *)
(* walks each one that stays down up a ladder: restart it in place, restart *)
(* the appliance, alert.  One task serves every subsystem, so the sample it *)
(* works from ages while it sleeps out another subsystem's backoff.         *)
EXTENDS Naturals, Sequences, FiniteSets, SequencesExt

CONSTANTS
    WdSubsystems,   \* the subsystems, in the order of the health report
    DownThreshold, RestartAttempts   \* WatchdogConfig

Watched == ToSet(WdSubsystems)

ASSUME WatchdogAssumption ==
    /\ WdSubsystems \in Seq(Watched) /\ IsInjective(WdSubsystems)
    /\ DownThreshold \in Nat \ {0} /\ RestartAttempts \in Nat \ {0}

VARIABLES
    wdDown,     \* the subsystems that are down
    wdPhase,    \* sleep, work, backoff, restart, stopped
    wdQueue,    \* what is left of down_now, worked off in the order of the report
    wdEsc,      \* escalations: subsystem to Escalation
    wdStreak,   \* history: samples in a row that found it down, up to the threshold
    wdFailed    \* history: restarts that failed since a sample last found it up

watchdogVars == <<wdDown, wdPhase, wdQueue, wdEsc, wdStreak, wdFailed>>

WatchdogInit ==
    /\ wdDown = {} /\ wdPhase = "sleep" /\ wdQueue = {} /\ wdEsc = <<>>
    /\ wdStreak = [s \in Watched |-> 0] /\ wdFailed = [s \in Watched |-> 0]

Position(s) == CHOOSE i \in DOMAIN WdSubsystems : WdSubsystems[i] = s

\* The subsystem that is served next.
NextDown == CHOOSE s \in wdQueue : \A t \in wdQueue : Position(s) <= Position(t)

Capped(n) == IF n > DownThreshold THEN DownThreshold ELSE n

\* consecutive_down saturates; here at the threshold it is compared with.
NewEscalation == [downs |-> 0, tier |-> "subsystem", attempts |-> 0]

Without(esc, S) == [s \in DOMAIN esc \ S |-> esc[s]]

ReapedMutant(down) == wdEsc

\* reap_recovered: what the sample does not report as down starts afresh.
Reaped(down) == Without(wdEsc, Watched \ down)

\* A poll: sample the health, clear the recovered, list the down.
Sample ==
    /\ wdPhase = "sleep"
    /\ wdQueue' = wdDown
    /\ wdEsc' = Reaped(wdDown)
    /\ wdPhase' = "work"
    /\ wdStreak' = [s \in Watched |-> IF s \in wdDown THEN Capped(wdStreak[s] + 1) ELSE 0]
    /\ wdFailed' = [s \in Watched |-> IF s \in wdDown THEN wdFailed[s] ELSE 0]
    /\ UNCHANGED wdDown

\* The list is worked off: back to sleep.
EndPoll ==
    /\ wdPhase = "work" /\ wdQueue = {}
    /\ wdPhase' = "sleep"
    /\ UNCHANGED <<wdDown, wdQueue, wdEsc, wdStreak, wdFailed>>

CountedMutant(s) == [NewEscalation EXCEPT !.downs = 1]

\* The entry of s, created on first sight, with this sample counted.
Counted(s) ==
    LET e == IF s \in DOMAIN wdEsc THEN wdEsc[s] ELSE NewEscalation
    IN  [e EXCEPT !.downs = Capped(@ + 1)]

Updated(s, e) == [t \in DOMAIN wdEsc \cup {s} |-> IF t = s THEN e ELSE wdEsc[t]]

WithinThreshold(e) == e.downs < DownThreshold

\* The next subsystem of the list is below the threshold or already alerted.
PassOver ==
    /\ wdPhase = "work" /\ wdQueue # {}
    /\ LET s == NextDown e == Counted(s)
       IN  /\ WithinThreshold(e) \/ e.tier = "alerted"
           /\ wdEsc' = Updated(s, e)
    /\ wdQueue' = wdQueue \ {NextDown}
    /\ UNCHANGED <<wdDown, wdPhase, wdStreak, wdFailed>>

\* Tier 1: sleep out the backoff.
BeginBackoff ==
    /\ wdPhase = "work" /\ wdQueue # {}
    /\ LET s == NextDown e == Counted(s)
       IN  /\ ~WithinThreshold(e) /\ e.tier = "subsystem"
           /\ wdEsc' = Updated(s, e)
    /\ wdPhase' = "backoff"
    /\ UNCHANGED <<wdDown, wdQueue, wdStreak, wdFailed>>

BackoffEnds ==
    /\ wdPhase = "backoff"
    /\ LET s == NextDown
       IN  wdEsc' = [wdEsc EXCEPT ![s].attempts = @ + 1]
    /\ wdPhase' = "restart"
    /\ UNCHANGED <<wdDown, wdQueue, wdStreak, wdFailed>>

\* restart_subsystem returned Ok: the escalation is forgotten, unprobed.
TrustRestart ==
    /\ wdPhase = "restart"
    /\ wdEsc' = Without(wdEsc, {NextDown})
    /\ wdQueue' = wdQueue \ {NextDown} /\ wdPhase' = "work"
    /\ wdFailed' = [wdFailed EXCEPT ![NextDown] = 0]
    /\ wdStreak' = [wdStreak EXCEPT ![NextDown] = 0]

\* The restarter is to answer Ok only for a subsystem it found healthy; it is
\* taken at its word, whatever the subsystem does.
RestartOk == TrustRestart /\ wdDown' \in {wdDown, wdDown \ {NextDown}}

TierAfterFailure(attempts) == IF attempts >= RestartAttempts THEN "edge" ELSE "subsystem"

RestartFails ==
    /\ wdPhase = "restart"
    /\ LET s == NextDown
       IN  /\ wdEsc' = [wdEsc EXCEPT ![s].tier = TierAfterFailure(wdEsc[s].attempts)]
           /\ wdFailed' = [wdFailed EXCEPT ![s] = @ + 1]
    /\ wdQueue' = wdQueue \ {NextDown} /\ wdPhase' = "work"
    /\ UNCHANGED <<wdDown, wdStreak>>

AtEdgeTier ==
    /\ wdPhase = "work" /\ wdQueue # {}
    /\ ~WithinThreshold(Counted(NextDown)) /\ Counted(NextDown).tier = "edge"

\* Tier 2: restart_edge initiates the bounce and the watchdog returns.
EdgeRestart ==
    /\ AtEdgeTier
    /\ wdPhase' = "stopped"
    /\ wdEsc' = Updated(NextDown, Counted(NextDown))
    /\ UNCHANGED <<wdDown, wdQueue, wdStreak, wdFailed>>

\* Tier 3: not even that; alert once.
EdgeRestartFails ==
    /\ AtEdgeTier
    /\ LET s == NextDown
       IN  wdEsc' = Updated(s, [Counted(s) EXCEPT !.tier = "alerted"])
    /\ wdQueue' = wdQueue \ {NextDown}
    /\ UNCHANGED <<wdDown, wdPhase, wdStreak, wdFailed>>

\* The shutdown signal is looked at in the two sleeps only.
StopWatching ==
    /\ wdPhase \in {"sleep", "backoff"}
    /\ wdPhase' = "stopped"
    /\ UNCHANGED <<wdDown, wdQueue, wdEsc, wdStreak, wdFailed>>

\* External: a subsystem fails, or its own supervisor brings it back.
Toggle(s) ==
    /\ wdPhase # "stopped"
    /\ wdDown' = IF s \in wdDown THEN wdDown \ {s} ELSE wdDown \cup {s}
    /\ UNCHANGED <<wdPhase, wdQueue, wdEsc, wdStreak, wdFailed>>

WatchdogLoop ==
    \/ Sample \/ EndPoll \/ PassOver \/ BeginBackoff \/ BackoffEnds
    \/ RestartOk \/ RestartFails \/ EdgeRestart \/ EdgeRestartFails

WatchdogNext == WatchdogLoop \/ StopWatching \/ \E s \in Watched : Toggle(s)

\* The task is scheduled, its timers run out, a restarter answers.
WatchdogFairness == WF_watchdogVars(WatchdogLoop)

WatchdogSpec == WatchdogInit /\ [][WatchdogNext]_watchdogVars /\ WatchdogFairness

-----------------------------------------------------------------------------
(* Properties. *)

\* A hammer falls only on a sustained outage, flaps and stale samples
\* notwithstanding: a subsystem is restarted after DownThreshold samples in a
\* row found it down, and the appliance is bounced, or the alarm raised, only
\* after every in-place restart it was entitled to has failed meanwhile.
HammerOnlySustained ==
    /\ wdPhase \in {"backoff", "restart"} => wdStreak[NextDown] >= DownThreshold
    /\ \A s \in DOMAIN wdEsc :
        wdEsc[s].tier \in {"edge", "alerted"} => wdFailed[s] >= RestartAttempts

Handled(s) ==
    wdPhase = "stopped" \/ (s \in DOMAIN wdEsc /\ wdEsc[s].tier = "alerted")

TrustedAgain(s) == RestartOk /\ NextDown = s

\* The ladder is climbed to its end: a subsystem that goes down and stays
\* down leads to an appliance restart or the alarm, whatever the others do,
\* unless its restarter reports success again and again: an Ok that did not
\* heal starts the ladder afresh.
OutageHandled ==
    \A s \in Watched : <>[](s \in wdDown) =>
        <>Handled(s) \/ []<><<TrustedAgain(s)>>_watchdogVars

-----------------------------------------------------------------------------
(* The inductive strengthening that the proofs use. *)

Escalations == [downs : Nat, tier : {"subsystem", "edge", "alerted"}, attempts : Nat]

WatchdogTypes ==
    /\ wdDown \subseteq Watched /\ wdQueue \subseteq Watched
    /\ wdPhase \in {"sleep", "work", "backoff", "restart", "stopped"}
    /\ DOMAIN wdEsc \subseteq Watched /\ \A s \in DOMAIN wdEsc : wdEsc[s] \in Escalations
    /\ wdStreak \in [Watched -> Nat] /\ wdFailed \in [Watched -> Nat]

Serving(s) == wdPhase \in {"backoff", "restart"} /\ s = NextDown

\* The sample found s down and its entry does not count it yet.
Uncounted(s) == s \in wdQueue /\ ~Serving(s)

\* An entry counts at most the samples in a row that found it down.
CountsHold ==
    /\ \A s \in DOMAIN wdEsc : ~Uncounted(s) => wdEsc[s].downs <= wdStreak[s]
    /\ \A s \in wdQueue : Uncounted(s) =>
        /\ wdStreak[s] >= 1
        /\ s \in DOMAIN wdEsc => Capped(wdEsc[s].downs + 1) <= wdStreak[s]

\* The attempts of an entry are failed restarts, but for the one under way.
AttemptsHold ==
    \A s \in DOMAIN wdEsc :
        \/ wdEsc[s].attempts <= wdFailed[s]
        \/ wdPhase = "restart" /\ Serving(s) /\ wdEsc[s].attempts <= wdFailed[s] + 1

TiersHold ==
    \A s \in DOMAIN wdEsc :
        wdEsc[s].tier \in {"edge", "alerted"} => wdFailed[s] >= RestartAttempts

PhaseHolds ==
    /\ wdPhase = "sleep" => wdQueue = {}
    /\ wdPhase \in {"backoff", "restart"} =>
        /\ wdQueue # {} /\ NextDown \in DOMAIN wdEsc
        /\ wdEsc[NextDown].downs >= DownThreshold

WatchdogInv ==
    /\ WatchdogTypes /\ TiersHold
    /\ wdPhase # "stopped" => CountsHold /\ AttemptsHold /\ PhaseHolds
=============================================================================
