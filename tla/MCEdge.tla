------------------------------- MODULE MCEdge -------------------------------
(* The edge process on one model: the components that start, feed, update   *)
(* and heal it, one of which moves in each behaviour.  They share no state  *)
(* (what joins two of them is inside one module), so nothing is lost by     *)
(* looking at one at a time, and one run fires every action.                *)
EXTENDS Telemetry, EdgeSupervisor, Watchdog, PolicyRollout, SelfHealing

VARIABLE focus   \* the component that moves

MCTmSize == <<1, 2, 4, 1>>
MCProducers == <<"dns", "ztna">>
MCWatched == <<"ips", "swg">>

Init ==
    /\ TelemetryInit /\ EdgeInit /\ WatchdogInit /\ RolloutInit /\ HealingInit
    /\ focus \in {"telemetry", "supervisor", "watchdog", "rollout", "healing"}
    \* Where a component that stands still could begin in several states, one will do.
    /\ focus # "healing" => shKind = "ips" /\ shBounded

Next ==
    \/ focus = "telemetry" /\ TelemetryNext
       /\ UNCHANGED <<focus, edgeVars, watchdogVars, rolloutVars, healingVars>>
    \/ focus = "supervisor" /\ EdgeNext
       /\ UNCHANGED <<focus, telemetryVars, watchdogVars, rolloutVars, healingVars>>
    \/ focus = "watchdog" /\ WatchdogNext
       /\ UNCHANGED <<focus, telemetryVars, edgeVars, rolloutVars, healingVars>>
    \/ focus = "rollout" /\ RolloutNext
       /\ UNCHANGED <<focus, telemetryVars, edgeVars, watchdogVars, healingVars>>
    \/ focus = "healing" /\ HealingNext
       /\ UNCHANGED <<focus, telemetryVars, edgeVars, watchdogVars, rolloutVars>>

vars == <<focus, telemetryVars, edgeVars, watchdogVars, rolloutVars, healingVars>>

\* Each component's own fairness, asked of it when it is the one that moves.
Fairness ==
    /\ \A t \in TmTasks :
        /\ WF_telemetryVars(focus = "telemetry" /\ Seal(t))
        /\ WF_telemetryVars(focus = "telemetry" /\ TakePending(t))
    /\ WF_telemetryVars(focus = "telemetry" /\ Connect) /\ WF_telemetryVars(focus = "telemetry" /\ Pop)
    /\ SF_telemetryVars(focus = "telemetry" /\ Arrive) /\ SF_telemetryVars(focus = "telemetry" /\ Acked)
    /\ WF_edgeVars(focus = "supervisor" /\ Progress) /\ WF_edgeVars(focus = "supervisor" /\ EdgeTimers)
    /\ WF_edgeVars(focus = "supervisor" /\ (StartNext \/ Booted))
    /\ SF_edgeVars(focus = "supervisor" /\ FlushStops)
    /\ WF_watchdogVars(focus = "watchdog" /\ WatchdogLoop)
    /\ WF_rolloutVars(focus = "rollout" /\ TakeRuleset) /\ WF_rolloutVars(focus = "rollout" /\ InstallSteps)
    /\ WF_rolloutVars(focus = "rollout" /\ ConnectComms)
    /\ SF_rolloutVars(focus = "rollout" /\ PullLast)
    /\ WF_healingVars(focus = "healing" /\ Healing)

Spec == Init /\ [][Next]_vars /\ Fairness
=============================================================================
