--------------------------- MODULE EdgeSupervisor ---------------------------
(* Boot, run and drain of an edge appliance: sng-core's Supervisor, the     *)
(* telemetry subsystem with its pipeline and flush tasks, and the bridge    *)
(* that forwards the other subsystems' events.  The pipeline ends only when *)
(* every holder of a PipelineHandle has let go of it, so who still holds    *)
(* one during the drain decides whether the process can stop.               *)
EXTENDS Naturals, Sequences, FiniteSets, SequencesExt

CONSTANTS
    Producers,      \* the other subsystems, in boot order, after telemetry
    EsEvents,       \* events the producers report, each once
    PipelineCapacity

ASSUME EdgeSupervisorAssumption ==
    /\ Producers \in Seq(ToSet(Producers)) /\ IsInjective(Producers)
    /\ "telemetry" \notin ToSet(Producers)
    /\ PipelineCapacity \in Nat \ {0}

Boot == <<"telemetry">> \o Producers
Subsystems == ToSet(Boot)

VARIABLES
    esPhase,    \* starting, running, stopping (health first), draining, aborting, exited
    esBooted,   \* how many subsystems of Boot have started
    esFired,    \* ShutdownTrigger
    esTask,     \* SubsystemHandle: none, running, done, failed
    esHung,     \* subsystems that do not react to the shutdown signal
    esHealth,   \* the health aggregator: none, idle, probing, done
    esPins,     \* who holds a PipelineHandle, or the subsystem that owns one
    esPipeline, \* Pipeline::run: running, done
    esFlush,    \* run_flush_loop: waiting in a select, sending, done
    esWhere,    \* where each event is
    esResult    \* DrainResult of each subsystem

edgeVars == <<esPhase, esBooted, esFired, esTask, esHung, esHealth, esPins,
              esPipeline, esFlush, esWhere, esResult>>

EdgeInit ==
    /\ esPhase = "starting" /\ esBooted = 0 /\ esFired = FALSE
    /\ esTask = [s \in Subsystems |-> "none"] /\ esHung = {}
    /\ esHealth = "none"
    /\ esPins = {"entries", "bridge"}
    /\ esPipeline = "idle" /\ esFlush = "idle"
    /\ esWhere = [e \in EsEvents |-> "new"]
    /\ esResult = [s \in Subsystems |-> "none"]

-----------------------------------------------------------------------------
(* Supervisor::run. *)

\* start() of the next subsystem succeeds.  The supervisor keeps a clone of
\* it for the health checks; telemetry also spawns its two tasks and holds
\* a handle clone in its own.
StartNext ==
    /\ esPhase = "starting" /\ esBooted < Len(Boot)
    /\ LET s == Boot[esBooted + 1]
       IN  /\ esTask' = [esTask EXCEPT ![s] = "running"]
           /\ IF s = "telemetry"
              THEN /\ esPins' = esPins \cup {"health_entries", "handle_clone"}
                   /\ esPipeline' = "running" /\ esFlush' = "waiting"
              ELSE UNCHANGED <<esPins, esPipeline, esFlush>>
    /\ esBooted' = esBooted + 1
    /\ UNCHANGED <<esPhase, esFired, esHung, esHealth, esWhere, esResult>>

\* start() fails: entries are dropped, the trigger fires, what had started is
\* drained.  health_entries stays in scope until run returns.
StartFails ==
    /\ esPhase = "starting" /\ esBooted < Len(Boot)
    /\ esPhase' = "aborting" /\ esFired' = TRUE
    /\ esPins' = esPins \ {"entries"}
    /\ UNCHANGED <<esBooted, esTask, esHung, esHealth, esPipeline, esFlush, esWhere, esResult>>

BootedMutant ==
    /\ esPhase = "starting" /\ esBooted = Len(Boot)
    /\ esPhase' = "running" /\ esHealth' = "idle"
    /\ UNCHANGED <<esPins, esBooted, esFired, esTask, esHung, esPipeline, esFlush, esWhere, esResult>>

\* Every subsystem runs: entries are dropped, the health entries move into
\* the aggregator task.
Booted ==
    /\ esPhase = "starting" /\ esBooted = Len(Boot)
    /\ esPhase' = "running" /\ esHealth' = "idle"
    /\ esPins' = esPins \ {"entries"}
    /\ UNCHANGED <<esBooted, esFired, esTask, esHung, esPipeline, esFlush, esWhere, esResult>>

HealthTick ==
    /\ esHealth = "idle" /\ ~esFired
    /\ esHealth' = "probing"
    /\ UNCHANGED <<esPhase, esBooted, esFired, esTask, esHung, esPins, esPipeline, esFlush, esWhere, esResult>>

HealthProbed ==
    /\ esHealth = "probing"
    /\ esHealth' = "idle"
    /\ UNCHANGED <<esPhase, esBooted, esFired, esTask, esHung, esPins, esPipeline, esFlush, esWhere, esResult>>

\* The aggregator looks at the signal between two rounds of probes only; its
\* entries are dropped with it.
HealthExits ==
    /\ esHealth = "idle" /\ esFired
    /\ esHealth' = "done" /\ esPins' = esPins \ {"health_entries"}
    /\ UNCHANGED <<esPhase, esBooted, esFired, esTask, esHung, esPipeline, esFlush, esWhere, esResult>>

Ended(s) == esTask[s] \in {"done", "failed"}

\* SIGTERM, another holder of the trigger, or await_exit's poll of a task
\* that ended by itself.
LeaveRunning ==
    /\ esPhase = "running"
    /\ esPhase' = "stopping" /\ esFired' = TRUE
    /\ UNCHANGED <<esBooted, esTask, esHung, esHealth, esPins, esPipeline, esFlush, esWhere, esResult>>

AwaitExitPollsMutant == Ended(Boot[1]) /\ LeaveRunning

AwaitExitPolls == (\E s \in Subsystems : Ended(s)) /\ LeaveRunning

OperatorStops == LeaveRunning

\* The aggregator is joined first; after the drain budget it is aborted.
HealthJoined ==
    /\ esPhase = "stopping" /\ esHealth \in {"done", "probing"}
    /\ esPhase' = "draining"
    /\ esHealth' = "done" /\ esPins' = esPins \ {"health_entries"}
    /\ UNCHANGED <<esBooted, esFired, esTask, esHung, esPipeline, esFlush, esWhere, esResult>>

Draining == esPhase \in {"draining", "aborting"}

\* drain_single_handle: the task ended within its budget.
Drained(s) ==
    /\ Draining /\ Ended(s) /\ esResult[s] = "none"
    /\ esResult' = [esResult EXCEPT ![s] = IF esTask[s] = "done" THEN "clean" ELSE "failed"]
    /\ UNCHANGED <<esPhase, esBooted, esFired, esTask, esHung, esHealth, esPins, esPipeline, esFlush, esWhere>>

\* Every spawned task has its result: run returns, with its locals.
RunReturns ==
    /\ Draining
    /\ \A i \in 1 .. esBooted : esResult[Boot[i]] # "none"
    /\ esPhase' = "exited" /\ esPins' = esPins \ {"health_entries"}
    /\ UNCHANGED <<esBooted, esFired, esTask, esHung, esHealth, esPipeline, esFlush, esWhere, esResult>>

-----------------------------------------------------------------------------
(* The subsystems' tasks. *)

\* A producer ends on the signal, or by itself, well or badly.
ProducerEnds(s, how) ==
    /\ esTask[s] = "running" /\ s # "telemetry" /\ s \notin esHung
    /\ esTask' = [esTask EXCEPT ![s] = how]
    /\ UNCHANGED <<esPhase, esBooted, esFired, esHung, esHealth, esPins, esPipeline, esFlush, esWhere, esResult>>

\* A producer stops answering.
Hang(s) ==
    /\ esTask[s] = "running" /\ s # "telemetry" /\ s \notin esHung
    /\ esHung' = esHung \cup {s}
    /\ UNCHANGED <<esPhase, esBooted, esFired, esTask, esHealth, esPins, esPipeline, esFlush, esWhere, esResult>>

At(place) == {e \in EsEvents : esWhere[e] = place}

\* A running producer sends an event to the bridge, refused once it is gone.
Report(e) ==
    /\ esWhere[e] = "new" /\ \E s \in ToSet(Producers) : esTask[s] = "running"
    /\ esWhere' = [esWhere EXCEPT ![e] = IF "bridge" \in esPins THEN "bridge" ELSE "refused"]
    /\ UNCHANGED <<esPhase, esBooted, esFired, esTask, esHung, esHealth, esPins, esPipeline, esFlush, esResult>>

\* try_submit: into the pipeline's channel, or dropped when it is full.
Submitted(S) ==
    \E kept \in SUBSET S :
        /\ Cardinality(kept) + Cardinality(At("pipeline")) <= PipelineCapacity
        /\ \/ kept = S
           \/ Cardinality(kept) + Cardinality(At("pipeline")) = PipelineCapacity
        /\ esWhere' = [e \in EsEvents |->
                          IF e \in kept THEN "pipeline"
                          ELSE IF e \in S THEN "dropped" ELSE esWhere[e]]

BridgeForwards ==
    /\ "bridge" \in esPins /\ ~esFired
    /\ \E e \in At("bridge") : Submitted({e})
    /\ UNCHANGED <<esPhase, esBooted, esFired, esTask, esHung, esHealth, esPins, esPipeline, esFlush, esResult>>

\* On the signal the bridge moves what it has buffered and drops its handle.
BridgeStops ==
    /\ "bridge" \in esPins /\ esFired
    /\ Submitted(At("bridge"))
    /\ esPins' = esPins \ {"bridge"}
    /\ UNCHANGED <<esPhase, esBooted, esFired, esTask, esHung, esHealth, esPipeline, esFlush, esResult>>

\* Pipeline::run takes an event out of its channel into the batch builder.
PipelineTakes ==
    /\ esPipeline = "running"
    /\ \E e \in At("pipeline") : esWhere' = [esWhere EXCEPT ![e] = "builder"]
    /\ UNCHANGED <<esPhase, esBooted, esFired, esTask, esHung, esHealth, esPins, esPipeline, esFlush, esResult>>

\* A batch fills up or its timer runs out: it goes to the spool.
PipelineSeals ==
    /\ esPipeline = "running" /\ At("builder") # {}
    /\ esWhere' = [e \in EsEvents |-> IF esWhere[e] = "builder" THEN "spool" ELSE esWhere[e]]
    /\ UNCHANGED <<esPhase, esBooted, esFired, esTask, esHung, esHealth, esPins, esPipeline, esFlush, esResult>>

\* The channel is closed and empty: seal what is left and return.
PipelineCloses ==
    /\ esPipeline = "running" /\ esPins = {} /\ At("pipeline") = {}
    /\ esPipeline' = "done"
    /\ esWhere' = [e \in EsEvents |-> IF esWhere[e] = "builder" THEN "spool" ELSE esWhere[e]]
    /\ UNCHANGED <<esPhase, esBooted, esFired, esTask, esHung, esHealth, esPins, esFlush, esResult>>

\* A tick of run_flush_loop: connect, unless connected, and up to 32 times
\* flush_one.  None of these awaits races the signal or has a timeout; a
\* tick due when the signal has fired may still win the select.
FlushBegins ==
    /\ esFlush = "waiting"
    /\ esFlush' = "sending"
    /\ UNCHANGED <<esPhase, esBooted, esFired, esTask, esHung, esHealth, esPins, esPipeline, esWhere, esResult>>

FlushSends ==
    /\ esFlush = "sending" /\ At("spool") # {}
    /\ esWhere' = [e \in EsEvents |-> IF esWhere[e] = "spool" THEN "sent" ELSE esWhere[e]]
    /\ UNCHANGED <<esPhase, esBooted, esFired, esTask, esHung, esHealth, esPins, esPipeline, esFlush, esResult>>

\* The spool is empty, an answer is an error, or connect fails (its backoff
\* races the signal): back in a select.
FlushReturns ==
    /\ esFlush = "sending"
    /\ esFlush' = "waiting"
    /\ UNCHANGED <<esPhase, esBooted, esFired, esTask, esHung, esHealth, esPins, esPipeline, esWhere, esResult>>

\* run_flush_loop leaves on the signal, whatever the spool holds.
FlushStops ==
    /\ esFlush = "waiting" /\ esFired
    /\ esFlush' = "done"
    /\ UNCHANGED <<esPhase, esBooted, esFired, esTask, esHung, esHealth, esPins, esPipeline, esWhere, esResult>>

\* The telemetry task waits for the signal, drops its clone, joins both.
TelemetryLetsGo ==
    /\ "handle_clone" \in esPins /\ esFired
    /\ esPins' = esPins \ {"handle_clone"}
    /\ UNCHANGED <<esPhase, esBooted, esFired, esTask, esHung, esHealth, esPipeline, esFlush, esWhere, esResult>>

TelemetryJoins ==
    /\ esTask["telemetry"] = "running" /\ "handle_clone" \notin esPins
    /\ esPipeline = "done" /\ esFlush = "done"
    /\ esTask' = [esTask EXCEPT !["telemetry"] = "done"]
    /\ UNCHANGED <<esPhase, esBooted, esFired, esHung, esHealth, esPins, esPipeline, esFlush, esWhere, esResult>>

\* Everything that happens in far less time than a drain budget.
Progress ==
    \/ HealthProbed \/ HealthExits \/ HealthJoined
    \/ \E s \in Subsystems : Drained(s)
    \/ RunReturns
    \/ \E s \in Subsystems : ProducerEnds(s, "done") /\ esFired
    \/ BridgeForwards \/ BridgeStops \/ PipelineTakes \/ PipelineCloses
    \/ FlushStops \/ TelemetryLetsGo \/ TelemetryJoins

\* While a drain is under way: some action of Progress can be taken.
Busy ==
    \/ esHealth = "probing" \/ (esHealth = "idle" /\ esFired)
    \/ \E s \in Subsystems : Ended(s) /\ esResult[s] = "none"
    \/ \E s \in Subsystems \ esHung : s # "telemetry" /\ esTask[s] = "running"
    \/ esFired /\ (esPins \cap {"bridge", "handle_clone"} # {} \/ esFlush = "waiting")
    \/ esPipeline = "running" /\ (At("pipeline") # {} \/ esPins = {})
    \/ /\ esTask["telemetry"] = "running" /\ "handle_clone" \notin esPins
       /\ esPipeline = "done" /\ esFlush = "done"

\* The drain budget of a task that has not ended runs out.  Budgets are long
\* against everything but a hung task and the network: time passes when
\* nothing else is left.
DrainTimesOut(s) ==
    /\ Draining /\ esTask[s] = "running" /\ esResult[s] = "none"
    /\ ~Busy
    /\ esResult' = [esResult EXCEPT ![s] = "timeout"]
    /\ UNCHANGED <<esPhase, esBooted, esFired, esTask, esHung, esHealth, esPins, esPipeline, esFlush, esWhere>>

EdgeNext ==
    \/ StartNext \/ StartFails \/ Booted \/ HealthTick \/ OperatorStops \/ AwaitExitPolls
    \/ \E s \in Subsystems : ProducerEnds(s, "done") \/ ProducerEnds(s, "failed") \/ Hang(s)
    \/ \E e \in EsEvents : Report(e)
    \/ PipelineSeals \/ FlushBegins \/ FlushSends \/ FlushReturns
    \/ HealthProbed \/ HealthExits \/ HealthJoined
    \/ \E s \in Subsystems : Drained(s) \/ DrainTimesOut(s)
    \/ RunReturns \/ BridgeForwards \/ BridgeStops \/ PipelineTakes \/ PipelineCloses
    \/ FlushStops \/ TelemetryLetsGo \/ TelemetryJoins

\* Every spawned task is scheduled, await_exit polls, and timers run out.  A
\* select picks at random among its ready branches, so a tick does not beat
\* the signal for ever.
EdgeTimers == AwaitExitPolls \/ \E s \in Subsystems : DrainTimesOut(s)

EdgeFairness ==
    /\ WF_edgeVars(Progress) /\ WF_edgeVars(EdgeTimers)
    /\ WF_edgeVars(StartNext \/ Booted) /\ SF_edgeVars(FlushStops)

EdgeSpec == EdgeInit /\ [][EdgeNext]_edgeVars /\ EdgeFairness

-----------------------------------------------------------------------------
(* Properties. *)

BootFailed == esBooted < Len(Boot) /\ esFired

\* Whose budget may run out: a task that does not react to the signal, and
\* telemetry while its flush loop is inside connect or flush_one.
Unresponsive(s) == s \in esHung \/ (s = "telemetry" /\ esFlush = "sending")

TimesOut(s) == esResult[s] # "timeout" /\ esResult'[s] = "timeout"

\* The deadlock Supervisor::run is written around: after a complete boot, a
\* drain budget runs out only on a task that hangs itself or on telemetry
\* while it waits for the network; a hung producer, the bridge or the health
\* aggregator never keeps the telemetry pipeline from closing.
OnlyHungTasksTimeOut ==
    [][~BootFailed => \A s \in Subsystems : TimesOut(s) => Unresponsive(s)]_edgeVars

\* The same after a start that failed: the code drops `entries` "so the
\* already-spawned subsystems can release their owned channel ends".
FailedBootDrains ==
    [][BootFailed => \A s \in Subsystems : TimesOut(s) => Unresponsive(s)]_edgeVars

\* A shutdown, an early exit of any subsystem and a failed boot all end.
ShutdownCompletes ==
    (esFired \/ \E s \in Subsystems : Ended(s)) ~> esPhase = "exited"

-----------------------------------------------------------------------------
(* The inductive strengthening that the proof uses. *)

EdgeTypes ==
    /\ esTask \in [Subsystems -> {"none", "running", "done", "failed"}]
    /\ esResult \in [Subsystems -> {"none", "clean", "failed", "timeout"}]
    /\ esPins \subseteq {"entries", "health_entries", "bridge", "handle_clone"}
    /\ esHung \subseteq Subsystems \ {"telemetry"} /\ esFired \in BOOLEAN

\* Who can still hold the pipeline's channel open, in each phase, and that
\* telemetry has its two tasks.
PinsHold ==
    /\ esFired => esPhase # "starting"
    /\ esPhase \in {"stopping", "draining", "aborting"} => esFired
    /\ esPhase = "aborting" => esBooted < Len(Boot)
    /\ esPhase \in {"running", "stopping", "draining"} => "entries" \notin esPins
    /\ esPhase = "draining" => "health_entries" \notin esPins
    /\ esTask["telemetry"] = "running" =>
         esPipeline \in {"running", "done"} /\ esFlush \in {"waiting", "sending", "done"}

EdgeInv == EdgeTypes /\ PinsHold
=============================================================================
