----------------------------- MODULE IpsManager -----------------------------
(* sng-ips' IpsManager: configuration and rule bundles are written to disk  *)
(* and then loaded by a reload signal, by callers that overlap, while the   *)
(* Suricata child can die, the restart watchdog brings it back, and a stop  *)
(* can come at any time.  What is on disk and what Suricata has loaded are  *)
(* two things, and every path has to bring them together again.             *)
EXTENDS Naturals, FiniteSets

CONSTANTS
    ImTasks,        \* tasks calling the manager
    ImConfigs,      \* rendered configurations
    RuleVersions,   \* versions of control-plane rule bundles
    ImRestarts,     \* restart_max_attempts
    FeedRevisions   \* bound on the rule sets RuleUpdateScheduler installs

Nobody == "nobody"
NothingLoaded == [config |-> "none", rules |-> 0, from |-> "none"]
Torn == "torn"   \* a config file cut short, or of two writers' bytes

ASSUME IpsManagerAssumption ==
    /\ Nobody \notin ImTasks /\ Torn \notin ImConfigs /\ RuleVersions \subseteq Nat \ {0}
    /\ ImRestarts \in Nat \ {0} /\ FeedRevisions \in Nat

VARIABLES
    imDisk,     \* the config and the rule file (version, feed: scheduler's own)
    imLoaded,   \* external: what the child has loaded; nothing when there is none
    imAlive,    \* external: the child process exists
    imStatus,   \* ShellState.status
    imInstalled,\* FsRuleStager.installed (0: None)
    imLock,     \* who holds swap_lock
    imCall,     \* what each task is doing
    imRevision, \* RuleUpdateScheduler's MergeState.revision
    imShutdown, \* shutdown_tx
    imWatch,    \* run_restart_watchdog: sleep, backoff, starting, exited
    imFailures, \* consecutive_failures
    imStale     \* history: since the child's last load a file changed, and its
                \* call failed or sent no signal

ipsVars == <<imDisk, imLoaded, imAlive, imStatus, imInstalled, imLock, imCall, imRevision,
             imShutdown, imWatch, imFailures, imStale>>

Resting == [pc |-> "rest", what |-> "none", value |-> 0]
Doing(pc, what, value) == [pc |-> pc, what |-> what, value |-> value]

\* After IpsManager::start with the first configuration and no rules.
IpsInit ==
    \E c \in ImConfigs :
        /\ imDisk = [config |-> c, rules |-> 0, from |-> "none"]
        /\ imLoaded = imDisk
        /\ imAlive = TRUE /\ imStatus = "running"
        /\ imInstalled = 0 /\ imLock = Nobody
        /\ imCall = [t \in ImTasks |-> Resting]
        /\ imRevision = 0 /\ imShutdown = FALSE
        /\ imWatch = "sleep" /\ imFailures = 0
        /\ imStale = FALSE

Processing == <<imLoaded, imAlive, imStatus, imShutdown, imWatch, imFailures>>
Staging == <<imInstalled, imLock, imRevision>>

-----------------------------------------------------------------------------
(* apply_config. *)

\* Nothing is written when the file already says so, and nobody is told.
ApplyConfig(t, c) ==
    /\ imCall[t] = Resting /\ c # imDisk.config
    /\ imCall' = [imCall EXCEPT ![t] = Doing("open", "config", c)]
    /\ UNCHANGED <<imDisk, Staging, Processing, imStale>>

Writing == {t \in ImTasks : imCall[t].pc = "write"}

\* tokio::fs::write truncates the live file; two calls may write it at once.
OpenConfig(t) ==
    /\ imCall[t].pc = "open"
    /\ imDisk' = [imDisk EXCEPT !.config = Torn]
    /\ imCall' = [u \in ImTasks |->
                    IF u = t THEN [imCall[t] EXCEPT !.pc = "write",
                                                    !.what = IF Writing = {} THEN "config" ELSE "mixed"]
                    ELSE IF u \in Writing THEN [imCall[u] EXCEPT !.what = "mixed"] ELSE imCall[u]]
    /\ UNCHANGED <<Staging, Processing, imStale>>

WriteConfigMutant(t) ==
    /\ imCall[t].pc = "write"
    /\ imDisk' = [imDisk EXCEPT !.config = imCall[t].value]
    /\ imCall' = [imCall EXCEPT ![t] = Resting]
    /\ UNCHANGED <<Staging, Processing, imStale>>

WriteConfig(t) ==
    /\ imCall[t].pc = "write"
    /\ \E c \in {imCall[t].value} \cup (IF imCall[t].what = "mixed" THEN {Torn} ELSE {}) :
        imDisk' = [imDisk EXCEPT !.config = c]
    /\ imCall' = [imCall EXCEPT ![t].pc = "signal"]
    /\ UNCHANGED <<Staging, Processing, imStale>>

\* The open or the write fails and the call returns the error; after the open
\* the file is changed and no signal is sent.
WriteFails(t) ==
    /\ imCall[t].pc \in {"open", "write"}
    /\ IF imCall[t].pc = "write"
       THEN imDisk' = [imDisk EXCEPT !.config = Torn] /\ imStale' = imAlive
       ELSE UNCHANGED <<imDisk, imStale>>
    /\ imCall' = [imCall EXCEPT ![t] = Resting]
    /\ UNCHANGED <<Staging, Processing>>

-----------------------------------------------------------------------------
(* apply_rule_bundle, run_once, stage_and_swap. *)

\* The staleness check under swap_lock.
Fresh(version) == version > imInstalled

BeginStageMutant(t, what, version) ==
    /\ imCall[t] = Resting
    /\ Fresh(version)
    /\ imLock' = t
    /\ imCall' = [imCall EXCEPT ![t] = Doing("stage", what, version)]
    /\ UNCHANGED <<imDisk, imInstalled, imRevision, Processing, imStale>>

\* A verified bundle reaches the stager, which has it wait for the lock.
BeginStage(t, what, version) ==
    /\ imCall[t] = Resting
    /\ imLock = Nobody /\ Fresh(version)
    /\ imLock' = t
    /\ imCall' = [imCall EXCEPT ![t] = Doing("stage", what, version)]
    /\ UNCHANGED <<imDisk, imInstalled, imRevision, Processing, imStale>>

ApplyRuleBundle(t, version) == BeginStage(t, "bundle", version)

\* run_once with feeds whose merged text changed: the next revision.
RunOnce(t) == imRevision < FeedRevisions /\ BeginStage(t, "feed", imRevision + 1)

\* The validator or the disk refuses the staged file.
StageFails(t) ==
    /\ imCall[t].pc = "stage"
    /\ imLock' = Nobody /\ imCall' = [imCall EXCEPT ![t] = Resting]
    /\ UNCHANGED <<imDisk, imInstalled, imRevision, Processing, imStale>>

\* The staged file is renamed over the live one.
SwapRules(t) ==
    /\ imCall[t].pc = "stage"
    /\ imDisk' = [imDisk EXCEPT !.rules = imCall[t].value, !.from = imCall[t].what]
    /\ imCall' = [imCall EXCEPT ![t].pc = "commit"]
    /\ UNCHANGED <<Staging, Processing, imStale>>

\* The version is recorded; a bundle goes on to the signal, a feed does not.
CommitRules(t) ==
    /\ imCall[t].pc = "commit"
    /\ imInstalled' = imCall[t].value /\ imLock' = Nobody
    /\ IF imCall[t].what = "bundle"
       THEN /\ imCall' = [imCall EXCEPT ![t].pc = "signal"]
            /\ UNCHANGED <<imRevision, imStale>>
       ELSE /\ imCall' = [imCall EXCEPT ![t] = Resting]
            /\ imRevision' = imCall[t].value /\ imStale' = imAlive
    /\ UNCHANGED <<imDisk, Processing>>

-----------------------------------------------------------------------------
(* The signals. *)

\* reload_signal: the retry of the signal half of an install.
ReloadSignal(t) ==
    /\ imCall[t] = Resting
    /\ imCall' = [imCall EXCEPT ![t] = Doing("signal", "reload", 0)]
    /\ UNCHANGED <<imDisk, Staging, Processing, imStale>>

SignalDelivered(t) ==
    /\ imCall[t].pc = "signal" /\ imStatus = "running"
    /\ imCall' = [imCall EXCEPT ![t] = Resting]
    /\ IF imAlive THEN imLoaded' = imDisk /\ imStale' = FALSE
       ELSE UNCHANGED <<imLoaded, imStale>>
    /\ UNCHANGED <<imDisk, Staging, imAlive, imStatus, imShutdown, imWatch, imFailures>>

\* No child to signal, or kill itself fails; the caller gets the error.
SignalFails(t) ==
    /\ imCall[t].pc = "signal"
    /\ imCall' = [imCall EXCEPT ![t] = Resting]
    /\ imStale' = imAlive
    /\ UNCHANGED <<imDisk, Staging, Processing>>

-----------------------------------------------------------------------------
(* The child, the watchdog and stop. *)

ImChildDies ==
    /\ imAlive /\ imAlive' = FALSE /\ imLoaded' = NothingLoaded /\ imStale' = FALSE
    /\ UNCHANGED <<imDisk, Staging, imCall, imStatus, imShutdown, imWatch, imFailures>>

\* observe_child_exit, as status and is_alive run it.
Observed == IF imStatus = "running" /\ ~imAlive THEN "crashed" ELSE imStatus

\* Another task, the stats poll, looks at the child.
StatsPoll ==
    /\ ~imShutdown /\ imStatus' = Observed
    /\ UNCHANGED <<imDisk, Staging, imCall, imLoaded, imAlive, imShutdown, imWatch, imFailures, imStale>>

WatchPolls ==
    /\ imWatch = "sleep"
    /\ imStatus' = Observed
    /\ imWatch' = IF Observed = "crashed" THEN "backoff" ELSE "sleep"
    /\ imFailures' = IF Observed = "running" THEN 0 ELSE imFailures
    /\ UNCHANGED <<imDisk, Staging, imCall, imLoaded, imAlive, imShutdown, imStale>>

WatchBackoffEnds ==
    /\ imWatch = "backoff"
    /\ imWatch' = "starting"
    /\ UNCHANGED <<imDisk, Staging, imCall, imLoaded, imAlive, imStatus, imShutdown, imFailures, imStale>>

\* start: the child reads what is on disk.
WatchRestarts ==
    /\ imWatch = "starting" /\ imStatus # "running"
    /\ imAlive' = TRUE /\ imStatus' = "running" /\ imLoaded' = imDisk
    /\ imStale' = FALSE
    /\ imWatch' = "sleep" /\ imFailures' = 0
    /\ UNCHANGED <<imDisk, Staging, imCall, imShutdown>>

Exhausted == imFailures + 1 >= ImRestarts

\* The spawn fails; after restart_max_attempts the watchdog is gone.
WatchRestartFails ==
    /\ imWatch = "starting"
    /\ imFailures' = imFailures + 1
    /\ imWatch' = IF Exhausted THEN "exited" ELSE "sleep"
    /\ UNCHANGED <<imDisk, Staging, imCall, imLoaded, imAlive, imStatus, imShutdown, imStale>>

\* The shutdown latch is looked at in the watchdog's two sleeps.
WatchExits ==
    /\ imShutdown /\ imWatch \in {"sleep", "backoff"}
    /\ imWatch' = "exited"
    /\ UNCHANGED <<imDisk, Staging, imCall, imLoaded, imAlive, imStatus, imShutdown, imFailures, imStale>>

StopNotifies ==
    /\ ~imShutdown /\ imShutdown' = TRUE
    /\ UNCHANGED <<imDisk, Staging, imCall, imLoaded, imAlive, imStatus, imWatch, imFailures, imStale>>

StopProcess ==
    /\ imShutdown /\ imStatus # "stopped"
    /\ imAlive' = FALSE /\ imStatus' = "stopped" /\ imLoaded' = NothingLoaded /\ imStale' = FALSE
    /\ UNCHANGED <<imDisk, Staging, imCall, imShutdown, imWatch, imFailures>>

IpsNext ==
    \/ \E t \in ImTasks :
        \/ \E c \in ImConfigs : ApplyConfig(t, c)
        \/ \E v \in RuleVersions : ApplyRuleBundle(t, v)
        \/ OpenConfig(t) \/ WriteConfig(t) \/ WriteFails(t) \/ RunOnce(t) \/ StageFails(t) \/ SwapRules(t) \/ CommitRules(t)
        \/ ReloadSignal(t) \/ SignalDelivered(t) \/ SignalFails(t)
    \/ ImChildDies \/ StatsPoll \/ StopNotifies \/ StopProcess
    \/ WatchPolls \/ WatchBackoffEnds \/ WatchRestarts \/ WatchRestartFails \/ WatchExits

IpsSpec == IpsInit /\ [][IpsNext]_ipsVars

-----------------------------------------------------------------------------
(* Properties. *)

\* FsRuleStager's contract: however pushes overlap, a running set of rules is
\* never replaced by an older one, and whenever the lock is free the version
\* recorded is the version of the file on disk.
RulesNeverDemoted ==
    [][/\ imDisk'.rules >= imDisk.rules
       /\ imLock' = Nobody => imInstalled' = imDisk'.rules]_ipsVars

\* Disk and engine come together: with no call under way, a running child has
\* loaded exactly the config and rules on disk, whatever order overlapping
\* writes, swaps, signals and restarts took, unless since the last load a
\* call returned an error to its caller with a file already changed, or
\* RuleUpdateScheduler installed rules, which it never signals.
LoadedIsOnDisk ==
    (imAlive /\ imStatus = "running" /\ ~imStale /\ \A t \in ImTasks : imCall[t] = Resting)
        => imLoaded = imDisk

-----------------------------------------------------------------------------
(* The inductive strengthening that the proofs use. *)

IpsTypes ==
    /\ DOMAIN imDisk = {"config", "rules", "from"} /\ imDisk.rules \in Nat
    /\ imInstalled \in Nat /\ imRevision \in Nat
    /\ DOMAIN imCall = ImTasks
    /\ \A t \in ImTasks : DOMAIN imCall[t] = {"pc", "what", "value"}

\* A task between the check and the record holds the lock, and what the check
\* saw still holds when it acts on it.
StagerHolds ==
    /\ \A t \in ImTasks :
        /\ imCall[t].pc \in {"stage", "commit"} => imLock = t /\ imCall[t].value \in Nat
        /\ imCall[t].pc = "stage" =>
            imInstalled = imDisk.rules /\ imCall[t].value > imInstalled
        /\ imCall[t].pc = "commit" => imDisk.rules = imCall[t].value
    /\ imLock = Nobody => imInstalled = imDisk.rules

\* A change on disk that a running child has not loaded has its signal, or the
\* error of its call, ahead.
SignalAhead ==
    imAlive /\ imStatus = "running" /\ ~imStale =>
        imLoaded = imDisk \/ \E t \in ImTasks : imCall[t].pc \in {"write", "signal", "commit"}

IpsInv == IpsTypes /\ StagerHolds /\ SignalAhead

=============================================================================
