# ShieldNet Gateway: TLA+ models of the enforcement plane

ShieldNet Gateway (SNG) is a multi-tenant security gateway. A Rust *enforcement
plane* runs on appliances (`crates/sng-edge`) and endpoints (`crates/sng-agent`);
a Go *control plane* (`internal/`) compiles policy, publishes signed artefacts and
stages rollouts. This directory models the parts of the enforcement plane whose
correctness depends on concurrency, failures and time, checks the models with TLC
on small instances, and proves their safety properties with TLAPS for every value of
the constants.

* [Inventory](#inventory) - the parts of the system, their state and their hazards
* [Modules](#modules) - how each module corresponds to the code
* [Runs](#runs) - what TLC checks, the bounds, the fairness
* [Proofs](#proofs) - what is proved, from what, and how
* [Disagreements](#disagreements-between-code-and-documentation)
* [What is left](#what-is-left) and [what is not modelled](#not-modelled)

## Inventory

| Component | State it keeps | Operations | Interacts with | Hard behaviour | What makes it correct |
|---|---|---|---|---|---|
| **sng-updater** | two banks and their metadata (`BankLayout`), bootloader state, `UpdateState`, install lock, divergence flag, version override, policy | `poll_and_install`, `install_from_envelope`, `reload_policy`, `set_current_version_override`, `clear_layout_divergence` | manifest source, bank writer, bootloader, health probe; polled by sng-edge | an await between any two writes; each write may fail; power loss between any two; several callers; policy reload in the middle | the running image is never overwritten; only verified images are started; no downgrade; metadata and bootloader agree at rest; an attempt ends unless an adapter's call never returns |
| **sng-ha, election** | VRRP role, effective priority, two timers, VIP on the interface | the arms of the select loop in `HaController::run` | UDP multicast to the peer, `ip`/`arping`, health probes | lost or crossing advertisements, partitions, crash, timer against message, health flapping | one Master at a time except for a bounded overlap; a Master again within a bounded time; convergence |
| **sng-ha, state sync** | bounded queue and lag latch, fencing gate, minted epoch | `push`, `drain_with_lag`, `pump_to_writer`, `pump_from_reader`, `admit` | TCP stream to the peer; promotions come from the election | eviction while a batch is being written, write failures at every frame, broken sessions, restarts | no record lost in silence; the passive's table never goes back to an older generation |
| **sng-core supervisor, sng-edge bridge** | subsystem list, shutdown trigger, clones of the pipeline handle | start in order, health aggregation, await an exit, drain in parallel | every subsystem; the telemetry pipeline closes when the last handle clone is dropped | a start that fails half-way, a subsystem that ends by itself or hangs, clones pinned in five places | shutdown always completes; only a task that hangs, or the network, costs a budget |
| **sng-edge watchdog** | escalation entry per subsystem | poll, restart a subsystem, restart the edge, alert | health of all subsystems, their restarters | stale samples, flapping, backoffs between sample and action | hammers only on a sustained outage; an outage is always handled |
| **sng-comms telemetry client** | batch builder, sealed batches, bounded spool, sequence tracker | `submit`, `tick`, `seal_batch`, `flush_one` | pipeline in front, control plane behind | concurrent sealers, spool at its limit, answer lost after arrival, connection lost at any point | order, at-least-once, nothing held for ever, losses on the record |
| **policy rollout** (sng-comms puller, sng-policy-eval engine, sng-fw) | cached bundle, evaluator's bundle, ruleset channel, in-memory ruleset, nftables, XDP rules and classes | pull, verify, swap, compile, install | one task publishes, another installs; the kernel refuses what it likes | lagging replicas, bundles refused at each stage, an update that fails between two layers, restart | layers agree, no rollback, the newest policy is enforced |
| **sng-ips and sng-swg child supervisors** | health state, counters, active and last-known-good configuration | poll, restart with budget, rollback | Suricata or Envoy; hands over to the watchdog | a configuration applied during a backoff, a child that dies at once | restarts only when warranted; episodes end |
| **sng-ips manager** | configuration and rule file on disk, version guard, swap lock, restart watchdog | `apply_config`, `apply_rule_bundle`, feed scheduler, `reload_signal`, `stop` | Suricata by signal | overlapping writes and signals, lost signals, crash and restart between them | what runs is what is on disk; rules only advance |
| **sng-telemetry collection** | dedup map with time stamps, packet ring | `observe`, `prune`, `push`, `drain` | producers, pipeline | pressure: both forget by design | no duplicate inside the window beyond what the cap forces; exact accounts |
| **sng-sdwan** | unhealthy set and window of the primary, breach counters, bond cursor; pin cache and policy | SLA tick, failover, failback; assign; evaluate, reload | probes, traffic | flapping, late and repeated reports, clock windows, cache at capacity, reload during an evaluation | no early failback, no switch that health does not warrant, fair shares, live pins survive |
| **sng-ztna sessions** | grants by session, index by device, revoked channel | open, close, sweep, push, drain | policy, posture, revocation providers | read, evaluate without the lock, act; grant recorded after its refusal | index exact; a sweep revokes what it would deny; a refusal takes hold |
| **XDP fast path** (sng-ebpf, sng-fw) | rule and class arrays with counts, verdict cache, per-CPU scratch | install, flush; per-packet staged scan | loader and data path share maps without a lock | packets during a rewrite, failed map writes, cache inserts after a flush, a flush cut short | verdicts are the tables' and never a drop nftables' forward chain would not make; stale ones end |
| sng-swg, sng-dns, sng-dlp, sng-dem, sng-appid, sng-pal, sng-fw compiler | compiled tables, counters | per-packet / per-request functions | kernel, Envoy, ONNX runtime | mostly data | functional tests |
| Go control plane | Postgres tables, advisory locks, fencing tokens, rollout rings, NATS streams | leader election, staged rollout, work sharding, webhooks, playbooks, handlers | Postgres, NATS, appliances | leases against clocks, stale leaders, retries | one effective leader; a halted ring stays halted |

`PROJECT.json` lists every component with its status, and under `hazards` the
places of the modelled code that are hardest to test, with the properties aimed at
them; places no property reaches are described below, with the findings.

## Modules

| Module | Models | Extended by |
|---|---|---|
| `Updater` | the self-update engine | `MCUpdater` (constants for TLC), `UpdaterProofs` (theorems) |
| `HaElection` | both nodes of the election, the segment between them, time | `MCHaElection`, `HaElectionProofs` |
| `HaSync` | both directions of state synchronisation, fencing and epochs | `MCHaSync`, `HaSyncProofs` |
| `EventChannel` | abstract: what telemetry promises about an event | instantiated by `Telemetry` |
| `Telemetry` | batching, sealing, spool, acknowledgement, flush loop | `MCEdge`, `TelemetryProofs` |
| `EdgeSupervisor` | supervisor, event bridge, telemetry subsystem, shutdown | `MCEdge`, `SupervisionProofs` |
| `Watchdog` | the edge watchdog's escalation ladder | `MCEdge`, `SupervisionProofs` |
| `PolicyRollout` | a policy bundle from the control plane to the packets | `MCEdge`, `RolloutProofs` |
| `SelfHealing` | the supervisors of Suricata and Envoy | `MCEdge`, `SupervisionProofs` |
| `IpsManager` | IPS configuration, rules, reloads, restart watchdog | `MCServices`, `ServicesProofs` |
| `Collection` | dedup window and packet ring | `MCServices`, `ServicesProofs` |
| `Failover` | SLA monitor, failover engine, link bonding | `MCServices`, `ServicesProofs` |
| `Steering` | flow steering with sticky pins | `MCServices`, `ServicesProofs` |
| `ZtnaSessions` | session tracker and continuous re-evaluation | `MCServices`, `ServicesProofs` |
| `FastPath` | XDP tables, loader, packet walk, verdict cache | `MCServices`, `RolloutProofs` |

`DataLemmas` holds the lemmas about numbers, sets and sequences that several proof modules use.

`MCEdge` and `MCServices` put several components on one model. The components of one
such module share no state; what joins two of them in the code (the bridge and the
pipeline, the puller and the firewall task, the loader and the data path) is inside one
component module. So `focus`, chosen in the initial state, names the component that
moves, and every behaviour of each is explored without a product of independent state
spaces. Each component's fairness is asked of it in the behaviours in which it moves.

Operators whose names end in `Mutant` are deliberately wrong variants of the
definition that follows them, each the kind of slip a change to the code could
make. They are not part of a specification; substituting one must make TLC report
the property it is listed for in `PROJECT.json`.

### Updater (`crates/sng-updater`)

*State.* `layout` is the metadata partition, `image` the bytes really in each bank
(a version number, or `Corrupt`), `boot` the bootloader variable. Those three
survive a restart; `state`, `lock`, `diverged`, `override`, `policy` are the fields of
`UpdaterService` and do not. `pc[c]` is the await at which caller `c` stands and
`job[c]` what its future holds.

*Actions.* One per stretch of code between two awaits of `install_from_envelope`
and `run_install`, each with the failing outcomes of the call it awaits:
`CheckDivergence`, `TryLock`, `Admit`/`Refuse` (verify, size cap, rolled-back refusal,
first transition), `OpenForWrite`, `WriteChunk`, `Download`, `VerifyBody`/`BodyMismatch`, `Finish`,
`StageSlot`, `SwapTo`, `ProbeHealthy`/`ProbeFails`, `BootCommit`, `BootRollback`, `MarkCommitted`,
`SetActive`, `RetryBookkeeping`, `Diverge`, `MarkRolledBack`, `Settle`, and
`ForceReset` for the error tail. The operator's calls and `Restart` may come at any
of these points. `CommitFaults` and `MaxRestarts` switch the faults that the code
does not claim to survive.

*Streaming.* The docs (`download.rs:6-19`, `service.rs:819-827`) stream the body into the inactive
bank while it is hashed; the repository's writer (`bank.rs:481-526`) buffers it in the handle until
`finish`. Both are in the model: `WriteChunk` overwrites the bank before anything is verified, `Download`
leaves the bytes in the bank or in the buffer, and a failure, a crash or a mismatch leaves them there.
`Finish` and `StageSlot` are the two writes of `finish`, bytes and slot state.

*Abstractions.* Versions are natural numbers (semver order), an envelope is a version,
a size and whether it verifies; chunking, hashing and encodings are reduced to
"the bytes match the manifest or they do not". Statistics and log lines are left out.

### HaElection (`crates/sng-ha`: `vrrp.rs`, `lib.rs`, `vip.rs`, `health.rs`)

*Time* is discrete: `Interval` ticks make an advertisement interval; `skew_time` is
computed as in the code and rounded up to a tick. A promotion blocks the select loop while
the gratuitous ARPs are sent (`busy`, up to `AcquireTime` ticks, chosen freely; `arping -c 3` takes two
to three seconds): the node is Master and owns the VIP, hears nothing and advertises only at the end
(`Announce`). What arrives meanwhile waits in the socket and may be read in any order. The other
handlers take no time and run in any order when several are due; `Tick` is enabled when nothing is
due and nothing is in flight. Deadlines count down, `Never` is
`MASTER_DOWN_DISABLED`.

*Actions.* `AdvertisementTimer`, `MasterDownTimer`, `Announce`, the four things a received
advertisement can do (`StepDown`, `HoldRole`, `HearMaster`, and `ReleaseFails` when
the address cannot be removed), `AcquireFails`, the two health edges, `Start`,
`Shutdown`; the environment crashes hosts or processes, loses messages and cuts the
segment, at most `MaxFaults` times in all.

*Monitors.* `trouble` and `spell` are history variables: what was wrong with the pair
at the last tick, and for how many ticks in a row. A departure starts the clocks anew
(`Departed`); a lost message or a change of the segment or of a priority restarts only
the clocks that rely on the next advertisement (`Delayed`, `Changed`). They let the
real-time promises be stated as invariants, without weakening them to "eventually".

### HaSync (`crates/sng-ha/src/state_sync.rs`, `lib.rs`)

Each node sends to the other over its own stream; index `n` is the direction from
`n` to `Peer(n)`. `pump_to_writer` is split at its awaits (`DrainWithLag`, `WriteFence`,
`WriteLagged`, `WriteRecord`, `Flush`, `PutBack`, `WriteFails`) so that pushes, promotions
and demotions interleave with a batch being written. A promotion is in steps too, one per access to what
it shares with the reader and the writer task: `Promote` reads the gate, `AdmitOwn` admits the new epoch
without looking at the answer, `StoreEpoch` publishes it, `ResetLagged` follows the VIP's acquisition, or
`AcquireFails` does. `gate` keeps the code's biased
word (0 is "unprimed"). The election is left free: any node may be promoted or demoted
at any time, which covers every history `HaElection` can produce. `session`, `applied`,
`newest` and `told` are what the receiving table knows. A record is its number.

### Telemetry and EventChannel (`crates/sng-comms`, `subsystems/telemetry.rs`)

`tmPending` is the batch builder, `tmSealing[t]` a batch task `t` has taken out of it and not yet
sealed, `tmSpool` the bounded spool, `tmTracker` the sequence tracker, `tmFlight` the batch
`flush_one` has popped. `Seal` is the critical section under `seal_lock` (encode, number, push); the
round trip is `Pop`, then `Arrive` (the control plane takes it) and one of `Acked`, `MalformedAck`,
`Transient`, `TransportError`, `Rejected`, in any order the network allows. `EventChannel` says what
a producer may rely on: an accepted event is held until it is delivered or shed on the record, in
whole batches, and not for ever. `ImplementsEventChannel` is the refinement, with `TmStatus` as the
mapping: the place of an event in the client decides its status.

### EdgeSupervisor (`crates/sng-core/src/supervisor.rs`, `crates/sng-edge/src/supervisor.rs`)

`esPins` is the heart: the places that hold a clone of the pipeline handle (the supervisor's
entries, its health entries, the bridge, the telemetry task's own). The pipeline closes when the set is
empty. `Progress` is everything that takes far less time than a drain budget; a budget runs out
(`DrainTimesOut`) only when nothing of that kind can happen; `Busy` spells that condition out, so that
it can be reasoned about. That is the only use of time. The flush loop is in its select, where the signal can
stop it (`FlushStops`), or inside `connect` and up to 32 times `flush_one` (`FlushBegins`, `FlushSends`,
`FlushReturns`), which race neither the signal nor a timeout: there telemetry may outlast its budget.

### Watchdog, SelfHealing (`watchdog.rs`, `sng-ips/src/health.rs`, `sng-swg/src/envoy_supervisor.rs`)

Both split a poll at its sleeps, so that subsystems go down and come back between sample and action.
`RestartOk` may or may not have healed the subsystem: the code takes the answer at its word.
`SelfHealing` has one state machine for both children; they differ in how a probe is judged
(`IpsState`, `SwgState`) and in whether a restart resets the count of bad probes. A poll is `ProbeChild`, then
`JudgeProbe`; a restart `BeginRestart`, then `RestartRecovers` or `ChildRestartFails`. `shBounded` says whether a
restart budget is set; by default there is none and the supervisor never hands off. History variables
(`wdStreak`, `wdFailed`, `shStreak`, `shSeen`) count what really happened, independently of the code's
own counters.

### PolicyRollout (`comms/policy.rs`, `subsystems/comms.rs`, `subsystems/fw.rs`, `fw/engine.rs`, `fw/backend.rs`)

A bundle is its version and a kind: good, refused by the evaluator, or refused by the rule compiler.
The comms task and the firewall task interleave through the watch channel; an install is four steps
(memory, nftables, XDP rules, XDP classes), each of which may fail, and so may the flush that follows.
A restart keeps what the kernel keeps.

### IpsManager (`sng-ips/src/manager.rs`, `rules.rs`, `process.rs`)

`imDisk` is what is written, `imLoaded` what Suricata has read, `imStatus` what the process wrapper
believes. Every call is split at its awaits. `imStale` marks a change for which no signal was ever
delivered: a refused signal, a failed write, or the feed scheduler, which sends none. `tokio::fs::write`
works in place (`OpenConfig` truncates, `WriteConfig` fills, `WriteFails` leaves the file cut short), and two
overlapping calls may tear the file.

### Collection, Failover, Steering (`sng-telemetry`, `sng-sdwan`)

The dedup cap's tenth is `EvictDivisor`, so that a small map still evicts. The SLA monitor evaluates all
watches at a tick, whatever the age of the stored probes, with one counter per path; what it reports
reaches the failover engine later or never (`OnViolation`), and recoveries may be reported at any time and
repeatedly. Nothing in the repository calls `poll`, so that it is an action with no fairness. Time is a clock with
windows counted in ticks.
In `Steering` an evaluation is split where it takes and drops the lock of the pin cache.

### ZtnaSessions (`sng-ztna/src/session.rs`, `reeval.rs`, `subsystems/ztna.rs`, `ztna_reeval.rs`)

`open_session`, the sweep and the posture push each read, evaluate and act in separate steps: the grants are
cloned shard by shard (`SweepClones`, `PushClones`), judged one by one with the time read when the loop
began (`Judged`), and acted on only while unchanged. `ztOwed` is a history variable: the sessions a loop
would have denied when it began and that nothing has changed since. Whether a device is allowed depends on
revocation and on the age of its last proof.

### FastPath (`sng-ebpf/bpf/src/main.rs`, `loader.rs`, `control.rs`, `sng-fw/src/backend.rs`)

The loader writes a table slot by slot, then its count, then lists the cached keys one by one and removes
them; an error of the listing cuts it short and is not reported (`ListFails`);
a packet walks classes and rules slot by slot in chunks and caches its verdict at the end. The two
interleave at every map operation. `CompileHotPath` is the translation of the ruleset's prefix,
`ForwardVerdict` the verdict of the forward chain that `render_script` emits for it (the in-memory
engine's zone gate and subjects are not in that script), `MapsVerdict` what the tables say as a whole.
A cached verdict carries a history flag, `quiet`: its packet met no update, and no flush cut short missed it.

## Runs

All bounds are constants named in the module that uses them.

| Run | Expectation | Checks | Instance |
|---|---|---|---|
| `updater_poll` | passes | `WriterAvoidsBootBank`, `QuiescentAgreement`, `FallbackOnlyAdvances`, `AttemptsEnd` | one caller as in sng-edge, three versions, two sizes, three policies of which one is invalid; every metadata, download and probe failure |
| `updater_faults` | passes | `StateFollowsPipeline`, `OnlyVerifiedBoots` | two callers, bootloader faults, an override, one restart at any step |
| `updater_race` | violation | `WriterAvoidsBootBank` | two callers |
| `ha_failover` | passes | `SplitBrainBounded`, `HeadlessBounded` | equal priorities, promotions of up to nine ticks at an interval of four, three faults out of loss, cut, host or process crash, shutdown, VIP error |
| `ha_converge` | passes | `UnfitMasterReplaced`, `Converges`, `NoSpuriousTakeover` | an address owner (255) and a stand-by with preempt, promotions of up to two ticks at an interval of three, two faults out of loss, cut, health edge, host crash, shutdown |
| `hasync_lag` | passes | `TypeOK`, `LagKnown` | one Master, capacity 2, five records, two failing writes |
| `hasync_fence` | passes | `AppliedInOrder`, `SuccessorOutranksTable` | three promotions, a broken session or a restart (3.0 million states) |
| `edge` | passes | telemetry: `AcksNeverRegress`, `ImplementsEventChannel`; supervisor: `OnlyHungTasksTimeOut`, `ShutdownCompletes`; watchdog: `HammerOnlySustained`, `OutageHandled`; rollout: `LayersAgree`, `NoPolicyRollback`, `NewestEnforced`; child supervisors: `RestartsWarranted`, `EpisodesEnd` | two sealing tasks, four events of sizes 1, 2, 4, 1 and batches of two events or three bytes, a spool of two; two producers and telemetry; two watched subsystems, two samples, two restarts; two bundles of three kinds, three failing kernel updates, one restart; two configurations of which one never gets well, with and without a restart budget |
| `services` | passes | IPS: `LoadedIsOnDisk`, `RulesNeverDemoted`; collection: `WindowRemembered`, `RingAccounts`; SD-WAN: `NoEarlyFailback`, `SwitchesWarranted`, `BondShares`, `LivePinsSurvive`; ZTNA: `DeviceIndexExact`, `DeniedSessionsRevoked`, `RefusalTakesHold`; fast path: `FastPathSound`, `StaleVerdictsEnd` | two callers, two configurations, two bundles and a feed; five contents in a map of three; three links with weights 3, 2, 1, one of them watched for two classes; two evaluations of three flows over two pins; one session on two devices; three rulesets (all offloaded, cut at a rule with a subject, longer than the map), two flows, one failing map operation |
| `policy_stale_class` | violation | `FastPathNeverOlder` | as `edge`, three bundles, two failing updates |
| `edge_failed_boot` | violation | `FailedBootDrains` | as `edge` |
| `healing_rollback` | violation | `LastKnownGoodWasSeenHealthy` | as `edge` |

*Why the bounds are enough.* In the updater two callers are all that a pairwise race
needs (the proofs cover any number), three versions give a candidate older than, equal
to and newer than the running one, two banks are the real number. In the election there
are exactly two nodes; three or four ticks per interval separate the skews of the priorities in
use, so that every order of the timers occurs, an acquire time above and one below the interval give both
cases of the bounds, and three faults allow a partition, a loss and
an exit in one behaviour. In the sync queue a capacity and a batch of two let an eviction hit
the queue while a batch is in the pump; five records overflow it more than once. In
`edge` and `services` each limit (spool, pipeline channel, dedup map, ring, pin cache, revoked
channel, rule map) is one below what the inputs can fill, each threshold is two, so that "one more"
and "one fewer" differ, and each race has its two parties. Every bound on faults admits a fault
and one on its recovery path where the code has one.

*Deadlock.* It is checked wherever the system cannot stop. `HaSync` stops when its
record, promotion and fault bounds are used up. The process of `EdgeSupervisor` exits, the supervisors
of children stop, and the others run out of the events their bounds allow; those configurations
say `CHECK_DEADLOCK FALSE`.

*Fairness.* `Updater!FairSpec` assumes that a task which has begun keeps being polled, and nothing
else: of the awaits only the health probe has a timeout (`service.rs:1002`), so a call into the bank
writer, the download source or the bootloader (`AdapterPcs`) may never return. `AttemptsEnd` says that
one such call is the only thing that keeps an attempt from ending. Nothing is assumed of the
operator, of restarts or of which outcome an await has. `HaElection!FairSpec` assumes weak
fairness of `Loop`: timers fire, sockets are read, a promotion ends, time passes. Starts, recoveries and
repairs are not assumed; `Converges` is conditional on the segment staying up and
a node staying fit.

In `MCEdge` and `MCServices` weak fairness is asked of tasks that tokio keeps polling and of
timers: sealing and the flush loop, the supervisor and its drain, the watchdog loop, the firewall
task, a child supervisor's loop, the sweep, the loader and the packet walk, the
clocks. Strong fairness is asked of three things only: a control plane that is tried again and again
in the end answers (`Arrive`, `Acked`; the client sets no request timeout, so that a round trip that hangs is
excluded with it), one that is asked again and again in the end serves the newest
bundle (`PullLast`), and a `select!` of tokio, which picks at random among its ready branches, does not
prefer the flush tick to the shutdown signal for ever (`FlushStops`). Without the first two every retry
might fail for ever, and the code promises nothing then. Nothing is assumed of failures, operators, publishers, recoveries and shutdowns.

## Proofs

Every invariant and action property that a passing run checks is also stated by a theorem, for every
value of the constants the assumptions of the modules admit. The assumptions are about configuration
only (positive thresholds and limits, finite sets, a watch list that names known paths); they are named,
stand in the module that declares the constants, and TLC evaluates them in the runs. Six theorems have
a further hypothesis on the faults or the deployment (`SinglePoller`, `OneGeneration`, no health edges, two
faults); each is needed, and the text below says what happens without it.

The proofs share one shape: an inductive invariant, a conjunction of named parts that stands at the end
of the component's module and was checked by TLC first, then one lemma or step per action.

### Updater

`UpdaterProofs`, for any number of callers, versions, policies and any fault bound:

* `TypeCorrect` - `TypeOK`.
* `PipelineExclusive` - `StateFollowsPipeline`: the lock serialises the pipeline and the
  state machine is always in the phase of the task that holds it. Inductive with
  `TypeOK`; the error path needs that every phase but the first differs from `Idle`.
* `BootsAuthentic` - `OnlyVerifiedBoots`. Unverified bytes do reach a bank; what is proved is that none
  is started or made permanent. It needs `JobInv`: what a task has learned of the
  body before `finish`, and of the bank after it, still holds at every later await, because the
  lock keeps every other task out.
* `RunningImageSafe`, `RestAgrees` - `WriterAvoidsBootBank` and `QuiescentAgreement`, under `SinglePoller`:
  one caller, no bootloader fault, no restart (`updater_race` shows that the first
  assumption is needed, the notes below the other two). The strengthening `AgreementInv` says where the
  bootloader points at each await, and what stays true while the engine is poisoned.
* `NoDowngrade` - `FallbackOnlyAdvances`, under `SinglePoller` and with no override
  (with one it fails, see below). `VersionInv` adds that the version the verifier
  compared with is the one that runs.

### State synchronisation

`HaSyncProofs`, for any capacity, batch size, number of records, promotions and faults:

* `TypeCorrect` - `TypeOK`, with `PumpInv`: a batch is not empty before its last record is
  written, which is what makes the pump's `Head` and `Tail` meaningful.
* `TableOutranked` - `SuccessorOutranksTable`. It needs `FenceInv`: the epoch of what was applied
  last is at most the epoch the stream was admitted with, and that is at most what the
  receiving node's gate has seen; a promotion mints one more than the gate it read, and until it stores that
  epoch either a fence has raced it (`raced`) or no stream has an epoch as high. The race is real, see below.
* `TableNeverBack` - `AppliedInOrder`, with every kind of fault. It needs `OrderInv`: along the path
  of a record - table, wire, batch, queue - the numbers only grow. Each operation on a buffer
  (push with eviction, drain, write, read, loss) has its own lemma.
* `LossKnown` - `LagKnown`, under `OneGeneration`: one promotion and failing writes only. The second
  promotion and the broken session described below show that both assumptions are needed.
  `GenerationInv` says why nothing else can lose a record there: every fence, sent or about to be (`GenerationOf`, `FencesIn`), carries epoch 1, so
  that no reader refuses a stream; a pump that flushes has an empty batch and has sent the
  marker it took.

### Election

`HaElectionProofs`, for every pair of priorities, preempt on or off, every interval and both orders of
the addresses. The bounds are real-time promises, so the strengthenings relate a deadline to the time
already spent: "what is left of the timer plus the age of the trouble is at most the bound".

* `SplitBrainEnds` - `SplitBrainBounded`, any faults: two Masters last at most the interval or the acquire
  time, whichever is longer. `TwoMastersEnd`: of two Masters the better one's next advertisement is due
  within what is left of the interval or of its promotion, or is under way, or waits for the other's
  promotion to end.
* `UnfitMasterGoes` - `UnfitMasterReplaced`, any faults. `UnfitMasterEnds` follows the release from the
  health edge to the priority-0 advertisement to the Backup's shortened deadline; only the advertisement that
  ends a promotion can be followed by one that pushes the deadline out again, hence the acquire time in the bound.
* `HeadlessEndsInTime` - `HeadlessBounded`, when health edges do not occur. `HeadlessEnds`: some
  Backup's deadline plus the age of the vacancy is within four intervals, and a Master that steps down in
  the same instant has left the better one in office. With health edges the property is false (a
  recovery re-arms the deadline, see below); the run `ha_failover` excludes them likewise.
* `SettledPairHolds` - `NoSpuriousTakeover`, with at most two faults. `SettledStays` says how many more
  advertisements the Backup can miss (`Ample`) or, just after a fault, why it has not heard one yet
  (`Early`); `Faultless` covers the time before the first fault. The bound is exact in kind: the
  master-down interval is three intervals and a skew, so three lost advertisements do cause a takeover.

### Telemetry

`TelemetryProofs`, for any events, sizes, tasks, batch limits and spool:

* `BatchesInOrder` - `AcksNeverRegress`. `SpoolOrdered`: along server, flight, spool and the next number
  to be given the batch numbers grow, which evictions at the front, re-queues at the front and pushes at the
  back under `seal_lock` all keep.
* `EgressFollowsChannel` - the safety half of `ImplementsEventChannel`: the initial state maps to an initial
  state of `EventChannel` and every step to one of its steps or to a stutter. `EventsTraced` is what the
  mapping `TmStatus` needs: no event is anywhere before it is offered, and a batch that arrived is the
  server's even when the client sends it again.

### Rollout and fast path

`RolloutProofs`, for any number of versions, faults and restarts, and any rulesets, table and chunk sizes:

* `LayersStayTogether` - `LayersAgree`; `PolicyOnlyAdvances` - `NoPolicyRollback`. `RolloutInv`: the versions
  descend from the control plane to the packets (`VersionsDescend`), and `InstallInv` says which layers hold
  the new and which the previous ruleset at each step of an install, a rollback included.
* `DropsOnlyDenied` - `FastPathSound`. `FastPathInv` has one part per actor: what the loader has written so
  far and which verdicts its flush will remove (`LoaderHolds`, `RulesHold`), what a packet that met no update knows of the slots behind it
  (`WalkHolds`), and what the cache holds for flows that met none (`CacheHolds`). `CompiledDropsDenied` is the
  argument about the compiler: the prefix's first match is the forward chain's. That the rulesets' terminal
  rules have the type of a rule is an assumption on the constants, because the library defines `SelectSeq`
  by recursion and nothing about its result can be proved; TLC evaluates it.

### Supervisors

`SupervisionProofs`, for any subsystems, thresholds, budgets, events and hangs:

* `HealingRestartsWarranted` - `RestartsWarranted`. `HealingInv`: the monitor's count is never ahead of the
  probes, and a verdict outlives the restart that it caused.
* `WatchdogHammerSustained` - `HammerOnlySustained`. `WatchdogInv` ties every counter of an escalation entry
  to the history variables, in each phase of a poll that sleeps between sample and action.
* `DrainNeverDeadlocks` - `OnlyHungTasksTimeOut`. `PinsHold` says in which phase which clone of the pipeline
  handle may still be held. The theorem is the absence of a cycle: when nothing can move and telemetry is not inside a network
  call, no clone is left, so the pipeline has closed and telemetry has ended.

### Services

`ServicesProofs`, for any sessions, devices, callers, flows, links, weights, limits and sizes:

* `IndexStaysExact` - `DeviceIndexExact`; `SweepsRevokeDenied` - `DeniedSessionsRevoked`, with `ZtnaInv`: a
  session a loop owes is still to be cloned, or its unchanged clone is still to be judged, or is judged and
  denied (`OwesOnly`), whatever the other loop and the producers do in between.
* `EngineLoadsDisk` - `LoadedIsOnDisk`; `StagerNeverDemotes` - `RulesNeverDemoted`. `IpsInv`: the swap lock
  protects the version guard and the file together (`StagerHolds`), and a change on disk that a running child
  has not loaded has its signal, or its caller's error, ahead (`SignalAhead`).
* `LivePinsStay` - `LivePinsSurvive`, with `WithinCapacity`.
* `FailbackNeverEarly` - `NoEarlyFailback`. `FailoverInv`: while traffic is elsewhere the engine's idea of how
  long the primary has been healthy is not ahead of the truth.
* `SwitchesOnlyUp` - `SwitchesWarranted`. `HealthyServes`: the path in use is healthy while any is; a step
  that leaves a healthy path re-resolves, and the first healthy member has the least index (`ResolveWarranted`).
* `BondFair` - `BondShares`. `BondInv` states how many packets each link has had at every point of a cycle
  (`PartOfShare`), not only at its end.
* `WindowKept` - `WindowRemembered`. `ForgottenOvertaken`: a fingerprint missing from the map inside its window
  was overtaken by at least as many others as an eviction spares.
* `RingExact` - `RingAccounts`. Inductive with its types.

### Induction

The provers cannot instantiate an induction schema. `DataLemmas` replaces it by least counterexample: a
nonempty set of naturals has a least element (`LeastNatural`, from the well-foundedness of inclusion
between finite sets). With it, a recursive function `f[n \in 0 .. N]` of the models - running
sums of weights and frame sizes - is shown equal to a closed form or to keep an invariant at each `n`.

*Only model-checked.* What needs fairness (`AttemptsEnd`, `Converges`, the liveness half of
`ImplementsEventChannel`, `ShutdownCompletes`, `OutageHandled`, `NewestEnforced`, `EpisodesEnd`,
`RefusalTakesHold`, `StaleVerdictsEnd`): outside the prover's reach. And what the library's recursive operators
compute, as `SelectSeq` above.

## Disagreements between code and documentation

Four are kept as runs that TLC must refute; `PROJECT.json` quotes the lines.

* `updater_race`: the divergence flag is read before the lock is taken.
* `policy_stale_class`: a failed update of the XDP rules leaves the older class table in force.
* `edge_failed_boot`: after a failed start the health entries pin the telemetry pipeline.
* `healing_rollback`: a restart can start an older configuration than `active_config` names, and the next healthy
  probe promotes the one it names to last known good.

Others were met with the same models and are kept in prose only:

* With `CommitFaults = TRUE` `QuiescentAgreement` fails: when `bootloader.commit` fails the
  engine goes Idle with the swap pending (`service.rs:775`), although the comment at
  `service.rs:761` says the install "aborts cleanly: the previous slot stays active".
* With `MaxRestarts = 1` a pending swap can stay pending: nothing resumes it after a restart
  (`service.rs:252`), although `state.rs:88` says the orchestrator "resumes from this
  state".
* The memory of a rolled-back version is the state of its slot (`service.rs:599`), so staging
  another version in between lets the bad one in again.
* With health edges and a crash `HeadlessBounded` fails: the recovery edge re-arms the deadline from
  now (`lib.rs:378`) and discards the time already waited.
* With `"session"` in `Faults` `LagKnown` fails: a connection that breaks after a good flush
  loses records with no latch set (`state_sync.rs:533`).
* The gate is consulted at the fence frame only (`state_sync.rs:582`), so a promotion in the
  middle of a batch lets the rest of a deposed Master's batch in; and a node that never
  received a fence mints the epoch its predecessor already uses (`lib.rs:421`).
* With a cold-start override `FallbackOnlyAdvances` fails: `derive_current_version` prefers the
  override for ever (`service.rs:411`), so a version between it and the running one is admitted, although
  the crate's `README.md:16-19` speaks of "strictly newer than the currently-committed image".
* A clean shutdown removes the VIP and returns without a priority-0 advertisement (`ha/lib.rs:387`), so the
  peer waits out its whole master-down interval; the comment above (384-386) says it does not.
* After a process crash the address stays on the interface and a restart does not remove it
  (`ha/lib.rs:304`); `vip.rs:3-4` says exactly one instance owns it at a time.
* With a second promotion `LagKnown` fails: the promotion clears a latch whose marker was never
  sent (`ha/lib.rs:434`); `state_sync.rs:309-310` says the signal "is never silently dropped".
* A packet that scans the rule map while it is rewritten sees rules of both rulesets. TLC finds a
  packet dropped that each ruleset accepts, and its verdict cached after the flush had listed the keys, so the
  drop lasts up to the time to live. `sng-fw/src/backend.rs:393-395` says the fast path "never drops a packet
  nftables would have accepted". `FastPathSound` therefore speaks of packets that met no update, and
  `StaleVerdictsEnd` of the others.
* An array map of the kernel is zero until written, so `class_meta` and `fw_meta` (`bpf/src/main.rs:576,655`)
  never take the branch that fails closed: a program without tables passes, unlike what their comments say.
* The feed scheduler swaps the rule file and sends no reload (`sng-ips/src/rules.rs:1087`), although its doc
  (923-924) has the reload in its cycle; its revisions and the versions of control-plane bundles
  share one staleness guard. `apply_config` retried after a refused signal finds the file unchanged and returns Ok
  without a reload (`manager.rs:441`).
* The restart watchdog of `IpsManager` can start Suricata after `stop` (`manager.rs:1342`): it does not
  look at the shutdown signal between the backoff and the start.
* A steering evaluation that began before a reload to `sticky_window_ms = 0` writes its pin after the reload
  cleared the cache (`sdwan/src/service.rs:593`), so "the cache is guaranteed empty in that mode" (613) is not
  exact; the pin is not read while stickiness is off.
* The SLA monitor judges the stored probe of a path at every tick (`sla.rs:509-522`) and does not ask how old it is,
  although its doc (483-486) skips "a path with no fresh probe": one bad probe read at `consecutive_breaches` ticks
  alerts, unlike "a breach that persists for `consecutive_breaches` probe intervals" (15-17). The counters are kept
  per path while a path may be watched for several classes (`policy.rs:137-140`, not validated): two watches of one
  path count twice, or reset each other. `SlaMonitor::run` discards the violations (`sla.rs:606-625`), so only
  telemetry hears of them and nothing in the repository carries them to the failover engine.
* Each report that the primary recovered re-arms the failback window (`failover.rs:247-256`), repeated ones too, so a
  source that keeps reporting postpones the failback for ever; and nothing in the repository calls `poll`.
* A dedup cap below ten evicts nothing and is exceeded (`dedup.rs:341`); the default is far larger.
* `remove_if_unchanged` compares milliseconds (`session.rs:238`): a re-grant within the same one is not distinguished
  from the grant it replaces and is removed with it, although the doc (355-360) says "a legitimate re-auth is never
  collateral". Nothing outside the tests calls `reevaluate_device`.
* `abandon` "MUST leave the target slot in its previous state" (`bank.rs:223-226`), while the bytes go to the slot in
  lockstep with the download (`download.rs:6-19`, `service.rs:819-827`): a writer that streams cannot keep both. With
  a stream, a crash or an abandoned download leaves a slot whose metadata describe other bytes; `OnlyVerifiedBoots`
  says that such a slot is never booted.
* Only the health probe of an install has a timeout (`service.rs:1002`). A download that stalls (828-840) keeps the
  install lock and the engine for ever, which is why `AttemptsEnd` excuses it.
* A promotion reads the fence, admits its own epoch and ignores the answer (`ha/lib.rs:421-423`), while the reader
  task admits fences concurrently: a fence that arrives in between leaves the new Master with an epoch that is not
  "strictly greater than any we observed" (412-420). `SuccessorOutranksTable` excuses a promotion that a
  fence overtook after it had read the gate. An overflow latched while the VIP is acquired is cleared as if it were an older one (429-434).
* The watchdog "re-probes ... rather than trusting an optimistic `Ok`" (`watchdog.rs:102-106`); the code (509-529)
  drops the escalation entry at the `Ok`, so a restarter that lies restarts the ladder for ever and no higher tier
  is reached. `OutageHandled` excuses it.
* `run_flush_loop` races neither its connect nor its flushes with shutdown (`subsystems/telemetry.rs:296, 344-345`)
  and gives them no timeout: the telemetry task can run out of its drain budget though nothing is broken in it.
* `write_config_to_disk` writes in place (`manager.rs:575-582`, `?` at 449): a write that fails or overlaps another
  leaves a torn file and sends no signal, so a later restart of the child loads it. `LoadedIsOnDisk` excuses
  a call that returned its error with the file already changed.
* The flush of the verdict cache swallows the errors of its listing (`sng-ebpf/src/loader.rs:560`): verdicts it did not
  list stay until they expire, unlike "no stale verdict survives" (565).
* The XDP program does not tell host-bound from forwarded packets. A Deny rule without zones under a default of
  Allow drops at XDP what the input chain of nftables, which has the default policy only, accepts
  (`sng-fw/src/compile.rs:590-635` against `backend.rs:393-395`). `FastPathSound` is about forwarded packets.

## What is left

Everything in the table of modules is modelled and checked, and its safety properties are proved. What would
add most, in order:

1. An abstract specification of the update engine that `Updater` implements.
2. `HaElection` composed with `HaSync`, so that promotions happen when the election makes them.
3. The Go control plane's leader election with fencing tokens, and staged rollout.

## Not modelled

Frame, manifest and batch encodings (MessagePack, Ed25519, VRRP wire format, zstd), the shell commands
behind the VIP, HTTP and sockets, statistics, and error texts are data or plain I/O. The
health probes and `ip addr` of the HA loop take no time and its `arping` at most `AcquireTime`; a command that hangs
inside the loop is not represented. Traffic to the edge itself (the input chain) is not modelled, and of the rule
compiler only the verdict of the forward chain is (`ForwardVerdict`). The EVE log tail and the configuration renderer of sng-ips, redaction and enrichment of
sng-telemetry, and DDoS limits and egress steering of sng-ebpf (which sng-edge does not install) are
not modelled. The crates marked `not_modelled` in `PROJECT.json` (rule compiler, classifiers, resolvers,
request handlers, platform layers), which hold most of the repository's lines, are functions of
large data with little control: a model checker adds little to their tests. The Go control plane is a
second system; the models meet it as the publisher of bundles and manifests and as the ingest endpoint, with
any behaviour those may show.
