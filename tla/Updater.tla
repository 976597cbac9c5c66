------------------------------ MODULE Updater ------------------------------
(***************************************************************************)
(* The dual-bank self-update engine of sng-updater: UpdaterService         *)
(* (service.rs) with its bank writer, bootloader, verifier, policy and     *)
(* state machine.  Several tasks may call poll_and_install at once; every  *)
(* await of the pipeline is a point where the others run, so each action   *)
(* below is the code between two awaits.                                   *)
(*                                                                         *)
(* Data is cut down to what the pipeline tells apart.  A version is a      *)
(* positive number and 0 stands for "none recorded".  The bytes in a bank  *)
(* are the version whose signed SHA-256 they match, 0 for a factory image  *)
(* whose version nobody recorded, Corrupt for any other bytes.             *)
(***************************************************************************)
EXTENDS Integers

CONSTANTS
    Versions,       \* versions the control plane may publish
    Sizes,          \* image sizes a manifest may declare
    Callers,        \* tasks that may call poll_and_install concurrently
    Policies,       \* operator policy bundles offered to reload_policy
    Overrides,      \* values ever given to the current-version override
    CommitFaults,   \* may Bootloader::commit / rollback return an error
    MaxRestarts     \* bound on the restarts of the process

NoVersion == 0
Corrupt   == -1
NoCaller  == "no_caller"
Banks     == {"A", "B"}
Bytes     == Versions \cup {NoVersion, Corrupt}

\* UpdaterPolicy::validate, on the fields the model keeps.
Valid(p) == /\ p.maxImageBytes > 0
            /\ p.minHealthyProbes > 0
            /\ p.maxAttempts > 0

ASSUME VersionsAssumption == Versions \subseteq Nat \ {0}
ASSUME SizesAssumption    == Sizes \subseteq Nat \ {0}
ASSUME CallersAssumption  == NoCaller \notin Callers
ASSUME PoliciesAssumption ==
    Policies \subseteq [maxImageBytes: Nat, minHealthyProbes: Nat,
                        maxAttempts: Nat, allowReinstall: BOOLEAN]
ASSUME OverridesAssumption == Overrides \subseteq Versions \cup {NoVersion}
ASSUME FaultsAssumption == CommitFaults \in BOOLEAN /\ MaxRestarts \in Nat

\* The envelopes the manifest source may serve.  authentic: the signing key
\* is provisioned and not ephemeral, the signature verifies, and the body
\* decodes to a known schema for this target.
Envelopes == [version: Versions, size: Sizes, authentic: BOOLEAN]

States == {"Idle", "Downloading", "Verifying", "Installing", "Rebooting",
           "HealthChecking", "Committed", "RolledBack"}

SlotKinds == {"Empty", "Committed", "Staged", "RolledBack"}
Slot(kind, v) == [kind |-> kind, version |-> v]

\* Where a task stands: outside the lock, or at one await of the pipeline.
OutsidePcs == {"idle", "checked"}
WritePcs   == {"open", "stream", "verify", "finish", "stage"}
BootPcs    == {"swap", "probe", "commit", "rollback"}
BookPcs    == {"mark_committed", "set_active", "mark_rolled_back"}
InsidePcs  == {"locked", "done", "failed"} \cup WritePcs \cup BootPcs \cup BookPcs

VARIABLES
    layout,     \* the metadata partition: BankLayout
    image,      \* the bytes in each bank
    boot,       \* the bootloader: ActiveBankState
    state,      \* UpdaterService.state
    lock,       \* holder of install_lock
    diverged,   \* UpdaterService.layout_diverged
    override,   \* current_version_override
    policy,     \* the policy in the UpdaterPolicyHolder
    pc,         \* per task: the await it stands at
    job,        \* per task: the manifest version, target slot and body
    tally,      \* per task: healthy probes seen, or bookkeeping attempts
    limit,      \* per task: the threshold read from the policy for that loop
    restarts    \* number of process restarts so far

service == <<state, diverged, override, policy>>
disk    == <<layout, image, boot>>
task    == <<job, tally, limit>>
vars    == <<layout, image, boot, state, lock, diverged, override, policy,
             pc, job, tally, limit, restarts>>

-----------------------------------------------------------------------------
(* bank.rs and bootloader.rs *)

\* Bank::other
Other(b) == IF b = "A" THEN "B" ELSE "A"

\* BankLayout::inactive, the slot the next install writes into.
Inactive(l) == Other(l.active)

\* BankLayout::active_version: whatever kind the active slot has.
ActiveVersion(l) == l.slot[l.active].version

\* ActiveBankState
CommittedTo(b)   == [pending |-> FALSE, bank |-> b, previous |-> b]
PendingTo(b, p)  == [pending |-> TRUE,  bank |-> b, previous |-> p]

SetSlot(b, s) == layout' = [layout EXCEPT !.slot[b] = s]

-----------------------------------------------------------------------------
(* verifier.rs, policy.rs, state.rs *)

\* derive_current_version: the override wins over the layout.
CurrentVersion == IF override # NoVersion THEN override ELSE ActiveVersion(layout)

\* Mutant: any version other than the current one is admitted.
NewerMutant(v, current) == current = NoVersion \/ v # current

\* compare_versions: only strictly newer is admissible; no pin admits all.
Newer(v, current) == current = NoVersion \/ v > current

\* ManifestVerifier::verify
Verified(e) == e.authentic /\ Newer(e.version, CurrentVersion)

\* The size cap of install_from_envelope.
WithinCap(e) == e.size <= policy.maxImageBytes

\* enforce_no_reinstall_of_rolled_back
ReinstallAllowed(e) ==
    \/ policy.allowReinstall
    \/ layout.slot[Inactive(layout)] # Slot("RolledBack", e.version)

\* UpdateState::legal_successors
LegalSuccessors ==
    [s \in States |->
        CASE s = "Idle"           -> {"Downloading"}
          [] s = "Downloading"    -> {"Verifying", "Idle"}
          [] s = "Verifying"      -> {"Installing", "Idle"}
          [] s = "Installing"     -> {"Rebooting", "Idle"}
          [] s = "Rebooting"      -> {"HealthChecking", "RolledBack"}
          [] s = "HealthChecking" -> {"Committed", "RolledBack"}
          [] OTHER                -> {"Idle"}]

\* UpdaterService::transition: the caller's view must match the live state.
MayTransition(from, to) == state = from /\ to \in LegalSuccessors[from]

-----------------------------------------------------------------------------
(* Steps every task shares *)

Goto(c, label) == pc' = [pc EXCEPT ![c] = label]

\* A transition followed by the next await; a refused one is an error.
Advance(c, from, to, label) ==
    IF MayTransition(from, to) THEN state' = to /\ Goto(c, label)
                               ELSE state' = state /\ Goto(c, "failed")

\* Return before run_install: the guard is dropped and nothing else changes.
Leave(c) == /\ Goto(c, "idle")
            /\ lock' = NoCaller

Erred(c) == /\ Goto(c, "failed")
            /\ UNCHANGED <<disk, service, lock, task, restarts>>

-----------------------------------------------------------------------------
(* install_from_envelope *)

\* Mutant: the divergence flag is not consulted.
MayEnterMutant == TRUE

\* The divergence flag is read before the lock is tried.
MayEnter == ~diverged

\* install_lock.try_lock
LockAvailable == lock = NoCaller

\* The divergence check: refused with LayoutDiverged, or go on to the lock.
\* (The envelope pulled by poll_and_install is looked at only in Admit.)
CheckDivergence(c) ==
    /\ pc[c] = "idle"
    /\ MayEnter
    /\ Goto(c, "checked")
    /\ UNCHANGED <<disk, service, lock, task, restarts>>

\* try_lock: InstallBusy when another install holds it.
TryLock(c) ==
    /\ pc[c] = "checked"
    /\ IF LockAvailable THEN lock' = c /\ Goto(c, "locked")
                        ELSE lock' = lock /\ Goto(c, "idle")
    /\ UNCHANGED <<disk, service, task, restarts>>

\* The layout snapshot, the verifier, the size cap, the rolled-back refusal
\* and the transition to Downloading run with no await after the snapshot.
Admit(c) ==
    /\ pc[c] = "locked"
    /\ \E e \in Envelopes :
         /\ Verified(e)
         /\ WithinCap(e)
         /\ ReinstallAllowed(e)
         /\ MayTransition("Idle", "Downloading")
         /\ job' = [job EXCEPT ![c] = [version |-> e.version, body |-> NoVersion,
                                       target |-> Inactive(layout)]]
    /\ state' = "Downloading"
    /\ Goto(c, "open")
    /\ UNCHANGED <<disk, lock, diverged, override, policy, tally, limit, restarts>>

\* Any refusal (or a failed layout read) returns with the state untouched.
Refuse(c) ==
    /\ pc[c] = "locked"
    /\ Leave(c)
    /\ UNCHANGED <<disk, service, task, restarts>>

-----------------------------------------------------------------------------
(* run_install: Downloading, Verifying, Installing *)

\* BankWriter::open_for_write refuses the slot the metadata calls active.
OpenForWrite(c) ==
    /\ pc[c] = "open"
    /\ layout.active # job[c].target
    /\ Goto(c, "stream")
    /\ UNCHANGED <<disk, service, lock, task, restarts>>

OpenFails(c) == pc[c] = "open" /\ Erred(c)

SetImage(b, bytes) == image' = [image EXCEPT ![b] = bytes]

\* stream_into_bank, one write_chunk: a writer that streams into the inactive
\* bank has now overwritten part of the image that was there.  The in-memory
\* writer buffers the body in its handle and never takes this step.
WriteChunk(c) ==
    /\ pc[c] = "stream"
    /\ SetImage(job[c].target, Corrupt)
    /\ UNCHANGED <<layout, boot, service, lock, pc, task, restarts>>

\* The end of the stream.  The transport delivered the right bytes or others,
\* and they are in the bank already, or still in the handle's buffer.
Download(c) ==
    /\ pc[c] = "stream"
    /\ \E body \in {job[c].version, Corrupt} :
         /\ job' = [job EXCEPT ![c].body = body]
         /\ image' = image \/ SetImage(job[c].target, body)
    /\ Advance(c, "Downloading", "Verifying", "verify")
    /\ UNCHANGED <<layout, boot, lock, diverged, override, policy, tally, limit,
                   restarts>>

\* Truncated, oversized, transport or bank error: the handle is abandoned,
\* and what was streamed into the bank stays there.
DownloadFails(c) == pc[c] = "stream" /\ Erred(c)

\* Mutant: the digest is computed and never compared.
BodyMatchesMutant(c) == job[c].body # NoVersion

\* receipt.sha256 and receipt.size_bytes against the signed manifest.
BodyMatches(c) == job[c].body = job[c].version

VerifyBody(c) ==
    /\ pc[c] = "verify"
    /\ BodyMatches(c)
    /\ Advance(c, "Verifying", "Installing", "finish")
    /\ UNCHANGED <<disk, lock, diverged, override, policy, task, restarts>>

\* The mismatch abandons the handle; the slot's metadata is not touched.
BodyMismatch(c) == pc[c] = "verify" /\ ~BodyMatches(c) /\ Erred(c)

\* WriteHandle::finish writes what is not in the bank yet ...
Finish(c) ==
    /\ pc[c] = "finish"
    /\ SetImage(job[c].target, job[c].body)
    /\ Goto(c, "stage")
    /\ UNCHANGED <<layout, boot, service, lock, task, restarts>>

\* ... and then the slot state; run_install goes on to Rebooting.
StageSlot(c) ==
    /\ pc[c] = "stage"
    /\ SetSlot(job[c].target, Slot("Staged", job[c].version))
    /\ Advance(c, "Installing", "Rebooting", "swap")
    /\ UNCHANGED <<image, boot, lock, diverged, override, policy, task, restarts>>

\* An error before, between or in place of the two writes.
FinishFails(c) == pc[c] \in {"finish", "stage"} /\ Erred(c)

-----------------------------------------------------------------------------
(* run_install: Rebooting, HealthChecking *)

\* Bootloader::swap_to, then run_health_check_loop reads its policy.
SwapTo(c) ==
    /\ pc[c] = "swap"
    /\ ~boot.pending
    /\ boot' = PendingTo(job[c].target, boot.bank)
    /\ Advance(c, "Rebooting", "HealthChecking", "probe")
    /\ tally' = [tally EXCEPT ![c] = 0]
    /\ limit' = [limit EXCEPT ![c] = policy.minHealthyProbes]
    /\ UNCHANGED <<layout, image, lock, diverged, override, policy, job, restarts>>

\* Refused when a swap is pending, or the bootloader erred.
SwapFails(c) == pc[c] = "swap" /\ Erred(c)

\* One healthy probe; the loop ends once enough came in a row.
EnoughHealthy(n, needed) == n >= needed

ProbeHealthy(c) ==
    /\ pc[c] = "probe"
    /\ tally' = [tally EXCEPT ![c] = @ + 1]
    /\ Goto(c, IF EnoughHealthy(tally[c] + 1, limit[c]) THEN "commit" ELSE "probe")
    /\ UNCHANGED <<disk, service, lock, job, limit, restarts>>

\* Unhealthy report, probe error, probe timeout, or the window has closed.
ProbeFails(c) ==
    /\ pc[c] = "probe"
    /\ Goto(c, "rollback")
    /\ UNCHANGED <<disk, service, lock, task, restarts>>

\* Bootloader::commit, then the bookkeeping loop reads its policy.
BootCommit(c) ==
    /\ pc[c] = "commit"
    /\ boot.pending
    /\ boot' = CommittedTo(boot.bank)
    /\ tally' = [tally EXCEPT ![c] = 1]
    /\ limit' = [limit EXCEPT ![c] = policy.maxAttempts]
    /\ Goto(c, "mark_committed")
    /\ UNCHANGED <<layout, image, service, lock, job, restarts>>

\* An error of the bootloader, or nothing was pending.
BootCommitFails(c) == /\ pc[c] = "commit"
                      /\ CommitFaults \/ ~boot.pending
                      /\ Erred(c)

\* Bootloader::rollback
BootRollback(c) ==
    /\ pc[c] = "rollback"
    /\ boot.pending
    /\ boot' = CommittedTo(boot.previous)
    /\ Goto(c, "mark_rolled_back")
    /\ UNCHANGED <<layout, image, service, lock, task, restarts>>

BootRollbackFails(c) == /\ pc[c] = "rollback"
                        /\ CommitFaults \/ ~boot.pending
                        /\ Erred(c)

-----------------------------------------------------------------------------
(* run_post_commit_bookkeeping and mark_rolled_back *)

MarkCommitted(c) ==
    /\ pc[c] = "mark_committed"
    /\ SetSlot(job[c].target, Slot("Committed", job[c].version))
    /\ Goto(c, "set_active")
    /\ UNCHANGED <<image, boot, service, lock, task, restarts>>

SetActive(c) ==
    /\ pc[c] = "set_active"
    /\ layout' = [layout EXCEPT !.active = job[c].target]
    /\ Advance(c, "HealthChecking", "Committed", "done")
    /\ UNCHANGED <<image, boot, lock, diverged, override, policy, task, restarts>>

\* Mutant: the attempt is not counted.
RetryBookkeepingMutant(c) ==
    /\ pc[c] \in {"mark_committed", "set_active"}
    /\ tally[c] < limit[c]
    /\ Goto(c, "mark_committed")
    /\ UNCHANGED <<disk, service, lock, task, restarts>>

\* Either call failed: both are retried after a backoff ...
RetryBookkeeping(c) ==
    /\ pc[c] \in {"mark_committed", "set_active"}
    /\ tally[c] < limit[c]
    /\ tally' = [tally EXCEPT ![c] = @ + 1]
    /\ Goto(c, "mark_committed")
    /\ UNCHANGED <<disk, service, lock, job, limit, restarts>>

\* Mutant: the engine gives up without poisoning itself.
DivergeMutant(c) ==
    /\ pc[c] \in {"mark_committed", "set_active"}
    /\ tally[c] >= limit[c]
    /\ Erred(c)

\* ... until the attempts are spent; then the engine is poisoned.
Diverge(c) ==
    /\ pc[c] \in {"mark_committed", "set_active"}
    /\ tally[c] >= limit[c]
    /\ diverged' = TRUE
    /\ Goto(c, "failed")
    /\ UNCHANGED <<disk, state, override, policy, lock, task, restarts>>

MarkRolledBack(c) ==
    /\ pc[c] = "mark_rolled_back"
    /\ SetSlot(job[c].target, Slot("RolledBack", job[c].version))
    /\ Advance(c, "HealthChecking", "RolledBack", "done")
    /\ UNCHANGED <<image, boot, lock, diverged, override, policy, task, restarts>>

MarkRolledBackFails(c) == pc[c] = "mark_rolled_back" /\ Erred(c)

\* The terminal state's transition back to Idle; the guard is dropped.
Settle(c) ==
    /\ pc[c] = "done"
    /\ MayTransition(state, "Idle")
    /\ state' = "Idle"
    /\ Leave(c)
    /\ UNCHANGED <<disk, diverged, override, policy, task, restarts>>

\* Mutant: the reset obeys legal_successors, so Rebooting and
\* HealthChecking are left as they are.
ForceResetMutant(c) ==
    /\ pc[c] = "failed"
    /\ state' = IF "Idle" \in LegalSuccessors[state] THEN "Idle" ELSE state
    /\ Leave(c)
    /\ UNCHANGED <<disk, diverged, override, policy, task, restarts>>

\* The error arm: force_reset_to_idle from any state, then the guard.
ForceReset(c) ==
    /\ pc[c] = "failed"
    /\ state' = "Idle"
    /\ Leave(c)
    /\ UNCHANGED <<disk, diverged, override, policy, task, restarts>>

-----------------------------------------------------------------------------
(* The operator and the process *)

\* reload_policy: a bundle that does not validate is rejected.
ReloadPolicy ==
    /\ \E p \in Policies : Valid(p) /\ policy' = p
    /\ UNCHANGED <<disk, state, diverged, override, lock, pc, task, restarts>>

\* set_current_version_override, with any value at any time.
SetCurrentVersionOverride ==
    /\ override' \in Overrides \cup {NoVersion}
    /\ UNCHANGED <<disk, state, diverged, policy, lock, pc, task, restarts>>

\* External: the operator rewrites the metadata partition from what the
\* bootloader reports and from the image found in that bank.
ReconcileMetadata ==
    /\ diverged
    /\ ~boot.pending
    /\ layout' = [active |-> boot.bank,
                  slot |-> [layout.slot EXCEPT
                              ![boot.bank] = Slot("Committed", image[boot.bank])]]
    /\ UNCHANGED <<image, boot, service, lock, pc, task, restarts>>

\* clear_layout_divergence
ClearLayoutDivergence ==
    /\ diverged' = FALSE
    /\ UNCHANGED <<disk, state, override, policy, lock, pc, task, restarts>>

\* The process dies and comes back: build() starts from Idle with a fresh
\* flag, no override and the configured policy; banks, metadata and
\* bootloader are on disk.
Restart ==
    /\ restarts < MaxRestarts
    /\ restarts' = restarts + 1
    /\ state' = "Idle"
    /\ lock' = NoCaller
    /\ diverged' = FALSE
    /\ override' = NoVersion
    /\ policy' \in {p \in Policies : Valid(p)}
    /\ pc' = [c \in Callers |-> "idle"]
    /\ UNCHANGED <<disk, task>>

-----------------------------------------------------------------------------

\* An appliance imaged at the factory (slot not recorded; the override may
\* name its version) or one that already runs a committed version.
Init ==
    /\ \E v \in Versions \cup {NoVersion} :
         /\ image = [b \in Banks |-> IF b = "A" THEN v ELSE NoVersion]
         /\ \/ override = v /\ v \in Overrides
               /\ layout = [active |-> "A",
                            slot |-> [b \in Banks |-> Slot("Empty", NoVersion)]]
            \/ override = NoVersion /\ v # NoVersion
               /\ layout = [active |-> "A",
                            slot |-> [b \in Banks |->
                                        IF b = "A" THEN Slot("Committed", v)
                                                   ELSE Slot("Empty", NoVersion)]]
    /\ boot = CommittedTo("A")
    /\ state = "Idle"
    /\ lock = NoCaller
    /\ diverged = FALSE
    /\ policy \in {p \in Policies : Valid(p)}
    /\ pc = [c \in Callers |-> "idle"]
    /\ job = [c \in Callers |-> [version |-> NoVersion, body |-> NoVersion,
                                 target |-> "B"]]
    /\ tally = [c \in Callers |-> 0]
    /\ limit = [c \in Callers |-> 0]
    /\ restarts = 0

\* The steps of a task once it has begun.
Pipeline(c) ==
    \/ TryLock(c) \/ Admit(c) \/ Refuse(c)
    \/ OpenForWrite(c) \/ OpenFails(c)
    \/ WriteChunk(c) \/ Download(c) \/ DownloadFails(c)
    \/ VerifyBody(c) \/ BodyMismatch(c)
    \/ Finish(c) \/ StageSlot(c) \/ FinishFails(c)
    \/ SwapTo(c) \/ SwapFails(c)
    \/ ProbeHealthy(c) \/ ProbeFails(c)
    \/ BootCommit(c) \/ BootCommitFails(c)
    \/ BootRollback(c) \/ BootRollbackFails(c)
    \/ MarkCommitted(c) \/ SetActive(c)
    \/ RetryBookkeeping(c) \/ Diverge(c)
    \/ MarkRolledBack(c) \/ MarkRolledBackFails(c)
    \/ Settle(c) \/ ForceReset(c)

LayoutAgrees == layout.active = boot.bank /\ ActiveVersion(layout) = image[boot.bank]

\* The operator clears the divergence once the two agree again: the contract
\* in the doc of clear_layout_divergence, which the code does not check.
Operator == \/ ReloadPolicy \/ SetCurrentVersionOverride
            \/ ReconcileMetadata
            \/ LayoutAgrees /\ ClearLayoutDivergence

Next == \/ \E c \in Callers : CheckDivergence(c) \/ Pipeline(c)
        \/ Operator
        \/ Restart

Spec == Init /\ [][Next]_vars

\* What a task does by itself: the steps that wait for nothing, and the
\* health probe, whose await is the only one with a timeout.
Engine(c) ==
    \/ TryLock(c)
    \/ VerifyBody(c)
    \/ ProbeHealthy(c) \/ ProbeFails(c)
    \/ Settle(c) \/ ForceReset(c)

\* The awaits that nothing bounds: calls into the bank writer (abandon after a
\* mismatch too), the download source and the bootloader.
AdapterPcs == {"locked", "swap", "commit", "rollback"} \cup WritePcs \cup BookPcs

\* Fairness: the runtime keeps polling a task's future.  Nothing is asked of
\* the adapters: any of their calls may never return.
FairSpec == Spec /\ \A c \in Callers : WF_vars(Engine(c))

-----------------------------------------------------------------------------
(* Properties *)

\* Every variable stays in its type.
TypeOK ==
    /\ layout \in [active: Banks,
                   slot: [Banks -> [kind: SlotKinds, version: Bytes]]]
    /\ image \in [Banks -> Bytes]
    /\ boot \in [pending: BOOLEAN, bank: Banks, previous: Banks]
    /\ state \in States
    /\ lock \in Callers \cup {NoCaller}
    /\ diverged \in BOOLEAN
    /\ override \in Overrides \cup {NoVersion}
    /\ policy \in {p \in Policies : Valid(p)}
    /\ pc \in [Callers -> OutsidePcs \cup InsidePcs]
    /\ job \in [Callers -> [version: Versions \cup {NoVersion},
                            body: Bytes,
                            target: Banks]]
    /\ tally \in [Callers -> Nat]
    /\ limit \in [Callers -> Nat]
    /\ restarts \in 0..MaxRestarts

\* The state a task expects the service to be in at each await.
Phase ==
    [l \in InsidePcs |->
        CASE l = "locked"           -> {"Idle"}
          [] l \in {"open", "stream"} -> {"Downloading"}
          [] l = "verify"           -> {"Verifying"}
          [] l \in {"finish", "stage"} -> {"Installing"}
          [] l = "swap"             -> {"Rebooting"}
          [] l = "done"             -> {"Committed", "RolledBack"}
          [] l = "failed"           -> States \ {"Idle"}
          [] OTHER                  -> {"HealthChecking"}]

\* At most one task is past try_lock, it is the one that holds the lock, and
\* the service's state is the one that task left: the mismatch branch of
\* UpdaterService::transition is dead code, and an idle service reads Idle.
StateFollowsPipeline ==
    /\ \A c \in Callers : pc[c] \in InsidePcs <=> lock = c
    /\ \A c \in Callers : pc[c] \in InsidePcs => state \in Phase[pc[c]]
    /\ lock = NoCaller => state = "Idle"

\* Bytes reach a bank before they are verified, and a crash or an error leaves
\* them there.  But whenever an install starts a bank or makes it permanent,
\* that bank holds exactly the image its signed manifest names, and the
\* metadata records it under that version: whatever other tasks, failed
\* writes, restarts and the operator did since the digest was checked.
OnlyVerifiedBoots ==
    [][\A c \in Callers : SwapTo(c) \/ BootCommit(c) =>
          /\ image[boot'.bank] = job[c].version
          /\ layout.slot[boot'.bank].version = job[c].version]_vars

\* An install never opens, streams into or finishes the bank the bootloader
\* would boot: the running image is not overwritten.
WriterAvoidsBootBank ==
    \A c \in Callers : pc[c] \in WritePcs => job[c].target # boot.bank

\* The image the appliance falls back to on a rollback only ever moves to a
\* newer version: no step overwrites it, and no commit downgrades it.
FallbackOnlyAdvances ==
    [][image'[boot'.previous] >= image[boot.previous]]_vars

\* With no install running and no divergence reported, nothing is pending
\* and metadata and bootloader agree on the bank and version that run.
QuiescentAgreement ==
    lock = NoCaller /\ ~diverged =>
        /\ ~boot.pending
        /\ layout.active = boot.bank
        /\ layout.slot[boot.bank].kind \in {"Committed", "Empty"}

\* An install attempt ends with the lock released and the state Idle, so that
\* the next poll can start, unless one single call into an adapter never
\* returns: no error path leaves the engine stuck, and no loop (probes,
\* bookkeeping retries) goes on for ever.
AttemptsEnd ==
    \A c \in Callers :
        \/ lock = c ~> lock # c /\ state = "Idle"
        \/ \E l \in AdapterPcs : <>[](pc[c] = l)

-----------------------------------------------------------------------------
(* The inductive strengthening that the proofs use *)

\* What a task knows of the body and the bank it has written.
JobInv ==
    \A c \in Callers :
        /\ pc[c] \in WritePcs \cup BootPcs \cup BookPcs => job[c].version \in Versions
        /\ pc[c] = "finish" => job[c].body = job[c].version
        /\ pc[c] \in {"stage"} \cup BootPcs \cup BookPcs =>
               image[job[c].target] = job[c].version
        /\ pc[c] \in BootPcs \cup BookPcs =>
               layout.slot[job[c].target].version = job[c].version
        /\ pc[c] \in {"probe", "commit"} => boot.bank = job[c].target

\* The deployment of sng-edge: one poll loop drives the engine, the process
\* does not restart and the bootloader's commit and rollback do their work.
SinglePoller ==
    /\ \E c \in Callers : Callers = {c}
    /\ ~CommitFaults
    /\ MaxRestarts = 0

\* Metadata and bootloader agree, and the running slot was committed.
Settled == /\ boot = CommittedTo(layout.active)
           /\ layout.slot[layout.active].kind \in {"Committed", "Empty"}

\* Where the bootloader points at each await of the only task, and what
\* remains true while the engine is poisoned.
AgreementInv ==
    \A c \in Callers :
        /\ diverged => /\ pc[c] \in {"idle", "failed"}
                       /\ boot = CommittedTo(boot.bank)
                       /\ layout.active = boot.bank
                            => layout.slot[boot.bank].kind = "Committed"
        /\ pc[c] \in {"probe", "commit", "rollback"} =>
               /\ boot = PendingTo(job[c].target, layout.active)
               /\ layout.slot[layout.active].kind \in {"Committed", "Empty"}
        /\ pc[c] \in {"mark_committed", "set_active"} =>
               /\ boot = CommittedTo(job[c].target)
               /\ pc[c] = "set_active" => layout.slot[job[c].target].kind = "Committed"
        /\ pc[c] \notin {"probe", "commit", "rollback", "mark_committed", "set_active"}
             /\ ~diverged => Settled
        /\ pc[c] \in WritePcs \cup BootPcs \cup BookPcs => job[c].target = Inactive(layout)

\* The version the verifier compared against is the one that runs.
VersionInv ==
    /\ override = NoVersion
    /\ ActiveVersion(layout) = image[layout.active]
    /\ \A c \in Callers :
         pc[c] \in WritePcs \cup BootPcs => job[c].version > image[layout.active]
=============================================================================
