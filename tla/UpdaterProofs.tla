--------------------------- MODULE UpdaterProofs ---------------------------
(***************************************************************************)
(* Proofs about the self-update engine of sng-updater, for every set of    *)
(* versions, tasks and policies.                                           *)
(***************************************************************************)
EXTENDS Updater, TLAPS

\* Every bank is one of the two, and the other one is the other one.
LEMMA OtherBank ==
    \A b \in Banks : Other(b) \in Banks /\ Other(b) # b
  BY DEF Banks, Other

\* What a bank holds is a number, and a published version is positive.
LEMMA BytesAreNumbers ==
    /\ \A v \in Versions : v \in Int /\ v > 0
    /\ \A v \in Bytes : v \in Int
<1>1. \A v \in Versions : v \in Int /\ v > 0
  BY VersionsAssumption
<1>2. NoVersion \in Int /\ Corrupt \in Int
  BY DEF NoVersion, Corrupt
<1> QED
  BY <1>1, <1>2 DEF Bytes

\* Noting the body that was streamed leaves the other fields of the jobs alone.
LEMMA BodyRecorded ==
    ASSUME NEW C, NEW V, NEW B, NEW T, NEW c \in C, NEW b \in B,
           NEW f \in [C -> [version: V, body: B, target: T]]
    PROVE  [f EXCEPT ![c].body = b] \in [C -> [version: V, body: B, target: T]]
<1>1. f[c] \in [version: V, body: B, target: T]
  OBVIOUS
<1>2. [f[c] EXCEPT !.body = b] \in [version: V, body: B, target: T]
  BY <1>1
<1> QED
  BY <1>2

\* The thresholds a loop reads from a policy in force are numbers.
LEMMA PolicyNumbers ==
    ASSUME TypeOK
    PROVE  policy.minHealthyProbes \in Nat /\ policy.maxAttempts \in Nat
  BY PoliciesAssumption DEF TypeOK

-----------------------------------------------------------------------------
\* Type correctness: whatever the tasks, the operator and the faults do,
\* every variable of the engine keeps its type, and the policy in force is
\* always one that validate() accepted.
THEOREM TypeCorrect == Spec => []TypeOK
<1> USE VersionsAssumption, PoliciesAssumption, OverridesAssumption, FaultsAssumption
        DEF NoVersion, Corrupt, Bytes
<1>1. Init => TypeOK
  <2> SUFFICES ASSUME Init PROVE TypeOK
    OBVIOUS
  <2>1. layout \in [active: Banks, slot: [Banks -> [kind: SlotKinds, version: Bytes]]]
    BY DEF Init, Banks, SlotKinds, Slot
  <2>2. image \in [Banks -> Bytes]
    BY DEF Init
  <2>3. boot \in [pending: BOOLEAN, bank: Banks, previous: Banks]
    BY DEF Init, CommittedTo, Banks
  <2>4. override \in Overrides \cup {NoVersion}
    BY DEF Init
  <2>5. /\ job \in [Callers -> [version: Versions \cup {NoVersion}, body: Bytes,
                               target: Banks]]
        /\ tally \in [Callers -> Nat]
        /\ limit \in [Callers -> Nat]
        /\ restarts \in 0..MaxRestarts
    BY DEF Init, Banks
  <2>6. /\ pc \in [Callers -> OutsidePcs \cup InsidePcs]
        /\ state \in States
        /\ lock \in Callers \cup {NoCaller}
        /\ diverged \in BOOLEAN
        /\ policy \in {p \in Policies : Valid(p)}
    BY DEF Init, OutsidePcs, States
  <2> QED
    BY <2>1, <2>2, <2>3, <2>4, <2>5, <2>6 DEF TypeOK
<1>2. TypeOK /\ [Next]_vars => TypeOK'
  <2> SUFFICES ASSUME TypeOK, [Next]_vars PROVE TypeOK'
    OBVIOUS
  <2> USE DEF TypeOK
  <2>1. ASSUME NEW c \in Callers, CheckDivergence(c) PROVE TypeOK'
    BY <2>1 DEF CheckDivergence, Goto, disk, service, task, OutsidePcs
  <2>2. ASSUME NEW c \in Callers, Pipeline(c) PROVE TypeOK'
    <3> USE DEF Goto, Leave, Erred, disk, service, task, OutsidePcs, InsidePcs,
                WritePcs, BootPcs, BookPcs
    <3>1. CASE TryLock(c)
      BY <3>1 DEF TryLock
    <3>2. CASE Admit(c)
      BY <3>2, OtherBank DEF Admit, Envelopes, Inactive, States
    <3>3. CASE Refuse(c)
      BY <3>3 DEF Refuse
    <3>4. CASE OpenForWrite(c) \/ OpenFails(c)
      BY <3>4 DEF OpenForWrite, OpenFails
    <3>5. CASE WriteChunk(c) \/ Download(c) \/ DownloadFails(c)
      <4>1. CASE Download(c)
        <5>1. PICK body \in {job[c].version, Corrupt} :
                 /\ job' = [job EXCEPT ![c].body = body]
                 /\ image' = image \/ SetImage(job[c].target, body)
          BY <4>1 DEF Download
        <5>2. body \in Bytes
          OBVIOUS
        <5>3. job' \in [Callers -> [version: Versions \cup {NoVersion}, body: Bytes,
                                   target: Banks]]
          BY <5>1, <5>2, BodyRecorded
        <5>4. image' \in [Banks -> Bytes]
          BY <5>1, <5>2 DEF SetImage
        <5>5. state' \in States /\ pc' \in [Callers -> OutsidePcs \cup InsidePcs]
          BY <4>1 DEF Download, Advance, States
        <5>6. UNCHANGED <<layout, boot, lock, diverged, override, policy, tally,
                          limit, restarts>>
          BY <4>1 DEF Download
        <5> QED
          BY <5>3, <5>4, <5>5, <5>6
      <4>2. CASE WriteChunk(c)
        BY <4>2 DEF WriteChunk, SetImage
      <4> QED
        BY <3>5, <4>1, <4>2 DEF DownloadFails
    <3>6. CASE VerifyBody(c) \/ BodyMismatch(c)
      BY <3>6 DEF VerifyBody, BodyMismatch, Advance, States
    <3>7. CASE Finish(c) \/ StageSlot(c) \/ FinishFails(c)
      <4>1. CASE Finish(c)
        BY <4>1 DEF Finish, SetImage
      <4>2. CASE StageSlot(c)
        <5>1. layout' \in [active: Banks,
                           slot: [Banks -> [kind: SlotKinds, version: Bytes]]]
          BY <4>2 DEF StageSlot, SetSlot, Slot, SlotKinds
        <5> QED
          BY <4>2, <5>1 DEF StageSlot, Advance, States
      <4> QED
        BY <3>7, <4>1, <4>2 DEF FinishFails
    <3>8. CASE SwapTo(c) \/ SwapFails(c)
      <4>1. CASE SwapTo(c)
        <5>1. boot' \in [pending: BOOLEAN, bank: Banks, previous: Banks]
          BY <4>1 DEF SwapTo, PendingTo
        <5>2. tally' \in [Callers -> Nat] /\ limit' \in [Callers -> Nat]
          BY <4>1, PolicyNumbers DEF SwapTo
        <5> QED
          BY <4>1, <5>1, <5>2 DEF SwapTo, Advance, States
      <4> QED
        BY <3>8, <4>1 DEF SwapFails
    <3>9. CASE ProbeHealthy(c) \/ ProbeFails(c)
      <4>1. CASE ProbeHealthy(c)
        <5>1. tally' \in [Callers -> Nat]
          BY <4>1 DEF ProbeHealthy
        <5> QED
          BY <4>1, <5>1 DEF ProbeHealthy
      <4> QED
        BY <3>9, <4>1 DEF ProbeFails
    <3>10. CASE BootCommit(c) \/ BootCommitFails(c)
      <4>1. CASE BootCommit(c)
        <5>1. boot' \in [pending: BOOLEAN, bank: Banks, previous: Banks]
          BY <4>1 DEF BootCommit, CommittedTo
        <5>2. tally' \in [Callers -> Nat] /\ limit' \in [Callers -> Nat]
          BY <4>1, PolicyNumbers DEF BootCommit
        <5> QED
          BY <4>1, <5>1, <5>2 DEF BootCommit
      <4> QED
        BY <3>10, <4>1 DEF BootCommitFails
    <3>11. CASE BootRollback(c) \/ BootRollbackFails(c)
      <4>1. CASE BootRollback(c)
        <5>1. boot' \in [pending: BOOLEAN, bank: Banks, previous: Banks]
          BY <4>1 DEF BootRollback, CommittedTo
        <5> QED
          BY <4>1, <5>1 DEF BootRollback
      <4> QED
        BY <3>11, <4>1 DEF BootRollbackFails
    <3>12. CASE MarkCommitted(c)
      BY <3>12 DEF MarkCommitted, SetSlot, Slot, SlotKinds
    <3>13. CASE SetActive(c)
      BY <3>13 DEF SetActive, Advance, States
    <3>14. CASE RetryBookkeeping(c) \/ Diverge(c)
      <4>1. CASE RetryBookkeeping(c)
        <5>1. tally' \in [Callers -> Nat]
          BY <4>1 DEF RetryBookkeeping
        <5> QED
          BY <4>1, <5>1 DEF RetryBookkeeping
      <4> QED
        BY <3>14, <4>1 DEF Diverge
    <3>15. CASE MarkRolledBack(c) \/ MarkRolledBackFails(c)
      <4>1. CASE MarkRolledBack(c)
        <5>1. layout' \in [active: Banks,
                           slot: [Banks -> [kind: SlotKinds, version: Bytes]]]
          BY <4>1 DEF MarkRolledBack, SetSlot, Slot, SlotKinds
        <5> QED
          BY <4>1, <5>1 DEF MarkRolledBack, Advance, States
      <4> QED
        BY <3>15, <4>1 DEF MarkRolledBackFails
    <3>16. CASE Settle(c) \/ ForceReset(c)
      BY <3>16 DEF Settle, ForceReset, States
    <3> QED
      BY <2>2, <3>1, <3>2, <3>3, <3>4, <3>5, <3>6, <3>7, <3>8, <3>9, <3>10,
         <3>11, <3>12, <3>13, <3>14, <3>15, <3>16 DEF Pipeline
  <2>3. CASE Operator
    <3>1. CASE ReloadPolicy
      BY <3>1 DEF ReloadPolicy, disk, task
    <3>2. CASE SetCurrentVersionOverride
      BY <3>2 DEF SetCurrentVersionOverride, disk, task
    <3>3. CASE ReconcileMetadata
      BY <3>3 DEF ReconcileMetadata, service, task, Slot, SlotKinds
    <3>4. CASE ClearLayoutDivergence
      BY <3>4 DEF ClearLayoutDivergence, disk, task
    <3> QED
      BY <2>3, <3>1, <3>2, <3>3, <3>4 DEF Operator
  <2>4. CASE Restart
    <3>1. restarts' \in 0..MaxRestarts
      BY <2>4 DEF Restart
    <3> QED
      BY <2>4, <3>1 DEF Restart, disk, task, States, OutsidePcs
  <2>5. CASE UNCHANGED vars
    BY <2>5 DEF vars
  <2> QED
    BY <2>1, <2>2, <2>3, <2>4, <2>5 DEF Next
<1> QED
  BY <1>1, <1>2, PTL DEF Spec

-----------------------------------------------------------------------------
\* A task that holds the lock and moves on to another await keeps the
\* bookkeeping right, if it leaves the state that await expects.
LEMMA StayInside ==
    ASSUME TypeOK, StateFollowsPipeline, NEW c \in Callers, NEW l \in InsidePcs,
           pc[c] \in InsidePcs, Goto(c, l), lock' = lock, state' \in Phase[l]
    PROVE  StateFollowsPipeline'
<1>1. lock = c /\ lock' # NoCaller
  BY CallersAssumption DEF StateFollowsPipeline
<1>2. pc' \in [Callers -> OutsidePcs \cup InsidePcs] /\ pc'[c] = l
  BY DEF TypeOK, Goto
<1>3. \A d \in Callers \ {c} : pc'[d] = pc[d] /\ pc[d] \notin InsidePcs
  BY <1>1 DEF TypeOK, Goto, StateFollowsPipeline
<1> QED
  BY <1>1, <1>2, <1>3 DEF StateFollowsPipeline

\* A task that drops the lock in state Idle leaves the service idle.
LEMMA GoOutside ==
    ASSUME TypeOK, StateFollowsPipeline, NEW c \in Callers,
           pc[c] \in InsidePcs, Leave(c), state' = "Idle"
    PROVE  StateFollowsPipeline'
<1>1. lock = c /\ lock' = NoCaller
  BY DEF StateFollowsPipeline, Leave
<1>2. pc'[c] = "idle" /\ "idle" \notin InsidePcs
  BY DEF TypeOK, Leave, Goto, InsidePcs, WritePcs, BootPcs, BookPcs
<1>3. \A d \in Callers \ {c} : pc'[d] = pc[d] /\ pc[d] \notin InsidePcs
  BY <1>1 DEF TypeOK, Leave, Goto, StateFollowsPipeline
<1> QED
  BY <1>1, <1>2, <1>3, CallersAssumption DEF StateFollowsPipeline

\* What Phase says of each await.
LEMMA Phases ==
    /\ "failed" \in InsidePcs /\ Phase["failed"] = States \ {"Idle"}
    /\ "done" \in InsidePcs /\ Phase["done"] = {"Committed", "RolledBack"}
    /\ "locked" \in InsidePcs /\ Phase["locked"] = {"Idle"}
    /\ "open" \in InsidePcs /\ Phase["open"] = {"Downloading"}
    /\ "stream" \in InsidePcs /\ Phase["stream"] = {"Downloading"}
    /\ "verify" \in InsidePcs /\ Phase["verify"] = {"Verifying"}
    /\ "finish" \in InsidePcs /\ Phase["finish"] = {"Installing"}
    /\ "stage" \in InsidePcs /\ Phase["stage"] = {"Installing"}
    /\ "swap" \in InsidePcs /\ Phase["swap"] = {"Rebooting"}
    /\ \A l \in {"probe", "commit", "rollback", "mark_committed", "set_active",
                 "mark_rolled_back"} : l \in InsidePcs /\ Phase[l] = {"HealthChecking"}
  BY DEF Phase, InsidePcs, WritePcs, BootPcs, BookPcs

\* The task about to swap finds the service in Rebooting.
LEMMA AwaitingSwap ==
    ASSUME StateFollowsPipeline, NEW c \in Callers, pc[c] = "swap"
    PROVE  state = "Rebooting"
  BY Phases DEF StateFollowsPipeline

\* From the first probe to the last bookkeeping write the service is
\* HealthChecking.
LEMMA CheckingHealth ==
    ASSUME StateFollowsPipeline, NEW c \in Callers,
           pc[c] \in {"probe", "commit", "rollback", "mark_committed", "set_active",
                      "mark_rolled_back"}
    PROVE  state = "HealthChecking"
<1>1. state \in Phase[pc[c]]
  BY Phases DEF StateFollowsPipeline
<1> QED
  BY <1>1, Phases

\* An error leaves a state other than Idle, whatever await it happened at.
LEMMA ErredInside ==
    ASSUME TypeOK, StateFollowsPipeline, NEW c \in Callers,
           pc[c] \in InsidePcs \ {"locked"}, Erred(c)
    PROVE  StateFollowsPipeline'
<1>1. state \in Phase[pc[c]] /\ state \in States
  BY DEF StateFollowsPipeline, TypeOK
<1>2. state # "Idle"
  BY <1>1, Phases DEF InsidePcs, WritePcs, BootPcs, BookPcs
<1> QED
  BY <1>1, <1>2, Phases, StayInside DEF Erred, service

\* At most one task is inside the pipeline and the state machine is always
\* where that task left it: the defensive mismatch branch of transition()
\* is unreachable for any number of tasks and any faults, restarts included.
THEOREM PipelineExclusive == Spec => []StateFollowsPipeline
<1>1. Init => StateFollowsPipeline
  BY CallersAssumption
     DEF Init, StateFollowsPipeline, InsidePcs, WritePcs, BootPcs, BookPcs
<1>2. TypeOK /\ StateFollowsPipeline /\ [Next]_vars => StateFollowsPipeline'
  <2> SUFFICES ASSUME TypeOK, StateFollowsPipeline, [Next]_vars
               PROVE  StateFollowsPipeline'
    OBVIOUS
  <2>1. ASSUME NEW c \in Callers, CheckDivergence(c) PROVE StateFollowsPipeline'
    <3>1. /\ pc[c] \notin InsidePcs
          /\ pc' = [pc EXCEPT ![c] = "checked"] /\ "checked" \notin InsidePcs
          /\ lock' = lock /\ state' = state
      BY <2>1 DEF CheckDivergence, Goto, service, InsidePcs, WritePcs, BootPcs, BookPcs
    <3> QED
      BY <3>1 DEF TypeOK, StateFollowsPipeline
  <2>2. ASSUME NEW c \in Callers, Pipeline(c) PROVE StateFollowsPipeline'
    <3>1. CASE TryLock(c)
      <4>1. /\ pc[c] \notin InsidePcs /\ "idle" \notin InsidePcs
            /\ "locked" \in InsidePcs /\ state' = state
        BY <3>1 DEF TryLock, service, InsidePcs, WritePcs, BootPcs, BookPcs
      <4>2. CASE LockAvailable
        <5>1. lock = NoCaller /\ lock' = c /\ pc' = [pc EXCEPT ![c] = "locked"]
          BY <3>1, <4>2 DEF TryLock, LockAvailable, Goto
        <5>2. state = "Idle" /\ state' \in Phase["locked"]
          BY <4>1, <5>1, Phases DEF StateFollowsPipeline
        <5>3. \A d \in Callers : pc[d] \notin InsidePcs
          BY <5>1, CallersAssumption DEF StateFollowsPipeline
        <5>4. \A d \in Callers : pc'[d] = IF d = c THEN "locked" ELSE pc[d]
          BY <5>1 DEF TypeOK
        <5> QED
          BY <4>1, <5>1, <5>2, <5>3, <5>4, CallersAssumption DEF StateFollowsPipeline
      <4>3. CASE ~LockAvailable
        BY <3>1, <4>1, <4>3 DEF TryLock, Goto, TypeOK, StateFollowsPipeline
      <4> QED
        BY <4>2, <4>3
    <3>2. CASE Admit(c)
      BY <3>2, Phases, StayInside DEF Admit
    <3>3. CASE Refuse(c)
      BY <3>3, Phases, GoOutside DEF Refuse, service, StateFollowsPipeline
    <3>4. CASE OpenForWrite(c) \/ OpenFails(c)
      BY <3>4, Phases, StayInside, ErredInside
         DEF OpenForWrite, OpenFails, service, StateFollowsPipeline
    <3>5. CASE Download(c) \/ DownloadFails(c)
      BY <3>5, Phases, StayInside, ErredInside
         DEF Download, DownloadFails, Advance, MayTransition, LegalSuccessors,
             States, StateFollowsPipeline
    <3>17. CASE WriteChunk(c)
      BY <3>17 DEF WriteChunk, service, StateFollowsPipeline
    <3>6. CASE VerifyBody(c) \/ BodyMismatch(c)
      BY <3>6, Phases, StayInside, ErredInside
         DEF VerifyBody, BodyMismatch, Advance, MayTransition, LegalSuccessors,
             States, StateFollowsPipeline
    <3>7. CASE Finish(c) \/ FinishFails(c)
      BY <3>7, Phases, StayInside, ErredInside
         DEF Finish, FinishFails, service, StateFollowsPipeline
    <3>18. CASE StageSlot(c)
      BY <3>18, Phases, StayInside
         DEF StageSlot, Advance, MayTransition, LegalSuccessors, States,
             StateFollowsPipeline
    <3>8. CASE SwapTo(c) \/ SwapFails(c)
      BY <3>8, Phases, StayInside, ErredInside
         DEF SwapTo, SwapFails, Advance, MayTransition, LegalSuccessors,
             States, StateFollowsPipeline
    <3>9. CASE ProbeHealthy(c) \/ ProbeFails(c)
      <4>1. /\ pc[c] \in InsidePcs /\ lock' = lock
            /\ state' = "HealthChecking"
        BY <3>9, Phases DEF ProbeHealthy, ProbeFails, service, StateFollowsPipeline
      <4>2. \E l \in {"probe", "commit", "rollback"} : Goto(c, l)
        BY <3>9 DEF ProbeHealthy, ProbeFails
      <4> QED
        BY <4>1, <4>2, Phases, StayInside
    <3>10. CASE BootCommit(c) \/ BootCommitFails(c)
      BY <3>10, Phases, StayInside, ErredInside
         DEF BootCommit, BootCommitFails, service, StateFollowsPipeline
    <3>11. CASE BootRollback(c) \/ BootRollbackFails(c)
      BY <3>11, Phases, StayInside, ErredInside
         DEF BootRollback, BootRollbackFails, service, StateFollowsPipeline
    <3>12. CASE MarkCommitted(c)
      BY <3>12, Phases, StayInside DEF MarkCommitted, service, StateFollowsPipeline
    <3>13. CASE SetActive(c)
      BY <3>13, Phases, StayInside
         DEF SetActive, Advance, MayTransition, LegalSuccessors, States,
             StateFollowsPipeline
    <3>14. CASE RetryBookkeeping(c) \/ Diverge(c)
      BY <3>14, Phases, StayInside
         DEF RetryBookkeeping, Diverge, service, States, StateFollowsPipeline
    <3>15. CASE MarkRolledBack(c) \/ MarkRolledBackFails(c)
      BY <3>15, Phases, StayInside, ErredInside
         DEF MarkRolledBack, MarkRolledBackFails, Advance, MayTransition,
             LegalSuccessors, States, StateFollowsPipeline
    <3>16. CASE Settle(c) \/ ForceReset(c)
      BY <3>16, Phases, GoOutside DEF Settle, ForceReset
    <3> QED
      BY <2>2, <3>1, <3>2, <3>3, <3>4, <3>5, <3>6, <3>7, <3>8, <3>9, <3>10,
         <3>11, <3>12, <3>13, <3>14, <3>15, <3>16, <3>17, <3>18 DEF Pipeline
  <2>3. CASE Operator
    BY <2>3 DEF Operator, ReloadPolicy, SetCurrentVersionOverride,
       ReconcileMetadata, ClearLayoutDivergence, service, StateFollowsPipeline
  <2>4. CASE Restart
    BY <2>4, CallersAssumption DEF Restart, StateFollowsPipeline, InsidePcs,
       WritePcs, BootPcs, BookPcs
  <2>5. CASE UNCHANGED vars
    BY <2>5 DEF vars, StateFollowsPipeline
  <2> QED
    BY <2>1, <2>2, <2>3, <2>4, <2>5 DEF Next
<1> QED
  BY <1>1, <1>2, TypeCorrect, PTL DEF Spec

-----------------------------------------------------------------------------
\* Only the task that acts is past the lock; the others keep their place.
LEMMA OthersOutside ==
    ASSUME TypeOK, StateFollowsPipeline, NEW c \in Callers, pc[c] \in InsidePcs
    PROVE  \A d \in Callers \ {c} :
              pc[d] \notin WritePcs \cup BootPcs \cup BookPcs
  BY DEF StateFollowsPipeline, InsidePcs

\* A step that leaves metadata, banks and jobs alone and takes its task to no
\* await that promises more keeps what the tasks know.
LEMMA KnowledgeKept ==
    ASSUME TypeOK, StateFollowsPipeline, JobInv, NEW c \in Callers,
           UNCHANGED <<layout, image, job>>, NEW l, Goto(c, l),
           boot' = boot \/ pc[c] \in InsidePcs,
           l \in {"probe", "commit"} => boot'.bank = job[c].target,
           \/ l \notin WritePcs \cup BootPcs \cup BookPcs
           \/ l \in {"open", "stream", "verify"} /\ pc[c] \in WritePcs
           \/ l = "finish" /\ pc[c] \in WritePcs /\ job[c].body = job[c].version
           \/ l \in BootPcs \cup BookPcs /\ pc[c] \in BootPcs \cup BookPcs
    PROVE  JobInv'
<1>1. pc'[c] = l /\ \A d \in Callers \ {c} : pc'[d] = pc[d]
  BY DEF TypeOK, Goto
<1>2. \A d \in Callers \ {c} : boot' = boot \/ pc[d] \notin {"probe", "commit"}
  BY OthersOutside DEF BootPcs
<1> QED
  BY <1>1, <1>2 DEF JobInv, WritePcs, BootPcs, BookPcs

\* A step of the task that holds the lock changes nothing another task knows.
LEMMA OthersKnow ==
    ASSUME TypeOK, StateFollowsPipeline, NEW c \in Callers, pc[c] \in InsidePcs,
           \A d \in Callers \ {c} : pc'[d] = pc[d],
           pc'[c] \in WritePcs \cup BootPcs \cup BookPcs => job'[c].version \in Versions,
           pc'[c] = "finish" => job'[c].body = job'[c].version,
           pc'[c] \in {"stage"} \cup BootPcs \cup BookPcs =>
               image'[job'[c].target] = job'[c].version,
           pc'[c] \in BootPcs \cup BookPcs =>
               layout'.slot[job'[c].target].version = job'[c].version,
           pc'[c] \in {"probe", "commit"} => boot'.bank = job'[c].target
    PROVE  JobInv'
<1>1. \A d \in Callers \ {c} : pc'[d] \notin WritePcs \cup BootPcs \cup BookPcs
  BY OthersOutside
<1> QED
  BY <1>1 DEF JobInv, WritePcs, BootPcs, BookPcs

\* What a task knows of its body and its bank stays true at each later await.
LEMMA JobStep ==
    ASSUME TypeOK, StateFollowsPipeline, JobInv, [Next]_vars
    PROVE  JobInv'
<1>1. ASSUME NEW c \in Callers, CheckDivergence(c) PROVE JobInv'
  <2>1. "checked" \notin WritePcs \cup BootPcs \cup BookPcs
    BY DEF WritePcs, BootPcs, BookPcs
  <2> QED
    BY <1>1, <2>1, KnowledgeKept DEF CheckDivergence, disk, task, BootPcs
<1>2. ASSUME NEW c \in Callers, Pipeline(c) PROVE JobInv'
  <2>1. ASSUME Erred(c) PROVE JobInv'
    <3>1. "failed" \notin WritePcs \cup BootPcs \cup BookPcs
      BY DEF WritePcs, BootPcs, BookPcs
    <3> QED
      BY <2>1, <3>1, KnowledgeKept DEF Erred, disk, task, BootPcs
  <2>2. CASE TryLock(c) \/ Refuse(c) \/ Settle(c) \/ ForceReset(c) \/ Diverge(c)
    <3>1. /\ UNCHANGED <<layout, image, boot, job>>
          /\ \E l \in {"idle", "locked", "failed"} : Goto(c, l)
      BY <2>2 DEF TryLock, Refuse, Settle, ForceReset, Diverge, Leave, disk, task
    <3> QED
      BY <3>1, KnowledgeKept DEF WritePcs, BootPcs, BookPcs
  <2>3. CASE OpenForWrite(c)
    BY <2>3, KnowledgeKept DEF OpenForWrite, disk, task, WritePcs
  <2>4. CASE VerifyBody(c)
    <3>1. /\ UNCHANGED <<layout, image, boot, job>> /\ pc[c] = "verify"
          /\ job[c].body = job[c].version
          /\ Goto(c, "finish") \/ Goto(c, "failed")
      BY <2>4 DEF VerifyBody, BodyMatches, Advance, disk, task
    <3> QED
      BY <3>1, KnowledgeKept DEF WritePcs, BootPcs, BookPcs
  <2>5. CASE SwapTo(c)
    <3>1. /\ UNCHANGED <<layout, image, job>> /\ pc[c] = "swap"
          /\ Goto(c, "probe") \/ Goto(c, "failed")
          /\ boot'.bank = job[c].target
      BY <2>5 DEF SwapTo, Advance, PendingTo
    <3> QED
      BY <3>1, KnowledgeKept DEF InsidePcs, WritePcs, BootPcs, BookPcs
  <2>6. CASE ProbeHealthy(c) \/ ProbeFails(c)
    <3>1. /\ UNCHANGED <<layout, image, boot, job>> /\ pc[c] = "probe"
          /\ \E l \in {"probe", "commit", "rollback"} : Goto(c, l)
      BY <2>6 DEF ProbeHealthy, ProbeFails, disk, task
    <3>2. boot.bank = job[c].target
      BY <3>1 DEF JobInv
    <3> QED
      BY <3>1, <3>2, KnowledgeKept DEF BootPcs
  <2>7. CASE BootCommit(c) \/ BootRollback(c) \/ RetryBookkeeping(c)
    <3>1. /\ UNCHANGED <<layout, image, job>>
          /\ pc[c] \in BootPcs \cup BookPcs
          /\ \E l \in BookPcs : Goto(c, l)
      BY <2>7 DEF BootCommit, BootRollback, RetryBookkeeping, disk, task, BootPcs, BookPcs
    <3> QED
      BY <3>1, KnowledgeKept DEF InsidePcs, BookPcs
  <2>8. CASE Admit(c)
    <3>1. PICK e \in Envelopes :
             job' = [job EXCEPT ![c] = [version |-> e.version, body |-> NoVersion,
                                        target |-> Inactive(layout)]]
      BY <2>8 DEF Admit
    <3>2. /\ job'[c].version \in Versions /\ pc'[c] = "open" /\ pc[c] = "locked"
          /\ \A d \in Callers \ {c} : pc'[d] = pc[d]
      BY <2>8, <3>1 DEF Admit, Goto, TypeOK, Envelopes
    <3> QED
      BY <3>2, OthersKnow DEF InsidePcs, WritePcs, BootPcs, BookPcs
  <2>9. CASE WriteChunk(c)
    <3>1. pc[c] = "stream" /\ pc' = pc /\ job' = job
      BY <2>9 DEF WriteChunk, task
    <3>2. job[c].version \in Versions
      BY <3>1 DEF JobInv, WritePcs
    <3> QED
      BY <3>1, <3>2, OthersKnow DEF InsidePcs, WritePcs, BootPcs, BookPcs
  <2>10. CASE Download(c)
    <3>1. PICK body \in {job[c].version, Corrupt} :
             job' = [job EXCEPT ![c].body = body]
      BY <2>10 DEF Download
    <3>2. /\ job'[c].version = job[c].version
          /\ pc'[c] \in {"verify", "failed"} /\ pc[c] = "stream"
          /\ \A d \in Callers \ {c} : pc'[d] = pc[d]
      BY <2>10, <3>1 DEF Download, Advance, Goto, TypeOK
    <3>3. job[c].version \in Versions
      BY <3>2 DEF JobInv, WritePcs
    <3> QED
      BY <3>2, <3>3, OthersKnow DEF InsidePcs, WritePcs, BootPcs, BookPcs
  <2>11. CASE Finish(c)
    <3>1. /\ pc[c] = "finish" /\ job' = job /\ pc'[c] = "stage"
          /\ \A d \in Callers \ {c} : pc'[d] = pc[d]
      BY <2>11 DEF Finish, Goto, TypeOK, task
    <3>2. /\ job[c].body = job[c].version /\ job[c].version \in Versions
          /\ job[c].target \in Banks
      BY <3>1 DEF JobInv, WritePcs, TypeOK
    <3>3. image'[job[c].target] = job[c].version
      BY <2>11, <3>2 DEF Finish, SetImage, TypeOK
    <3> QED
      BY <3>1, <3>2, <3>3, OthersKnow DEF InsidePcs, WritePcs, BootPcs, BookPcs
  <2>12. CASE StageSlot(c)
    <3>1. /\ pc[c] = "stage" /\ job' = job /\ image' = image
          /\ pc'[c] \in {"swap", "failed"}
          /\ \A d \in Callers \ {c} : pc'[d] = pc[d]
      BY <2>12 DEF StageSlot, Advance, Goto, TypeOK, task
    <3>2. /\ image[job[c].target] = job[c].version /\ job[c].version \in Versions
          /\ job[c].target \in Banks
      BY <3>1 DEF JobInv, WritePcs, TypeOK
    <3>3. layout'.slot[job[c].target].version = job[c].version
      BY <2>12, <3>2 DEF StageSlot, SetSlot, Slot, TypeOK
    <3> QED
      BY <3>1, <3>2, <3>3, OthersKnow DEF InsidePcs, WritePcs, BootPcs, BookPcs
  <2>13. CASE MarkCommitted(c) \/ MarkRolledBack(c)
    <3>1. /\ job' = job /\ image' = image /\ pc[c] \in BookPcs
          /\ \A d \in Callers \ {c} : pc'[d] = pc[d]
          /\ pc'[c] \in {"set_active", "done", "failed"}
      BY <2>13 DEF MarkCommitted, MarkRolledBack, Advance, Goto, TypeOK, task, BookPcs
    <3>2. /\ image[job[c].target] = job[c].version /\ job[c].version \in Versions
          /\ job[c].target \in Banks
      BY <3>1 DEF JobInv, TypeOK
    <3>3. layout'.slot[job[c].target].version = job[c].version
      BY <2>13, <3>2 DEF MarkCommitted, MarkRolledBack, SetSlot, Slot, TypeOK
    <3> QED
      BY <3>1, <3>2, <3>3, OthersKnow DEF InsidePcs, WritePcs, BootPcs, BookPcs
  <2>14. CASE SetActive(c)
    <3>1. /\ pc[c] = "set_active" /\ pc'[c] \in {"done", "failed"}
          /\ \A d \in Callers \ {c} : pc'[d] = pc[d]
      BY <2>14 DEF SetActive, Advance, Goto, TypeOK
    <3> QED
      BY <3>1, OthersKnow DEF InsidePcs, WritePcs, BootPcs, BookPcs
  <2> QED
    BY <1>2, <2>1, <2>2, <2>3, <2>4, <2>5, <2>6, <2>7, <2>8, <2>9, <2>10, <2>11,
       <2>12, <2>13, <2>14
       DEF Pipeline, OpenFails, DownloadFails, BodyMismatch, FinishFails, SwapFails,
           BootCommitFails, BootRollbackFails, MarkRolledBackFails
<1>3. CASE ReconcileMetadata
  <2>1. \A b \in Banks : layout'.slot[b] = IF b = boot.bank
                                           THEN Slot("Committed", image[b])
                                           ELSE layout.slot[b]
    BY <1>3 DEF ReconcileMetadata, TypeOK
  <2>2. UNCHANGED <<image, boot, pc, job>> /\ \A c \in Callers : job[c].target \in Banks
    BY <1>3 DEF ReconcileMetadata, task, TypeOK
  <2>3. ASSUME NEW c \in Callers, pc[c] \in BootPcs \cup BookPcs
        PROVE  layout'.slot[job[c].target].version = job[c].version
    <3>1. /\ image[job[c].target] = job[c].version
          /\ layout.slot[job[c].target].version = job[c].version
      BY <2>3 DEF JobInv
    <3>2. CASE job[c].target = boot.bank
      <4>1. layout'.slot[job[c].target] = Slot("Committed", image[job[c].target])
        BY <2>1, <2>2, <3>2
      <4> QED
        BY <3>1, <4>1 DEF Slot
    <3>3. CASE job[c].target # boot.bank
      BY <2>1, <2>2, <3>1, <3>3
    <3> QED
      BY <3>2, <3>3
  <2> QED
    BY <2>2, <2>3 DEF JobInv
<1>4. CASE \/ ReloadPolicy \/ SetCurrentVersionOverride \/ ClearLayoutDivergence
           \/ UNCHANGED vars
  <2>1. UNCHANGED <<layout, image, boot, pc, job>>
    BY <1>4 DEF ReloadPolicy, SetCurrentVersionOverride, ClearLayoutDivergence,
       vars, disk, task
  <2> QED
    BY <2>1 DEF JobInv
<1>5. CASE Restart
  BY <1>5 DEF Restart, JobInv, WritePcs, BootPcs, BookPcs
<1> QED
  BY <1>1, <1>2, <1>3, <1>4, <1>5 DEF Next, Operator

\* JobInv holds from the start.
LEMMA JobsKnown == Spec => []JobInv
<1>1. Init => JobInv
  BY DEF Init, JobInv, WritePcs, BootPcs, BookPcs
<1>2. TypeOK /\ StateFollowsPipeline /\ JobInv /\ [Next]_vars => JobInv'
  BY JobStep
<1> QED
  BY <1>1, <1>2, TypeCorrect, PipelineExclusive, PTL DEF Spec

\* Only verified images are booted: for any number of tasks, versions and
\* faults, restarts and half-written banks included, a bank that an install
\* starts or commits holds the image its signed manifest names, and the
\* metadata records it under that version.
THEOREM BootsAuthentic == Spec => OnlyVerifiedBoots
<1>1. TypeOK /\ JobInv /\ [Next]_vars =>
        [\A c \in Callers : SwapTo(c) \/ BootCommit(c) =>
            /\ image[boot'.bank] = job[c].version
            /\ layout.slot[boot'.bank].version = job[c].version]_vars
  <2> SUFFICES ASSUME TypeOK, JobInv, NEW c \in Callers, SwapTo(c) \/ BootCommit(c)
               PROVE  /\ image[boot'.bank] = job[c].version
                      /\ layout.slot[boot'.bank].version = job[c].version
    OBVIOUS
  <2>1. boot'.bank = job[c].target /\ pc[c] \in BootPcs
    BY DEF SwapTo, BootCommit, PendingTo, CommittedTo, JobInv, BootPcs
  <2> QED
    BY <2>1 DEF JobInv
<1> QED
  BY <1>1, TypeCorrect, JobsKnown, PTL DEF Spec, OnlyVerifiedBoots

-----------------------------------------------------------------------------
\* With a single poll loop the bootloader is always where the await of that
\* loop says: the fact the two safety theorems below rest on.
LEMMA AgreementStep ==
    ASSUME SinglePoller, TypeOK, StateFollowsPipeline, AgreementInv, [Next]_vars
    PROVE  AgreementInv'
<1> USE DEF Settled, Inactive
<1>1. PICK c \in Callers : Callers = {c}
  BY DEF SinglePoller
<1>2. ~CommitFaults /\ MaxRestarts = 0
  BY DEF SinglePoller
<1>3. /\ job[c].target \in Banks /\ layout.active \in Banks /\ boot.bank \in Banks
      /\ boot.previous \in Banks
      /\ Other(layout.active) \in Banks /\ Other(layout.active) # layout.active
  BY OtherBank DEF TypeOK
<1>4. CASE CheckDivergence(c)
  <2>1. pc'[c] = "checked" /\ UNCHANGED <<layout, boot, diverged, job>> /\ ~diverged
        /\ pc[c] = "idle"
    BY <1>4 DEF CheckDivergence, MayEnter, Goto, TypeOK, disk, service, task
  <2> QED
    BY <1>1, <2>1 DEF AgreementInv, WritePcs, BootPcs, BookPcs
<1>5. CASE Pipeline(c)
  <2> USE DEF WritePcs, BootPcs, BookPcs, disk, service, task, Leave, Goto, TypeOK
  <2>1. ASSUME Erred(c), pc[c] \in WritePcs \cup {"swap", "mark_rolled_back"}
        PROVE  AgreementInv'
    <3>1. pc'[c] = "failed" /\ UNCHANGED <<layout, boot, diverged, job>>
      BY <2>1 DEF Erred
    <3> QED
      BY <1>1, <2>1, <3>1 DEF AgreementInv
  <2>2. CASE \/ TryLock(c) \/ Refuse(c) \/ OpenForWrite(c) \/ WriteChunk(c)
             \/ VerifyBody(c) \/ Finish(c)
    <3>1. /\ UNCHANGED <<layout, boot, diverged, job>>
          /\ pc[c] \in {"checked", "locked"} \cup WritePcs
          /\ pc'[c] \in {"idle", "locked", "failed"} \cup WritePcs
          /\ pc'[c] \in WritePcs => pc[c] \in WritePcs
      BY <2>2 DEF TryLock, Refuse, OpenForWrite, WriteChunk, VerifyBody, Finish, Advance
    <3> QED
      BY <1>1, <3>1 DEF AgreementInv
  <2>3. CASE Admit(c)
    <3>1. /\ UNCHANGED <<layout, boot, diverged>> /\ pc[c] = "locked"
          /\ pc'[c] = "open" /\ job'[c].target = Other(layout.active)
      BY <2>3 DEF Admit
    <3> QED
      BY <1>1, <3>1 DEF AgreementInv
  <2>4. CASE Download(c)
    <3>1. /\ UNCHANGED <<layout, boot, diverged>> /\ pc[c] = "stream"
          /\ pc'[c] \in {"verify", "failed"} /\ job'[c].target = job[c].target
      BY <2>4 DEF Download, Advance
    <3> QED
      BY <1>1, <3>1 DEF AgreementInv
  <2>5. CASE StageSlot(c)
    <3>1. /\ UNCHANGED <<boot, diverged, job>> /\ pc[c] = "stage"
          /\ pc'[c] \in {"swap", "failed"} /\ layout'.active = layout.active
          /\ job[c].target # layout.active
                => layout'.slot[layout.active] = layout.slot[layout.active]
      BY <2>5, <1>3 DEF StageSlot, Advance, SetSlot
    <3>2. job[c].target # layout.active
      BY <1>3, <3>1 DEF AgreementInv
    <3> QED
      BY <1>1, <3>1, <3>2 DEF AgreementInv
  <2>6. CASE SwapTo(c)
    <3>1. /\ UNCHANGED <<layout, diverged, job>> /\ pc[c] = "swap"
          /\ boot' = PendingTo(job[c].target, boot.bank)
          /\ Advance(c, "Rebooting", "HealthChecking", "probe")
      BY <2>6 DEF SwapTo
    <3>2. pc'[c] = "probe"
      <4>1. state = "Rebooting"
        BY <3>1, AwaitingSwap
      <4>2. MayTransition("Rebooting", "HealthChecking")
        BY <4>1 DEF MayTransition, LegalSuccessors, States
      <4>3. pc' = [pc EXCEPT ![c] = "probe"]
        BY <3>1, <4>2 DEF Advance
      <4> QED
        BY <4>3
    <3>3. ~diverged /\ boot.bank = layout.active
      BY <3>1 DEF AgreementInv, CommittedTo
    <3> QED
      BY <1>1, <3>1, <3>2, <3>3 DEF AgreementInv
  <2>7. CASE ProbeHealthy(c) \/ ProbeFails(c)
    <3>1. /\ UNCHANGED <<layout, boot, diverged, job>> /\ pc[c] = "probe"
          /\ pc'[c] \in {"probe", "commit", "rollback"}
      BY <2>7 DEF ProbeHealthy, ProbeFails
    <3> QED
      BY <1>1, <3>1 DEF AgreementInv
  <2>8. CASE BootCommit(c)
    <3>1. /\ UNCHANGED <<layout, diverged, job>> /\ pc[c] = "commit"
          /\ pc'[c] = "mark_committed" /\ boot' = CommittedTo(boot.bank)
      BY <2>8 DEF BootCommit
    <3>2. ~diverged /\ boot.bank = job[c].target
      BY <3>1 DEF AgreementInv, PendingTo
    <3> QED
      BY <1>1, <3>1, <3>2 DEF AgreementInv
  <2>9. CASE BootRollback(c)
    <3>1. /\ UNCHANGED <<layout, diverged, job>> /\ pc[c] = "rollback"
          /\ pc'[c] = "mark_rolled_back" /\ boot' = CommittedTo(boot.previous)
      BY <2>9 DEF BootRollback
    <3>2. ~diverged /\ boot.previous = layout.active
      BY <3>1 DEF AgreementInv, PendingTo
    <3> QED
      BY <1>1, <3>1, <3>2 DEF AgreementInv
  <2>10. CASE BootCommitFails(c) \/ BootRollbackFails(c)
    BY <2>10, <1>2 DEF BootCommitFails, BootRollbackFails, AgreementInv, PendingTo
  <2>11. CASE MarkCommitted(c)
    <3>1. /\ UNCHANGED <<boot, diverged, job>> /\ pc[c] = "mark_committed"
          /\ pc'[c] = "set_active" /\ layout'.active = layout.active
          /\ layout'.slot[job[c].target].kind = "Committed"
      BY <2>11, <1>3 DEF MarkCommitted, SetSlot, Slot
    <3> QED
      BY <1>1, <3>1 DEF AgreementInv
  <2>12. CASE SetActive(c)
    <3>1. /\ UNCHANGED <<boot, diverged, job>> /\ pc[c] = "set_active"
          /\ layout'.active = job[c].target /\ layout'.slot = layout.slot
          /\ Advance(c, "HealthChecking", "Committed", "done")
      BY <2>12 DEF SetActive
    <3>2. pc'[c] = "done"
      <4>1. state = "HealthChecking"
        BY <3>1, CheckingHealth
      <4>2. MayTransition("HealthChecking", "Committed")
        BY <4>1 DEF MayTransition, LegalSuccessors, States
      <4>3. pc' = [pc EXCEPT ![c] = "done"]
        BY <3>1, <4>2 DEF Advance, Goto
      <4> QED
        BY <4>3 DEF TypeOK
    <3> QED
      BY <1>1, <3>1, <3>2 DEF AgreementInv
  <2>13. CASE RetryBookkeeping(c)
    <3>1. /\ UNCHANGED <<layout, boot, diverged, job>>
          /\ pc[c] \in {"mark_committed", "set_active"} /\ pc'[c] = "mark_committed"
      BY <2>13 DEF RetryBookkeeping
    <3> QED
      BY <1>1, <3>1 DEF AgreementInv
  <2>14. CASE Diverge(c)
    <3>1. /\ UNCHANGED <<layout, boot, job>> /\ diverged' = TRUE
          /\ pc[c] \in {"mark_committed", "set_active"} /\ pc'[c] = "failed"
      BY <2>14 DEF Diverge
    <3>2. boot = CommittedTo(job[c].target) /\ job[c].target # layout.active
      BY <1>3, <3>1 DEF AgreementInv
    <3> QED
      BY <1>1, <3>1, <3>2 DEF AgreementInv, CommittedTo
  <2>15. CASE MarkRolledBack(c)
    <3>1. /\ UNCHANGED <<boot, diverged, job>> /\ pc[c] = "mark_rolled_back"
          /\ pc'[c] \in {"done", "failed"} /\ layout'.active = layout.active
          /\ job[c].target # layout.active
                => layout'.slot[layout.active] = layout.slot[layout.active]
      BY <2>15, <1>3 DEF MarkRolledBack, Advance, SetSlot
    <3>2. job[c].target # layout.active
      BY <1>3, <3>1 DEF AgreementInv
    <3> QED
      BY <1>1, <3>1, <3>2 DEF AgreementInv
  <2>16. CASE Settle(c) \/ ForceReset(c)
    <3>1. /\ UNCHANGED <<layout, boot, diverged, job>>
          /\ pc[c] \in {"done", "failed"} /\ pc'[c] = "idle"
      BY <2>16 DEF Settle, ForceReset
    <3> QED
      BY <1>1, <3>1 DEF AgreementInv
  <2> QED
    BY <1>5, <2>1, <2>2, <2>3, <2>4, <2>5, <2>6, <2>7, <2>8, <2>9, <2>10, <2>11,
       <2>12, <2>13, <2>14, <2>15, <2>16
       DEF Pipeline, OpenFails, DownloadFails, BodyMismatch, FinishFails, SwapFails,
           MarkRolledBackFails
<1>6. CASE ReloadPolicy \/ SetCurrentVersionOverride \/ UNCHANGED vars
  <2>1. UNCHANGED <<layout, boot, diverged, job, pc>>
    BY <1>6 DEF ReloadPolicy, SetCurrentVersionOverride, vars, disk, task
  <2> QED
    BY <2>1 DEF AgreementInv
<1>7. CASE ReconcileMetadata
  <2>1. /\ UNCHANGED <<boot, diverged, job, pc>> /\ diverged
        /\ layout'.active = boot.bank
        /\ layout'.slot[boot.bank].kind = "Committed"
    BY <1>3, <1>7 DEF ReconcileMetadata, service, task, Slot, TypeOK
  <2> QED
    BY <1>1, <2>1 DEF AgreementInv, WritePcs, BootPcs, BookPcs
<1>8. CASE LayoutAgrees /\ ClearLayoutDivergence
  <2>1. /\ UNCHANGED <<layout, boot, job, pc>> /\ ~diverged'
        /\ layout.active = boot.bank
    BY <1>8 DEF ClearLayoutDivergence, LayoutAgrees, disk, task
  <2>2. CASE diverged
    BY <1>1, <2>1, <2>2 DEF AgreementInv, WritePcs, BootPcs, BookPcs
  <2>3. CASE ~diverged
    BY <1>1, <2>1, <2>3 DEF AgreementInv
  <2> QED
    BY <2>2, <2>3
<1>9. ~Restart
  BY <1>2 DEF Restart, TypeOK
<1> QED
  BY <1>1, <1>4, <1>5, <1>6, <1>7, <1>8, <1>9 DEF Next, Operator

\* With one poll loop and a bootloader that does its work, no install ever
\* writes the bank that runs, and an engine at rest that reports no
\* divergence has metadata and bootloader in agreement.
THEOREM RunningImageSafe ==
    SinglePoller => (Spec => [](WriterAvoidsBootBank /\ QuiescentAgreement))
<1> SUFFICES ASSUME SinglePoller PROVE Spec => [](WriterAvoidsBootBank /\ QuiescentAgreement)
  OBVIOUS
<1>1. Init => AgreementInv
  <2> SUFFICES ASSUME Init PROVE AgreementInv
    OBVIOUS
  <2>1. /\ layout.active = "A" /\ boot = CommittedTo("A") /\ ~diverged
        /\ \A c \in Callers : pc[c] = "idle"
    BY DEF Init
  <2>2. layout.slot["A"].kind \in {"Committed", "Empty"}
    BY DEF Init, Slot, Banks
  <2> QED
    BY <2>1, <2>2 DEF AgreementInv, Settled, WritePcs, BootPcs, BookPcs
<1>2. TypeOK /\ StateFollowsPipeline /\ AgreementInv /\ [Next]_vars => AgreementInv'
  BY AgreementStep
<1>3. TypeOK /\ StateFollowsPipeline /\ AgreementInv
        => WriterAvoidsBootBank /\ QuiescentAgreement
  <2> SUFFICES ASSUME TypeOK, StateFollowsPipeline, AgreementInv
               PROVE  WriterAvoidsBootBank /\ QuiescentAgreement
    OBVIOUS
  <2>1. WriterAvoidsBootBank
    <3> SUFFICES ASSUME NEW c \in Callers, pc[c] \in WritePcs
                 PROVE  job[c].target # boot.bank
      BY DEF WriterAvoidsBootBank
    <3>1. job[c].target = Other(layout.active) /\ boot.bank = layout.active
      BY DEF AgreementInv, Settled, CommittedTo, Inactive, WritePcs
    <3> QED
      BY <3>1, OtherBank DEF TypeOK
  <2>2. QuiescentAgreement
    <3> SUFFICES ASSUME lock = NoCaller, ~diverged
                 PROVE  /\ ~boot.pending
                        /\ layout.active = boot.bank
                        /\ layout.slot[boot.bank].kind \in {"Committed", "Empty"}
      BY DEF QuiescentAgreement
    <3>1. PICK c \in Callers : Callers = {c}
      BY DEF SinglePoller
    <3>2. pc[c] \notin InsidePcs
      BY CallersAssumption DEF StateFollowsPipeline
    <3>3. Settled
      BY <3>2 DEF AgreementInv, InsidePcs, BootPcs, BookPcs
    <3> QED
      BY <3>3 DEF Settled, CommittedTo
  <2> QED
    BY <2>1, <2>2
<1> QED
  BY <1>1, <1>2, <1>3, TypeCorrect, PipelineExclusive, PTL DEF Spec

\* The second half on its own: whenever no install is under way and no
\* divergence is reported (divergence_detected), the active bank of the
\* metadata is the one the bootloader starts, and no swap is pending.
THEOREM RestAgrees == SinglePoller => (Spec => []QuiescentAgreement)
<1> SUFFICES ASSUME SinglePoller PROVE Spec => []QuiescentAgreement
  OBVIOUS
<1>1. Spec => [](WriterAvoidsBootBank /\ QuiescentAgreement)
  BY RunningImageSafe
<1> QED
  BY <1>1, PTL

-----------------------------------------------------------------------------
\* Without a version override the verifier's anchor is the version that
\* runs, and every version on its way in is newer than it.
LEMMA VersionStep ==
    ASSUME SinglePoller, Overrides = {NoVersion}, TypeOK, StateFollowsPipeline,
           JobInv, AgreementInv, VersionInv, [Next]_vars
    PROVE  VersionInv'
<1> USE DEF ActiveVersion
<1>1. PICK c \in Callers : Callers = {c}
  BY DEF SinglePoller
<1>2. /\ job[c].target \in Banks /\ layout.active \in Banks /\ boot.bank \in Banks
      /\ Other(layout.active) # layout.active
  BY OtherBank DEF TypeOK
<1>3. ASSUME UNCHANGED <<layout, image, job, override>>,
             pc'[c] \in WritePcs \cup BootPcs => pc[c] \in WritePcs \cup BootPcs
      PROVE  VersionInv'
  BY <1>1, <1>3 DEF VersionInv
<1>4. CASE CheckDivergence(c)
  BY <1>3, <1>4 DEF CheckDivergence, Goto, TypeOK, disk, service, task, WritePcs, BootPcs
<1>5. CASE Pipeline(c)
  <2> USE DEF WritePcs, BootPcs, BookPcs, disk, service, task, Leave, Goto, TypeOK
  <2>1. CASE Erred(c)
    BY <1>3, <2>1 DEF Erred
  <2>2. CASE \/ TryLock(c) \/ Refuse(c) \/ OpenForWrite(c) \/ VerifyBody(c) \/ SwapTo(c)
             \/ ProbeHealthy(c) \/ ProbeFails(c) \/ BootCommit(c) \/ BootRollback(c)
             \/ RetryBookkeeping(c) \/ Diverge(c) \/ Settle(c) \/ ForceReset(c)
    <3>1. UNCHANGED <<layout, image, job, override>>
      BY <2>2 DEF TryLock, Refuse, OpenForWrite, VerifyBody, SwapTo, ProbeHealthy,
         ProbeFails, BootCommit, BootRollback, RetryBookkeeping, Diverge, Settle,
         ForceReset
    <3>2. pc'[c] \in WritePcs \cup BootPcs => pc[c] \in WritePcs \cup BootPcs
      BY <2>2 DEF TryLock, Refuse, OpenForWrite, VerifyBody, SwapTo, ProbeHealthy,
         ProbeFails, BootCommit, BootRollback, RetryBookkeeping, Diverge, Settle,
         ForceReset, Advance
    <3> QED
      BY <1>3, <3>1, <3>2
  <2>3. CASE Admit(c)
    <3>1. /\ UNCHANGED <<layout, image, override>> /\ pc'[c] = "open"
          /\ job'[c].version \in Versions
          /\ Newer(job'[c].version, CurrentVersion)
      BY <2>3 DEF Admit, Verified, Envelopes
    <3>2. CurrentVersion = image[layout.active]
      BY DEF VersionInv, CurrentVersion
    <3>3. job'[c].version > image[layout.active]
      BY <3>1, <3>2, BytesAreNumbers DEF Newer, NoVersion
    <3> QED
      BY <1>1, <3>1, <3>3 DEF VersionInv
  <2>4. CASE Download(c)
    <3>1. /\ UNCHANGED <<layout, override>> /\ pc[c] = "stream"
          /\ job'[c].version = job[c].version
      BY <2>4 DEF Download
    <3>2. job[c].target # layout.active
      BY <1>2, <3>1 DEF AgreementInv, Inactive
    <3>3. image'[layout.active] = image[layout.active]
      BY <1>2, <2>4, <3>2 DEF Download, SetImage
    <3> QED
      BY <1>1, <3>1, <3>3 DEF VersionInv
  <2>5. CASE WriteChunk(c) \/ Finish(c) \/ StageSlot(c)
    <3>1. job[c].target # layout.active /\ pc[c] \in WritePcs
      BY <1>2, <2>5 DEF WriteChunk, Finish, StageSlot, AgreementInv, Inactive
    <3>2. /\ UNCHANGED <<job, override>> /\ layout'.active = layout.active
          /\ layout'.slot[layout.active] = layout.slot[layout.active]
          /\ image'[layout.active] = image[layout.active]
      BY <1>2, <2>5, <3>1 DEF WriteChunk, Finish, StageSlot, SetSlot, SetImage
    <3> QED
      BY <1>1, <3>1, <3>2 DEF VersionInv
  <2>6. CASE MarkCommitted(c) \/ MarkRolledBack(c)
    <3>1. job[c].target # layout.active /\ pc'[c] \notin WritePcs \cup BootPcs
      BY <1>2, <2>6 DEF MarkCommitted, MarkRolledBack, AgreementInv, Inactive, Advance
    <3>2. /\ UNCHANGED <<image, override>> /\ layout'.active = layout.active
          /\ layout'.slot[layout.active] = layout.slot[layout.active]
      BY <1>2, <2>6, <3>1 DEF MarkCommitted, MarkRolledBack, SetSlot
    <3> QED
      BY <1>1, <3>1, <3>2 DEF VersionInv
  <2>7. CASE SetActive(c)
    <3>1. /\ layout.slot[job[c].target].version = image[job[c].target]
          /\ pc'[c] \notin WritePcs \cup BootPcs
      BY <2>7 DEF SetActive, JobInv, Advance
    <3>2. /\ UNCHANGED <<image, override>> /\ layout'.active = job[c].target
          /\ layout'.slot = layout.slot
      BY <2>7 DEF SetActive
    <3> QED
      BY <1>1, <3>1, <3>2 DEF VersionInv
  <2> QED
    BY <1>5, <2>1, <2>2, <2>3, <2>4, <2>5, <2>6, <2>7
       DEF Pipeline, OpenFails, DownloadFails, BodyMismatch, FinishFails, SwapFails,
           BootCommitFails, BootRollbackFails, MarkRolledBackFails
<1>6. CASE ReloadPolicy \/ SetCurrentVersionOverride \/ ClearLayoutDivergence
           \/ UNCHANGED vars
  <2>1. UNCHANGED <<layout, image, job, pc>> /\ override' = NoVersion
    BY <1>6 DEF ReloadPolicy, SetCurrentVersionOverride, ClearLayoutDivergence, vars,
       disk, task, VersionInv
  <2> QED
    BY <1>1, <2>1 DEF VersionInv
<1>7. CASE ReconcileMetadata
  <2>1. /\ UNCHANGED <<image, override, pc>>
        /\ layout'.slot[layout'.active].version = image[layout'.active]
    BY <1>2, <1>7 DEF ReconcileMetadata, service, Slot, TypeOK
  <2>2. pc[c] \notin WritePcs \cup BootPcs
    BY <1>7 DEF ReconcileMetadata, AgreementInv, WritePcs, BootPcs
  <2> QED
    BY <1>1, <2>1, <2>2 DEF VersionInv
<1>8. ~Restart
  BY DEF Restart, TypeOK, SinglePoller
<1> QED
  BY <1>1, <1>4, <1>5, <1>6, <1>7, <1>8 DEF Next, Operator

\* No downgrade and no lost fallback: with one poll loop and no version
\* override, the image the appliance would fall back to is never overwritten
\* and a commit only ever moves it to a newer version.
THEOREM NoDowngrade ==
    SinglePoller /\ Overrides = {NoVersion} => (Spec => FallbackOnlyAdvances)
<1> SUFFICES ASSUME SinglePoller, Overrides = {NoVersion} PROVE Spec => FallbackOnlyAdvances
  OBVIOUS
<1> DEFINE Inv == /\ TypeOK /\ StateFollowsPipeline /\ JobInv
                  /\ AgreementInv /\ VersionInv
<1>1. Init => AgreementInv /\ VersionInv
  <2> SUFFICES ASSUME Init PROVE AgreementInv /\ VersionInv
    OBVIOUS
  <2>1. /\ layout.active = "A" /\ boot = CommittedTo("A") /\ ~diverged
        /\ \A c \in Callers : pc[c] = "idle"
    BY DEF Init
  <2>2. layout.slot["A"].kind \in {"Committed", "Empty"}
    BY DEF Init, Slot, Banks
  <2>3. layout.slot["A"].version = image["A"] /\ override = NoVersion
    BY DEF Init, Slot, Banks
  <2> QED
    BY <2>1, <2>2, <2>3
       DEF AgreementInv, VersionInv, ActiveVersion, Settled, WritePcs, BootPcs, BookPcs
<1>2. Inv /\ [Next]_vars => AgreementInv' /\ VersionInv'
  BY AgreementStep, VersionStep
<1>3. Inv /\ [Next]_vars => [image'[boot'.previous] >= image[boot.previous]]_vars
  <2> SUFFICES ASSUME Inv, Next
               PROVE  image'[boot'.previous] >= image[boot.previous]
    OBVIOUS
  <2>1. PICK c \in Callers : Callers = {c}
    BY DEF SinglePoller
  <2>2. /\ boot.previous \in Banks /\ image[boot.previous] \in Int
        /\ Other(layout.active) # layout.active
    BY BytesAreNumbers, OtherBank DEF TypeOK
  <2>3. ASSUME UNCHANGED <<image, boot>>
        PROVE  image'[boot'.previous] >= image[boot.previous]
    BY <2>2, <2>3
  <2>4. CASE WriteChunk(c) \/ Download(c) \/ Finish(c)
    <3>1. pc[c] \in {"stream", "finish"} /\ boot' = boot
      BY <2>4 DEF WriteChunk, Download, Finish
    <3>2. job[c].target # boot.previous
      BY <2>2, <3>1 DEF AgreementInv, Settled, CommittedTo, Inactive, WritePcs
    <3>3. image'[boot.previous] = image[boot.previous]
      BY <2>2, <2>4, <3>2 DEF WriteChunk, Download, Finish, SetImage, TypeOK
    <3> QED
      BY <2>2, <3>1, <3>3
  <2>5. CASE SwapTo(c)
    <3>1. boot.bank = boot.previous
      BY <2>5 DEF SwapTo, AgreementInv, Settled, CommittedTo
    <3> QED
      BY <2>2, <2>5, <3>1 DEF SwapTo, PendingTo
  <2>6. CASE BootCommit(c)
    <3>1. /\ boot = PendingTo(job[c].target, layout.active)
          /\ image[job[c].target] = job[c].version
          /\ job[c].version > image[layout.active]
      BY <2>6 DEF BootCommit, AgreementInv, JobInv, VersionInv, BootPcs
    <3>2. boot.previous = layout.active /\ boot'.previous = job[c].target /\ image' = image
      BY <2>6, <3>1 DEF BootCommit, PendingTo, CommittedTo
    <3>3. job[c].version \in Int
      BY BytesAreNumbers DEF TypeOK, Bytes
    <3> QED
      BY <2>2, <3>1, <3>2, <3>3
  <2>7. CASE BootRollback(c)
    BY <2>2, <2>7 DEF BootRollback, CommittedTo
  <2> QED
    BY <2>1, <2>3, <2>4, <2>5, <2>6, <2>7
       DEF Next, Operator, Pipeline, CheckDivergence, TryLock, Admit, Refuse,
           OpenForWrite, OpenFails, DownloadFails, VerifyBody, BodyMismatch,
           StageSlot, FinishFails, SwapFails, ProbeHealthy, ProbeFails, BootCommitFails,
           BootRollbackFails, MarkCommitted, SetActive, RetryBookkeeping, Diverge,
           MarkRolledBack, MarkRolledBackFails, Settle, ForceReset, ReloadPolicy,
           SetCurrentVersionOverride, ReconcileMetadata, ClearLayoutDivergence, Restart,
           Erred, disk
<1> QED
  BY <1>1, <1>2, <1>3, TypeCorrect, PipelineExclusive, JobsKnown, PTL
     DEF Spec, FallbackOnlyAdvances
=============================================================================
