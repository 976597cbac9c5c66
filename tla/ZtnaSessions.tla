---------------------------- MODULE ZtnaSessions ----------------------------
(* Continuous access: sng-ztna's session tracker between the producer that  *)
(* opens and closes sessions, the periodic re-evaluation sweep and the      *)
(* out-of-cycle re-evaluation of a device.  Each of them reads, evaluates   *)
(* without the shard lock, and then acts on what may no longer be there.    *)
EXTENDS Naturals, FiniteSets, Functions

CONSTANTS
    ZtSessions,     \* session ids; each is the only one of its shard
    ZtDevices,
    ProofMaxAge,    \* mfa_max_age_ms, device_posture_max_age_ms
    ZtClockMax,     \* bound on the clock
    ZtGrantsMax,    \* bound on the open_session calls of one session
    RevokedCapacity \* REVOCATION_CHANNEL_CAPACITY

ASSUME ZtnaSessionsAssumption ==
    /\ ProofMaxAge \in Nat /\ ZtClockMax \in Nat
    /\ ZtGrantsMax \in Nat \ {0} /\ RevokedCapacity \in Nat \ {0}

VARIABLES
    ztNow,      \* the wall clock
    ztRefused,  \* devices the providers now refuse: revoked, not enrolled, unfit
    ztProof,    \* when each device (and its user) last proved itself
    ztGrants,   \* Shard.grants: session to grant
    ztIndex,    \* Shard.by_device: device to sessions
    ztOpen,     \* per session: the open_session call under way
    ztCalls,    \* history: open_session calls of each session so far
    ztSweep,    \* the periodic sweep under way
    ztPush,     \* the reevaluate_device under way
    ztChannel,  \* how many SessionRevoked events wait for the drain task
    ztOwed      \* history: the sessions the sweep and the push have to revoke

ztnaVars == <<ztNow, ztRefused, ztProof, ztGrants, ztIndex, ztOpen, ztCalls, ztSweep,
              ztPush, ztChannel, ztOwed>>

NotOpening == [pc |-> "none"]

\* A loop under way: the time it was given, the shards it has yet to lock, the
\* clones it has taken and the verdict it is about to act on.
NotReevaluating == [on |-> FALSE]
Reevaluating(d) == [on |-> TRUE, of |-> d, now |-> ztNow, todo |-> ZtSessions, clones |-> {}, judged |-> {}]

ZtnaInit ==
    /\ ztNow = 0 /\ ztRefused = {} /\ ztProof = [d \in ZtDevices |-> 0]
    /\ ztGrants = <<>> /\ ztIndex = [d \in ZtDevices |-> {}]
    /\ ztOpen = [s \in ZtSessions |-> NotOpening] /\ ztCalls = [s \in ZtSessions |-> 0]
    /\ ztSweep = NotReevaluating /\ ztPush = NotReevaluating
    /\ ztChannel = 0 /\ ztOwed = [sweep |-> {}, push |-> {}]

Environment == <<ztNow, ztRefused, ztProof>>

-----------------------------------------------------------------------------
(* The decision and the tracker. *)

AllowedMutant(d, now) == now <= ztProof[d] + ProofMaxAge

\* evaluate_reported and evaluate_policy: nothing refuses the device, and its
\* proofs are fresh; a clock behind the proof counts as fresh.
Allowed(d, now) == d \notin ztRefused /\ now <= ztProof[d] + ProofMaxAge

Tracked(s) == s \in DOMAIN ztGrants

OwedWithout(S) == [loop \in {"sweep", "push"} |-> ztOwed[loop] \ S]

\* deindex takes the session from the set of the device it was on.
Deindexed(s) == IF Tracked(s) THEN [ztIndex EXCEPT ![ztGrants[s].device] = @ \ {s}] ELSE ztIndex

RecordMutant(s, g) ==
    /\ ztGrants' = [t \in DOMAIN ztGrants \cup {s} |-> IF t = s THEN g ELSE ztGrants[t]]
    /\ ztIndex' = [ztIndex EXCEPT ![g.device] = @ \cup {s}]
    /\ ztOwed' = OwedWithout({s})

\* Shard::insert moves the session to its new device in the index.
Record(s, g) ==
    /\ ztGrants' = [t \in DOMAIN ztGrants \cup {s} |-> IF t = s THEN g ELSE ztGrants[t]]
    /\ ztIndex' = [Deindexed(s) EXCEPT ![g.device] = @ \cup {s}]
    /\ ztOwed' = OwedWithout({s})

Untrack(s) ==
    /\ ztGrants' = Restrict(ztGrants, DOMAIN ztGrants \ {s})
    /\ ztIndex' = Deindexed(s)
    /\ ztOwed' = OwedWithout({s})

-----------------------------------------------------------------------------
(* The producer. *)

\* open_session evaluates the request; its time stamps the grant.  Callers of
\* one session id come one at a time.
OpenSession(s, d) ==
    /\ ztOpen[s] = NotOpening
    /\ ztCalls[s] < ZtGrantsMax /\ ztCalls' = [ztCalls EXCEPT ![s] = @ + 1]
    /\ ztOpen' = [ztOpen EXCEPT ![s] =
            [pc |-> IF Allowed(d, ztNow) THEN "record" ELSE "evict",
             grant |-> [device |-> d, at |-> ztNow]]]
    /\ UNCHANGED <<Environment, ztGrants, ztIndex, ztSweep, ztPush, ztChannel, ztOwed>>

\* An allow is recorded, a deny evicts what was there.
OpenActs(s) ==
    /\ ztOpen[s] # NotOpening
    /\ IF ztOpen[s].pc = "record" THEN Record(s, ztOpen[s].grant) ELSE Untrack(s)
    /\ ztOpen' = [ztOpen EXCEPT ![s] = NotOpening]
    /\ UNCHANGED <<Environment, ztCalls, ztSweep, ztPush, ztChannel>>

CloseSession(s) ==
    /\ Tracked(s) /\ Untrack(s)
    /\ UNCHANGED <<Environment, ztCalls, ztOpen, ztSweep, ztPush, ztChannel>>

-----------------------------------------------------------------------------
(* Re-evaluation.  The sweep clones a shard and judges its grants before it  *)
(* goes on to the next; a push clones all grants of its device first.  Both  *)
(* judge the clones without a lock, at the time they were called with.       *)

Clone(s) == [session |-> s, device |-> ztGrants[s].device, at |-> ztGrants[s].at]

Cloned(loop, s) ==
    [loop EXCEPT !.todo = @ \ {s},
                 !.clones = @ \cup (IF loop.of = "all" THEN {Clone(t) : t \in {s} \cap DOMAIN ztGrants}
                                   ELSE {Clone(t) : t \in {s} \cap ztIndex[loop.of] \cap DOMAIN ztGrants})]

JudgedMutant(loop, g) ==
    [loop EXCEPT !.clones = @ \ {g}, !.judged = {[grant |-> g, deny |-> ~Allowed(g.device, g.at)]}]

Judged(loop, g) ==
    [loop EXCEPT !.clones = @ \ {g}, !.judged = {[grant |-> g, deny |-> ~Allowed(g.device, loop.now)]}]

\* The grant is still the one that was evaluated, as far as its stamp tells.
Unchanged(g) == Tracked(g.session) /\ ztGrants[g.session].at = g.at

\* A saturated channel drops the event, not the removal.
Revoke(g) ==
    /\ Untrack(g.session)
    /\ ztChannel' = IF ztChannel < RevokedCapacity THEN ztChannel + 1 ELSE ztChannel

ProcessGrant(loop) ==
    \E v \in loop.judged :
        IF v.deny /\ Unchanged(v.grant) THEN Revoke(v.grant)
        ELSE UNCHANGED <<ztGrants, ztIndex, ztChannel, ztOwed>>

Finished(loop) == loop.on /\ loop.todo = {} /\ loop.clones = {} /\ loop.judged = {}

Tracker == <<Environment, ztCalls, ztGrants, ztIndex, ztOpen, ztChannel>>

\* The tracked sessions of D that a request at this time would be denied.
Denied(D) == {s \in DOMAIN ztGrants : ztGrants[s].device \in D /\ ~Allowed(ztGrants[s].device, ztNow)}

SweepBegins ==
    /\ ~ztSweep.on /\ ztSweep' = Reevaluating("all")
    /\ ztOwed' = [ztOwed EXCEPT !.sweep = Denied(ZtDevices)]
    /\ UNCHANGED <<Tracker, ztPush>>

SweepClones ==
    /\ ztSweep.on /\ ztSweep.clones = {} /\ ztSweep.judged = {}
    /\ \E s \in ztSweep.todo : ztSweep' = Cloned(ztSweep, s)
    /\ UNCHANGED <<Tracker, ztPush, ztOwed>>

SweepJudges ==
    /\ ztSweep.on /\ ztSweep.judged = {}
    /\ \E g \in ztSweep.clones : ztSweep' = Judged(ztSweep, g)
    /\ UNCHANGED <<Tracker, ztPush, ztOwed>>

SweepActs ==
    /\ ztSweep.on /\ ztSweep.judged # {}
    /\ ProcessGrant(ztSweep)
    /\ ztSweep' = [ztSweep EXCEPT !.judged = {}]
    /\ UNCHANGED <<Environment, ztCalls, ztOpen, ztPush>>

SweepEnds ==
    /\ Finished(ztSweep) /\ ztSweep' = NotReevaluating
    /\ UNCHANGED <<Tracker, ztPush, ztOwed>>

PushBegins(d) ==
    /\ ~ztPush.on /\ ztPush' = Reevaluating(d)
    /\ ztOwed' = [ztOwed EXCEPT !.push = Denied({d})]
    /\ UNCHANGED <<Tracker, ztSweep>>

PushClones ==
    /\ ztPush.on
    /\ \E s \in ztPush.todo : ztPush' = Cloned(ztPush, s)
    /\ UNCHANGED <<Tracker, ztSweep, ztOwed>>

PushJudges ==
    /\ ztPush.on /\ ztPush.todo = {} /\ ztPush.judged = {}
    /\ \E g \in ztPush.clones : ztPush' = Judged(ztPush, g)
    /\ UNCHANGED <<Tracker, ztSweep, ztOwed>>

PushActs ==
    /\ ztPush.on /\ ztPush.judged # {}
    /\ ProcessGrant(ztPush)
    /\ ztPush' = [ztPush EXCEPT !.judged = {}]
    /\ UNCHANGED <<Environment, ztCalls, ztOpen, ztSweep>>

PushEnds ==
    /\ Finished(ztPush) /\ ztPush' = NotReevaluating
    /\ UNCHANGED <<Tracker, ztSweep, ztOwed>>

\* The drain task takes an event.
DrainRevoked ==
    /\ ztChannel > 0 /\ ztChannel' = ztChannel - 1
    /\ UNCHANGED <<Environment, ztCalls, ztGrants, ztIndex, ztOpen, ztSweep, ztPush, ztOwed>>

-----------------------------------------------------------------------------
(* The world the providers report. *)

Sessions == <<ztCalls, ztGrants, ztIndex, ztOpen, ztSweep, ztPush, ztChannel>>

OnDevice(d) == {s \in DOMAIN ztGrants : ztGrants[s].device = d}

Refuse(d) ==
    /\ d \notin ztRefused /\ ztRefused' = ztRefused \cup {d}
    /\ UNCHANGED <<Sessions, ztNow, ztProof, ztOwed>>

Readmit(d) ==
    /\ d \in ztRefused /\ ztRefused' = ztRefused \ {d}
    /\ ztOwed' = OwedWithout(OnDevice(d))
    /\ UNCHANGED <<Sessions, ztNow, ztProof>>

ProveAgain(d) ==
    /\ ztProof[d] < ztNow /\ ztProof' = [ztProof EXCEPT ![d] = ztNow]
    /\ ztOwed' = OwedWithout(OnDevice(d))
    /\ UNCHANGED <<Sessions, ztNow, ztRefused>>

ZtTick ==
    /\ ztNow < ZtClockMax /\ ztNow' = ztNow + 1
    /\ UNCHANGED <<Sessions, ztRefused, ztProof, ztOwed>>

Sweeping == SweepBegins \/ SweepClones \/ SweepJudges \/ SweepActs \/ SweepEnds
Pushing == (\E d \in ZtDevices : PushBegins(d)) \/ PushClones \/ PushJudges \/ PushActs \/ PushEnds

ZtnaNext ==
    \/ \E s \in ZtSessions, d \in ZtDevices : OpenSession(s, d)
    \/ \E s \in ZtSessions : OpenActs(s) \/ CloseSession(s)
    \/ Sweeping \/ Pushing \/ DrainRevoked \/ ZtTick
    \/ \E d \in ZtDevices : Refuse(d) \/ Readmit(d) \/ ProveAgain(d)

\* The sweep's timer runs, and a call that has begun returns.
ZtnaFairness ==
    WF_ztnaVars(Sweeping) /\ \A s \in ZtSessions : WF_ztnaVars(OpenActs(s))

ZtnaSpec == ZtnaInit /\ [][ZtnaNext]_ztnaVars /\ ZtnaFairness

-----------------------------------------------------------------------------
(* Properties. *)

\* by_device lists exactly the sessions each device has, across re-recording
\* a session on another device, evictions, closes and both revokers: a push
\* for a device looks up its sessions there.
DeviceIndexExact ==
    \A d \in ZtDevices : ztIndex[d] = {s \in DOMAIN ztGrants : ztGrants[s].device = d}

\* Revoking "at worst waits one extra sweep": when a sweep, or a push for a
\* device, is over, every session it would have denied when it began is gone
\* or was recorded anew, unless its device was readmitted or proved itself
\* meanwhile, whatever opens, closes and the other revoker did in between.
DeniedSessionsRevoked ==
    /\ Finished(ztSweep) => ztOwed.sweep = {}
    /\ Finished(ztPush) => ztOwed.push = {}

\* "A tracked grant can never keep access alive that a fresh request would be
\* denied" (reeval.rs): a device that stays refused ends up without a tracked
\* session, even when an open_session evaluated before the refusal records its
\* grant after it and after the sweep has passed.
RefusalTakesHold ==
    \A d \in ZtDevices :
        <>[](d \in ztRefused) => <>[](\A s \in DOMAIN ztGrants : ztGrants[s].device # d)

-----------------------------------------------------------------------------
(* The inductive strengthening that the proofs use. *)

\* A session a loop owes a revocation is still to be cloned, or its clone is
\* still to be judged, or is judged and denied.
OwesOnly(loop, owed) ==
    loop.on =>
        \A s \in owed :
            /\ Tracked(s) /\ ~Allowed(ztGrants[s].device, loop.now)
            /\ loop.of \in {"all", ztGrants[s].device}
            /\ \/ s \in loop.todo
               \/ Clone(s) \in loop.clones
               \/ [grant |-> Clone(s), deny |-> TRUE] \in loop.judged

LoopTypes(loop) ==
    \/ loop = NotReevaluating
    \/ /\ DOMAIN loop = {"on", "of", "now", "todo", "clones", "judged"}
       /\ loop.of \in {"all"} \cup ZtDevices
       /\ \A v, w \in loop.judged : v = w

TrackerHolds ==
    /\ DOMAIN ztGrants \subseteq ZtSessions
    /\ \A s \in DOMAIN ztGrants : ztGrants[s].device \in ZtDevices
    /\ DOMAIN ztIndex = ZtDevices /\ DeviceIndexExact
    /\ DOMAIN ztProof = ZtDevices /\ DOMAIN ztOpen = ZtSessions
    /\ \A s \in ZtSessions : ztOpen[s] # NotOpening => ztOpen[s].grant.device \in ZtDevices
    /\ DOMAIN ztOwed = {"sweep", "push"}

ZtnaInv ==
    /\ TrackerHolds
    /\ LoopTypes(ztSweep) /\ OwesOnly(ztSweep, ztOwed.sweep)
    /\ LoopTypes(ztPush) /\ OwesOnly(ztPush, ztOwed.push)
=============================================================================
