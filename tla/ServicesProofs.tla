--------------------------- MODULE ServicesProofs ---------------------------
(* Proofs about the services of the edge: access sessions (ZtnaSessions),   *)
(* the IPS manager (IpsManager), steering (Steering), failover and link     *)
(* bonding (Failover), and the deduplication window and the capture ring of *)
(* the telemetry (Collection).                                              *)
EXTENDS ZtnaSessions, IpsManager, Steering, Failover, Collection, DataLemmas, FiniteSetTheorems, TLAPS

-----------------------------------------------------------------------------
(* Access sessions. *)

\* Whatever grant a session is recorded with, and whenever it is dropped, the
\* index follows.
LEMMA RecordIndexes ==
    ASSUME DOMAIN ztIndex = ZtDevices, DeviceIndexExact, NEW s, NEW g, Record(s, g) \/ Untrack(s)
    PROVE  DOMAIN ztIndex' = ZtDevices /\ DeviceIndexExact'
<1>1. \A d \in ZtDevices : ztIndex[d] = {t \in DOMAIN ztGrants : ztGrants[t].device = d}
  BY DEF DeviceIndexExact
<1>2. DOMAIN Deindexed(s) = ZtDevices /\ \A d \in ZtDevices : Deindexed(s)[d] = ztIndex[d] \ {s}
  <2>1. CASE Tracked(s)
    <3>1. Deindexed(s) = [ztIndex EXCEPT ![ztGrants[s].device] = @ \ {s}]
      BY <2>1 DEF Deindexed
    <3>2. \A d \in ZtDevices : d # ztGrants[s].device => s \notin ztIndex[d]
      BY <1>1
    <3> QED
      BY <3>1, <3>2
  <2>2. CASE ~Tracked(s)
    BY <1>1, <2>2 DEF Deindexed, Tracked
  <2> QED
    BY <2>1, <2>2
<1>3. CASE Record(s, g)
  <2>1. /\ DOMAIN ztGrants' = DOMAIN ztGrants \cup {s} /\ ztGrants'[s] = g
        /\ \A t \in DOMAIN ztGrants \ {s} : ztGrants'[t] = ztGrants[t]
    BY <1>3 DEF Record
  <2>2. ztIndex' = [Deindexed(s) EXCEPT ![g.device] = @ \cup {s}]
    BY <1>3 DEF Record
  <2>3. /\ DOMAIN ztIndex' = ZtDevices
        /\ \A d \in ZtDevices :
             ztIndex'[d] = IF d = g.device THEN (ztIndex[d] \ {s}) \cup {s} ELSE ztIndex[d] \ {s}
    BY <1>2, <2>2
  <2>4. ASSUME NEW d \in ZtDevices
        PROVE  ztIndex'[d] = {t \in DOMAIN ztGrants' : ztGrants'[t].device = d}
    <3>1. ztIndex[d] = {t \in DOMAIN ztGrants : ztGrants[t].device = d}
      BY <1>1
    <3>2. CASE d = g.device
      <4>1. ztIndex'[d] = (ztIndex[d] \ {s}) \cup {s}
        BY <2>3, <3>2
      <4> QED
        BY <2>1, <3>1, <3>2, <4>1
    <3>3. CASE d # g.device
      <4>1. ztIndex'[d] = ztIndex[d] \ {s}
        BY <2>3, <3>3
      <4> QED
        BY <2>1, <3>1, <3>3, <4>1
    <3> QED
      BY <3>2, <3>3
  <2> QED
    BY <2>3, <2>4 DEF DeviceIndexExact
<1>4. CASE Untrack(s)
  <2>1. /\ DOMAIN ztGrants' = DOMAIN ztGrants \ {s}
        /\ \A t \in DOMAIN ztGrants \ {s} : ztGrants'[t] = ztGrants[t]
    BY <1>4 DEF Untrack, Restrict
  <2>2. DOMAIN ztIndex' = ZtDevices /\ \A d \in ZtDevices : ztIndex'[d] = ztIndex[d] \ {s}
    BY <1>2, <1>4 DEF Untrack
  <2> QED
    BY <1>1, <2>1, <2>2 DEF DeviceIndexExact
<1> QED
  BY <1>3, <1>4

\* A loop that acts drops the session of its clone or touches nothing.
LEMMA ProcessFacts ==
    ASSUME NEW loop, ProcessGrant(loop)
    PROVE  \/ UNCHANGED <<ztGrants, ztIndex, ztOwed>> /\ \E v \in loop.judged : ~(v.deny /\ Unchanged(v.grant))
           \/ \E v \in loop.judged : Tracked(v.grant.session) /\ Untrack(v.grant.session)
  BY DEF ProcessGrant, Revoke, Unchanged

\* What a step leaves of the sessions owed a revocation: they keep their
\* grants, and their devices stay denied.
Keeps(owed, next) ==
    \A s \in next :
        /\ s \in owed
        /\ s \in DOMAIN ztGrants => s \in DOMAIN ztGrants' /\ ztGrants'[s] = ztGrants[s]
        /\ s \in DOMAIN ztGrants =>
             \A now : ~Allowed(ztGrants[s].device, now) => ~Allowed(ztGrants[s].device, now)'

\* Recording or dropping a session leaves the others as they were.
LEMMA MoveKeeps ==
    ASSUME TrackerHolds, NEW s, NEW g,
           (Record(s, g) /\ s \in ZtSessions /\ g.device \in ZtDevices) \/ Untrack(s),
           UNCHANGED Environment, ztOpen' = ztOpen \/ ztOpen' = [ztOpen EXCEPT ![s] = NotOpening]
    PROVE  /\ TrackerHolds'
           /\ Keeps(ztOwed.sweep, ztOwed'.sweep) /\ Keeps(ztOwed.push, ztOwed'.push)
           /\ s \notin ztOwed'.sweep /\ s \notin ztOwed'.push
<1>1. /\ DOMAIN ztGrants' \subseteq DOMAIN ztGrants \cup {s}
      /\ \A t \in DOMAIN ztGrants \ {s} : t \in DOMAIN ztGrants' /\ ztGrants'[t] = ztGrants[t]
      /\ s \in DOMAIN ztGrants' => s \in ZtSessions /\ ztGrants'[s] = g /\ g.device \in ZtDevices
  BY DEF Record, Untrack, Restrict
<1>2. ztOwed' = [loop \in {"sweep", "push"} |-> ztOwed[loop] \ {s}]
  BY DEF Record, Untrack, OwedWithout
<1>3. /\ DOMAIN ztOwed' = {"sweep", "push"}
      /\ ztOwed'.sweep = ztOwed.sweep \ {s} /\ ztOwed'.push = ztOwed.push \ {s}
  BY <1>2
<1>4. \A d, now : Allowed(d, now)' = Allowed(d, now)
  BY DEF Allowed, Environment
<1>5. DOMAIN ztIndex' = ZtDevices /\ DeviceIndexExact'
  BY RecordIndexes DEF TrackerHolds
<1>6. /\ DOMAIN ztOpen' = ZtSessions
      /\ \A t \in ZtSessions : ztOpen'[t] # NotOpening => ztOpen'[t].grant.device \in ZtDevices
  BY DEF TrackerHolds
<1>7. /\ DOMAIN ztGrants' \subseteq ZtSessions
      /\ \A t \in DOMAIN ztGrants' : ztGrants'[t].device \in ZtDevices
  BY <1>1 DEF TrackerHolds
<1>8. TrackerHolds'
  BY <1>3, <1>5, <1>6, <1>7 DEF TrackerHolds, Environment
<1> QED
  BY <1>1, <1>3, <1>4, <1>8 DEF Keeps

\* A step that leaves the tracker alone, and denies what is owed no less.
LEMMA StillKeeps ==
    ASSUME TrackerHolds, UNCHANGED <<ztGrants, ztIndex, ztOpen>>, DOMAIN ztProof' = DOMAIN ztProof,
           DOMAIN ztOwed' = {"sweep", "push"}
    PROVE  /\ TrackerHolds'
           /\ \A owed, next :
                /\ next \subseteq owed
                /\ \A s \in next : s \in DOMAIN ztGrants =>
                      \A now : ~Allowed(ztGrants[s].device, now) => ~Allowed(ztGrants[s].device, now)'
                => Keeps(owed, next)
<1>1. TrackerHolds'
  BY DEF TrackerHolds, DeviceIndexExact
<1> QED
  BY <1>1 DEF Keeps

\* The world may deny a device more; what it denies less is owed no more.
LEMMA WorldKeeps ==
    ASSUME TrackerHolds, NEW d \in ZtDevices, Refuse(d) \/ Readmit(d) \/ ProveAgain(d)
    PROVE  /\ TrackerHolds'
           /\ Keeps(ztOwed.sweep, ztOwed'.sweep) /\ Keeps(ztOwed.push, ztOwed'.push)
<1>1. /\ UNCHANGED <<ztGrants, ztIndex, ztOpen>> /\ DOMAIN ztProof' = DOMAIN ztProof
      /\ DOMAIN ztOwed = {"sweep", "push"} /\ DOMAIN ztProof = ZtDevices
      /\ \A s \in DOMAIN ztGrants : ztGrants[s].device \in ZtDevices
  BY DEF Refuse, Readmit, ProveAgain, Sessions, TrackerHolds
<1>2. CASE Refuse(d)
  <2>1. ztOwed' = ztOwed /\ ztRefused \subseteq ztRefused' /\ ztProof' = ztProof
    BY <1>2 DEF Refuse
  <2>2. \A e, now : ~Allowed(e, now) => ~Allowed(e, now)'
    BY <2>1 DEF Allowed
  <2> QED
    BY <1>1, <2>1, <2>2, StillKeeps
<1>3. CASE Readmit(d) \/ ProveAgain(d)
  <2>1. /\ ztOwed' = [loop \in {"sweep", "push"} |-> ztOwed[loop] \ OnDevice(d)]
        /\ \A e \in ZtDevices : e # d => (e \in ztRefused' <=> e \in ztRefused) /\ ztProof'[e] = ztProof[e]
    BY <1>1, <1>3 DEF Readmit, ProveAgain, OwedWithout
  <2>2. /\ DOMAIN ztOwed' = {"sweep", "push"}
        /\ ztOwed'.sweep = ztOwed.sweep \ OnDevice(d) /\ ztOwed'.push = ztOwed.push \ OnDevice(d)
    BY <2>1
  <2>3. \A e \in ZtDevices : e # d => \A now : ~Allowed(e, now) => ~Allowed(e, now)'
    BY <2>1 DEF Allowed
  <2>4. \A s : s \in DOMAIN ztGrants /\ s \notin OnDevice(d) => ztGrants[s].device # d
    BY DEF OnDevice
  <2> QED
    BY <1>1, <2>2, <2>3, <2>4, StillKeeps
<1> QED
  BY <1>2, <1>3

\* The loops' part of the invariant after a step, for the loop as it then is.
AllowedNext(d, now) == d \notin ztRefused' /\ now <= ztProof'[d] + ProofMaxAge
CloneNext(s) == [session |-> s, device |-> ztGrants'[s].device, at |-> ztGrants'[s].at]

OwesNext(next, owed) ==
    next.on =>
        \A s \in owed :
            /\ s \in DOMAIN ztGrants' /\ ~AllowedNext(ztGrants'[s].device, next.now)
            /\ next.of \in {"all", ztGrants'[s].device}
            /\ \/ s \in next.todo
               \/ CloneNext(s) \in next.clones
               \/ [grant |-> CloneNext(s), deny |-> TRUE] \in next.judged

LEMMA OwesPrimed ==
    /\ OwesNext(ztSweep', ztOwed'.sweep) => OwesOnly(ztSweep, ztOwed.sweep)'
    /\ OwesNext(ztPush', ztOwed'.push) => OwesOnly(ztPush, ztOwed.push)'
  BY DEF OwesNext, OwesOnly, AllowedNext, Allowed, CloneNext, Clone, Tracked

\* A loop that rests keeps what it owes.
LEMMA LoopRests ==
    ASSUME NEW loop, NEW owed, NEW next, OwesOnly(loop, owed), Keeps(owed, next)
    PROVE  OwesNext(loop, next)
<1> SUFFICES ASSUME loop.on, NEW s \in next
             PROVE  /\ s \in DOMAIN ztGrants' /\ ~AllowedNext(ztGrants'[s].device, loop.now)
                    /\ loop.of \in {"all", ztGrants'[s].device}
                    /\ \/ s \in loop.todo
                       \/ CloneNext(s) \in loop.clones
                       \/ [grant |-> CloneNext(s), deny |-> TRUE] \in loop.judged
  BY DEF OwesNext
<1>1. s \in owed
  BY DEF Keeps
<1>2. /\ s \in DOMAIN ztGrants /\ ~Allowed(ztGrants[s].device, loop.now)
      /\ loop.of \in {"all", ztGrants[s].device}
      /\ \/ s \in loop.todo
         \/ Clone(s) \in loop.clones
         \/ [grant |-> Clone(s), deny |-> TRUE] \in loop.judged
  BY <1>1 DEF OwesOnly, Tracked
<1>3. s \in DOMAIN ztGrants' /\ ztGrants'[s] = ztGrants[s] /\ CloneNext(s) = Clone(s)
  BY <1>2 DEF Keeps, Clone, CloneNext
<1>4. ~AllowedNext(ztGrants'[s].device, loop.now)
  BY <1>2, <1>3 DEF Keeps, Allowed, AllowedNext
<1> QED
  BY <1>2, <1>3, <1>4

\* A step of the loop itself, which leaves the world and the tracker alone.
LEMMA LoopOn ==
    ASSUME NEW loop, LoopTypes(loop), loop.on
    PROVE  /\ DOMAIN loop = {"on", "of", "now", "todo", "clones", "judged"}
           /\ loop.of \in {"all"} \cup ZtDevices
           /\ \A v, w \in loop.judged : v = w
  BY DEF LoopTypes, NotReevaluating

LEMMA LoopClones ==
    ASSUME TrackerHolds, NEW loop, LoopTypes(loop), loop.on, NEW owed, OwesOnly(loop, owed), NEW s
    PROVE  LoopTypes(Cloned(loop, s)) /\ OwesOnly(Cloned(loop, s), owed)
<1>1. /\ DOMAIN loop = {"on", "of", "now", "todo", "clones", "judged"}
      /\ loop.of \in {"all"} \cup ZtDevices
      /\ \A v, w \in loop.judged : v = w
  BY LoopOn
<1>2. PICK new : new = IF loop.of = "all" THEN {Clone(t) : t \in {s} \cap DOMAIN ztGrants}
                       ELSE {Clone(t) : t \in {s} \cap ztIndex[loop.of] \cap DOMAIN ztGrants}
  OBVIOUS
<1>3. PICK next : next = Cloned(loop, s)
  OBVIOUS
<1>4. next = [loop EXCEPT !.todo = @ \ {s}, !.clones = @ \cup new]
  BY <1>2, <1>3 DEF Cloned
<1>5. /\ DOMAIN next = {"on", "of", "now", "todo", "clones", "judged"}
      /\ next.on = loop.on /\ next.of = loop.of /\ next.now = loop.now /\ next.judged = loop.judged
      /\ next.todo = loop.todo \ {s} /\ next.clones = loop.clones \cup new
  BY <1>1, <1>4
<1>6. LoopTypes(next)
  BY <1>1, <1>5 DEF LoopTypes
<1>7. ASSUME NEW t \in owed
      PROVE  /\ Tracked(t) /\ ~Allowed(ztGrants[t].device, next.now)
             /\ next.of \in {"all", ztGrants[t].device}
             /\ \/ t \in next.todo
                \/ Clone(t) \in next.clones
                \/ [grant |-> Clone(t), deny |-> TRUE] \in next.judged
  <2>1. /\ Tracked(t) /\ ~Allowed(ztGrants[t].device, loop.now)
        /\ loop.of \in {"all", ztGrants[t].device}
        /\ \/ t \in loop.todo
           \/ Clone(t) \in loop.clones
           \/ [grant |-> Clone(t), deny |-> TRUE] \in loop.judged
    BY DEF OwesOnly
  <2>2. t = s => Clone(t) \in new
    <3>1. CASE loop.of = "all"
      BY <1>2, <2>1, <3>1 DEF Tracked
    <3>2. CASE loop.of # "all"
      <4>1. loop.of \in ZtDevices /\ ztGrants[t].device = loop.of /\ t \in ztIndex[loop.of]
        BY <1>1, <2>1, <3>2 DEF TrackerHolds, DeviceIndexExact, Tracked
      <4> QED
        BY <1>2, <2>1, <3>2, <4>1 DEF Tracked
    <3> QED
      BY <3>1, <3>2
  <2> QED
    BY <1>5, <2>1, <2>2
<1> QED
  BY <1>3, <1>6, <1>7 DEF OwesOnly

LEMMA LoopJudges ==
    ASSUME NEW loop, LoopTypes(loop), loop.on, loop.judged = {}, NEW owed, OwesOnly(loop, owed),
           NEW g \in loop.clones
    PROVE  LoopTypes(Judged(loop, g)) /\ OwesOnly(Judged(loop, g), owed)
<1>1. /\ DOMAIN loop = {"on", "of", "now", "todo", "clones", "judged"}
      /\ loop.of \in {"all"} \cup ZtDevices
  BY LoopOn
<1>2. PICK next : next = Judged(loop, g)
  OBVIOUS
<1>3. /\ DOMAIN next = {"on", "of", "now", "todo", "clones", "judged"}
      /\ next.on = loop.on /\ next.of = loop.of /\ next.now = loop.now /\ next.todo = loop.todo
      /\ next.clones = loop.clones \ {g}
      /\ next.judged = {[grant |-> g, deny |-> ~Allowed(g.device, loop.now)]}
  BY <1>1, <1>2 DEF Judged
<1>4. LoopTypes(next)
  BY <1>1, <1>3 DEF LoopTypes
<1>5. ASSUME NEW t \in owed
      PROVE  /\ Tracked(t) /\ ~Allowed(ztGrants[t].device, next.now)
             /\ next.of \in {"all", ztGrants[t].device}
             /\ \/ t \in next.todo
                \/ Clone(t) \in next.clones
                \/ [grant |-> Clone(t), deny |-> TRUE] \in next.judged
  <2>1. /\ Tracked(t) /\ ~Allowed(ztGrants[t].device, loop.now)
        /\ loop.of \in {"all", ztGrants[t].device}
        /\ t \in loop.todo \/ Clone(t) \in loop.clones
    BY DEF OwesOnly
  <2>2. CASE Clone(t) = g
    <3>1. g.device = ztGrants[t].device
      BY <2>2 DEF Clone
    <3>2. (~Allowed(g.device, loop.now)) = TRUE
      BY <2>1, <3>1
    <3> QED
      BY <1>3, <2>1, <2>2, <3>2
  <2>3. CASE Clone(t) # g
    BY <1>3, <2>1, <2>3
  <2> QED
    BY <2>2, <2>3
<1> QED
  BY <1>2, <1>4, <1>5 DEF OwesOnly

\* A verdict that denies a session owed its revocation is carried out.
LEMMA LoopActs ==
    ASSUME TrackerHolds, NEW loop, LoopTypes(loop), loop.on, loop.judged # {}, NEW owed, OwesOnly(loop, owed),
           ProcessGrant(loop), NEW next, Keeps(owed, next),
           \A v \in loop.judged : Untrack(v.grant.session) => v.grant.session \notin next
    PROVE  LoopTypes([loop EXCEPT !.judged = {}]) /\ OwesNext([loop EXCEPT !.judged = {}], next)
<1>1. /\ DOMAIN loop = {"on", "of", "now", "todo", "clones", "judged"}
      /\ loop.of \in {"all"} \cup ZtDevices
      /\ \A v, w \in loop.judged : v = w
  BY LoopOn
<1>2. PICK after : after = [loop EXCEPT !.judged = {}]
  OBVIOUS
<1>3. /\ DOMAIN after = {"on", "of", "now", "todo", "clones", "judged"}
      /\ after.on = loop.on /\ after.of = loop.of /\ after.now = loop.now /\ after.todo = loop.todo
      /\ after.clones = loop.clones /\ after.judged = {}
  BY <1>1, <1>2
<1>4. LoopTypes(after)
  BY <1>1, <1>3 DEF LoopTypes
<1>5. OwesNext(loop, next)
  BY LoopRests
<1>6. ASSUME NEW s \in next PROVE [grant |-> CloneNext(s), deny |-> TRUE] \notin loop.judged
  <2> SUFFICES ASSUME [grant |-> CloneNext(s), deny |-> TRUE] \in loop.judged PROVE FALSE
    OBVIOUS
  <2>1. s \in owed /\ Tracked(s) /\ ztGrants'[s] = ztGrants[s]
    BY DEF Keeps, OwesOnly, Tracked
  <2>2. PICK v \in loop.judged : v = [grant |-> CloneNext(s), deny |-> TRUE]
    OBVIOUS
  <2>3. v.deny = TRUE /\ v.grant = CloneNext(s) /\ v.grant.session = s /\ v.grant.at = ztGrants[s].at
    BY <2>1, <2>2 DEF CloneNext
  <2>4. v.deny /\ Unchanged(v.grant)
    BY <2>1, <2>3 DEF Unchanged
  <2>5. Untrack(v.grant.session)
    BY <1>1, <2>4, ProcessFacts
  <2> QED
    BY <2>3, <2>5
<1> QED
  BY <1>2, <1>3, <1>4, <1>5, <1>6 DEF OwesNext

\* With world and tracker as they were, what holds of the loop now holds next.
LEMMA OwesStill ==
    ASSUME UNCHANGED <<ztGrants, Environment>>, NEW next, NEW owed, OwesOnly(next, owed)
    PROVE  OwesNext(next, owed)
  BY DEF OwesOnly, OwesNext, Allowed, AllowedNext, Clone, CloneNext, Tracked, Environment

\* A loop that begins owes the sessions of its devices that are denied now.
LEMMA LoopBegins ==
    ASSUME TrackerHolds, NEW d, NEW D, d = "all" \/ (d \in ZtDevices /\ D = {d})
    PROVE  LoopTypes(Reevaluating(d)) /\ OwesOnly(Reevaluating(d), Denied(D))
<1>1. PICK loop : loop = Reevaluating(d)
  OBVIOUS
<1>2. /\ DOMAIN loop = {"on", "of", "now", "todo", "clones", "judged"}
      /\ loop.of = d /\ loop.now = ztNow /\ loop.todo = ZtSessions /\ loop.judged = {}
  BY <1>1 DEF Reevaluating
<1>3. LoopTypes(loop)
  BY <1>2 DEF LoopTypes
<1>4. \A s \in Denied(D) : /\ Tracked(s) /\ s \in ZtSessions /\ ~Allowed(ztGrants[s].device, ztNow)
                           /\ d \in {"all", ztGrants[s].device}
  BY DEF Denied, Tracked, TrackerHolds
<1> QED
  BY <1>1, <1>2, <1>3, <1>4 DEF OwesOnly

LEMMA ZtnaInvStep ==
    ASSUME ZtnaInv, [ZtnaNext]_ztnaVars
    PROVE  ZtnaInv'
<1>1. /\ TrackerHolds
      /\ LoopTypes(ztSweep) /\ OwesOnly(ztSweep, ztOwed.sweep)
      /\ LoopTypes(ztPush) /\ OwesOnly(ztPush, ztOwed.push)
      /\ DOMAIN ztOwed = {"sweep", "push"}
  BY DEF ZtnaInv, TrackerHolds
<1>2. ASSUME TrackerHolds',
             LoopTypes(ztSweep)', OwesNext(ztSweep', ztOwed'.sweep),
             LoopTypes(ztPush)', OwesNext(ztPush', ztOwed'.push)
      PROVE  ZtnaInv'
  BY <1>2, OwesPrimed DEF ZtnaInv
<1>3. ASSUME TrackerHolds', UNCHANGED <<ztSweep, ztPush>>,
             Keeps(ztOwed.sweep, ztOwed'.sweep), Keeps(ztOwed.push, ztOwed'.push)
      PROVE  /\ LoopTypes(ztSweep)' /\ OwesNext(ztSweep', ztOwed'.sweep)
             /\ LoopTypes(ztPush)' /\ OwesNext(ztPush', ztOwed'.push)
  BY <1>1, <1>3, LoopRests DEF LoopTypes
<1>4. ASSUME UNCHANGED <<ztGrants, ztIndex, ztOpen, Environment>>, DOMAIN ztOwed' = {"sweep", "push"}
      PROVE  /\ TrackerHolds'
             /\ ztOwed'.sweep = ztOwed.sweep => Keeps(ztOwed.sweep, ztOwed'.sweep)
             /\ ztOwed'.push = ztOwed.push => Keeps(ztOwed.push, ztOwed'.push)
  <2>1. \A d, now : Allowed(d, now)' = Allowed(d, now)
    BY <1>4 DEF Allowed, Environment
  <2>2. TrackerHolds'
    BY <1>1, <1>4 DEF TrackerHolds, DeviceIndexExact, Environment
  <2> QED
    BY <1>4, <2>1, <2>2 DEF Keeps
<1>5. ASSUME NEW s \in ZtSessions, NEW d \in ZtDevices, OpenSession(s, d) PROVE ZtnaInv'
  <2>1. /\ UNCHANGED <<ztGrants, ztIndex, ztProof, ztRefused, ztOwed, ztSweep, ztPush>>
        /\ ztOpen' = [ztOpen EXCEPT ![s] = [pc |-> IF Allowed(d, ztNow) THEN "record" ELSE "evict",
                                            grant |-> [device |-> d, at |-> ztNow]]]
    BY <1>5 DEF OpenSession, Environment
  <2>2. ztOpen'[s].grant.device = d /\ DOMAIN ztOpen' = ZtSessions
    BY <1>1, <2>1 DEF TrackerHolds
  <2>3. TrackerHolds'
    BY <1>1, <2>1, <2>2 DEF TrackerHolds, DeviceIndexExact
  <2>4. \A e, now : Allowed(e, now)' = Allowed(e, now)
    BY <2>1 DEF Allowed
  <2>5. Keeps(ztOwed.sweep, ztOwed'.sweep) /\ Keeps(ztOwed.push, ztOwed'.push)
    BY <2>1, <2>4 DEF Keeps
  <2> QED
    BY <1>2, <1>3, <2>1, <2>3, <2>5
<1>6. ASSUME NEW s \in ZtSessions, OpenActs(s) \/ CloseSession(s) PROVE ZtnaInv'
  <2>1. /\ UNCHANGED <<Environment, ztSweep, ztPush>>
        /\ ztOpen' = ztOpen \/ ztOpen' = [ztOpen EXCEPT ![s] = NotOpening]
        /\ \/ Record(s, ztOpen[s].grant) /\ ztOpen[s] # NotOpening
           \/ Untrack(s)
    BY <1>6 DEF OpenActs, CloseSession
  <2>2. ztOpen[s] # NotOpening => ztOpen[s].grant.device \in ZtDevices
    BY <1>1 DEF TrackerHolds
  <2>3. /\ TrackerHolds'
        /\ Keeps(ztOwed.sweep, ztOwed'.sweep) /\ Keeps(ztOwed.push, ztOwed'.push)
    <3>1. PICK g : g = ztOpen[s].grant
      OBVIOUS
    <3>2. (Record(s, g) /\ s \in ZtSessions /\ g.device \in ZtDevices) \/ Untrack(s)
      BY <2>1, <2>2, <3>1
    <3> QED
      BY <1>1, <2>1, <3>2, MoveKeeps
  <2> QED
    BY <1>2, <1>3, <2>1, <2>3
<1>7. ASSUME NEW d \in ZtDevices, Refuse(d) \/ Readmit(d) \/ ProveAgain(d) PROVE ZtnaInv'
  <2>1. UNCHANGED <<ztSweep, ztPush>>
    BY <1>7 DEF Refuse, Readmit, ProveAgain, Sessions
  <2> QED
    BY <1>1, <1>2, <1>3, <1>7, <2>1, WorldKeeps
<1>8. CASE DrainRevoked \/ ZtTick \/ UNCHANGED ztnaVars
  <2>1. /\ UNCHANGED <<ztGrants, ztIndex, ztOpen, ztRefused, ztProof, ztOwed, ztSweep, ztPush>>
    BY <1>8 DEF DrainRevoked, ZtTick, ztnaVars, Environment, Sessions
  <2>2. \A d, now : Allowed(d, now)' = Allowed(d, now)
    BY <2>1 DEF Allowed
  <2>3. TrackerHolds'
    BY <1>1, <2>1 DEF TrackerHolds, DeviceIndexExact
  <2>4. Keeps(ztOwed.sweep, ztOwed'.sweep) /\ Keeps(ztOwed.push, ztOwed'.push)
    BY <2>1, <2>2 DEF Keeps
  <2> QED
    BY <1>2, <1>3, <2>1, <2>3, <2>4
<1>9. CASE Sweeping
  <2>1. ztPush' = ztPush
    BY <1>9 DEF Sweeping, SweepBegins, SweepClones, SweepJudges, SweepActs, SweepEnds
  <2>2. CASE SweepActs
    <3>1. /\ ztSweep.on /\ ztSweep.judged # {} /\ ProcessGrant(ztSweep)
          /\ ztSweep' = [ztSweep EXCEPT !.judged = {}] /\ UNCHANGED <<Environment, ztOpen>>
      BY <2>2 DEF SweepActs
    <3>2. /\ TrackerHolds'
          /\ Keeps(ztOwed.sweep, ztOwed'.sweep) /\ Keeps(ztOwed.push, ztOwed'.push)
      <4>1. CASE UNCHANGED <<ztGrants, ztIndex, ztOwed>>
        BY <1>1, <1>4, <3>1, <4>1
      <4>2. CASE ~UNCHANGED <<ztGrants, ztIndex, ztOwed>>
        BY <1>1, <3>1, <4>2, ProcessFacts, MoveKeeps
      <4> QED
        BY <4>1, <4>2
    <3>3. \A v \in ztSweep.judged : Untrack(v.grant.session) => v.grant.session \notin ztOwed'.sweep
      BY <1>1, <3>1, MoveKeeps
    <3>4. LoopTypes(ztSweep)' /\ OwesNext(ztSweep', ztOwed'.sweep)
      BY <1>1, <3>1, <3>2, <3>3, LoopActs DEF LoopTypes
    <3>5. OwesNext(ztPush', ztOwed'.push)
      BY <1>1, <2>1, <3>2, LoopRests
    <3> QED
      BY <1>1, <1>2, <2>1, <3>2, <3>4, <3>5 DEF LoopTypes
  <2>3. CASE SweepBegins \/ SweepClones \/ SweepJudges \/ SweepEnds
    <3>1. UNCHANGED <<ztGrants, ztIndex, ztOpen, Environment>>
      BY <2>3 DEF SweepBegins, SweepClones, SweepJudges, SweepEnds, Tracker
    <3>2. DOMAIN ztOwed' = {"sweep", "push"} /\ ztOwed'.push = ztOwed.push
      BY <1>1, <2>3 DEF SweepBegins, SweepClones, SweepJudges, SweepEnds
    <3>3. TrackerHolds' /\ OwesNext(ztPush', ztOwed'.push)
      BY <1>1, <1>4, <2>1, <3>1, <3>2, LoopRests
    <3>4. LoopTypes(ztSweep') /\ OwesOnly(ztSweep', ztOwed'.sweep)
      <4>1. CASE SweepBegins
        <5>1. ztSweep' = Reevaluating("all") /\ ztOwed'.sweep = Denied(ZtDevices)
          BY <1>1, <4>1 DEF SweepBegins
        <5> QED
          BY <1>1, <5>1, LoopBegins
      <4>2. CASE SweepClones
        <5>1. PICK s : ztSweep.on /\ ztSweep' = Cloned(ztSweep, s) /\ ztOwed' = ztOwed
          BY <4>2 DEF SweepClones
        <5> QED
          BY <1>1, <5>1, LoopClones
      <4>3. CASE SweepJudges
        <5>1. PICK g \in ztSweep.clones : /\ ztSweep.on /\ ztSweep.judged = {}
                                          /\ ztSweep' = Judged(ztSweep, g) /\ ztOwed' = ztOwed
          BY <4>3 DEF SweepJudges
        <5> QED
          BY <1>1, <5>1, LoopJudges
      <4>4. CASE SweepEnds
        BY <4>4 DEF SweepEnds, NotReevaluating, LoopTypes, OwesOnly
      <4> QED
        BY <2>3, <4>1, <4>2, <4>3, <4>4
    <3>5. OwesNext(ztSweep', ztOwed'.sweep)
      BY <3>1, <3>4, OwesStill
    <3> QED
      BY <1>1, <1>2, <2>1, <3>3, <3>4, <3>5 DEF LoopTypes
  <2> QED
    BY <1>9, <2>2, <2>3 DEF Sweeping
<1>10. CASE Pushing
  <2>1. ztSweep' = ztSweep
    BY <1>10 DEF Pushing, PushBegins, PushClones, PushJudges, PushActs, PushEnds
  <2>2. CASE PushActs
    <3>1. /\ ztPush.on /\ ztPush.judged # {} /\ ProcessGrant(ztPush)
          /\ ztPush' = [ztPush EXCEPT !.judged = {}] /\ UNCHANGED <<Environment, ztOpen>>
      BY <2>2 DEF PushActs
    <3>2. /\ TrackerHolds'
          /\ Keeps(ztOwed.sweep, ztOwed'.sweep) /\ Keeps(ztOwed.push, ztOwed'.push)
      <4>1. CASE UNCHANGED <<ztGrants, ztIndex, ztOwed>>
        BY <1>1, <1>4, <3>1, <4>1
      <4>2. CASE ~UNCHANGED <<ztGrants, ztIndex, ztOwed>>
        BY <1>1, <3>1, <4>2, ProcessFacts, MoveKeeps
      <4> QED
        BY <4>1, <4>2
    <3>3. \A v \in ztPush.judged : Untrack(v.grant.session) => v.grant.session \notin ztOwed'.push
      BY <1>1, <3>1, MoveKeeps
    <3>4. LoopTypes(ztPush)' /\ OwesNext(ztPush', ztOwed'.push)
      BY <1>1, <3>1, <3>2, <3>3, LoopActs DEF LoopTypes
    <3>5. OwesNext(ztSweep', ztOwed'.sweep)
      BY <1>1, <2>1, <3>2, LoopRests
    <3> QED
      BY <1>1, <1>2, <2>1, <3>2, <3>4, <3>5 DEF LoopTypes
  <2>3. CASE (\E d \in ZtDevices : PushBegins(d)) \/ PushClones \/ PushJudges \/ PushEnds
    <3>1. UNCHANGED <<ztGrants, ztIndex, ztOpen, Environment>>
      BY <2>3 DEF PushBegins, PushClones, PushJudges, PushEnds, Tracker
    <3>2. DOMAIN ztOwed' = {"sweep", "push"} /\ ztOwed'.sweep = ztOwed.sweep
      BY <1>1, <2>3 DEF PushBegins, PushClones, PushJudges, PushEnds
    <3>3. TrackerHolds' /\ OwesNext(ztSweep', ztOwed'.sweep)
      BY <1>1, <1>4, <2>1, <3>1, <3>2, LoopRests
    <3>4. LoopTypes(ztPush') /\ OwesOnly(ztPush', ztOwed'.push)
      <4>1. ASSUME NEW d \in ZtDevices, PushBegins(d)
            PROVE  LoopTypes(ztPush') /\ OwesOnly(ztPush', ztOwed'.push)
        <5>1. ztPush' = Reevaluating(d) /\ ztOwed'.push = Denied({d})
          BY <1>1, <4>1 DEF PushBegins
        <5> QED
          BY <1>1, <5>1, LoopBegins
      <4>2. CASE PushClones
        <5>1. PICK s : ztPush.on /\ ztPush' = Cloned(ztPush, s) /\ ztOwed' = ztOwed
          BY <4>2 DEF PushClones
        <5> QED
          BY <1>1, <5>1, LoopClones
      <4>3. CASE PushJudges
        <5>1. PICK g \in ztPush.clones : /\ ztPush.on /\ ztPush.judged = {}
                                         /\ ztPush' = Judged(ztPush, g) /\ ztOwed' = ztOwed
          BY <4>3 DEF PushJudges
        <5> QED
          BY <1>1, <5>1, LoopJudges
      <4>4. CASE PushEnds
        BY <4>4 DEF PushEnds, NotReevaluating, LoopTypes, OwesOnly
      <4> QED
        BY <2>3, <4>1, <4>2, <4>3, <4>4
    <3>5. OwesNext(ztPush', ztOwed'.push)
      BY <3>1, <3>4, OwesStill
    <3> QED
      BY <1>1, <1>2, <2>1, <3>3, <3>4, <3>5 DEF LoopTypes
  <2> QED
    BY <1>10, <2>2, <2>3 DEF Pushing
<1> QED
  BY <1>5, <1>6, <1>7, <1>8, <1>9, <1>10 DEF ZtnaNext

LEMMA ZtnaInvHolds == ZtnaSpec => []ZtnaInv
<1>1. ZtnaInit => ZtnaInv
  BY DEF ZtnaInit, ZtnaInv, TrackerHolds, DeviceIndexExact, LoopTypes, OwesOnly, NotReevaluating
<1>2. ZtnaInv /\ [ZtnaNext]_ztnaVars => ZtnaInv'
  BY ZtnaInvStep
<1> QED
  BY <1>1, <1>2, PTL DEF ZtnaSpec

\* The device index (Shard.by_device) lists exactly the tracked sessions of
\* each device at every moment, for any sessions, devices and interleaving of
\* producers, sweep and pushes.
THEOREM IndexStaysExact == ZtnaSpec => []DeviceIndexExact
<1>1. ZtnaInv => DeviceIndexExact
  BY DEF ZtnaInv, TrackerHolds
<1> QED
  BY <1>1, ZtnaInvHolds, PTL

\* A sweep or a push that is over (ReevalLoop::sweep, reevaluate_device) has
\* revoked every session it would have denied when it began, but for those
\* recorded anew and those whose device was readmitted or proved itself.
THEOREM SweepsRevokeDenied == ZtnaSpec => []DeniedSessionsRevoked
<1>1. ZtnaInv => DeniedSessionsRevoked
  BY DEF ZtnaInv, OwesOnly, Finished, DeniedSessionsRevoked
<1> QED
  BY <1>1, ZtnaInvHolds, PTL

-----------------------------------------------------------------------------
(* The IPS manager. *)

\* A step of one task leaves the calls of the others as they are.
LEMMA CallFacts ==
    ASSUME IpsTypes, NEW t \in ImTasks, NEW call, imCall' = [imCall EXCEPT ![t] = call]
    PROVE  /\ DOMAIN imCall' = ImTasks /\ imCall'[t] = call
           /\ \A u \in ImTasks \ {t} : imCall'[u] = imCall[u]
  BY DEF IpsTypes

LEMMA PcFacts ==
    ASSUME IpsTypes, NEW t \in ImTasks, NEW pc, imCall' = [imCall EXCEPT ![t].pc = pc]
    PROVE  /\ DOMAIN imCall' = ImTasks /\ DOMAIN imCall'[t] = {"pc", "what", "value"}
           /\ imCall'[t].pc = pc /\ imCall'[t].value = imCall[t].value
           /\ imCall'[t].what = imCall[t].what
           /\ \A u \in ImTasks \ {t} : imCall'[u] = imCall[u]
  BY DEF IpsTypes

LEMMA RestingFacts ==
    /\ DOMAIN Resting = {"pc", "what", "value"} /\ Resting.pc = "rest"
    /\ \A pc, what, value :
        /\ DOMAIN Doing(pc, what, value) = {"pc", "what", "value"}
        /\ Doing(pc, what, value).pc = pc /\ Doing(pc, what, value).value = value
  BY DEF Resting, Doing

\* The steps of the child, the watchdog and stop.
LEMMA ProcessStep ==
    ASSUME IpsInv,
           \/ ImChildDies \/ StatsPoll \/ StopNotifies \/ StopProcess \/ WatchPolls
           \/ WatchBackoffEnds \/ WatchRestarts \/ WatchRestartFails \/ WatchExits
           \/ UNCHANGED ipsVars
    PROVE  IpsInv' /\ imDisk' = imDisk
<1>1. UNCHANGED <<imDisk, imInstalled, imLock, imRevision, imCall>>
  BY DEF ImChildDies, StatsPoll, StopNotifies, StopProcess, WatchPolls, WatchBackoffEnds,
         WatchRestarts, WatchRestartFails, WatchExits, ipsVars, Staging
<1>2. \/ imLoaded' = imDisk \/ ~imAlive'
      \/ /\ imLoaded' = imLoaded /\ imStale' = imStale
         /\ imAlive' => imAlive
         /\ imStatus' = "running" => imStatus = "running"
  BY DEF ImChildDies, StatsPoll, StopNotifies, StopProcess, WatchPolls, WatchBackoffEnds,
         WatchRestarts, WatchRestartFails, WatchExits, ipsVars, Observed
<1>3. SignalAhead'
  BY <1>1, <1>2 DEF IpsInv, SignalAhead
<1>4. IpsTypes'
  BY <1>1 DEF IpsInv, IpsTypes
<1>5. StagerHolds'
  BY <1>1 DEF IpsInv, StagerHolds
<1> QED
  BY <1>1, <1>3, <1>4, <1>5 DEF IpsInv

\* The steps of a task: the invariant holds on, and the file's version never
\* goes down.
LEMMA TaskStep ==
    ASSUME IpsInv, NEW t \in ImTasks,
           \/ \E c \in ImConfigs : ApplyConfig(t, c)
           \/ \E v \in RuleVersions : ApplyRuleBundle(t, v)
           \/ OpenConfig(t) \/ WriteConfig(t) \/ WriteFails(t) \/ RunOnce(t) \/ StageFails(t) \/ SwapRules(t) \/ CommitRules(t)
           \/ ReloadSignal(t) \/ SignalDelivered(t) \/ SignalFails(t)
    PROVE  IpsInv' /\ imDisk'.rules >= imDisk.rules
<1> USE RestingFacts, IpsManagerAssumption
<1>1. IpsTypes /\ StagerHolds /\ SignalAhead /\ imDisk.rules \in Nat
  BY DEF IpsInv, IpsTypes
<1>2. CASE (\E c \in ImConfigs : ApplyConfig(t, c)) \/ ReloadSignal(t)
  <2>1. PICK pc, what, value :
          /\ imCall[t] = Resting /\ pc \in {"open", "signal"}
          /\ imCall' = [imCall EXCEPT ![t] = Doing(pc, what, value)]
    BY <1>2 DEF ApplyConfig, ReloadSignal
  <2>2. UNCHANGED <<imDisk, imInstalled, imLock, imRevision, imLoaded, imAlive, imStatus, imStale>>
    BY <1>2 DEF ApplyConfig, ReloadSignal, Staging, Processing
  <2>3. /\ DOMAIN imCall' = ImTasks /\ imCall'[t] = Doing(pc, what, value)
        /\ \A u \in ImTasks \ {t} : imCall'[u] = imCall[u]
    BY <1>1, <2>1, CallFacts
  <2>4. IpsTypes'
    BY <1>1, <2>2, <2>3 DEF IpsTypes
  <2>5. StagerHolds'
    BY <1>1, <2>1, <2>2, <2>3 DEF StagerHolds
  <2>6. SignalAhead'
    BY <1>1, <2>1, <2>2, <2>3 DEF SignalAhead
  <2> QED
    BY <1>1, <2>2, <2>4, <2>5, <2>6 DEF IpsInv
<1>3. CASE WriteConfig(t)
  <2>1. /\ imCall[t].pc = "write" /\ \E c : imDisk' = [imDisk EXCEPT !.config = c]
        /\ imCall' = [imCall EXCEPT ![t].pc = "signal"]
    BY <1>3 DEF WriteConfig
  <2>2. UNCHANGED <<imInstalled, imLock, imRevision>>
    BY <1>3 DEF WriteConfig, Staging
  <2>3. imDisk'.rules = imDisk.rules /\ DOMAIN imDisk' = DOMAIN imDisk
    BY <1>1, <2>1 DEF IpsTypes
  <2>4. /\ DOMAIN imCall' = ImTasks /\ DOMAIN imCall'[t] = {"pc", "what", "value"}
        /\ imCall'[t].pc = "signal"
        /\ \A u \in ImTasks \ {t} : imCall'[u] = imCall[u]
    BY <1>1, <2>1, PcFacts
  <2>5. IpsTypes'
    BY <1>1, <2>2, <2>3, <2>4 DEF IpsTypes
  <2>6. StagerHolds'
    BY <1>1, <2>2, <2>3, <2>4 DEF StagerHolds
  <2>7. SignalAhead'
    BY <2>4 DEF SignalAhead
  <2> QED
    BY <1>1, <2>3, <2>5, <2>6, <2>7 DEF IpsInv
<1>9. CASE OpenConfig(t)
  <2>1. /\ imCall[t].pc = "open" /\ imDisk' = [imDisk EXCEPT !.config = Torn]
        /\ UNCHANGED <<imInstalled, imLock, imRevision>>
    BY <1>9 DEF OpenConfig, Staging
  <2>2. imDisk'.rules = imDisk.rules /\ DOMAIN imDisk' = DOMAIN imDisk
    BY <1>1, <2>1 DEF IpsTypes
  <2>3. /\ DOMAIN imCall' = ImTasks /\ DOMAIN imCall'[t] = {"pc", "what", "value"}
        /\ imCall'[t].pc = "write"
    BY <1>1, <1>9 DEF OpenConfig, IpsTypes
  <2>4. \A u \in ImTasks \ {t} : /\ DOMAIN imCall'[u] = {"pc", "what", "value"}
                                 /\ imCall'[u].pc = imCall[u].pc /\ imCall'[u].value = imCall[u].value
    <3> SUFFICES ASSUME NEW u \in ImTasks \ {t}
                 PROVE  /\ DOMAIN imCall'[u] = {"pc", "what", "value"}
                        /\ imCall'[u].pc = imCall[u].pc /\ imCall'[u].value = imCall[u].value
      OBVIOUS
    <3>1. imCall'[u] = imCall[u] \/ imCall'[u] = [imCall[u] EXCEPT !.what = "mixed"]
      BY <1>9 DEF OpenConfig
    <3> QED
      BY <1>1, <3>1 DEF IpsTypes
  <2>5. IpsTypes'
    BY <1>1, <2>1, <2>2, <2>3, <2>4 DEF IpsTypes
  <2>6. StagerHolds'
    BY <1>1, <2>1, <2>2, <2>3, <2>4 DEF StagerHolds
  <2>7. SignalAhead'
    BY <2>3 DEF SignalAhead
  <2> QED
    BY <1>1, <2>2, <2>5, <2>6, <2>7 DEF IpsInv
<1>10. CASE WriteFails(t)
  <2>1. /\ imCall[t].pc \in {"open", "write"} /\ imCall' = [imCall EXCEPT ![t] = Resting]
        /\ UNCHANGED <<imInstalled, imLock, imRevision, imLoaded, imAlive, imStatus>>
    BY <1>10 DEF WriteFails, Staging, Processing
  <2>2. imDisk'.rules = imDisk.rules /\ DOMAIN imDisk' = DOMAIN imDisk
    BY <1>1, <1>10 DEF WriteFails, IpsTypes
  <2>3. imStale' = imAlive \/ (imCall[t].pc = "open" /\ UNCHANGED <<imDisk, imStale>>)
    BY <1>10 DEF WriteFails
  <2>4. /\ DOMAIN imCall' = ImTasks /\ imCall'[t] = Resting
        /\ \A u \in ImTasks \ {t} : imCall'[u] = imCall[u]
    BY <1>1, <2>1, CallFacts
  <2>5. IpsTypes'
    BY <1>1, <2>1, <2>2, <2>4 DEF IpsTypes
  <2>6. StagerHolds'
    BY <1>1, <2>1, <2>2, <2>4 DEF StagerHolds
  <2>7. SignalAhead'
    BY <1>1, <2>1, <2>3, <2>4 DEF SignalAhead
  <2> QED
    BY <1>1, <2>2, <2>5, <2>6, <2>7 DEF IpsInv
<1>4. CASE (\E v \in RuleVersions : ApplyRuleBundle(t, v)) \/ RunOnce(t)
  <2>1. PICK what \in {"bundle", "feed"}, version \in Nat : BeginStage(t, what, version)
    BY <1>1, <1>4 DEF ApplyRuleBundle, RunOnce, IpsTypes
  <2>2. /\ imCall[t] = Resting /\ imLock = Nobody /\ imLock' = t /\ version > imInstalled
        /\ imCall' = [imCall EXCEPT ![t] = Doing("stage", what, version)]
    BY <2>1 DEF BeginStage, Fresh
  <2>3. UNCHANGED <<imDisk, imInstalled, imRevision, imLoaded, imAlive, imStatus, imStale>>
    BY <2>1 DEF BeginStage, Processing
  <2>4. /\ DOMAIN imCall' = ImTasks /\ imCall'[t] = Doing("stage", what, version)
        /\ \A u \in ImTasks \ {t} : imCall'[u] = imCall[u]
    BY <1>1, <2>2, CallFacts
  <2>5. IpsTypes'
    BY <1>1, <2>3, <2>4 DEF IpsTypes
  <2>6. StagerHolds'
    BY <1>1, <2>2, <2>3, <2>4 DEF StagerHolds
  <2>7. SignalAhead'
    BY <1>1, <2>2, <2>3, <2>4 DEF SignalAhead
  <2> QED
    BY <1>1, <2>3, <2>5, <2>6, <2>7 DEF IpsInv
<1>5. CASE StageFails(t)
  <2>1. /\ imCall[t].pc = "stage" /\ imLock' = Nobody
        /\ imCall' = [imCall EXCEPT ![t] = Resting]
    BY <1>5 DEF StageFails
  <2>2. UNCHANGED <<imDisk, imInstalled, imRevision, imLoaded, imAlive, imStatus, imStale>>
    BY <1>5 DEF StageFails, Processing
  <2>3. /\ DOMAIN imCall' = ImTasks /\ imCall'[t] = Resting
        /\ \A u \in ImTasks \ {t} : imCall'[u] = imCall[u]
    BY <1>1, <2>1, CallFacts
  <2>4. imLock = t /\ imInstalled = imDisk.rules
    BY <1>1, <2>1 DEF StagerHolds
  <2>5. IpsTypes'
    BY <1>1, <2>2, <2>3 DEF IpsTypes
  <2>6. StagerHolds'
    BY <1>1, <2>1, <2>2, <2>3, <2>4 DEF StagerHolds
  <2>7. SignalAhead'
    BY <1>1, <2>1, <2>2, <2>3 DEF SignalAhead
  <2> QED
    BY <1>1, <2>2, <2>5, <2>6, <2>7 DEF IpsInv
<1>6. CASE SwapRules(t)
  <2>1. /\ imCall[t].pc = "stage" /\ imCall' = [imCall EXCEPT ![t].pc = "commit"]
        /\ imDisk' = [imDisk EXCEPT !.rules = imCall[t].value, !.from = imCall[t].what]
    BY <1>6 DEF SwapRules
  <2>2. UNCHANGED <<imInstalled, imLock, imRevision>>
    BY <1>6 DEF SwapRules, Staging
  <2>3. imDisk'.rules = imCall[t].value /\ DOMAIN imDisk' = DOMAIN imDisk
    BY <1>1, <2>1 DEF IpsTypes
  <2>4. /\ DOMAIN imCall' = ImTasks /\ DOMAIN imCall'[t] = {"pc", "what", "value"}
        /\ imCall'[t].pc = "commit" /\ imCall'[t].value = imCall[t].value
        /\ \A u \in ImTasks \ {t} : imCall'[u] = imCall[u]
    BY <1>1, <2>1, PcFacts
  <2>5. /\ imLock = t /\ imCall[t].value \in Nat /\ imInstalled = imDisk.rules
        /\ imCall[t].value > imInstalled
    BY <1>1, <2>1 DEF StagerHolds
  <2>6. IpsTypes'
    BY <1>1, <2>2, <2>3, <2>4, <2>5 DEF IpsTypes
  <2>7. StagerHolds'
    BY <1>1, <2>2, <2>3, <2>4, <2>5 DEF StagerHolds
  <2>8. SignalAhead'
    BY <2>4 DEF SignalAhead
  <2> QED
    BY <1>1, <2>3, <2>5, <2>6, <2>7, <2>8 DEF IpsInv
<1>7. CASE CommitRules(t)
  <2>1. /\ imCall[t].pc = "commit" /\ imInstalled' = imCall[t].value /\ imLock' = Nobody
        /\ UNCHANGED <<imDisk, imLoaded, imAlive, imStatus>>
    BY <1>7 DEF CommitRules, Processing
  <2>2. imLock = t /\ imDisk.rules = imCall[t].value /\ imCall[t].value \in Nat
    BY <1>1, <2>1 DEF StagerHolds
  <2>3. /\ DOMAIN imCall' = ImTasks /\ DOMAIN imCall'[t] = {"pc", "what", "value"}
        /\ imCall'[t].pc \in {"signal", "rest"} /\ (imCall'[t].pc = "rest" /\ imAlive => imStale')
        /\ \A u \in ImTasks \ {t} : imCall'[u] = imCall[u]
        /\ imRevision' \in Nat
    <3>1. CASE imCall[t].what = "bundle"
      <4>1. imCall' = [imCall EXCEPT ![t].pc = "signal"] /\ imRevision' = imRevision
        BY <1>7, <3>1 DEF CommitRules
      <4> QED
        BY <1>1, <4>1, PcFacts DEF IpsTypes
    <3>2. CASE imCall[t].what # "bundle"
      <4>1. /\ imCall' = [imCall EXCEPT ![t] = Resting] /\ imRevision' = imCall[t].value
            /\ imStale' = imAlive
        BY <1>7, <3>2 DEF CommitRules
      <4> QED
        BY <1>1, <2>2, <4>1, CallFacts
    <3> QED
      BY <3>1, <3>2
  <2>4. IpsTypes'
    BY <1>1, <2>1, <2>2, <2>3 DEF IpsTypes
  <2>5. StagerHolds'
    BY <1>1, <2>1, <2>2, <2>3 DEF StagerHolds
  <2>6. SignalAhead'
    BY <2>1, <2>3 DEF SignalAhead
  <2> QED
    BY <1>1, <2>1, <2>4, <2>5, <2>6 DEF IpsInv
<1>8. CASE SignalDelivered(t) \/ SignalFails(t)
  <2>1. /\ imCall[t].pc = "signal" /\ imCall' = [imCall EXCEPT ![t] = Resting]
        /\ UNCHANGED <<imDisk, imAlive>>
    BY <1>8 DEF SignalDelivered, SignalFails, Processing
  <2>2. UNCHANGED <<imInstalled, imLock, imRevision>>
    BY <1>8 DEF SignalDelivered, SignalFails, Staging
  <2>3. ~imAlive \/ imLoaded' = imDisk \/ imStale' = imAlive
    BY <1>8 DEF SignalDelivered, SignalFails
  <2>4. /\ DOMAIN imCall' = ImTasks /\ imCall'[t] = Resting
        /\ \A u \in ImTasks \ {t} : imCall'[u] = imCall[u]
    BY <1>1, <2>1, CallFacts
  <2>5. IpsTypes'
    BY <1>1, <2>1, <2>2, <2>4 DEF IpsTypes
  <2>6. StagerHolds'
    BY <1>1, <2>1, <2>2, <2>4 DEF StagerHolds
  <2>7. SignalAhead'
    BY <2>1, <2>3 DEF SignalAhead
  <2> QED
    BY <1>1, <2>1, <2>5, <2>6, <2>7 DEF IpsInv
<1> QED
  BY <1>2, <1>3, <1>4, <1>5, <1>6, <1>7, <1>8, <1>9, <1>10

LEMMA IpsInvInit == IpsInit => IpsInv
<1> SUFFICES ASSUME IpsInit PROVE IpsInv
  OBVIOUS
<1>1. PICK c \in ImConfigs : imDisk = [config |-> c, rules |-> 0, from |-> "none"]
  BY DEF IpsInit
<1>2. /\ imLoaded = imDisk /\ imInstalled = 0 /\ imRevision = 0
      /\ imCall = [t \in ImTasks |-> Resting]
  BY DEF IpsInit
<1> QED
  BY <1>1, <1>2, RestingFacts DEF IpsInv, IpsTypes, StagerHolds, SignalAhead

LEMMA IpsInvStep ==
    ASSUME IpsInv, [IpsNext]_ipsVars
    PROVE  IpsInv' /\ imDisk'.rules >= imDisk.rules
<1>1. imDisk.rules \in Nat
  BY DEF IpsInv, IpsTypes
<1>2. imDisk' = imDisk => imDisk'.rules >= imDisk.rules
  BY <1>1
<1> QED
  BY <1>2, ProcessStep, TaskStep DEF IpsNext

\* Whatever callers, deaths, restarts and a stop overlap, a running child has
\* loaded what is on disk once every call has returned, unless one of them
\* returned an error with a file already changed, or the rules were installed
\* by RuleUpdateScheduler, since the last load.
THEOREM EngineLoadsDisk == IpsSpec => []LoadedIsOnDisk
<1>1. IpsInv => LoadedIsOnDisk
  BY RestingFacts DEF IpsInv, SignalAhead, LoadedIsOnDisk
<1>2. IpsInv /\ [IpsNext]_ipsVars => IpsInv'
  BY IpsInvStep
<1> QED
  BY <1>1, <1>2, IpsInvInit, PTL DEF IpsSpec

\* However pushes of any versions overlap, the rules on disk are never
\* replaced by older ones, and with the lock free the stager's record is the
\* version on disk.
THEOREM StagerNeverDemotes == IpsSpec => RulesNeverDemoted
<1>1. IpsInv /\ [IpsNext]_ipsVars => IpsInv'
  BY IpsInvStep
<1>2. IpsInv /\ [IpsNext]_ipsVars =>
        [/\ imDisk'.rules >= imDisk.rules
         /\ imLock' = Nobody => imInstalled' = imDisk'.rules]_ipsVars
  BY IpsInvStep DEF IpsInv, StagerHolds
<1> QED
  BY <1>1, <1>2, IpsInvInit, PTL DEF IpsSpec, RulesNeverDemoted

-----------------------------------------------------------------------------
(* Sticky flows. *)

\* What makes room for a flow: the cache keeps within its capacity with the
\* flow added, and sheds a live pin only when every pin is live.
LEMMA RoomFacts ==
    ASSUME WithinCapacity, NEW f, NEW now, NEW cache \in WithRoom(f, now)
    PROVE  /\ IsFiniteSet(DOMAIN cache \cup {f})
           /\ Cardinality(DOMAIN cache \cup {f}) <= StickyCapacity
           /\ \A g \in DOMAIN stSticky \ DOMAIN cache :
                Live(stSticky[g], now) => \A h \in DOMAIN stSticky : Live(stSticky[h], now)
<1> DEFINE D == DOMAIN stSticky
           L == {g \in D : Live(stSticky[g], now)}
           live == Restrict(stSticky, L)
<1>1. /\ IsFiniteSet(D) /\ Cardinality(D) \in Nat /\ Cardinality(D) <= StickyCapacity
      /\ StickyCapacity \in Nat
  BY SteeringAssumption, FS_CardinalityType DEF WithinCapacity
<1>2. /\ IsFiniteSet(L) /\ Cardinality(L) \in Nat /\ Cardinality(L) <= Cardinality(D)
      /\ Cardinality(L) = Cardinality(D) => L = D
  <2> HIDE DEF D
  <2>1. L \in SUBSET D
    OBVIOUS
  <2> HIDE DEF L
  <2> QED
    BY <1>1, <2>1, FS_Subset, FS_CardinalityType
<1>3. DOMAIN live = L
  BY DEF Restrict
<1>4. ASSUME NEW S, IsFiniteSet(S), Cardinality(S) \in Nat, Cardinality(S) < StickyCapacity
      PROVE  IsFiniteSet(S \cup {f}) /\ Cardinality(S \cup {f}) <= StickyCapacity
  <2>1. /\ IsFiniteSet(S \cup {f})
        /\ Cardinality(S \cup {f}) = Cardinality(S) \/ Cardinality(S \cup {f}) = Cardinality(S) + 1
    BY <1>4, FS_AddElement
  <2> QED
    BY <1>1, <1>4, <2>1
<1> HIDE DEF D, L, live
<1>5. CASE cache = stSticky /\ (f \in D \/ Cardinality(D) < StickyCapacity)
  <2>1. CASE f \in D
    <3>1. DOMAIN cache \cup {f} = D
      BY <1>5, <2>1 DEF D
    <3> QED
      BY <1>1, <1>5, <3>1
  <2>2. CASE Cardinality(D) < StickyCapacity
    BY <1>1, <1>4, <1>5, <2>2 DEF D
  <2> QED
    BY <1>5, <2>1, <2>2
<1>6. CASE cache = live /\ Cardinality(L) < StickyCapacity
  <2>1. \A g \in D \ L : ~Live(stSticky[g], now)
    BY DEF L
  <2> QED
    BY <1>2, <1>3, <1>4, <1>6, <2>1 DEF D
<1>7. CASE ~(Cardinality(L) < StickyCapacity) /\ \E g \in L : cache = Drop(live, {g})
  <2>1. PICK g \in L : cache = Drop(live, {g})
    BY <1>7
  <2>2. DOMAIN cache = L \ {g}
    BY <1>3, <2>1 DEF Drop, Restrict
  <2>3. /\ IsFiniteSet(L \ {g}) /\ Cardinality(L \ {g}) = Cardinality(L) - 1
    BY <1>2, FS_RemoveElement
  <2>4. Cardinality(L) # 0 /\ Cardinality(L) = StickyCapacity /\ Cardinality(L) = Cardinality(D)
    BY <1>1, <1>2, <1>7, SteeringAssumption
  <2>5. Cardinality(L \ {g}) \in Nat /\ Cardinality(L \ {g}) < StickyCapacity
    BY <1>2, <2>3, <2>4
  <2>6. \A h \in D : Live(stSticky[h], now)
    BY <1>2, <2>4 DEF L
  <2> QED
    BY <1>4, <2>2, <2>3, <2>5, <2>6 DEF D
<1>8. \/ cache = stSticky /\ (f \in D \/ Cardinality(D) < StickyCapacity)
      \/ cache = live /\ Cardinality(L) < StickyCapacity
      \/ ~(Cardinality(L) < StickyCapacity) /\ \E g \in L : cache = Drop(live, {g})
  <2>1. \/ cache \in {stSticky} /\ (f \in D \/ Cardinality(D) < StickyCapacity)
        \/ cache \in {live} /\ Cardinality(DOMAIN live) < StickyCapacity
        \/ /\ ~(Cardinality(DOMAIN live) < StickyCapacity)
           /\ cache \in {Drop(live, {g}) : g \in DOMAIN live}
    BY DEF WithRoom, D, L, live
  <2> QED
    BY <1>3, <2>1
<1> QED
  BY <1>5, <1>6, <1>7, <1>8

\* What a Finalise does to the cache.
LEMMA FinaliseFacts ==
    ASSUME WithinCapacity, NEW c, Finalise(c)
    PROVE  /\ WithinCapacity'
           /\ \A f \in DOMAIN stSticky \ DOMAIN stSticky' :
                Live(stSticky[f], stCall[c].now) =>
                    \A g \in DOMAIN stSticky : Live(stSticky[g], stCall[c].now)
<1>1. CASE UNCHANGED stSticky
  BY <1>1 DEF WithinCapacity
<1>2. CASE \E cache \in WithRoom(stCall[c].flow, stCall[c].now) :
             DOMAIN stSticky' = DOMAIN cache \cup {stCall[c].flow}
  <2>1. PICK cache \in WithRoom(stCall[c].flow, stCall[c].now) :
             DOMAIN stSticky' = DOMAIN cache \cup {stCall[c].flow}
    BY <1>2
  <2> QED
    BY <2>1, RoomFacts DEF WithinCapacity
<1> QED
  BY <1>1, <1>2 DEF Finalise

LEMMA CapacityStep ==
    ASSUME WithinCapacity, [SteeringNext]_steeringVars
    PROVE  WithinCapacity'
<1>1. ASSUME NEW c \in Evaluators, Finalise(c) PROVE WithinCapacity'
  BY <1>1, FinaliseFacts
<1>2. ASSUME NEW c \in Evaluators, LookupAndChoose(c) PROVE WithinCapacity'
  <2>1. DOMAIN stSticky' = DOMAIN stSticky
        \/ DOMAIN stSticky' = DOMAIN stSticky \ {stCall[c].flow}
    BY <1>2 DEF LookupAndChoose, Drop, Restrict
  <2>2. DOMAIN stSticky' \in SUBSET DOMAIN stSticky
    BY <2>1
  <2>3. /\ IsFiniteSet(DOMAIN stSticky') /\ Cardinality(DOMAIN stSticky') \in Nat
        /\ Cardinality(DOMAIN stSticky') <= Cardinality(DOMAIN stSticky)
        /\ Cardinality(DOMAIN stSticky) \in Nat
    BY <2>2, FS_Subset, FS_CardinalityType DEF WithinCapacity
  <2> QED
    BY <2>3, SteeringAssumption DEF WithinCapacity
<1>3. CASE ClearSticky
  <2>1. DOMAIN stSticky' = {}
    BY <1>3 DEF ClearSticky
  <2> QED
    BY <2>1, FS_EmptySet, SteeringAssumption DEF WithinCapacity
<1>4. CASE UNCHANGED stSticky
  BY <1>4 DEF WithinCapacity
<1>5. ASSUME NEW p \in StPaths, NEW q, ProbePath(p, q) PROVE UNCHANGED stSticky
  BY <1>5 DEF ProbePath
<1>6. ASSUME NEW c \in Evaluators, NEW f \in Flows, BeginEvaluate(c, f) PROVE UNCHANGED stSticky
  BY <1>6 DEF BeginEvaluate
<1>7. ASSUME NEW w, ReloadPolicy(w) PROVE UNCHANGED stSticky
  BY <1>7 DEF ReloadPolicy
<1>8. CASE SteeringTick \/ UNCHANGED steeringVars
  BY <1>4, <1>8 DEF SteeringTick, steeringVars
<1> QED
  BY <1>1, <1>2, <1>3, <1>4, <1>5, <1>6, <1>7, <1>8 DEF SteeringNext

\* Whatever evaluations, reloads and probes interleave, the sticky cache never
\* outgrows its capacity, and an evaluation pushes out a live pin only when no
\* expired one could go; for any flows, evaluators and capacity.
THEOREM LivePinsStay == SteeringSpec => LivePinsSurvive
<1>1. SteeringInit => WithinCapacity
  <2> SUFFICES ASSUME SteeringInit PROVE WithinCapacity
    OBVIOUS
  <2>1. DOMAIN stSticky = {}
    BY DEF SteeringInit
  <2> QED
    BY <2>1, FS_EmptySet, SteeringAssumption DEF WithinCapacity
<1>2. WithinCapacity /\ [SteeringNext]_steeringVars => WithinCapacity'
  BY CapacityStep
<1>3. WithinCapacity /\ [SteeringNext]_steeringVars =>
        [/\ Cardinality(DOMAIN stSticky') <= StickyCapacity
         /\ \A c \in Evaluators, f \in DOMAIN stSticky \ DOMAIN stSticky' :
              (Finalise(c) /\ Live(stSticky[f], stCall[c].now)) =>
                  \A g \in DOMAIN stSticky : Live(stSticky[g], stCall[c].now)]_steeringVars
  <2> SUFFICES ASSUME WithinCapacity, [SteeringNext]_steeringVars
               PROVE  /\ Cardinality(DOMAIN stSticky') <= StickyCapacity
                      /\ \A c \in Evaluators, f \in DOMAIN stSticky \ DOMAIN stSticky' :
                           (Finalise(c) /\ Live(stSticky[f], stCall[c].now)) =>
                               \A g \in DOMAIN stSticky : Live(stSticky[g], stCall[c].now)
    OBVIOUS
  <2>1. Cardinality(DOMAIN stSticky') <= StickyCapacity
    BY CapacityStep DEF WithinCapacity
  <2>2. ASSUME NEW c \in Evaluators, Finalise(c)
        PROVE  \A f \in DOMAIN stSticky \ DOMAIN stSticky' :
                 Live(stSticky[f], stCall[c].now) =>
                     \A g \in DOMAIN stSticky : Live(stSticky[g], stCall[c].now)
    BY <2>2, FinaliseFacts
  <2> QED
    BY <2>1, <2>2
<1> QED
  BY <1>1, <1>2, <1>3, PTL DEF SteeringSpec, LivePinsSurvive

-----------------------------------------------------------------------------
(* Failover. *)

\* The primary and the backups share nothing.
LEMMA GroupFacts ==
    /\ Members \in Seq(Paths) /\ Backups \in Seq(Paths) /\ Primary \in Paths
    /\ \A i \in DOMAIN Backups : Backups[i] # Primary
    /\ \A p \in Paths : p = Primary \/ \E i \in DOMAIN Backups : Backups[i] = p
    /\ \A p \in Paths : \E i \in DOMAIN Members : Members[i] = p
<1>1. Members \in Seq(Paths) /\ Members # <<>> /\ Len(Members) \in Nat
      /\ DOMAIN Members = 1 .. Len(Members)
  BY FailoverAssumption DEF Paths
<1>2. Len(Members) # 0 /\ 1 \in DOMAIN Members
  BY <1>1
<1>3. /\ Primary = Members[1] /\ Backups \in Seq(Paths)
      /\ Len(Backups) = Len(Members) - 1 /\ DOMAIN Backups = 1 .. Len(Members) - 1
      /\ \A i \in 1 .. Len(Members) - 1 : Backups[i] = Members[i + 1]
  BY <1>1, <1>2 DEF Primary, Backups
<1>4. \A p \in Paths : \E i \in DOMAIN Members : Members[i] = p
  BY DEF Paths, ToSet
<1>5. \A i, j \in DOMAIN Members : Members[i] = Members[j] => i = j
  BY FailoverAssumption DEF IsInjective
<1>6. \A i \in DOMAIN Backups : Backups[i] # Primary
  <2> SUFFICES ASSUME NEW i \in 1 .. Len(Members) - 1, Backups[i] = Primary PROVE FALSE
    BY <1>3
  <2>1. i + 1 \in DOMAIN Members /\ i + 1 # 1 /\ Members[i + 1] = Members[1]
    BY <1>1, <1>3
  <2> QED
    BY <1>2, <1>5, <2>1
<1>7. ASSUME NEW p \in Paths, p # Primary PROVE \E i \in DOMAIN Backups : Backups[i] = p
  <2>1. PICK i \in DOMAIN Members : Members[i] = p
    BY <1>4
  <2>2. i # 1 /\ i - 1 \in 1 .. Len(Members) - 1 /\ (i - 1) + 1 = i
    BY <1>1, <1>3, <1>7, <2>1
  <2> QED
    BY <1>3, <2>1, <2>2
<1> QED
  BY <1>1, <1>2, <1>3, <1>4, <1>6, <1>7

\* The first healthy path of a list is one of it and healthy, if there is one.
LEMMA FirstHealthyFacts ==
    ASSUME NEW seq \in Seq(Paths), NEW unhealthy
    PROVE  /\ FirstHealthy(seq, unhealthy) \in Paths
           /\ (\E i \in DOMAIN seq : seq[i] \notin unhealthy) =>
                /\ FirstHealthy(seq, unhealthy) \notin unhealthy
                /\ \E i \in DOMAIN seq : seq[i] = FirstHealthy(seq, unhealthy)
<1> DEFINE H == {i \in DOMAIN seq : seq[i] \notin unhealthy}
<1>1. CASE H = {}
  BY <1>1, GroupFacts DEF FirstHealthy
<1>2. CASE H # {}
  <2>1. H \subseteq Nat
    OBVIOUS
  <2>2. Min(H) \in H
    <3> HIDE DEF H
    <3>1. \E n \in H : \A m \in H : n <= m
      BY <1>2, <2>1, LeastNatural
    <3> QED
      BY <3>1 DEF Min
  <2>3. FirstHealthy(seq, unhealthy) = seq[Min(H)]
    BY <1>2 DEF FirstHealthy
  <2>4. PICK n : n = Min(H)
    OBVIOUS
  <2>5. n \in DOMAIN seq /\ seq[n] \notin unhealthy /\ seq[n] \in Paths
    BY <2>2, <2>4
  <2> QED
    BY <2>3, <2>4, <2>5
<1> QED
  BY <1>1, <1>2

\* Without the operator, the traffic of a healthy backup goes to the primary
\* only when that is healthy and due.
LEMMA ResolveFacts ==
    ASSUME NEW unhealthy, NEW since, foActive \in Paths
    PROVE  /\ \A force : ResolveActive(unhealthy, since, force) \in Paths
           /\ (foActive = Primary /\ Primary \notin unhealthy) =>
                \A force : ResolveActive(unhealthy, since, force) = Primary
           /\ (/\ foActive # Primary /\ foActive \notin unhealthy
               /\ ResolveActive(unhealthy, since, FALSE) = Primary)
              => Primary \notin unhealthy /\ FailbackDue(since)
<1>1. \A force : ResolveActive(unhealthy, since, force) \in Paths
  BY GroupFacts, FirstHealthyFacts DEF ResolveActive
<1>2. (foActive = Primary /\ Primary \notin unhealthy) =>
        \A force : ResolveActive(unhealthy, since, force) = Primary
  BY DEF ResolveActive
<1>3. ASSUME foActive # Primary, foActive \notin unhealthy,
             ResolveActive(unhealthy, since, FALSE) = Primary
      PROVE  Primary \notin unhealthy /\ FailbackDue(since)
  <2>1. CASE Primary \in unhealthy
    <3>1. \E i \in DOMAIN Members : Members[i] \notin unhealthy
      BY <1>3, GroupFacts
    <3>2. FirstHealthy(Members, unhealthy) \notin unhealthy
      BY <3>1, GroupFacts, FirstHealthyFacts
    <3> QED
      BY <1>3, <2>1, <3>2 DEF ResolveActive
  <2>2. CASE Primary \notin unhealthy /\ ~FailbackDue(since)
    <3>1. \E i \in DOMAIN Backups : Backups[i] \notin unhealthy
      BY <1>3, GroupFacts
    <3>2. \E i \in DOMAIN Backups : Backups[i] = FirstHealthy(Backups, unhealthy)
      BY <3>1, GroupFacts, FirstHealthyFacts
    <3> QED
      BY <1>3, <2>2, <3>2, GroupFacts DEF ResolveActive
  <2> QED
    BY <2>1, <2>2
<1> QED
  BY <1>1, <1>2, <1>3

\* Ages grow in step up to the window.
LEMMA OlderFacts ==
    ASSUME NEW age \in {Never} \cup 0 .. FailbackDelay
    PROVE  /\ Older(age) \in {Never} \cup 0 .. FailbackDelay
           /\ age \in 0 .. FailbackDelay => Older(age) \in 0 .. FailbackDelay
           /\ age = Never => Older(age) = Never
           /\ \A b \in 0 .. FailbackDelay : age <= b => Older(age) <= Older(b)
  BY FailoverAssumption DEF Older, Never

\* One recomputation, with a since that is right for the health it is made on.
LEMMA RecomputeStep ==
    ASSUME FailoverInv, NEW unhealthy, NEW since, Recompute(unhealthy, since, FALSE),
           since \in {Never} \cup 0 .. FailbackDelay,
           Primary \in unhealthy => since = Never,
           since # foSince => since = Never \/ since = 0,
           foStable' \in 0 .. FailbackDelay,
           foStable' = foStable \/ since = Never
    PROVE  /\ FailoverInv'
           /\ (foActive # Primary /\ foActive' = Primary /\ foActive \notin foUnhealthy') =>
                \/ foMode = "immediate"
                \/ foMode = "delay" /\ foStable >= FailbackDelay
<1>1. /\ foActive \in Paths /\ foSince \in {Never} \cup 0 .. FailbackDelay
      /\ foStable \in 0 .. FailbackDelay
      /\ foActive # Primary => foSince <= foStable
  BY DEF FailoverInv
<1>2. /\ foUnhealthy' = unhealthy /\ foSince' = since
      /\ foActive' = ResolveActive(unhealthy, since, FALSE)
  BY DEF Recompute
<1>3. foActive' \in Paths
  BY <1>1, <1>2, ResolveFacts
<1>4. foActive # Primary => since <= foStable
  BY <1>1, FailoverAssumption DEF Never
<1>5. foActive' # Primary => since <= foStable'
  <2>1. CASE foActive # Primary
    BY <1>1, <1>4, <2>1, FailoverAssumption DEF Never
  <2>2. CASE foActive = Primary
    <3>1. foActive' # Primary => Primary \in unhealthy
      BY <1>1, <1>2, <2>2, ResolveFacts
    <3> QED
      BY <3>1, FailoverAssumption DEF Never
  <2> QED
    BY <2>1, <2>2
<1>6. FailoverInv'
  BY <1>2, <1>3, <1>5 DEF FailoverInv
<1>7. ASSUME foActive # Primary, foActive' = Primary, foActive \notin foUnhealthy'
      PROVE  \/ foMode = "immediate"
             \/ foMode = "delay" /\ foStable >= FailbackDelay
  <2>1. FailbackDue(since)
    BY <1>1, <1>2, <1>7, ResolveFacts
  <2>2. since # Never /\ since >= FailbackDelay => foStable >= FailbackDelay
    BY <1>1, <1>4, <1>7, FailoverAssumption DEF Never
  <2> QED
    BY <2>1, <2>2 DEF FailbackDue
<1> QED
  BY <1>6, <1>7

LEMMA FailoverStep ==
    ASSUME FailoverInv, [FailoverNext]_failoverVars
    PROVE  /\ FailoverInv'
           /\ (/\ foActive # Primary /\ foActive' = Primary /\ foActive \notin foUnhealthy'
               /\ ~ManualFailback) =>
                \/ foMode = "immediate"
                \/ foMode = "delay" /\ foStable >= FailbackDelay
<1> USE FailoverAssumption
<1>1. /\ foActive \in Paths /\ foSince \in {Never} \cup 0 .. FailbackDelay
      /\ foStable \in 0 .. FailbackDelay
      /\ Primary \in foUnhealthy => foSince = Never
      /\ foActive # Primary => foSince <= foStable
  BY DEF FailoverInv
<1>2. ASSUME NEW bad, NEW skipped, SlaTick(bad, skipped)
      PROVE  FailoverInv' /\ foActive' = foActive
  <2>1. UNCHANGED <<foUnhealthy, foSince, foActive, foStable>>
    BY <1>2 DEF SlaTick
  <2> QED
    BY <1>1, <2>1 DEF FailoverInv
<1>8. ASSUME NEW p \in Paths, OnViolation(p)
      PROVE  /\ FailoverInv'
             /\ (foActive # Primary /\ foActive' = Primary /\ foActive \notin foUnhealthy') =>
                  \/ foMode = "immediate"
                  \/ foMode = "delay" /\ foStable >= FailbackDelay
  <2>1. /\ Recompute(foUnhealthy \cup {p}, SinceAfterViolation(p), FALSE)
        /\ foStable' = IF p = Primary THEN 0 ELSE foStable
    BY <1>8 DEF OnViolation
  <2>2. /\ SinceAfterViolation(p) \in {Never} \cup 0 .. FailbackDelay
        /\ Primary \in foUnhealthy \cup {p} => SinceAfterViolation(p) = Never
        /\ SinceAfterViolation(p) # foSince => SinceAfterViolation(p) = Never
        /\ foStable' \in 0 .. FailbackDelay
        /\ foStable' = foStable \/ SinceAfterViolation(p) = Never
    BY <1>1, <2>1 DEF SinceAfterViolation
  <2> QED
    BY <2>1, <2>2, RecomputeStep
<1>3. ASSUME NEW p \in Paths, OnRecovery(p)
      PROVE  /\ FailoverInv'
             /\ (foActive # Primary /\ foActive' = Primary /\ foActive \notin foUnhealthy') =>
                  \/ foMode = "immediate"
                  \/ foMode = "delay" /\ foStable >= FailbackDelay
  <2>1. Recompute(foUnhealthy \ {p}, SinceAfterRecovery(p), FALSE) /\ foStable' = foStable
    BY <1>3 DEF OnRecovery
  <2>2. /\ SinceAfterRecovery(p) \in {Never} \cup 0 .. FailbackDelay
        /\ Primary \in foUnhealthy \ {p} => SinceAfterRecovery(p) = Never
        /\ SinceAfterRecovery(p) # foSince => SinceAfterRecovery(p) = 0
    BY <1>1 DEF SinceAfterRecovery
  <2> QED
    BY <1>1, <2>1, <2>2, RecomputeStep
<1>4. CASE Poll
  <2>1. Recompute(foUnhealthy, foSince, FALSE) /\ foStable' = foStable
    BY <1>4 DEF Poll
  <2> QED
    BY <1>1, <2>1, RecomputeStep
<1>5. CASE ManualFailback
  <2>1. PICK since : /\ since = IF Primary \notin foUnhealthy THEN FailbackDelay ELSE foSince
                     /\ Recompute(foUnhealthy, since, TRUE)
    BY <1>5 DEF ManualFailback
  <2>2. /\ foUnhealthy' = foUnhealthy /\ foSince' = since /\ foStable' = foStable
        /\ foActive' = ResolveActive(foUnhealthy, since, TRUE)
    BY <1>5, <2>1 DEF ManualFailback, Recompute
  <2>3. foActive' \in Paths
    BY <1>1, <2>2, ResolveFacts
  <2>4. Primary \notin foUnhealthy => foActive' = Primary
    BY <2>2 DEF ResolveActive
  <2>5. CASE Primary \in foUnhealthy
    <3>1. foSince' = Never /\ Never <= foStable
      BY <1>1, <2>1, <2>2, <2>5 DEF Never
    <3> QED
      BY <1>1, <1>5, <2>2, <2>3, <3>1 DEF FailoverInv
  <2>6. CASE Primary \notin foUnhealthy
    <3>1. foSince' = FailbackDelay /\ foActive' = Primary
      BY <2>1, <2>2, <2>4, <2>6
    <3>2. foSince' \in {Never} \cup 0 .. FailbackDelay /\ foStable' \in 0 .. FailbackDelay
      BY <1>1, <2>2, <3>1
    <3>3. FailoverInv'
      BY <2>2, <2>3, <2>6, <3>1, <3>2 DEF FailoverInv
    <3> QED
      BY <1>5, <3>3
  <2> QED
    BY <2>5, <2>6
<1>6. CASE TimeGoesBy
  <2>1. /\ foSince' = Older(foSince)
        /\ foStable' = IF Primary \in foUnhealthy THEN 0 ELSE Older(foStable)
        /\ UNCHANGED <<foUnhealthy, foActive>>
    BY <1>6 DEF TimeGoesBy
  <2>2. /\ Older(foSince) \in {Never} \cup 0 .. FailbackDelay
        /\ Older(foStable) \in 0 .. FailbackDelay
        /\ foSince = Never => Older(foSince) = Never
        /\ foSince <= foStable => Older(foSince) <= Older(foStable)
    BY <1>1, OlderFacts
  <2>3. foSince' \in {Never} \cup 0 .. FailbackDelay /\ foStable' \in 0 .. FailbackDelay
    BY <2>1, <2>2
  <2>4. foActive # Primary => foSince' <= foStable'
    <3>1. CASE Primary \in foUnhealthy
      BY <1>1, <2>1, <2>2, <3>1 DEF Never
    <3>2. CASE Primary \notin foUnhealthy
      BY <1>1, <2>1, <2>2, <3>2
    <3> QED
      BY <3>1, <3>2
  <2> QED
    BY <1>1, <2>1, <2>2, <2>3, <2>4 DEF FailoverInv
<1>7. CASE UNCHANGED failoverVars
  BY <1>1, <1>7 DEF failoverVars, FailoverInv
<1> QED
  BY <1>2, <1>3, <1>4, <1>5, <1>6, <1>7, <1>8 DEF FailoverNext

\* No flapping, for any group of links, window and breach threshold: without
\* the operator, traffic leaves a healthy backup only in immediate mode, or in
\* delay mode once the primary has gone the whole window without a breach.
THEOREM FailbackNeverEarly == FailoverSpec => NoEarlyFailback
<1>1. FailoverInit => FailoverInv
  <2> SUFFICES ASSUME FailoverInit PROVE FailoverInv
    OBVIOUS
  <2>1. foActive = Primary /\ foSince = Never /\ foStable = FailbackDelay
    BY DEF FailoverInit
  <2> QED
    BY <2>1, GroupFacts, FailoverAssumption DEF FailoverInv
<1>2. FailoverInv /\ [FailoverNext]_failoverVars => FailoverInv'
  BY FailoverStep
<1>3. FailoverInv /\ [FailoverNext]_failoverVars =>
        [(foActive # Primary /\ foActive' = Primary /\ foActive \notin foUnhealthy' /\ ~ManualFailback) =>
          \/ foMode = "immediate"
          \/ foMode = "delay" /\ foStable >= FailbackDelay]_failoverVars
  BY FailoverStep
<1> QED
  BY <1>1, <1>2, <1>3, PTL DEF FailoverSpec, NoEarlyFailback

\* A member's priority is its place in the list.
LEMMA PriorityFacts ==
    /\ \A i \in DOMAIN Members : Members[i] \in Paths /\ Priority(Members[i]) = i
    /\ \A p \in Paths : Priority(p) \in DOMAIN Members /\ Members[Priority(p)] = p
    /\ 1 \in DOMAIN Members /\ Primary = Members[1]
    /\ DOMAIN Members \subseteq Nat \ {0}
    /\ DOMAIN Backups \subseteq Nat
    /\ \A i \in DOMAIN Backups : i + 1 \in DOMAIN Members /\ Backups[i] = Members[i + 1]
    /\ \A i \in DOMAIN Members : i # 1 => i - 1 \in DOMAIN Backups /\ Backups[i - 1] = Members[i]
<1>1. Members \in Seq(Paths) /\ Members # <<>> /\ Len(Members) \in Nat
      /\ DOMAIN Members = 1 .. Len(Members)
  BY FailoverAssumption DEF Paths
<1>2. Len(Members) # 0 /\ 1 \in DOMAIN Members /\ DOMAIN Members \subseteq Nat \ {0}
  BY <1>1
<1>3. /\ Primary = Members[1] /\ DOMAIN Backups = 1 .. Len(Members) - 1
      /\ \A i \in 1 .. Len(Members) - 1 : Backups[i] = Members[i + 1]
  BY <1>1, <1>2 DEF Primary, Backups
<1>4. \A i, j \in DOMAIN Members : Members[i] = Members[j] => i = j
  BY FailoverAssumption DEF IsInjective
<1>5. \A i \in DOMAIN Members : Members[i] \in Paths /\ Priority(Members[i]) = i
  BY <1>1, <1>4 DEF Priority
<1>6. \A p \in Paths : Priority(p) \in DOMAIN Members /\ Members[Priority(p)] = p
  BY <1>5, GroupFacts
<1>7. \A i \in DOMAIN Backups : i + 1 \in DOMAIN Members /\ Backups[i] = Members[i + 1]
  BY <1>1, <1>3
<1>8. ASSUME NEW i \in DOMAIN Members, i # 1
      PROVE  i - 1 \in DOMAIN Backups /\ Backups[i - 1] = Members[i]
  <2>1. i - 1 \in 1 .. Len(Members) - 1 /\ (i - 1) + 1 = i
    BY <1>1, <1>8
  <2> QED
    BY <1>3, <2>1
<1> QED
  BY <1>2, <1>3, <1>5, <1>6, <1>7, <1>8

\* No healthy path of a list comes before the first healthy one.
LEMMA FirstHealthyLeast ==
    ASSUME NEW seq \in Seq(Paths), NEW unhealthy, NEW j \in DOMAIN seq, seq[j] \notin unhealthy
    PROVE  \E i \in DOMAIN seq : /\ FirstHealthy(seq, unhealthy) = seq[i] /\ i <= j
                                 /\ seq[i] \notin unhealthy
<1> DEFINE H == {i \in DOMAIN seq : seq[i] \notin unhealthy}
<1>1. j \in H /\ H \subseteq Nat
  OBVIOUS
<1>2. Min(H) \in H /\ Min(H) <= j
  <2> HIDE DEF H
  <2>1. \E n \in H : \A m \in H : n <= m
    BY <1>1, LeastNatural
  <2> QED
    BY <1>1, <2>1 DEF Min
<1>3. FirstHealthy(seq, unhealthy) = seq[Min(H)]
  BY <1>1 DEF FirstHealthy
<1> HIDE DEF H
<1>4. PICK n : n = Min(H)
  OBVIOUS
<1>5. n \in DOMAIN seq /\ seq[n] \notin unhealthy
  BY <1>2, <1>4 DEF H
<1> QED
  BY <1>2, <1>3, <1>4, <1>5

\* What the engine resolves to is healthy if a path is, and no step down.
LEMMA ResolveWarranted ==
    ASSUME NEW unhealthy, NEW since, NEW force, foActive \in Paths,
           NEW active, active = ResolveActive(unhealthy, since, force)
    PROVE  /\ active \in Paths
           /\ active \in unhealthy => Paths \subseteq unhealthy
           /\ active # foActive /\ foActive \notin unhealthy => Priority(active) < Priority(foActive)
<1>1. active \in Paths
  BY ResolveFacts
<1>2. PICK k \in DOMAIN Members : k = Priority(foActive) /\ Members[k] = foActive
  BY PriorityFacts
<1>3. CASE active = Primary
  <2>1. active \in unhealthy => Paths \subseteq unhealthy
    <3> SUFFICES ASSUME Primary \in unhealthy, NEW p \in Paths, p \notin unhealthy PROVE FALSE
      BY <1>3
    <3>1. active = FirstHealthy(Members, unhealthy)
      BY DEF ResolveActive
    <3>2. \E i \in DOMAIN Members : Members[i] \notin unhealthy
      BY GroupFacts
    <3>3. active \notin unhealthy
      BY <3>1, <3>2, GroupFacts, FirstHealthyFacts
    <3> QED
      BY <1>3, <3>3
  <2>2. active # foActive => Priority(active) < Priority(foActive)
    <3>1. Priority(active) = 1
      BY <1>3, PriorityFacts
    <3>2. active # foActive => k # 1 /\ k \in Nat \ {0}
      BY <1>2, <1>3, PriorityFacts
    <3> QED
      BY <1>2, <3>1, <3>2
  <2> QED
    BY <1>1, <2>1, <2>2
<1>4. CASE active # Primary /\ Primary \notin unhealthy
  <2>1. active = FirstHealthy(Backups, unhealthy) /\ foActive # Primary
    BY <1>4 DEF ResolveActive
  <2>2. active \notin unhealthy
    <3>1. CASE \E i \in DOMAIN Backups : Backups[i] \notin unhealthy
      BY <2>1, <3>1, GroupFacts, FirstHealthyFacts
    <3>2. CASE ~\E i \in DOMAIN Backups : Backups[i] \notin unhealthy
      <4>1. active = Primary
        BY <2>1, <3>2 DEF FirstHealthy
      <4> QED
        BY <1>4, <4>1
    <3> QED
      BY <3>1, <3>2
  <2>3. ASSUME active # foActive, foActive \notin unhealthy PROVE Priority(active) < Priority(foActive)
    <3>1. k # 1 /\ k - 1 \in DOMAIN Backups /\ Backups[k - 1] = foActive /\ k \in Nat
      BY <1>2, <2>1, PriorityFacts
    <3>2. PICK i \in DOMAIN Backups : active = Backups[i] /\ i <= k - 1
      BY <2>1, <2>3, <3>1, GroupFacts, FirstHealthyLeast
    <3>3. i + 1 \in DOMAIN Members /\ active = Members[i + 1] /\ i \in Nat
      BY <3>2, PriorityFacts
    <3>4. Priority(active) = i + 1
      BY <3>3, PriorityFacts
    <3>5. i # k - 1
      BY <2>3, <3>1, <3>2
    <3> QED
      BY <1>2, <3>1, <3>2, <3>3, <3>4, <3>5
  <2> QED
    BY <1>1, <2>2, <2>3
<1>5. CASE active # Primary /\ Primary \in unhealthy
  <2>1. active = FirstHealthy(Members, unhealthy)
    BY <1>5 DEF ResolveActive
  <2>2. active \notin unhealthy
    <3>1. CASE \E i \in DOMAIN Members : Members[i] \notin unhealthy
      BY <2>1, <3>1, GroupFacts, FirstHealthyFacts
    <3>2. CASE ~\E i \in DOMAIN Members : Members[i] \notin unhealthy
      <4>1. active = Primary
        BY <2>1, <3>2 DEF FirstHealthy
      <4> QED
        BY <1>5, <4>1
    <3> QED
      BY <3>1, <3>2
  <2>3. ASSUME active # foActive, foActive \notin unhealthy PROVE Priority(active) < Priority(foActive)
    <3>1. PICK i \in DOMAIN Members : active = Members[i] /\ i <= k
      BY <1>2, <2>1, <2>3, GroupFacts, FirstHealthyLeast
    <3>2. Priority(active) = i /\ i # k /\ i \in Nat /\ k \in Nat
      BY <1>2, <2>3, <3>1, PriorityFacts
    <3> QED
      BY <1>2, <3>1, <3>2
  <2> QED
    BY <1>1, <2>2, <2>3
<1> QED
  BY <1>3, <1>4, <1>5

\* Traffic is on an unhealthy path only when every path is, and moves only up
\* or off an unhealthy path, for any group of links, mode, window and order of
\* violations, recoveries, polls and operator's calls.
THEOREM SwitchesOnlyUp == FailoverSpec => SwitchesWarranted
<1> DEFINE Step == /\ foActive' \in foUnhealthy' => Paths \subseteq foUnhealthy'
                   /\ foActive' # foActive /\ foActive \notin foUnhealthy' =>
                          Priority(foActive') < Priority(foActive)
<1>1. FailoverInit => HealthyServes
  BY GroupFacts DEF FailoverInit, HealthyServes
<1>2. HealthyServes /\ [FailoverNext]_failoverVars => HealthyServes' /\ Step
  <2> SUFFICES ASSUME HealthyServes, [FailoverNext]_failoverVars PROVE HealthyServes' /\ Step
    OBVIOUS
  <2>1. foActive \in Paths
    BY DEF HealthyServes
  <2>2. ASSUME NEW unhealthy, NEW since, NEW force, Recompute(unhealthy, since, force)
        PROVE  HealthyServes' /\ Step
    <3>1. foUnhealthy' = unhealthy /\ foActive' = ResolveActive(unhealthy, since, force)
      BY <2>2 DEF Recompute
    <3> QED
      BY <2>1, <3>1, ResolveWarranted DEF HealthyServes
  <2>3. ASSUME UNCHANGED <<foUnhealthy, foActive>> PROVE HealthyServes' /\ Step
    BY <2>3 DEF HealthyServes
  <2>4. \/ UNCHANGED <<foUnhealthy, foActive>>
        \/ \E unhealthy, since, force : Recompute(unhealthy, since, force)
    BY DEF FailoverNext, SlaTick, OnViolation, OnRecovery, ManualFailback, Poll, TimeGoesBy, failoverVars
  <2> HIDE DEF Step
  <2> QED
    BY <2>2, <2>3, <2>4
<1>3. HealthyServes /\ [FailoverNext]_failoverVars => [Step]_failoverVars
  BY <1>2
<1> QED
  BY <1>1, <1>2, <1>3, PTL DEF FailoverSpec, SwitchesWarranted

-----------------------------------------------------------------------------
(* The deduplication window. *)

LEMMA EvictedShare ==
    /\ DedupMax \in Nat /\ DedupMax \div EvictDivisor \in Nat
    /\ 1 <= DedupMax \div EvictDivisor /\ DedupMax \div EvictDivisor <= DedupMax
<1>1. /\ DedupMax \in Nat /\ EvictDivisor \in Nat
      /\ 1 <= EvictDivisor /\ EvictDivisor <= DedupMax
  BY CollectionAssumption
<1> QED
  BY <1>1

LEMMA SeenFinite ==
    ASSUME DedupTypes, NEW S, S \subseteq DOMAIN ddSeen
    PROVE  IsFiniteSet(S) /\ Cardinality(S) \in Nat /\ Cardinality(S) <= Cardinality(DOMAIN ddSeen)
<1>1. IsFiniteSet(DOMAIN ddSeen)
  <2>1. DOMAIN ddSeen \subseteq {f \in Fingerprints : ddHit[f] >= 0}
    BY DEF DedupTypes
  <2> QED
    BY <2>1, FS_Subset DEF DedupTypes
<1> QED
  BY <1>1, FS_Subset, FS_CardinalityType

LEMMA PrunedFacts ==
    /\ DOMAIN Pruned(ddSeen) = {f \in DOMAIN ddSeen : InWindow(ddSeen[f])}
    /\ \A f \in DOMAIN Pruned(ddSeen) : Pruned(ddSeen)[f] = ddSeen[f]
  BY DEF Pruned, Keep

\* Making room leaves room, keeps what it keeps as it was, and drops nothing
\* inside the window that was not older than all that stays.
LEMMA RoomIsMade ==
    ASSUME DedupTypes, Cardinality(DOMAIN ddSeen) <= DedupMax,
           NEW f, ~Duplicate(f), NEW seen \in MadeRoom(ddSeen)
    PROVE  /\ DOMAIN seen \subseteq DOMAIN ddSeen /\ \A g \in DOMAIN seen : seen[g] = ddSeen[g]
           /\ Cardinality(DOMAIN seen) < DedupMax
           /\ \A g \in DOMAIN ddSeen \ DOMAIN seen : InWindow(ddSeen[g]) =>
                \E T \in SUBSET (DOMAIN ddSeen \ {f, g}) :
                    /\ Cardinality(T) >= DedupMax - DedupMax \div EvictDivisor
                    /\ \A h \in T : ddSeen[h] >= ddSeen[g]
<1> DEFINE P == Pruned(ddSeen)
           E == DedupMax \div EvictDivisor
<1>1. DedupMax \in Nat /\ E \in Nat /\ 1 <= E /\ E <= DedupMax
  BY EvictedShare
<1>2. /\ DOMAIN P = {g \in DOMAIN ddSeen : InWindow(ddSeen[g])}
      /\ \A g \in DOMAIN P : P[g] = ddSeen[g]
  BY PrunedFacts
<1>3. IsFiniteSet(DOMAIN P) /\ Cardinality(DOMAIN P) \in Nat /\ Cardinality(DOMAIN P) <= DedupMax
  <2>1. DOMAIN P \subseteq DOMAIN ddSeen
    BY <1>2
  <2>2. /\ IsFiniteSet(DOMAIN P) /\ Cardinality(DOMAIN P) \in Nat
        /\ Cardinality(DOMAIN P) <= Cardinality(DOMAIN ddSeen)
    BY <2>1, SeenFinite
  <2>3. Cardinality(DOMAIN ddSeen) \in Nat
    BY SeenFinite
  <2> QED
    BY <1>1, <2>2, <2>3
<1>4. f \notin DOMAIN P
  BY <1>2 DEF Duplicate
<1>5. CASE seen = ddSeen /\ Cardinality(DOMAIN ddSeen) < DedupMax
  BY <1>5
<1>6. CASE seen = P /\ Cardinality(DOMAIN P) < DedupMax
  BY <1>2, <1>6
<1>7. CASE /\ Cardinality(DOMAIN P) >= DedupMax
           /\ \E S \in OldestSets(P, E) : seen = Keep(P, DOMAIN P \ S)
  <2>1. PICK S \in OldestSets(P, E) : seen = Keep(P, DOMAIN P \ S)
    BY <1>7
  <2>2. /\ S \subseteq DOMAIN P /\ Cardinality(S) = E
        /\ \A g \in S, h \in DOMAIN P \ S : P[g] <= P[h]
    BY <2>1 DEF OldestSets
  <2>3. DOMAIN seen = DOMAIN P \ S /\ \A g \in DOMAIN seen : seen[g] = P[g]
    BY <2>1 DEF Keep
  <2>4. Cardinality(DOMAIN P) = DedupMax
    BY <1>1, <1>3, <1>7
  <2>5. Cardinality(DOMAIN P \ S) = DedupMax - E
    <3>1. Cardinality(DOMAIN P \ S) = Cardinality(DOMAIN P) - Cardinality(DOMAIN P \cap S)
      BY <1>3, FS_Difference
    <3>2. DOMAIN P \cap S = S
      BY <2>2
    <3> QED
      BY <2>2, <2>4, <3>1, <3>2
  <2>6. ASSUME NEW g \in DOMAIN ddSeen \ DOMAIN seen, InWindow(ddSeen[g])
        PROVE  \E T \in SUBSET (DOMAIN ddSeen \ {f, g}) :
                    /\ Cardinality(T) >= DedupMax - E
                    /\ \A h \in T : ddSeen[h] >= ddSeen[g]
    <3>1. g \in S
      BY <1>2, <2>3, <2>6
    <3>2. \A h \in DOMAIN P \ S : ddSeen[h] >= ddSeen[g]
      <4> SUFFICES ASSUME NEW h \in DOMAIN P \ S PROVE ddSeen[h] >= ddSeen[g]
        OBVIOUS
      <4>1. ddSeen[g] <= ddSeen[h]
        BY <1>2, <2>2, <3>1
      <4>2. ddSeen[g] \in Int /\ ddSeen[h] \in Int
        BY <1>2 DEF DedupTypes
      <4> QED
        BY <4>1, <4>2
    <3>3. DOMAIN P \ S \in SUBSET (DOMAIN ddSeen \ {f, g})
      BY <1>2, <1>4, <3>1
    <3>4. Cardinality(DOMAIN P \ S) >= DedupMax - E
      BY <1>1, <2>5
    <3> QED
      BY <3>2, <3>3, <3>4
  <2>7. Cardinality(DOMAIN seen) < DedupMax
    BY <1>1, <2>3, <2>5
  <2> QED
    BY <1>2, <2>3, <2>6, <2>7
<1>8. Cardinality(DOMAIN ddSeen) \in Nat
  BY SeenFinite
<1>9. \/ seen = ddSeen /\ Cardinality(DOMAIN ddSeen) < DedupMax
      \/ seen = P /\ Cardinality(DOMAIN P) < DedupMax
      \/ /\ ~(Cardinality(DOMAIN P) < DedupMax)
         /\ \E S \in OldestSets(P, E) : seen = Keep(P, DOMAIN P \ S)
  BY DEF MadeRoom
<1> HIDE DEF P, E
<1>10. ~(Cardinality(DOMAIN P) < DedupMax) => Cardinality(DOMAIN P) >= DedupMax
  BY <1>1, <1>3
<1> QED
  BY <1>5, <1>6, <1>7, <1>9, <1>10 DEF E

\* The fingerprints that arrived are finitely many, whatever arrives next.
LEMMA ArrivedFinite ==
    ASSUME DedupTypes, NEW f \in Fingerprints, ddHit' = [ddHit EXCEPT ![f] = ddNow]
    PROVE  IsFiniteSet({g \in Fingerprints : ddHit'[g] >= 0})
<1>1. {g \in Fingerprints : ddHit'[g] >= 0} \subseteq {g \in Fingerprints : ddHit[g] >= 0} \cup {f}
  BY DEF DedupTypes
<1>2. IsFiniteSet({g \in Fingerprints : ddHit[g] >= 0} \cup {f})
  BY FS_AddElement DEF DedupTypes
<1> QED
  BY <1>1, <1>2, FS_Subset

\* What overtook a fingerprint stays ahead of it until it arrives itself.
LEMMA OvertakenStays ==
    ASSUME DedupTypes, DedupTypes', NEW f \in Fingerprints, NEW g \in Fingerprints \ {f},
           ddHit' = [ddHit EXCEPT ![f] = ddNow], ddHit[g] >= 0, NEW n \in Int,
           NEW T, T \subseteq SinceHit(g), Cardinality(T) > n \/ (f \notin T /\ Cardinality(T) >= n)
    PROVE  Cardinality(SinceHit(g)') > n
<1>1. SinceHit(g)' = {h \in Fingerprints \ {g} : ddHit'[h] >= ddHit'[g]}
  BY DEF SinceHit
<1>2. ddHit'[g] = ddHit[g] /\ ddHit'[f] = ddNow /\ \A h \in Fingerprints \ {f} : ddHit'[h] = ddHit[h]
  BY DEF DedupTypes
<1>3. IsFiniteSet(SinceHit(g)') /\ T \cup {f} \subseteq SinceHit(g)'
  <2>1. SinceHit(g)' \subseteq {h \in Fingerprints : ddHit'[h] >= 0}
    <3> SUFFICES ASSUME NEW h \in Fingerprints, ddHit'[h] >= ddHit'[g] PROVE ddHit'[h] >= 0
      BY <1>1
    <3>1. ddHit'[h] \in Int /\ ddHit'[g] \in Int /\ ddHit'[g] >= 0
      BY <1>2 DEF DedupTypes
    <3> QED
      BY <3>1
  <2>2. ddNow >= ddHit[g]
    BY DEF DedupTypes
  <2>3. T \cup {f} \subseteq SinceHit(g)'
    BY <1>1, <1>2, <2>2 DEF SinceHit
  <2> QED
    BY <2>1, <2>3, FS_Subset DEF DedupTypes
<1>4. IsFiniteSet(T \cup {f}) /\ IsFiniteSet(T)
  <2>1. T \subseteq T \cup {f}
    OBVIOUS
  <2> QED
    BY <1>3, <2>1, FS_Subset
<1>5. Cardinality(T \cup {f}) > n
  BY <1>4, FS_AddElement, FS_CardinalityType
<1>6. Cardinality(T \cup {f}) <= Cardinality(SinceHit(g)')
  BY <1>3, FS_Subset
<1>7. Cardinality(T \cup {f}) \in Nat /\ Cardinality(SinceHit(g)') \in Nat
  BY <1>3, <1>4, FS_CardinalityType
<1> HIDE DEF SinceHit
<1> QED
  BY <1>5, <1>6, <1>7

LEMMA ObserveStep ==
    ASSUME DedupInv, NEW f \in Fingerprints, Observe(f) PROVE DedupInv'
<1>1. DedupTypes /\ Cardinality(DOMAIN ddSeen) <= DedupMax /\ ForgottenOvertaken
  BY DEF DedupInv
<1>2. ddHit' = [ddHit EXCEPT ![f] = ddNow] /\ ddNow' = ddNow
  BY DEF Observe
<1>3. /\ ddHit' \in [Fingerprints -> Int] /\ ddHit'[f] = ddNow
      /\ \A g \in Fingerprints \ {f} : ddHit'[g] = ddHit[g]
  BY <1>1, <1>2 DEF DedupTypes
<1>4. PICK seen :
        /\ ddSeen' = Noted(seen, f)
        /\ DOMAIN seen \subseteq DOMAIN ddSeen /\ \A g \in DOMAIN seen : seen[g] = ddSeen[g]
        /\ f \in DOMAIN seen \/ Cardinality(DOMAIN seen) < DedupMax
        /\ \A g \in DOMAIN ddSeen \ DOMAIN seen : InWindow(ddSeen[g]) =>
              \E T \in SUBSET (DOMAIN ddSeen \ {f, g}) :
                  /\ Cardinality(T) >= DedupMax - DedupMax \div EvictDivisor
                  /\ \A h \in T : ddSeen[h] >= ddSeen[g]
  <2>1. CASE Duplicate(f)
    BY <2>1 DEF Observe, Duplicate
  <2>2. CASE ~Duplicate(f)
    <3>1. PICK seen \in MadeRoom(ddSeen) : ddSeen' = Noted(seen, f)
      BY <2>2 DEF Observe
    <3> QED
      BY <1>1, <2>2, <3>1, RoomIsMade
  <2> QED
    BY <2>1, <2>2
<1>5. /\ DOMAIN ddSeen' = DOMAIN seen \cup {f} /\ ddSeen'[f] = ddNow
      /\ \A g \in DOMAIN seen \ {f} : ddSeen'[g] = seen[g]
  BY <1>4 DEF Noted
<1>6. DedupTypes'
  <2>1. IsFiniteSet({g \in Fingerprints : ddHit'[g] >= 0})
    BY <1>1, <1>2, ArrivedFinite
  <2>2. \A g \in Fingerprints : ddHit'[g] <= ddNow'
    BY <1>1, <1>2, <1>3 DEF DedupTypes
  <2>3. DOMAIN ddSeen' \subseteq Fingerprints
    BY <1>1, <1>4, <1>5 DEF DedupTypes
  <2>4. \A g \in DOMAIN ddSeen' : ddHit'[g] >= 0 /\ ddSeen'[g] = ddHit'[g]
    BY <1>1, <1>3, <1>4, <1>5 DEF DedupTypes
  <2>5. ddNow' \in Nat
    BY <1>1, <1>2 DEF DedupTypes
  <2> QED
    BY <1>3, <2>1, <2>2, <2>3, <2>4, <2>5 DEF DedupTypes
<1>7. Cardinality(DOMAIN ddSeen') <= DedupMax
  <2>1. /\ IsFiniteSet(DOMAIN seen) /\ Cardinality(DOMAIN seen) \in Nat
        /\ Cardinality(DOMAIN seen) <= Cardinality(DOMAIN ddSeen) /\ Cardinality(DOMAIN ddSeen) \in Nat
    BY <1>1, <1>4, SeenFinite
  <2>2. Cardinality(DOMAIN seen) <= DedupMax
    BY <1>1, <2>1, EvictedShare
  <2>3. Cardinality(DOMAIN seen \cup {f}) =
          IF f \in DOMAIN seen THEN Cardinality(DOMAIN seen) ELSE Cardinality(DOMAIN seen) + 1
    BY <2>1, FS_AddElement
  <2> QED
    BY <1>4, <1>5, <2>1, <2>2, <2>3, EvictedShare
<1>8. ForgottenOvertaken'
  <2> DEFINE K == DedupMax - DedupMax \div EvictDivisor
  <2>1. K \in Int
    BY EvictedShare
  <2> HIDE DEF K
  <2> SUFFICES ASSUME NEW g \in Fingerprints, g \notin DOMAIN ddSeen',
                      ddHit'[g] >= 0, ddNow' - ddHit'[g] < DedupWindow
               PROVE  Cardinality(SinceHit(g)') > K
    BY DEF ForgottenOvertaken, InWindow, K
  <2>2. g # f /\ g \notin DOMAIN seen /\ ddHit'[g] = ddHit[g] /\ ddHit[g] >= 0 /\ InWindow(ddHit[g])
    BY <1>2, <1>3, <1>5 DEF InWindow
  <2>3. CASE g \notin DOMAIN ddSeen
    <3>1. Cardinality(SinceHit(g)) > K
      BY <1>1, <2>2, <2>3 DEF ForgottenOvertaken, K
    <3> QED
      BY <1>1, <1>2, <1>6, <2>1, <2>2, <3>1, OvertakenStays
  <2>4. CASE g \in DOMAIN ddSeen
    <3>1. ddSeen[g] = ddHit[g]
      BY <1>1, <2>4 DEF DedupTypes
    <3>2. PICK T \in SUBSET (DOMAIN ddSeen \ {f, g}) :
            Cardinality(T) >= K /\ \A h \in T : ddSeen[h] >= ddSeen[g]
      BY <1>4, <2>2, <2>4, <3>1 DEF K
    <3>3. T \subseteq SinceHit(g) /\ f \notin T
      BY <1>1, <3>1, <3>2 DEF SinceHit, DedupTypes
    <3> QED
      BY <1>1, <1>2, <1>6, <2>1, <2>2, <3>2, <3>3, OvertakenStays
  <2> QED
    BY <2>3, <2>4
<1> QED
  BY <1>6, <1>7, <1>8 DEF DedupInv

LEMMA DedupStep ==
    ASSUME DedupInv, [DedupNext]_dedupVars PROVE DedupInv'
<1>1. DedupTypes /\ Cardinality(DOMAIN ddSeen) <= DedupMax /\ ForgottenOvertaken
  BY DEF DedupInv
<1>2. CASE Prune
  <2>1. /\ DOMAIN ddSeen' = {f \in DOMAIN ddSeen : InWindow(ddSeen[f])}
        /\ \A f \in DOMAIN ddSeen' : ddSeen'[f] = ddSeen[f]
        /\ UNCHANGED <<ddNow, ddHit>>
    BY <1>2, PrunedFacts DEF Prune
  <2>2. DedupTypes'
    BY <1>1, <2>1 DEF DedupTypes
  <2>3. Cardinality(DOMAIN ddSeen') <= DedupMax
    <3>1. DOMAIN ddSeen' \subseteq DOMAIN ddSeen
      BY <2>1
    <3>2. /\ Cardinality(DOMAIN ddSeen') \in Nat /\ Cardinality(DOMAIN ddSeen) \in Nat
          /\ Cardinality(DOMAIN ddSeen') <= Cardinality(DOMAIN ddSeen)
      BY <1>1, <3>1, SeenFinite
    <3> QED
      BY <1>1, <3>2, EvictedShare
  <2>4. ASSUME NEW f \in Fingerprints PROVE InWindow(ddHit[f])' = InWindow(ddHit[f]) /\ SinceHit(f)' = SinceHit(f)
    BY <2>1 DEF InWindow, SinceHit
  <2>5. \A f \in Fingerprints \ DOMAIN ddSeen' : InWindow(ddHit[f]) => f \notin DOMAIN ddSeen
    BY <1>1, <2>1 DEF DedupTypes
  <2> QED
    BY <1>1, <2>1, <2>2, <2>3, <2>4, <2>5 DEF DedupInv, ForgottenOvertaken
<1>3. CASE ClockTicks
  <2>1. ddNow' = ddNow + 1 /\ UNCHANGED <<ddSeen, ddHit>>
    BY <1>3 DEF ClockTicks
  <2>2. DedupTypes'
    BY <1>1, <2>1 DEF DedupTypes
  <2>3. ASSUME NEW f \in Fingerprints PROVE InWindow(ddHit[f])' => InWindow(ddHit[f])
    <3>1. ddHit[f] \in Int /\ ddNow \in Nat /\ DedupWindow \in Nat
      BY <1>1, CollectionAssumption DEF DedupTypes
    <3> QED
      BY <2>1, <3>1 DEF InWindow
  <2>4. ASSUME NEW f \in Fingerprints PROVE SinceHit(f)' = SinceHit(f)
    BY <2>1 DEF SinceHit
  <2> QED
    BY <1>1, <2>1, <2>2, <2>3, <2>4 DEF DedupInv, ForgottenOvertaken
<1>4. CASE UNCHANGED dedupVars
  <2>1. UNCHANGED <<ddNow, ddSeen, ddHit>>
    BY <1>4 DEF dedupVars
  <2> QED
    BY <2>1 DEF DedupInv, DedupTypes, ForgottenOvertaken, InWindow, SinceHit
<1> QED
  BY <1>2, <1>3, <1>4, ObserveStep DEF DedupNext

\* For any number of fingerprints, any window and any share evicted: the
\* deduplication map keeps to max_entries, and a duplicate inside the window
\* passes only when so many others arrived since that the map had to forget.
THEOREM WindowKept == DedupSpec => []WindowRemembered
<1>1. DedupInit => DedupInv
  <2> SUFFICES ASSUME DedupInit PROVE DedupInv
    OBVIOUS
  <2>1. DOMAIN ddSeen = {} /\ \A f \in Fingerprints : ddHit[f] = -1
    BY DEF DedupInit
  <2>2. {f \in Fingerprints : ddHit[f] >= 0} = {}
    BY <2>1
  <2>3. DedupTypes
    <3>1. ddNow = 0 /\ ddHit \in [Fingerprints -> Int]
      BY DEF DedupInit
    <3>2. IsFiniteSet({f \in Fingerprints : ddHit[f] >= 0})
      BY <2>2, FS_EmptySet
    <3> QED
      BY <2>1, <3>1, <3>2 DEF DedupTypes
  <2>4. Cardinality(DOMAIN ddSeen) <= DedupMax
    BY <2>1, FS_EmptySet, EvictedShare
  <2> QED
    BY <2>1, <2>3, <2>4 DEF DedupInv, ForgottenOvertaken
<1>2. DedupInv /\ [DedupNext]_dedupVars => DedupInv'
  BY DedupStep
<1>3. DedupInv => WindowRemembered
  <2> SUFFICES ASSUME DedupInv PROVE WindowRemembered
    OBVIOUS
  <2>1. \A f \in DOMAIN ddSeen : ddSeen[f] = ddHit[f]
    BY DEF DedupInv, DedupTypes
  <2>2. \A f \in Fingerprints : InWindow(ddHit[f]) /\ ~Duplicate(f) => f \notin DOMAIN ddSeen
    BY <2>1 DEF Duplicate
  <2> QED
    BY <2>2 DEF DedupInv, ForgottenOvertaken, WindowRemembered, SinceHit
<1> QED
  BY <1>1, <1>2, <1>3, PTL DEF DedupSpec

-----------------------------------------------------------------------------
(* The packet ring. *)

LEMMA FrameFields ==
    /\ \A x \in Frames : x[1] \in Nat /\ x[2] \in Nat /\ x[2] \in Int
    /\ \A i, j \in Nat : <<i, j>> \in Frames /\ <<i, j>>[1] = i /\ <<i, j>>[2] = j
  BY DEF Frames

\* FrameBytes is the last of the running sums of the sizes.
LEMMA BytesAreSums ==
    ASSUME NEW frames \in Seq(Frames), NEW n \in Nat, n = Len(frames)
    PROVE  \E a, s : /\ Sums(s, a, n) /\ FrameBytes(frames) = s[n]
                     /\ \A i \in 1 .. n : a[i] \in Nat /\ a[i] \in Int /\ a[i] = frames[i][2]
<1>1. \A i \in 1 .. n : frames[i] \in Frames
  BY SeqEntries
<1>2. PICK a : a = [i \in 1 .. n |-> frames[i][2]]
  OBVIOUS
<1>3. \A i \in 1 .. n : a[i] \in Nat /\ a[i] \in Int /\ a[i] = frames[i][2]
  BY <1>1, <1>2, FrameFields
<1> DEFINE Next(f) == [i \in 0 .. n |-> IF i = 0 THEN 0 ELSE f[i - 1] + frames[i][2]]
           f == CHOOSE f : f = Next(f)
<1>4. PICK s : Sums(s, a, n)
  BY <1>3, SumsExist
<1>5. s = Next(s)
  <2>1. s = [i \in 0 .. n |-> s[i]]
    BY <1>4 DEF Sums
  <2>2. \A i \in 0 .. n : s[i] = IF i = 0 THEN 0 ELSE s[i - 1] + frames[i][2]
    <3> SUFFICES ASSUME NEW i \in 0 .. n, i # 0 PROVE s[i] = s[i - 1] + frames[i][2]
      BY <1>4 DEF Sums
    <3>1. i \in 1 .. n
      OBVIOUS
    <3> QED
      BY <1>3, <1>4, <3>1 DEF Sums
  <2> QED
    BY <2>1, <2>2
<1>6. f = Next(f)
  <2> HIDE DEF Next
  <2> QED
    BY <1>5
<1>7. FrameBytes(frames) = f[n]
  BY DEF FrameBytes
<1> HIDE DEF f
<1>8. f = [i \in 0 .. n |-> IF i = 0 THEN 0 ELSE f[i - 1] + a[i]]
  <2>1. \A i \in 0 .. n : i # 0 => a[i] = frames[i][2]
    BY <1>3
  <2> QED
    BY <1>6, <2>1
<1>9. Sums(f, a, n)
  BY <1>3, <1>8, SumsDefined
<1> QED
  BY <1>3, <1>7, <1>9

\* A stretch of the ring: its m frames after the first k.
PartOf(frames, n, a, s, part, m, k) ==
    /\ frames \in Seq(Frames) /\ part \in Seq(Frames) /\ n = Len(frames) /\ m = Len(part)
    /\ n \in Nat /\ m \in Nat /\ k \in Nat /\ k + m <= n
    /\ Sums(s, a, n) /\ \A i \in 1 .. n : a[i] \in Int /\ a[i] = frames[i][2]
    /\ \A i \in 1 .. m : part[i] = frames[k + i]

\* It weighs the difference of the sums at its ends.
LEMMA BytesOfStretch ==
    ASSUME NEW frames, NEW n, NEW a, NEW s, NEW part, NEW m, NEW k, PartOf(frames, n, a, s, part, m, k)
    PROVE  FrameBytes(part) = s[k + m] - s[k]
<1>1. PICK b, t : /\ Sums(t, b, m) /\ FrameBytes(part) = t[m]
                  /\ \A i \in 1 .. m : b[i] = part[i][2]
  BY BytesAreSums DEF PartOf
<1>2. \A i \in 1 .. m : b[i] = a[k + i]
  <2> SUFFICES ASSUME NEW i \in 1 .. m PROVE b[i] = a[k + i]
    OBVIOUS
  <2>1. k + i \in 1 .. n
    BY DEF PartOf
  <2> QED
    BY <1>1, <2>1 DEF PartOf
<1>3. Stretch(s, a, n, t, b, m, k)
  BY <1>1, <1>2 DEF PartOf, Stretch
<1>4. t[m] = s[k + m] - s[k]
  BY <1>3, SumOfStretch
<1> QED
  BY <1>1, <1>4

\* What push drops from the front is what the rest no longer weighs.
LEMMA BytesOfParts ==
    ASSUME NEW frames \in Seq(Frames), NEW len \in Nat, len = Len(frames), NEW n \in Nat, n <= len
    PROVE  LET left == SubSeq(frames, n + 1, len)
               gone == SubSeq(frames, 1, n)
           IN  /\ left \in Seq(Frames) /\ Len(left) = len - n
               /\ \A i \in 1 .. len - n : left[i] = frames[n + i]
               /\ FrameBytes(left) \in Nat /\ FrameBytes(frames) \in Nat
               /\ FrameBytes(left) = FrameBytes(frames) - FrameBytes(gone)
<1>1. len - n \in Nat /\ n + (len - n) = len
  OBVIOUS
<1>2. PICK m \in Nat : m = len - n /\ n + m = len /\ n + m <= len
  BY <1>1
<1>3. PICK left \in Seq(Frames) :
        left = SubSeq(frames, n + 1, len) /\ Len(left) = m /\ \A i \in 1 .. m : left[i] = frames[n + i]
  <2>1. n + m <= Len(frames)
    BY <1>2
  <2>2. /\ SubSeq(frames, n + 1, n + m) \in Seq(Frames) /\ Len(SubSeq(frames, n + 1, n + m)) = m
        /\ \A i \in 1 .. m : SubSeq(frames, n + 1, n + m)[i] = frames[n + i]
    BY <2>1, StretchEntries
  <2> QED
    BY <1>2, <2>2
<1>4. PICK gone \in Seq(Frames) :
        gone = SubSeq(frames, 1, n) /\ Len(gone) = n /\ \A i \in 1 .. n : gone[i] = frames[0 + i]
  <2>1. 0 + n <= Len(frames) /\ 0 + 1 = 1 /\ 0 + n = n
    OBVIOUS
  <2>2. /\ SubSeq(frames, 0 + 1, 0 + n) \in Seq(Frames) /\ Len(SubSeq(frames, 0 + 1, 0 + n)) = n
        /\ \A i \in 1 .. n : SubSeq(frames, 0 + 1, 0 + n)[i] = frames[0 + i]
    BY <2>1, StretchEntries
  <2> QED
    BY <2>1, <2>2
<1>5. PICK a, s : /\ Sums(s, a, len) /\ FrameBytes(frames) = s[len]
                  /\ \A i \in 1 .. len : a[i] \in Nat /\ a[i] \in Int /\ a[i] = frames[i][2]
  BY BytesAreSums
<1>6. \A i \in 1 .. len : a[i] \in Int /\ a[i] = frames[i][2]
  BY <1>5
<1>7. FrameBytes(left) = s[n + m] - s[n]
  <2>1. PartOf(frames, len, a, s, left, m, n)
    BY <1>2, <1>3, <1>5, <1>6 DEF PartOf
  <2> QED
    BY <2>1, BytesOfStretch
<1>8. FrameBytes(gone) = s[0 + n] - s[0]
  <2>1. 0 + n <= len
    OBVIOUS
  <2>2. PartOf(frames, len, a, s, gone, n, 0)
    BY <1>4, <1>5, <1>6, <2>1 DEF PartOf
  <2> QED
    BY <2>2, BytesOfStretch
<1>9. s[0] = 0 /\ s[n] \in Int /\ s[len] \in Nat /\ s[n] <= s[len]
  <2>1. s[0] = 0 /\ s \in [0 .. len -> Int] /\ n \in 0 .. len /\ len \in n .. len
    BY <1>5 DEF Sums
  <2>2. \A i \in 1 .. len : a[i] \in Nat
    BY <1>5
  <2>3. \A k \in 0 .. len : \A j \in k .. len : s[k] <= s[j] /\ s[j] \in Nat
    BY <1>5, <2>2, SumsGrow
  <2> QED
    BY <2>1, <2>3
<1>10. FrameBytes(left) = s[len] - FrameBytes(gone) /\ FrameBytes(left) \in Nat
  BY <1>2, <1>7, <1>8, <1>9
<1> QED
  BY <1>2, <1>3, <1>4, <1>5, <1>9, <1>10

LEMMA BytesOfAppend ==
    ASSUME NEW frames \in Seq(Frames), NEW x \in Frames
    PROVE  FrameBytes(Append(frames, x)) = FrameBytes(frames) + x[2]
<1>1. PICK n \in Nat : n = Len(frames)
  BY SeqEntries
<1>2. PICK more \in Seq(Frames), m \in Nat :
        /\ more = Append(frames, x) /\ m = Len(more) /\ m = n + 1 /\ more[m] = x
        /\ \A i \in 1 .. n : more[i] = frames[i]
  <2>1. /\ Append(frames, x) \in Seq(Frames) /\ Len(Append(frames, x)) = n + 1
        /\ Append(frames, x)[n + 1] = x /\ \A i \in 1 .. n : Append(frames, x)[i] = frames[i]
    BY <1>1
  <2>2. n + 1 \in Nat
    OBVIOUS
  <2> QED
    BY <2>1, <2>2
<1>3. PICK a, s : /\ Sums(s, a, m) /\ FrameBytes(more) = s[m]
                  /\ \A i \in 1 .. m : a[i] \in Nat /\ a[i] \in Int /\ a[i] = more[i][2]
  BY <1>2, BytesAreSums
<1>4. \A i \in 1 .. m : a[i] \in Int /\ a[i] = more[i][2]
  BY <1>3
<1>5. 0 + n <= m /\ \A i \in 1 .. n : frames[i] = more[0 + i]
  <2>1. 0 + n <= m
    BY <1>2
  <2>2. \A i \in 1 .. n : 0 + i = i
    OBVIOUS
  <2> QED
    BY <1>2, <2>1, <2>2
<1>6. FrameBytes(frames) = s[0 + n] - s[0]
  <2>1. PartOf(more, m, a, s, frames, n, 0)
    BY <1>1, <1>2, <1>3, <1>4, <1>5 DEF PartOf
  <2> QED
    BY <2>1, BytesOfStretch
<1>7. s[0] = 0 /\ s[n] \in Int /\ s[m] = s[m - 1] + a[m] /\ a[m] = x[2] /\ m - 1 = n
  <2>1. m \in 1 .. m /\ n \in 0 .. m /\ m - 1 = n
    BY <1>2
  <2> QED
    BY <1>2, <1>3, <2>1 DEF Sums
<1> QED
  BY <1>2, <1>3, <1>6, <1>7

LEMMA NoBytes ==
    ASSUME NEW frames \in Seq(Frames)
    PROVE  Len(frames) = 0 => FrameBytes(frames) = 0
<1>1. PICK n \in Nat : n = Len(frames)
  BY SeqEntries
<1>2. PICK a, s : Sums(s, a, n) /\ FrameBytes(frames) = s[n]
  BY <1>1, BytesAreSums
<1> QED
  BY <1>1, <1>2 DEF Sums

\* push evicts the fewest frames that make room, and all of them only when
\* the frame is larger than the ring.
LEMMA EvictionFits ==
    ASSUME RingInv, NEW size \in Nat, NEW len \in Nat, len = Len(pcFrames)
    PROVE  \E n \in Nat :
              /\ n = Evictions(size) /\ n <= len
              /\ size <= MaxTotalBytes =>
                    /\ len - n < MaxPackets
                    /\ FrameBytes(SubSeq(pcFrames, n + 1, len)) + size <= MaxTotalBytes
              /\ size > MaxTotalBytes => n = len
<1> DEFINE Fits(n) == len - n < MaxPackets /\ FrameBytes(SubSeq(pcFrames, n + 1, len)) + size <= MaxTotalBytes
           fits == {n \in 0 .. len : Fits(n)}
<1>1. pcFrames \in Seq(Frames) /\ MaxTotalBytes \in Nat /\ MaxPackets \in Nat \ {0}
  BY CollectionAssumption DEF RingInv, RingTypes
<1>2. Evictions(size) = IF fits = {} THEN len ELSE Min(fits)
  BY DEF Evictions
<1>3. \A n \in 0 .. len : FrameBytes(SubSeq(pcFrames, n + 1, len)) \in Nat
  <2> SUFFICES ASSUME NEW n \in 0 .. len PROVE FrameBytes(SubSeq(pcFrames, n + 1, len)) \in Nat
    OBVIOUS
  <2>1. n \in Nat /\ n <= len
    OBVIOUS
  <2> QED
    BY <1>1, <2>1, BytesOfParts
<1>4. size > MaxTotalBytes => fits = {}
  <2> SUFFICES ASSUME size > MaxTotalBytes, NEW n \in 0 .. len, Fits(n) PROVE FALSE
    OBVIOUS
  <2>1. PICK w \in Nat : w = FrameBytes(SubSeq(pcFrames, n + 1, len))
    BY <1>3
  <2>2. w + size <= MaxTotalBytes
    BY <2>1
  <2> QED
    BY <1>1, <2>1, <2>2
<1>5. size <= MaxTotalBytes => len \in fits
  <2> SUFFICES ASSUME size <= MaxTotalBytes PROVE Fits(len)
    OBVIOUS
  <2>1. len <= len /\ len - len = 0
    OBVIOUS
  <2>2. PICK rest : rest = SubSeq(pcFrames, len + 1, len)
    OBVIOUS
  <2>3. rest \in Seq(Frames) /\ Len(rest) = len - len
    BY <1>1, <2>1, <2>2, BytesOfParts
  <2>4. FrameBytes(rest) = 0
    BY <2>1, <2>3, NoBytes
  <2>5. len - len < MaxPackets
    BY <1>1, <2>1
  <2>6. FrameBytes(SubSeq(pcFrames, len + 1, len)) + size <= MaxTotalBytes
    BY <2>2, <2>4
  <2> QED
    BY <2>5, <2>6
<1>6. fits \subseteq Nat /\ fits \subseteq 0 .. len
  OBVIOUS
<1>7. CASE fits = {}
  <2>1. Evictions(size) = len /\ ~(size <= MaxTotalBytes)
    BY <1>2, <1>5, <1>7
  <2> QED
    BY <2>1
<1>8. CASE fits # {}
  <2>1. ~(size > MaxTotalBytes)
    BY <1>4, <1>8
  <2>2. Min(fits) \in fits
    <3> HIDE DEF fits
    <3>1. \E m \in fits : \A k \in fits : m <= k
      BY <1>6, <1>8, LeastNatural
    <3> QED
      BY <3>1 DEF Min
  <2>3. PICK n \in fits : n = Evictions(size)
    BY <1>2, <1>8, <2>2
  <2>4. n \in Nat /\ n <= len /\ Fits(n)
    BY <2>3
  <2> QED
    BY <2>1, <2>3, <2>4
<1> QED
  BY <1>7, <1>8

LEMMA CaptureKeeps ==
    ASSUME RingInv, NEW size \in FrameSizes, CaptureFrame(size)
    PROVE  RingInv'
<1>1. /\ pcFrames \in Seq(Frames) /\ pcTotal = FrameBytes(pcFrames) /\ pcTotal <= MaxTotalBytes
      /\ pcCounts \in [offered : Nat, dropped : Nat, rejected : Nat, drained : Nat]
      /\ \A i \in DOMAIN pcFrames : pcFrames[i][1] <= pcCounts.offered
      /\ \A i, j \in DOMAIN pcFrames : i < j => pcFrames[i][1] < pcFrames[j][1]
      /\ size \in Nat /\ MaxTotalBytes \in Nat /\ MaxPackets \in Nat \ {0} /\ MaxPacketBytes \in Nat
  BY CollectionAssumption DEF RingInv, RingTypes, RingAccounts
<1>2. PICK len \in Nat : len = Len(pcFrames) /\ DOMAIN pcFrames = 1 .. len
                         /\ \A i \in 1 .. len : pcFrames[i] \in Frames
  BY <1>1, SeqEntries
<1>3. PICK off \in Nat, dro \in Nat, rej \in Nat, dra \in Nat :
        pcCounts = [offered |-> off, dropped |-> dro, rejected |-> rej, drained |-> dra]
  BY <1>1
<1>4. len <= MaxPackets /\ off = dro + rej + dra + len
  BY <1>2, <1>3 DEF RingInv, RingAccounts
<1>5. \A i \in 1 .. len : pcFrames[i][1] <= off /\ pcFrames[i][1] \in Nat
  BY <1>1, <1>2, <1>3, FrameFields
<1>6. CASE size > MaxPacketBytes
  <2>1. /\ UNCHANGED <<pcFrames, pcTotal>>
        /\ pcCounts' = [offered |-> off + 1, dropped |-> dro + 0, rejected |-> rej + 1, drained |-> dra]
    BY <1>3, <1>6 DEF CaptureFrame
  <2>2. /\ pcCounts' \in [offered : Nat, dropped : Nat, rejected : Nat, drained : Nat]
        /\ pcCounts'.offered = off + 1
        /\ pcCounts'.offered = pcCounts'.dropped + pcCounts'.rejected + pcCounts'.drained + len
    BY <1>4, <2>1
  <2>3. \A i \in 1 .. len : pcFrames[i][1] <= off + 1
    BY <1>5
  <2>4. RingTypes'
    BY <1>1, <1>2, <2>1, <2>2, <2>3 DEF RingTypes
  <2>5. RingAccounts'
    BY <1>1, <1>2, <1>4, <2>1, <2>2 DEF RingAccounts
  <2> QED
    BY <2>4, <2>5 DEF RingInv
<1>7. CASE ~(size > MaxPacketBytes)
  <2>1. PICK n \in Nat :
              /\ n = Evictions(size) /\ n <= len
              /\ size <= MaxTotalBytes =>
                    /\ len - n < MaxPackets
                    /\ FrameBytes(SubSeq(pcFrames, n + 1, len)) + size <= MaxTotalBytes
              /\ size > MaxTotalBytes => n = len
    BY <1>1, <1>2, EvictionFits
  <2>2. PICK left : left = SubSeq(pcFrames, n + 1, len)
    OBVIOUS
  <2>3. /\ left \in Seq(Frames) /\ Len(left) = len - n
        /\ \A i \in 1 .. len - n : left[i] = pcFrames[n + i]
        /\ FrameBytes(left) \in Nat
        /\ FrameBytes(left) = FrameBytes(pcFrames) - FrameBytes(SubSeq(pcFrames, 1, n))
    <3>1. pcFrames \in Seq(Frames) /\ len = Len(pcFrames) /\ n <= len
      BY <1>1, <1>2, <2>1
    <3>2. /\ SubSeq(pcFrames, n + 1, len) \in Seq(Frames) /\ Len(SubSeq(pcFrames, n + 1, len)) = len - n
          /\ \A i \in 1 .. len - n : SubSeq(pcFrames, n + 1, len)[i] = pcFrames[n + i]
          /\ FrameBytes(SubSeq(pcFrames, n + 1, len)) \in Nat
          /\ FrameBytes(SubSeq(pcFrames, n + 1, len)) = FrameBytes(pcFrames) - FrameBytes(SubSeq(pcFrames, 1, n))
      BY <3>1, BytesOfParts
    <3> QED
      BY <2>2, <3>2
  <2>4. PICK m \in Nat : m = len - n /\ m = Len(left) /\ n + m = len
    <3>1. len - n \in Nat /\ n + (len - n) = len
      BY <2>1
    <3> QED
      BY <2>3, <3>1
  <2>5. \A i \in 1 .. m : left[i][1] <= off /\ left[i][1] \in Nat
    <3> SUFFICES ASSUME NEW i \in 1 .. m PROVE left[i][1] <= off /\ left[i][1] \in Nat
      OBVIOUS
    <3>1. n + i \in 1 .. len
      BY <2>4
    <3> QED
      BY <1>5, <2>3, <2>4, <3>1
  <2>6. \A i, j \in 1 .. m : i < j => left[i][1] < left[j][1]
    <3> SUFFICES ASSUME NEW i \in 1 .. m, NEW j \in 1 .. m, i < j PROVE left[i][1] < left[j][1]
      OBVIOUS
    <3>1. n + i \in 1 .. len /\ n + j \in 1 .. len /\ n + i < n + j
      BY <2>4
    <3>2. \A g, h \in 1 .. len : g < h => pcFrames[g][1] < pcFrames[h][1]
      BY <1>1, <1>2
    <3>3. pcFrames[n + i][1] < pcFrames[n + j][1]
      BY <3>1, <3>2
    <3>4. left[i] = pcFrames[n + i] /\ left[j] = pcFrames[n + j]
      BY <2>3, <2>4
    <3> QED
      BY <3>3, <3>4
  <2>7. CASE size > MaxTotalBytes
    <3>1. /\ pcFrames' = left /\ pcTotal' = pcTotal - FrameBytes(SubSeq(pcFrames, 1, n)) + 0
          /\ pcCounts' = [offered |-> off + 1, dropped |-> dro + n, rejected |-> rej + 1, drained |-> dra]
      BY <1>2, <1>3, <1>7, <2>1, <2>2, <2>7 DEF CaptureFrame
    <3>2. m = 0 /\ DOMAIN left = 1 .. m /\ \A i : i \notin 1 .. 0
      BY <2>1, <2>3, <2>4, <2>7, SeqEntries
    <3>3. FrameBytes(left) = 0
      BY <2>3, <2>4, <3>2, NoBytes
    <3>4. pcTotal' = 0
      BY <1>1, <2>3, <3>1, <3>3, BytesOfParts
    <3>5. /\ pcCounts' \in [offered : Nat, dropped : Nat, rejected : Nat, drained : Nat]
          /\ pcCounts'.offered = off + 1
          /\ pcCounts'.offered = pcCounts'.dropped + pcCounts'.rejected + pcCounts'.drained + m
      BY <1>4, <2>4, <3>1
    <3>6. RingTypes'
      BY <2>3, <3>1, <3>2, <3>5 DEF RingTypes
    <3>7. RingAccounts'
      BY <1>1, <2>4, <3>1, <3>2, <3>3, <3>4, <3>5 DEF RingAccounts
    <3> QED
      BY <3>6, <3>7 DEF RingInv
  <2>8. CASE ~(size > MaxTotalBytes)
    <3>0. size <= MaxTotalBytes
      BY <1>1, <2>8
    <3>1. /\ pcFrames' = Append(left, <<off + 1, size>>)
          /\ pcTotal' = pcTotal - FrameBytes(SubSeq(pcFrames, 1, n)) + size
          /\ pcCounts' = [offered |-> off + 1, dropped |-> dro + n, rejected |-> rej + 0, drained |-> dra]
      BY <1>2, <1>3, <1>7, <2>1, <2>2, <2>8 DEF CaptureFrame
    <3>2. PICK x \in Frames : x = <<off + 1, size>> /\ x[1] = off + 1 /\ x[2] = size
      <4>1. PICK k \in Nat, z \in Nat : k = off + 1 /\ z = size
        BY <1>1
      <4>2. <<k, z>> \in Frames /\ <<k, z>>[1] = k /\ <<k, z>>[2] = z
        BY FrameFields
      <4> QED
        BY <4>1, <4>2
    <3>3. /\ pcFrames' \in Seq(Frames) /\ DOMAIN pcFrames' = 1 .. m + 1 /\ Len(pcFrames') = m + 1
          /\ \A i \in 1 .. m : pcFrames'[i] = left[i]
          /\ pcFrames'[m + 1] = x
      <4>1. /\ Append(left, x) \in Seq(Frames) /\ DOMAIN Append(left, x) = 1 .. Len(left) + 1
            /\ \A i \in 1 .. Len(left) : Append(left, x)[i] = left[i]
            /\ Append(left, x)[Len(left) + 1] = x
        BY <2>3, AppendEntries
      <4>2. Len(Append(left, x)) = Len(left) + 1
        BY <2>3
      <4> QED
        BY <2>4, <3>1, <3>2, <4>1, <4>2
    <3>4. FrameBytes(pcFrames') = FrameBytes(left) + size
      BY <2>3, <3>1, <3>2, BytesOfAppend
    <3>5. pcTotal' = FrameBytes(pcFrames') /\ pcTotal' <= MaxTotalBytes
      <4>1. FrameBytes(pcFrames) \in Nat
        BY <1>1, <1>2, <2>1, BytesOfParts
      <4>2. PICK a, b, c : /\ a \in Nat /\ a = FrameBytes(pcFrames)
                           /\ b \in Nat /\ b = FrameBytes(left)
                           /\ c = FrameBytes(SubSeq(pcFrames, 1, n)) /\ b = a - c
        BY <2>3, <4>1
      <4>3. c \in Int /\ (a - c) + size = b + size
        <5>1. c = FrameBytes(SubSeq(pcFrames, 1, n))
          BY <4>2
        <5>2. SubSeq(pcFrames, 1, n) \in Seq(Frames) /\ Len(SubSeq(pcFrames, 1, n)) = n
          <6>1. 0 + n <= Len(pcFrames) /\ 0 + 1 = 1 /\ 0 + n = n
            BY <1>2, <2>1
          <6>2. SubSeq(pcFrames, 0 + 1, 0 + n) \in Seq(Frames) /\ Len(SubSeq(pcFrames, 0 + 1, 0 + n)) = n
            BY <1>1, <6>1, StretchEntries
          <6> QED
            BY <6>1, <6>2
        <5>3. PICK gone \in Seq(Frames) : gone = SubSeq(pcFrames, 1, n) /\ Len(gone) = n
          BY <5>2
        <5>4. FrameBytes(gone) \in Nat
          <6>1. n <= n
            OBVIOUS
          <6> QED
            BY <5>3, <6>1, BytesOfParts
        <5> QED
          BY <4>2, <5>1, <5>3, <5>4
      <4>4. b + size <= MaxTotalBytes
        BY <2>1, <2>2, <3>0, <4>2
      <4>5. pcTotal' = (a - c) + size
        BY <1>1, <3>1, <4>2
      <4> QED
        BY <3>4, <4>2, <4>3, <4>4, <4>5
    <3>6. /\ pcCounts' \in [offered : Nat, dropped : Nat, rejected : Nat, drained : Nat]
          /\ pcCounts'.offered = off + 1
          /\ pcCounts'.offered = pcCounts'.dropped + pcCounts'.rejected + pcCounts'.drained + (m + 1)
      BY <1>4, <2>4, <3>1
    <3>7. \A i \in 1 .. m + 1 : i \in 1 .. m \/ i = m + 1
      OBVIOUS
    <3>8. \A i \in 1 .. m + 1 : pcFrames'[i][1] <= off + 1
      <4> SUFFICES ASSUME NEW i \in 1 .. m + 1 PROVE pcFrames'[i][1] <= off + 1
        OBVIOUS
      <4>1. CASE i \in 1 .. m
        <5>1. pcFrames'[i] = left[i] /\ left[i][1] <= off /\ left[i][1] \in Nat
          BY <2>5, <3>3, <4>1
        <5> QED
          BY <5>1
      <4>2. CASE i = m + 1
        <5>1. pcFrames'[i][1] = off + 1
          BY <3>2, <3>3, <4>2
        <5> QED
          BY <5>1
      <4> QED
        BY <3>7, <4>1, <4>2
    <3>9. \A i, j \in 1 .. m + 1 : i < j => pcFrames'[i][1] < pcFrames'[j][1]
      <4> SUFFICES ASSUME NEW i \in 1 .. m + 1, NEW j \in 1 .. m + 1, i < j
                   PROVE  pcFrames'[i][1] < pcFrames'[j][1]
        OBVIOUS
      <4>1. i \in 1 .. m
        OBVIOUS
      <4>2. CASE j \in 1 .. m
        BY <2>6, <3>3, <4>1, <4>2
      <4>3. CASE j = m + 1
        BY <2>5, <3>2, <3>3, <4>1, <4>3
      <4> QED
        BY <3>7, <4>2, <4>3
    <3>10. RingTypes'
      BY <3>3, <3>6, <3>8 DEF RingTypes
    <3>11. m + 1 <= MaxPackets
      BY <1>1, <2>1, <2>4, <3>0
    <3>12. RingAccounts'
      BY <3>3, <3>5, <3>6, <3>9, <3>11 DEF RingAccounts
    <3> QED
      BY <3>10, <3>12 DEF RingInv
  <2> QED
    BY <2>7, <2>8
<1> QED
  BY <1>6, <1>7

\* The capture ring keeps to both of its limits with an exact byte count,
\* holds its frames in order and accounts for every frame offered: for any
\* limits, any frame sizes, and pushes and drains in any order.
THEOREM RingExact == PcapSpec => []RingAccounts
<1>1. PcapInit => RingInv
  <2> SUFFICES ASSUME PcapInit PROVE RingInv
    OBVIOUS
  <2>1. /\ pcFrames = <<>> /\ pcTotal = 0
        /\ pcCounts = [offered |-> 0, dropped |-> 0, rejected |-> 0, drained |-> 0]
    BY DEF PcapInit
  <2>2. pcFrames \in Seq(Frames) /\ Len(pcFrames) = 0 /\ DOMAIN pcFrames = {}
    BY <2>1
  <2>3. FrameBytes(pcFrames) = 0
    BY <2>2, NoBytes
  <2>4. 0 <= MaxTotalBytes /\ 0 <= MaxPackets
    BY CollectionAssumption
  <2>5. RingTypes
    BY <2>1, <2>2 DEF RingTypes
  <2>6. RingAccounts
    BY <2>1, <2>2, <2>3, <2>4 DEF RingAccounts
  <2> QED
    BY <2>5, <2>6 DEF RingInv
<1>2. RingInv /\ [PcapNext]_pcapVars => RingInv'
  <2> SUFFICES ASSUME RingInv, [PcapNext]_pcapVars PROVE RingInv'
    OBVIOUS
  <2>1. CASE DrainFrames
    <3>1. /\ pcFrames' = <<>> /\ pcTotal' = 0
          /\ pcCounts' = [pcCounts EXCEPT !.drained = @ + Len(pcFrames)]
      BY <2>1 DEF DrainFrames
    <3>2. pcFrames' \in Seq(Frames) /\ Len(pcFrames') = 0 /\ DOMAIN pcFrames' = {}
      BY <3>1
    <3>3. FrameBytes(pcFrames') = 0
      BY <3>2, NoBytes
    <3>4. 0 <= MaxTotalBytes /\ 0 <= MaxPackets
      BY CollectionAssumption
    <3>5. PICK len \in Nat : len = Len(pcFrames)
      BY SeqEntries DEF RingInv, RingTypes
    <3>6. /\ pcCounts \in [offered : Nat, dropped : Nat, rejected : Nat, drained : Nat]
          /\ pcCounts.offered = pcCounts.dropped + pcCounts.rejected + pcCounts.drained + len
      BY <3>5 DEF RingInv, RingTypes, RingAccounts
    <3>7. /\ pcCounts' \in [offered : Nat, dropped : Nat, rejected : Nat, drained : Nat]
          /\ pcCounts'.offered = pcCounts'.dropped + pcCounts'.rejected + pcCounts'.drained + 0
      <4>1. PICK off \in Nat, dro \in Nat, rej \in Nat, dra \in Nat :
              pcCounts = [offered |-> off, dropped |-> dro, rejected |-> rej, drained |-> dra]
        BY <3>6
      <4>2. pcCounts' = [offered |-> off, dropped |-> dro, rejected |-> rej, drained |-> dra + len]
        BY <3>1, <3>5, <4>1
      <4>3. off = dro + rej + dra + len
        BY <3>6, <4>1
      <4> QED
        BY <4>2, <4>3
    <3>8. RingTypes'
      BY <3>2, <3>7 DEF RingTypes
    <3>9. RingAccounts'
      BY <3>1, <3>2, <3>3, <3>4, <3>7 DEF RingAccounts
    <3> QED
      BY <3>8, <3>9 DEF RingInv
  <2>2. CASE UNCHANGED pcapVars
    BY <2>2 DEF pcapVars, RingInv, RingTypes, RingAccounts
  <2> QED
    BY <2>1, <2>2, CaptureKeeps DEF PcapNext
<1> QED
  BY <1>1, <1>2, PTL DEF PcapSpec, RingInv

-----------------------------------------------------------------------------
(* Link bonding. *)

\* The weights of the first members are running sums.
LEMMA WeightFacts ==
    \E N, a, W :
        /\ N \in Nat \ {0}
        /\ N = Len(Members) /\ DOMAIN Members = 1 .. N /\ W = WeightOfFirst
        /\ Paths = {Members[i] : i \in 1 .. N}
        /\ \A i, j \in 1 .. N : Members[i] = Members[j] => i = j
        /\ \A i \in 1 .. N : a[i] \in Nat \ {0} /\ a[i] = Weights[Members[i]]
        /\ Sums(W, a, N)
<1>1. PICK N \in Nat : N = Len(Members) /\ DOMAIN Members = 1 .. N /\ N # 0
  BY FailoverAssumption, SeqEntries
<1>2. Paths = {Members[i] : i \in 1 .. N}
  BY <1>1 DEF Paths, ToSet
<1>3. \A i, j \in 1 .. N : Members[i] = Members[j] => i = j
  BY <1>1, FailoverAssumption DEF IsInjective
<1>4. PICK a : a = [i \in 1 .. N |-> Weights[Members[i]]]
  OBVIOUS
<1>5. \A i \in 1 .. N : a[i] \in Nat \ {0} /\ a[i] \in Int /\ a[i] = Weights[Members[i]]
  BY <1>2, <1>4, FailoverAssumption DEF Paths
<1> DEFINE Rec(f) == [i \in 0 .. N |-> IF i = 0 THEN 0 ELSE f[i - 1] + Weights[Members[i]]]
<1>6. PICK s : Sums(s, a, N)
  BY <1>5, SumsExist
<1>7. s = Rec(s)
  <2>1. s = [i \in 0 .. N |-> s[i]]
    BY <1>6 DEF Sums
  <2>2. \A i \in 0 .. N : s[i] = IF i = 0 THEN 0 ELSE s[i - 1] + Weights[Members[i]]
    <3> SUFFICES ASSUME NEW i \in 0 .. N, i # 0 PROVE s[i] = s[i - 1] + Weights[Members[i]]
      BY <1>6 DEF Sums
    <3>1. i \in 1 .. N
      OBVIOUS
    <3> QED
      BY <1>5, <1>6, <3>1 DEF Sums
  <2> QED
    BY <2>1, <2>2
<1>8. PICK W : W = WeightOfFirst
  OBVIOUS
<1>9. W = CHOOSE f : f = Rec(f)
  BY <1>1, <1>8 DEF WeightOfFirst
<1>10. W = Rec(W)
  <2> HIDE DEF Rec
  <2> QED
    BY <1>7, <1>9
<1>11. W = [i \in 0 .. N |-> IF i = 0 THEN 0 ELSE W[i - 1] + a[i]]
  <2>1. \A i \in 0 .. N : i # 0 => a[i] = Weights[Members[i]]
    BY <1>5
  <2> QED
    BY <1>10, <2>1
<1>12. Sums(W, a, N)
  BY <1>5, <1>11, SumsDefined
<1> QED
  BY <1>1, <1>2, <1>3, <1>5, <1>8, <1>12

\* The members without their running sums.
LEMMA MemberFacts ==
    \E N, a :
        /\ N \in Nat \ {0}
        /\ N = Len(Members) /\ DOMAIN Members = 1 .. N /\ Paths = {Members[i] : i \in 1 .. N}
        /\ \A i \in 1 .. N : a[i] \in Nat \ {0} /\ a[i] = Weights[Members[i]]
<1>1. PICK N, a, W :
        /\ N \in Nat \ {0}
        /\ N = Len(Members) /\ DOMAIN Members = 1 .. N /\ W = WeightOfFirst
        /\ Paths = {Members[i] : i \in 1 .. N}
        /\ \A i, j \in 1 .. N : Members[i] = Members[j] => i = j
        /\ \A i \in 1 .. N : a[i] \in Nat \ {0} /\ a[i] = Weights[Members[i]]
        /\ Sums(W, a, N)
  BY WeightFacts
<1> WITNESS N, a
<1> QED
  BY <1>1

LEMMA TotalWeightPositive == TotalWeight \in Nat \ {0}
<1>1. PICK N, a, W :
        /\ N \in Nat \ {0}
        /\ N = Len(Members) /\ W = WeightOfFirst /\ Sums(W, a, N)
        /\ \A i \in 1 .. N : a[i] \in Nat \ {0}
  BY WeightFacts
<1> N \in Nat \ {0}
  BY <1>1
<1>2. \A i \in 1 .. N : a[i] \in Nat
  BY <1>1
<1>3. \A k \in 0 .. N : \A j \in k .. N : W[k] <= W[j] /\ W[j] \in Nat
  BY <1>1, <1>2, SumsGrow
<1>4. 1 \in 0 .. N /\ N \in 1 .. N /\ 1 \in 1 .. N /\ 1 - 1 = 0
  OBVIOUS
<1>5. W[1] <= W[N] /\ W[N] \in Nat
  BY <1>3, <1>4
<1>6. W[1] = W[0] + a[1] /\ W[0] = 0
  BY <1>1, <1>4 DEF Sums
<1>7. W[N] # 0
  BY <1>1, <1>4, <1>5, <1>6
<1> QED
  BY <1>1, <1>5, <1>7 DEF TotalWeight

\* next_weighted: the cursor is inside the share of the member it picks.
LEMMA PickedMember ==
    ASSUME NEW c \in Nat
    PROVE  \E i \in 1 .. Len(Members) :
              /\ NextWeighted(c) = Members[i]
              /\ c % TotalWeight < WeightOfFirst[i] /\ WeightOfFirst[i - 1] <= c % TotalWeight
<1>1. PICK N, a, W :
        /\ N \in Nat \ {0}
        /\ N = Len(Members) /\ W = WeightOfFirst /\ Sums(W, a, N) /\ DOMAIN Members = 1 .. N
        /\ Paths = {Members[i] : i \in 1 .. N}
  BY WeightFacts
<1> N \in Nat \ {0}
  BY <1>1
<1>2. PICK T \in Nat \ {0} : T = TotalWeight /\ T = W[N]
  BY <1>1, TotalWeightPositive DEF TotalWeight
<1>3. PICK r \in 0 .. T - 1 : r = c % TotalWeight
  BY <1>2, Division
<1> DEFINE In(i) == r < W[i] /\ \A j \in 1 .. i - 1 : r >= W[j]
<1>4. NextWeighted(c) = CHOOSE p \in Paths : \E i \in 1 .. N : p = Members[i] /\ In(i)
  BY <1>1, <1>3 DEF NextWeighted
<1>5. \E i \in 1 .. N : In(i)
  <2> DEFINE S == {i \in 1 .. N : r < W[i]}
  <2>1. N \in S /\ S \subseteq Nat
    BY <1>2, <1>3
  <2>2. PICK i \in S : \A j \in S : i <= j
    <3> HIDE DEF S
    <3> QED
      BY <2>1, LeastNatural
  <2>3. ASSUME NEW j \in 1 .. i - 1 PROVE r >= W[j]
    <3>1. j \in 1 .. N /\ ~(i <= j) /\ j \in 0 .. N
      BY <2>2
    <3>2. ~(r < W[j])
      BY <2>2, <3>1
    <3>3. W[j] \in Int
      BY <1>1, <3>1 DEF Sums
    <3> QED
      BY <3>2, <3>3
  <2> QED
    BY <2>2, <2>3
<1> HIDE DEF In
<1>6. PICK i \in 1 .. N : NextWeighted(c) = Members[i] /\ In(i)
  <2>1. \E p \in Paths : \E i \in 1 .. N : p = Members[i] /\ In(i)
    BY <1>1, <1>5
  <2> QED
    BY <1>4, <2>1
<1>7. r < W[i] /\ W[i - 1] <= r
  <2>1. CASE i = 1
    <3>1. W[0] = 0 /\ i - 1 = 0
      BY <1>1, <2>1 DEF Sums
    <3> QED
      BY <1>6, <3>1 DEF In
  <2>2. CASE i # 1
    <3>1. i - 1 \in 1 .. i - 1 /\ i - 1 \in 0 .. N
      BY <2>2
    <3>2. W[i - 1] \in Int
      BY <1>1, <3>1 DEF Sums
    <3> QED
      BY <1>6, <3>1, <3>2 DEF In
  <2> QED
    BY <2>1, <2>2
<1> QED
  BY <1>1, <1>3, <1>6, <1>7

\* A member has none of its share at the start of a cycle and all of it at
\* the end; in between a packet is one more for the member it goes to.
LEMMA ShareFacts ==
    ASSUME NEW k \in 1 .. Len(Members)
    PROVE  /\ \A r \in Nat : PartOfShare(k, r) \in 0 .. Weights[Members[k]]
           /\ PartOfShare(k, 0) = 0
           /\ PartOfShare(k, TotalWeight) = Weights[Members[k]]
           /\ \A r \in Nat, i \in 1 .. Len(Members) :
                r < WeightOfFirst[i] /\ WeightOfFirst[i - 1] <= r =>
                    PartOfShare(k, r + 1) = PartOfShare(k, r) + (IF k = i THEN 1 ELSE 0)
<1>1. PICK N, a, W :
        /\ N \in Nat \ {0}
        /\ N = Len(Members) /\ W = WeightOfFirst /\ Sums(W, a, N)
        /\ \A i \in 1 .. N : a[i] \in Nat \ {0} /\ a[i] = Weights[Members[i]]
  BY WeightFacts
<1> N \in Nat \ {0}
  BY <1>1
<1>2. \A i \in 1 .. N : a[i] \in Nat
  BY <1>1
<1>3. \A i \in 0 .. N : \A j \in i .. N : W[i] <= W[j] /\ W[j] \in Nat
  BY <1>1, <1>2, SumsGrow
<1>4. k \in 1 .. N /\ k - 1 \in 0 .. N /\ k \in 0 .. N /\ N \in k .. N /\ k - 1 \in k - 1 .. N /\ k \in k .. N
  BY <1>1
<1>5. PICK w \in Nat, x \in Nat, z \in Nat \ {0}, T \in Nat :
        w = W[k - 1] /\ x = W[k] /\ z = a[k] /\ T = W[N] /\ x = w + z /\ x <= T
  <2>1. W[k - 1] \in Nat /\ W[k] \in Nat /\ W[N] \in Nat /\ W[k] <= W[N] /\ a[k] \in Nat \ {0}
    BY <1>1, <1>3, <1>4
  <2>2. W[k] = W[k - 1] + a[k]
    BY <1>1, <1>4 DEF Sums
  <2> QED
    BY <2>1, <2>2
<1>6. z = Weights[Members[k]] /\ T = TotalWeight
  BY <1>1, <1>4, <1>5 DEF TotalWeight
<1> DEFINE P(r) == IF r - w < 0 THEN 0 ELSE IF r - w > z THEN z ELSE r - w
<1>7. \A r : PartOfShare(k, r) = P(r)
  BY <1>1, <1>5, <1>6 DEF PartOfShare
<1>. w \in Nat /\ z \in Nat /\ T \in Nat /\ x \in Nat /\ x = w + z /\ x <= T
  BY <1>5
<1>8. ASSUME NEW r \in Nat
      PROVE  /\ r <= w => P(r) = 0
             /\ x <= r => P(r) = z
             /\ w <= r /\ r <= x => P(r) = r - w
             /\ P(r) \in 0 .. z
  <2>1. CASE r <= w
    BY <2>1
  <2>2. CASE w < r /\ r <= x
    BY <2>2
  <2>3. CASE x < r
    BY <2>3
  <2> QED
    BY <2>1, <2>2, <2>3
<1>9. ASSUME NEW r \in Nat, NEW i \in 1 .. N, r < W[i], W[i - 1] <= r
      PROVE  P(r + 1) = P(r) + (IF k = i THEN 1 ELSE 0)
  <2>1. CASE k = i
    <3>1. r < x /\ w <= r
      BY <1>5, <1>9, <2>1
    <3>2. P(r) = r - w /\ P(r + 1) = (r + 1) - w
      <4> HIDE DEF P
      <4> QED
        BY <1>8, <3>1
    <3> QED
      BY <2>1, <3>2
  <2>2. CASE k < i
    <3>1. i - 1 \in k .. N
      BY <1>4, <2>2
    <3>2. W[k] <= W[i - 1] /\ W[i - 1] \in Nat
      BY <1>3, <1>4, <3>1
    <3>3. x <= r
      BY <1>5, <1>9, <3>2
    <3>4. P(r) = z /\ P(r + 1) = z
      <4> HIDE DEF P
      <4> QED
        BY <1>8, <3>3
    <3> QED
      BY <2>2, <3>4
  <2>3. CASE i < k
    <3>1. k - 1 \in i .. N /\ i \in 0 .. N /\ i \in i .. N
      BY <1>4, <2>3
    <3>2. W[i] <= W[k - 1] /\ W[i] \in Nat
      BY <1>3, <3>1
    <3>3. r + 1 <= w
      BY <1>5, <1>9, <3>2
    <3>4. P(r) = 0 /\ P(r + 1) = 0
      <4> HIDE DEF P
      <4> QED
        BY <1>8, <3>3
    <3> QED
      BY <2>3, <3>4
  <2> QED
    BY <1>4, <2>1, <2>2, <2>3
<1> HIDE DEF P
<1>10. P(0) = 0 /\ P(T) = z
  BY <1>8
<1>11. \A r \in Nat : P(r) \in 0 .. z
  BY <1>8
<1>12. /\ \A r \in Nat : PartOfShare(k, r) \in 0 .. Weights[Members[k]]
       /\ PartOfShare(k, 0) = 0 /\ PartOfShare(k, TotalWeight) = Weights[Members[k]]
  BY <1>6, <1>7, <1>10, <1>11
<1>13. ASSUME NEW r \in Nat, NEW i \in 1 .. Len(Members), r < WeightOfFirst[i], WeightOfFirst[i - 1] <= r
       PROVE  PartOfShare(k, r + 1) = PartOfShare(k, r) + (IF k = i THEN 1 ELSE 0)
  <2>1. i \in 1 .. N /\ r < W[i] /\ W[i - 1] <= r
    BY <1>1, <1>13
  <2>2. P(r + 1) = P(r) + (IF k = i THEN 1 ELSE 0)
    BY <1>9, <2>1
  <2> QED
    BY <1>7, <2>2
<1> QED
  BY <1>12, <1>13

\* Every bonded packet moves the cycle on by one.
LEMMA BondKeeps ==
    ASSUME BondInv, bwCursor' = bwCursor + 1,
           bwSent' = [bwSent EXCEPT ![NextWeighted(bwCursor)] = @ + 1]
    PROVE  BondInv'
<1>1. PICK N, a :
        /\ N \in Nat \ {0}
        /\ N = Len(Members) /\ DOMAIN Members = 1 .. N
        /\ Paths = {Members[i] : i \in 1 .. N}
        /\ \A i, j \in 1 .. N : Members[i] = Members[j] => i = j
        /\ \A i \in 1 .. N : a[i] \in Nat \ {0} /\ a[i] = Weights[Members[i]]
  BY WeightFacts
<1> N \in Nat \ {0}
  BY <1>1
<1>2. PICK c \in Nat : c = bwCursor /\ bwSent \in [Paths -> Int]
  BY DEF BondInv
<1>3. PICK T \in Nat \ {0} : T = TotalWeight
  BY TotalWeightPositive
<1>4. PICK q \in Nat, r \in 0 .. T - 1 : q = c \div T /\ r = c % T /\ c = q * T + r
  <2>1. c \div T \in Nat /\ c % T \in 0 .. T - 1 /\ c = (c \div T) * T + (c % T)
    BY Division
  <2> QED
    BY <2>1
<1>5. PICK i \in 1 .. N : NextWeighted(c) = Members[i] /\ r < WeightOfFirst[i] /\ WeightOfFirst[i - 1] <= r
  BY <1>1, <1>3, <1>4, PickedMember
<1>6. bwSent' \in [Paths -> Int] /\ \A k \in 1 .. N : bwSent'[Members[k]] = bwSent[Members[k]] + (IF k = i THEN 1 ELSE 0)
  <2>1. Members[i] \in Paths /\ bwSent' = [bwSent EXCEPT ![Members[i]] = @ + 1]
    BY <1>1, <1>2, <1>5
  <2>2. \A p \in Paths : bwSent[p] \in Int /\ bwSent'[p] = IF p = Members[i] THEN bwSent[p] + 1 ELSE bwSent[p]
    BY <1>2, <2>1
  <2>3. bwSent' \in [Paths -> Int]
    BY <1>2, <2>1
  <2>4. ASSUME NEW k \in 1 .. N PROVE bwSent'[Members[k]] = bwSent[Members[k]] + (IF k = i THEN 1 ELSE 0)
    <3>1. Members[k] \in Paths /\ (Members[k] = Members[i] <=> k = i)
      BY <1>1
    <3> QED
      BY <2>2, <3>1
  <2> QED
    BY <2>3, <2>4
<1>7. ASSUME NEW k \in 1 .. N
      PROVE  /\ PartOfShare(k, r + 1) = PartOfShare(k, r) + (IF k = i THEN 1 ELSE 0)
             /\ PartOfShare(k, 0) = 0 /\ PartOfShare(k, T) = a[k]
             /\ PartOfShare(k, r) \in Int
             /\ bwSent[Members[k]] = q * a[k] + PartOfShare(k, r)
  <2>1. r \in Nat
    OBVIOUS
  <2>2. /\ PartOfShare(k, r + 1) = PartOfShare(k, r) + (IF k = i THEN 1 ELSE 0)
        /\ PartOfShare(k, 0) = 0 /\ PartOfShare(k, T) = a[k]
        /\ PartOfShare(k, r) \in 0 .. a[k]
    <3>1. k \in 1 .. Len(Members) /\ i \in 1 .. Len(Members)
      BY <1>1
    <3>2. /\ PartOfShare(k, r) \in 0 .. Weights[Members[k]] /\ PartOfShare(k, 0) = 0
          /\ PartOfShare(k, TotalWeight) = Weights[Members[k]]
      BY <2>1, <3>1, ShareFacts
    <3>3. PartOfShare(k, r + 1) = PartOfShare(k, r) + (IF k = i THEN 1 ELSE 0)
      BY <1>5, <2>1, <3>1, ShareFacts
    <3> QED
      BY <1>1, <1>3, <3>2, <3>3
  <2>3. bwSent[Members[k]] = q * a[k] + PartOfShare(k, r)
    BY <1>1, <1>2, <1>3, <1>4 DEF BondInv
  <2>4. a[k] \in Nat
    BY <1>1
  <2> QED
    BY <2>2, <2>3, <2>4
<1>8. PICK e \in Nat : e = c + 1 /\ \A u \in Nat, v \in 0 .. T - 1 : e = u * T + v => e \div T = u /\ e % T = v
  <2>1. PICK e \in Nat : e = c + 1
    OBVIOUS
  <2> QED
    BY <2>1, Division
<1>9. CASE r + 1 # T
  <2>1. r + 1 \in 0 .. T - 1 /\ e = q * T + (r + 1)
    BY <1>4, <1>8, <1>9
  <2>2. (c + 1) \div T = q /\ (c + 1) % T = r + 1
    BY <1>8, <2>1
  <2>3. ASSUME NEW k \in 1 .. N PROVE bwSent'[Members[k]] = q * a[k] + PartOfShare(k, r + 1)
    <3>1. PICK x \in Int, y \in Int, d \in Int : x = q * a[k] /\ y = PartOfShare(k, r) /\ d = IF k = i THEN 1 ELSE 0
      <4>1. q * a[k] \in Int
        BY <1>1
      <4> QED
        BY <1>7, <4>1
    <3>2. bwSent'[Members[k]] = (x + y) + d /\ PartOfShare(k, r + 1) = y + d
      BY <1>6, <1>7, <3>1
    <3> QED
      BY <3>1, <3>2
  <2> QED
    <3>1. bwCursor' = c + 1 /\ bwCursor' \in Nat /\ TotalWeight = T
      BY <1>2, <1>3
    <3>2. \A k \in 1 .. N : bwSent'[Members[k]] = (bwCursor' \div TotalWeight) * Weights[Members[k]] + PartOfShare(k, bwCursor' % TotalWeight)
      BY <1>1, <2>2, <2>3, <3>1
    <3> QED
      BY <1>1, <1>6, <3>1, <3>2 DEF BondInv, PartOfShare
<1>10. CASE r + 1 = T
  <2>1. 0 \in 0 .. T - 1 /\ q + 1 \in Nat /\ e = (q + 1) * T + 0
    BY <1>4, <1>8, <1>10
  <2>2. (c + 1) \div T = q + 1 /\ (c + 1) % T = 0
    BY <1>8, <2>1
  <2>3. ASSUME NEW k \in 1 .. N PROVE bwSent'[Members[k]] = (q + 1) * a[k] + PartOfShare(k, 0)
    <3>1. PICK z \in Nat, y \in Int, d \in Int : z = a[k] /\ y = PartOfShare(k, r) /\ d = IF k = i THEN 1 ELSE 0
      <4>1. a[k] \in Nat
        BY <1>1
      <4>2. PartOfShare(k, r) \in Int
        BY <1>7
      <4> QED
        BY <4>1, <4>2
    <3>2. PICK x \in Int : x = q * z /\ (q + 1) * z = x + z
      OBVIOUS
    <3>3. bwSent'[Members[k]] = (x + y) + d /\ z = y + d
      BY <1>6, <1>7, <1>10, <3>1, <3>2
    <3>4. PartOfShare(k, 0) = 0
      BY <1>7
    <3> QED
      BY <3>1, <3>2, <3>3, <3>4
  <2> QED
    <3>1. bwCursor' = c + 1 /\ bwCursor' \in Nat /\ TotalWeight = T
      BY <1>2, <1>3
    <3>2. \A k \in 1 .. N : bwSent'[Members[k]] = (bwCursor' \div TotalWeight) * Weights[Members[k]] + PartOfShare(k, bwCursor' % TotalWeight)
      BY <1>1, <2>2, <2>3, <3>1
    <3> QED
      BY <1>1, <1>6, <3>1, <3>2 DEF BondInv, PartOfShare
<1> QED
  BY <1>9, <1>10

\* For any links and any weights, and whatever health changes interrupt the
\* bonding: over whole cycles every link carries exactly its share of the
\* bonded packets, and inside a cycle never more than that ahead.
THEOREM BondFair == BondSpec => []BondShares
<1>1. BondInit => BondInv
  <2> SUFFICES ASSUME BondInit PROVE BondInv
    OBVIOUS
  <2>1. PICK N, a :
          /\ N \in Nat \ {0}
          /\ N = Len(Members) /\ DOMAIN Members = 1 .. N /\ Paths = {Members[i] : i \in 1 .. N}
          /\ \A i \in 1 .. N : a[i] \in Nat \ {0} /\ a[i] = Weights[Members[i]]
    BY MemberFacts
  <2> N \in Nat \ {0}
    BY <2>1
  <2>2. PICK T \in Nat \ {0} : T = TotalWeight
    BY TotalWeightPositive
  <2>3. 0 \in 0 .. T - 1 /\ 0 = 0 * T + 0
    OBVIOUS
  <2>4. 0 \div T = 0 /\ 0 % T = 0
    BY <2>3, Division
  <2>5. ASSUME NEW i \in 1 .. N PROVE PartOfShare(i, 0) = 0 /\ 0 * a[i] = 0
    <3>1. i \in 1 .. Len(Members) /\ a[i] \in Nat
      BY <2>1
    <3> QED
      BY <3>1, ShareFacts
  <2> QED
    BY <2>1, <2>2, <2>4, <2>5 DEF BondInit, BondInv
<1>2. BondInv /\ [BondNext]_bondVars => BondInv'
  <2> SUFFICES ASSUME BondInv, [BondNext]_bondVars PROVE BondInv'
    OBVIOUS
  <2>1. \/ UNCHANGED <<bwSent, bwCursor>>
        \/ bwCursor' = bwCursor + 1 /\ bwSent' = [bwSent EXCEPT ![NextWeighted(bwCursor)] = @ + 1]
    BY DEF BondNext, AssignPacket, bondVars
  <2>2. CASE UNCHANGED <<bwSent, bwCursor>>
    BY <2>2 DEF BondInv, PartOfShare
  <2> QED
    BY <2>1, <2>2, BondKeeps
<1>3. BondInv => BondShares
  <2> SUFFICES ASSUME BondInv, NEW p \in Paths
               PROVE  /\ bwCursor % TotalWeight = 0 => bwSent[p] * TotalWeight = bwCursor * Weights[p]
                      /\ bwSent[p] - (bwCursor \div TotalWeight) * Weights[p] \in 0 .. Weights[p]
    BY DEF BondShares
  <2>1. PICK N, a :
          /\ N \in Nat \ {0}
          /\ N = Len(Members) /\ DOMAIN Members = 1 .. N /\ Paths = {Members[i] : i \in 1 .. N}
          /\ \A i \in 1 .. N : a[i] \in Nat \ {0} /\ a[i] = Weights[Members[i]]
    BY MemberFacts
  <2> N \in Nat \ {0}
    BY <2>1
  <2>2. PICK T \in Nat \ {0}, c \in Nat : T = TotalWeight /\ c = bwCursor
    BY TotalWeightPositive DEF BondInv
  <2>3. PICK i \in 1 .. N : p = Members[i]
    BY <2>1
  <2>4. PICK q \in Nat, r \in 0 .. T - 1 : q = c \div T /\ r = c % T /\ c = q * T + r
    <3>1. c \div T \in Nat /\ c % T \in 0 .. T - 1 /\ c = (c \div T) * T + (c % T)
      BY Division
    <3> QED
      BY <3>1
  <2>5. PICK z \in Nat, y \in Nat : z = Weights[p] /\ y = PartOfShare(i, r) /\ y \in 0 .. z /\ (r = 0 => y = 0)
    <3>1. a[i] \in Nat /\ a[i] = Weights[Members[i]] /\ i \in 1 .. Len(Members) /\ r \in Nat
      BY <2>1, <2>3
    <3>2. PartOfShare(i, r) \in 0 .. Weights[Members[i]] /\ PartOfShare(i, 0) = 0
      BY <3>1, ShareFacts
    <3> QED
      BY <2>3, <3>1, <3>2
  <2>6. bwSent[p] = q * z + y
    BY <2>1, <2>2, <2>3, <2>4, <2>5 DEF BondInv
  <2>7. PICK x \in Int : x = q * z
    OBVIOUS
  <2>8. (x + y) - x = y
    BY <2>5
  <2>9. r = 0 => (q * z) * T = (q * T) * z
    OBVIOUS
  <2>10. r = 0 => bwSent[p] * T = c * z
    BY <2>4, <2>5, <2>6, <2>9
  <2> QED
    BY <2>2, <2>4, <2>5, <2>6, <2>7, <2>8, <2>10
<1> QED
  BY <1>1, <1>2, <1>3, PTL DEF BondSpec
=============================================================================
