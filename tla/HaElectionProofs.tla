-------------------------- MODULE HaElectionProofs --------------------------
(* Proofs about the election: how long two Masters, an unfit Master or no   *)
(* Master at all can last, for every pair of priorities, every interval and *)
(* any number of faults; and that a settled pair has no takeover but to     *)
(* preempt, whatever two faults it meets.                                   *)
EXTENDS HaElection, TLAPS

-----------------------------------------------------------------------------
(* The pair and its timers. *)

LEMMA PeerFacts ==
    \A n \in Nodes : /\ Peer(n) \in Nodes /\ Peer(n) # n /\ Peer(Peer(n)) = n
                     /\ \A p \in Nodes : p = n \/ p = Peer(n)
<1> SUFFICES ASSUME NEW n \in Nodes
             PROVE  /\ Peer(n) \in Nodes /\ Peer(n) # n /\ Peer(Peer(n)) = n
                    /\ \A p \in Nodes : p = n \/ p = Peer(n)
  OBVIOUS
<1>1. PICK a, b \in Nodes : a # b /\ Nodes = {a, b}
  BY NodesAssumption
<1>2. \A p \in Nodes : Peer(p) \in Nodes /\ Peer(p) # p
  BY <1>1 DEF Peer
<1> QED
  BY <1>1, <1>2

\* A skew is a positive part of the interval, the whole of it at priority 0.
LEMMA SkewFacts ==
    /\ \A p \in 0 .. 255 : Skew(p) \in Nat /\ 1 <= Skew(p) /\ Skew(p) <= Interval
    /\ Skew(0) = Interval
<1>1. Interval \in Nat /\ 1 <= Interval
  BY ConfigAssumption
<1>2. ASSUME NEW p \in 0 .. 255 PROVE Skew(p) \in Nat /\ 1 <= Skew(p) /\ Skew(p) <= Interval
  <2>1. PICK x \in Nat : x = (256 - p) * Interval /\ 1 <= x /\ x <= 256 * Interval
    <3>1. PICK a \in Nat : a = 256 - p /\ 1 <= a /\ a <= 256
      <4>1. 256 - p \in Nat /\ 1 <= 256 - p /\ 256 - p <= 256
        OBVIOUS
      <4> QED
        BY <4>1
    <3>2. a * Interval \in Nat /\ 1 <= a * Interval /\ a * Interval <= 256 * Interval
      <4>1. a * Interval \in Nat
        BY <1>1
      <4>2. 1 * Interval <= a * Interval
        BY <1>1, <3>1
      <4>3. a * Interval <= 256 * Interval
        BY <1>1, <3>1
      <4> QED
        BY <1>1, <4>1, <4>2, <4>3
    <3> QED
      BY <3>1, <3>2
  <2>2. (x + 255) \div 256 \in Nat /\ 1 <= (x + 255) \div 256 /\ (x + 255) \div 256 <= Interval
    BY <1>1, <2>1
  <2> QED
    BY <2>1, <2>2 DEF Skew
<1>3. Skew(0) = Interval
  <2>1. (256 * Interval + 255) \div 256 = Interval
    BY <1>1
  <2>2. 256 - 0 = 256
    OBVIOUS
  <2> QED
    BY <2>1, <2>2 DEF Skew
<1> QED
  BY <1>2, <1>3

\* Every deadline that is armed lies ahead, at most four intervals.
LEMMA DeadlineFacts ==
    \A p \in 0 .. 255 : /\ MasterDownInterval(p) \in 1 .. 4 * Interval /\ Skew(p) \in 1 .. 4 * Interval
                        /\ MasterDownInterval(p) <= MasterDownInterval(PriorityRelease)
<1> SUFFICES ASSUME NEW p \in 0 .. 255
             PROVE  /\ MasterDownInterval(p) \in 1 .. 4 * Interval /\ Skew(p) \in 1 .. 4 * Interval
                    /\ MasterDownInterval(p) <= MasterDownInterval(PriorityRelease)
  OBVIOUS
<1>1. Skew(p) \in Nat /\ 1 <= Skew(p) /\ Skew(p) <= Interval /\ Skew(0) = Interval
  BY SkewFacts
<1>2. Interval \in Nat
  BY ConfigAssumption
<1> QED
  BY <1>1, <1>2 DEF MasterDownInterval, PriorityRelease

-----------------------------------------------------------------------------
(* Types. *)

Messages == [to : Nodes, source : Nodes, priority : 0..255]

WellSent(S) == S \subseteq Messages /\ \A m \in S : m.to = Peer(m.source)

Armed(r, d) ==
    /\ d \in [Nodes -> {Never} \cup 0 .. 4 * Interval]
    /\ \A n \in Nodes : r[n] = "Backup" <=> d[n] # Never

Occupied(r, w) ==
    /\ w \in [Nodes -> {Never} \cup 0 .. AcquireTime]
    /\ \A n \in Nodes : w[n] # Never => r[n] = "Master"

Fit(p) == p \in [Nodes -> 0..255] /\ \A n \in Nodes : p[n] \in {PriorityRelease, Priority[n]}

MonitorTypes == trouble \in Counted \cup {"none"} /\ spell \in Nat

LEMMA TypesMean ==
    ElectionTypes <=>
        /\ role \in [Nodes -> Roles] /\ vip \in [Nodes -> BOOLEAN] /\ link \in BOOLEAN
        /\ Fit(prio) /\ adv \in [Nodes -> 0..Interval] /\ Armed(role, down)
        /\ Occupied(role, busy) /\ WellSent(net) /\ MonitorTypes
  BY DEF ElectionTypes, Messages, WellSent, Armed, Occupied, Fit, MonitorTypes

LEMMA TypesMeanNext ==
    ElectionTypes' <=>
        /\ role' \in [Nodes -> Roles] /\ vip' \in [Nodes -> BOOLEAN] /\ link' \in BOOLEAN
        /\ Fit(prio') /\ adv' \in [Nodes -> 0..Interval] /\ Armed(role', down')
        /\ Occupied(role', busy') /\ WellSent(net') /\ MonitorTypes'
  BY DEF ElectionTypes, Messages, WellSent, Armed, Occupied, Fit, MonitorTypes

LEMMA AdvertiseFacts ==
    ASSUME NEW n \in Nodes, NEW p \in 0..255, NEW S, WellSent(S), Advertise(n, p, S)
    PROVE  WellSent(net')
<1>1. [to |-> Peer(n), source |-> n, priority |-> p] \in Messages
  BY PeerFacts DEF Messages
<1> QED
  BY <1>1 DEF Advertise, WellSent

\* One node's role and deadline change together.
LEMMA ArmedChanges ==
    ASSUME role \in [Nodes -> Roles], Armed(role, down), NEW n \in Nodes, NEW r \in Roles, NEW d,
           \/ r = "Backup" /\ d \in 0 .. 4 * Interval
           \/ r # "Backup" /\ d = Never
    PROVE  /\ [role EXCEPT ![n] = r] \in [Nodes -> Roles]
           /\ Armed([role EXCEPT ![n] = r], [down EXCEPT ![n] = d])
<1>1. Never \notin 0 .. 4 * Interval
  BY ConfigAssumption DEF Never
<1> QED
  BY <1>1 DEF Armed

\* A node starts or ends an acquisition as Master; one that leaves the role
\* was not in an acquisition, or ends it.
LEMMA OccupiedChanges ==
    ASSUME role \in [Nodes -> Roles], Occupied(role, busy), NEW n \in Nodes, NEW r \in Roles
    PROVE  /\ r = "Master" => Occupied([role EXCEPT ![n] = r], [busy EXCEPT ![n] = AcquireTime])
           /\ Occupied([role EXCEPT ![n] = r], [busy EXCEPT ![n] = Never])
           /\ Occupied(role, [busy EXCEPT ![n] = Never])
           /\ busy[n] = Never => Occupied([role EXCEPT ![n] = r], busy)
<1>1. AcquireTime \in 0 .. AcquireTime
  BY ConfigAssumption
<1> QED
  BY <1>1 DEF Occupied

LEMMA FitChanges ==
    ASSUME Fit(prio), NEW n \in Nodes
    PROVE  /\ Fit([prio EXCEPT ![n] = Priority[n]]) /\ Fit([prio EXCEPT ![n] = PriorityRelease])
           /\ Priority[n] \in 0..255 /\ Priority[n] # PriorityRelease /\ prio[n] \in 0..255
<1>1. Priority[n] \in 1..255
  BY ConfigAssumption
<1> QED
  BY <1>1 DEF Fit, PriorityRelease

LEMMA LeaveTypes ==
    ASSUME ElectionTypes, NEW n \in Nodes, NEW k \in BOOLEAN, Leave(n, k)
    PROVE  /\ role' \in [Nodes -> Roles] /\ vip' \in [Nodes -> BOOLEAN]
           /\ Fit(prio') /\ adv' \in [Nodes -> 0..Interval] /\ Armed(role', down')
           /\ Occupied(role', busy') /\ WellSent(net')
<1>1. /\ role \in [Nodes -> Roles] /\ vip \in [Nodes -> BOOLEAN]
      /\ Fit(prio) /\ adv \in [Nodes -> 0..Interval] /\ Armed(role, down)
      /\ Occupied(role, busy) /\ WellSent(net)
  BY TypesMean
<1>2. role' \in [Nodes -> Roles] /\ Armed(role', down') /\ Occupied(role', busy')
  <2>1. "Down" \in Roles /\ "Down" # "Backup"
    BY DEF Roles
  <2>2. role' \in [Nodes -> Roles] /\ Armed(role', down')
    BY <1>1, <2>1, ArmedChanges DEF Leave
  <2>3. Occupied(role', busy')
    BY <1>1, <2>1, OccupiedChanges DEF Leave
  <2> QED
    BY <2>2, <2>3
<1>3. Fit(prio')
  BY <1>1, FitChanges DEF Leave
<1>4. vip' \in [Nodes -> BOOLEAN]
  BY <1>1 DEF Leave
<1>5. adv' \in [Nodes -> 0..Interval]
  BY <1>1, ConfigAssumption DEF Leave
<1>6. WellSent(net')
  BY <1>1 DEF Leave, WellSent
<1> QED
  BY <1>2, <1>3, <1>4, <1>5, <1>6

LEMMA PromoteTypes ==
    ASSUME ElectionTypes, NEW n \in Nodes, Promote(n)
    PROVE  /\ role' \in [Nodes -> Roles] /\ vip' \in [Nodes -> BOOLEAN]
           /\ Armed(role', down') /\ Occupied(role', busy')
<1>1. /\ role \in [Nodes -> Roles] /\ vip \in [Nodes -> BOOLEAN] /\ Armed(role, down)
      /\ Occupied(role, busy)
  BY TypesMean
<1>2. "Master" \in Roles /\ "Master" # "Backup"
  BY DEF Roles
<1>3. role' \in [Nodes -> Roles] /\ Armed(role', down')
  BY <1>1, <1>2, ArmedChanges DEF Promote
<1>4. Occupied(role', busy')
  BY <1>1, <1>2, OccupiedChanges DEF Promote
<1>5. vip' \in [Nodes -> BOOLEAN]
  BY <1>1 DEF Promote
<1> QED
  BY <1>3, <1>4, <1>5

LEMMA MonitorStep ==
    ASSUME MonitorTypes, [Next]_vars PROVE MonitorTypes'
<1>1. trouble \in Counted \cup {"none"} /\ spell \in Nat
  BY DEF MonitorTypes
<1>2. CASE UNCHANGED monitor
  BY <1>1, <1>2 DEF MonitorTypes, monitor
<1>3. CASE trouble' \in {"none", "left"} /\ spell' = 0
  BY <1>3 DEF MonitorTypes, Counted
<1>4. CASE Tick
  <2>1. Trouble \in Counted \cup {"none"}
    BY DEF Trouble, Counted
  <2>2. Ongoing \in Counted \cup {"none"}
    BY <2>1 DEF Ongoing, Counted
  <2>3. spell' \in Nat
    BY <1>1, <1>4 DEF Tick
  <2> QED
    BY <1>4, <2>2, <2>3 DEF Tick, MonitorTypes
<1>5. Delayed \/ Changed \/ Departed => UNCHANGED monitor \/ (trouble' \in {"none", "left"} /\ spell' = 0)
  BY DEF Delayed, Changed, Disturbed, Departed
<1>6. Tick \/ UNCHANGED monitor \/ Delayed \/ Changed \/ Departed
      \/ (trouble' \in {"none", "left"} /\ spell' = 0)
  <2>1. CASE UNCHANGED vars
    BY <2>1 DEF vars, monitor
  <2>2. CASE Loop
    BY <2>2 DEF Loop, AdvertisementTimer, MasterDownTimer, Announce, StepDown, HoldRole, HearMaster
  <2>3. CASE Environment
    <3>1. ASSUME NEW n \in Nodes, Start(n) PROVE UNCHANGED monitor
      BY <3>1 DEF Start
    <3>2. ASSUME NEW n \in Nodes, Shutdown(n) PROVE trouble' \in {"none", "left"} /\ spell' = 0
      BY <3>2 DEF Shutdown
    <3>3. ASSUME NEW n \in Nodes, HostCrash(n) \/ ProcessCrash(n) \/ AcquireFails(n) PROVE Departed
      BY <3>3 DEF HostCrash, ProcessCrash, AcquireFails
    <3>4. ASSUME NEW n \in Nodes, HealthRelease(n) \/ HealthRecover(n) PROVE Changed
      BY <3>4 DEF HealthRelease, HealthRecover
    <3>5. ASSUME NEW m \in net, ReleaseFails(m) \/ Lose(m) PROVE Departed \/ Delayed
      BY <3>5 DEF ReleaseFails, Lose
    <3>6. Cut \/ Heal => Changed
      BY DEF Cut, Heal
    <3> QED
      BY <2>3, <3>1, <3>2, <3>3, <3>4, <3>5, <3>6 DEF Environment
  <2> QED
    BY <2>1, <2>2, <2>3 DEF Next
<1> QED
  BY <1>2, <1>3, <1>4, <1>5, <1>6

LEMMA TypesStep ==
    ASSUME ElectionTypes, [Next]_vars PROVE ElectionTypes'
<1>a. /\ role \in [Nodes -> Roles] /\ vip \in [Nodes -> BOOLEAN] /\ link \in BOOLEAN
      /\ Fit(prio) /\ adv \in [Nodes -> 0..Interval] /\ Armed(role, down)
      /\ Occupied(role, busy) /\ WellSent(net)
  BY TypesMean
<1>b. MonitorTypes'
  BY TypesMean, MonitorStep
<1>c. Interval \in Nat \ {0} /\ 0 \in 0 .. Interval /\ Interval \in 0 .. Interval
  BY ConfigAssumption
<1>d. \A m \in net : /\ m.to \in Nodes /\ m.source \in Nodes /\ m.to = Peer(m.source)
                     /\ m.priority \in 0..255
  BY <1>a DEF WellSent, Messages
<1>e. \A m \in net : WellSent(net \ {m})
  BY <1>a DEF WellSent
<1>f. \A n \in Nodes : prio[n] \in 0..255 /\ Priority[n] \in 0..255
  BY <1>a, FitChanges
<1>1. ASSUME NEW n \in Nodes, AdvertisementTimer(n) PROVE ElectionTypes'
  <2>1. adv' \in [Nodes -> 0..Interval]
    BY <1>1, <1>a, <1>c DEF AdvertisementTimer
  <2>2. WellSent(net')
    BY <1>1, <1>a, <1>f, AdvertiseFacts DEF AdvertisementTimer
  <2>3. UNCHANGED <<role, prio, vip, down, busy, link>>
    BY <1>1 DEF AdvertisementTimer
  <2> QED
    BY <1>a, <1>b, <2>1, <2>2, <2>3, TypesMeanNext
<1>2. ASSUME NEW n \in Nodes, MasterDownTimer(n) PROVE ElectionTypes'
  <2>1. Promote(n) /\ UNCHANGED <<prio, adv, net, link>>
    BY <1>2 DEF MasterDownTimer
  <2> QED
    BY <1>a, <1>b, <2>1, PromoteTypes, TypesMeanNext
<1>3. ASSUME NEW m \in net, StepDown(m) PROVE ElectionTypes'
  <2> DEFINE n == m.to
  <2>1. n \in Nodes
    BY <1>d
  <2>2. /\ role' = [role EXCEPT ![n] = "Backup"] /\ vip' = [vip EXCEPT ![n] = FALSE]
        /\ down' = [down EXCEPT ![n] = MasterDownInterval(prio[n])]
        /\ net' = net \ {m} /\ UNCHANGED <<prio, adv, busy, link>> /\ busy[n] = Never
    BY <1>3 DEF StepDown, Listens
  <2>3. MasterDownInterval(prio[n]) \in 0 .. 4 * Interval /\ "Backup" \in Roles
    BY <1>f, <2>1, DeadlineFacts DEF Roles
  <2> HIDE DEF n
  <2>4. role' \in [Nodes -> Roles] /\ Armed(role', down')
    BY <1>a, <2>1, <2>2, <2>3, ArmedChanges
  <2>6. Occupied(role', busy')
    BY <1>a, <2>1, <2>2, <2>3, OccupiedChanges
  <2>5. vip' \in [Nodes -> BOOLEAN]
    BY <1>a, <2>2
  <2> QED
    BY <1>a, <1>b, <1>e, <2>2, <2>4, <2>5, <2>6, TypesMeanNext
<1>4. ASSUME NEW m \in net, HoldRole(m) PROVE ElectionTypes'
  <2>1. UNCHANGED <<role, prio, vip, adv, down, busy, link>>
    BY <1>4 DEF HoldRole, node
  <2>2. WellSent(net')
    <3>1. Advertise(m.to, prio[m.to], net \ {m}) \/ net' = net \ {m}
      BY <1>4 DEF HoldRole
    <3> QED
      BY <1>d, <1>e, <1>f, <3>1, AdvertiseFacts
  <2> QED
    BY <1>a, <1>b, <2>1, <2>2, TypesMeanNext
<1>5. ASSUME NEW m \in net, HearMaster(m) PROVE ElectionTypes'
  <2>1. /\ role[m.to] = "Backup" /\ down' = [down EXCEPT ![m.to] = Deadline(m, m.to)]
        /\ net' = net \ {m} /\ UNCHANGED <<role, prio, vip, adv, busy, link>>
    BY <1>5 DEF HearMaster
  <2>2. m.to \in Nodes
    BY <1>d
  <2>3. Deadline(m, m.to) \in 0 .. 4 * Interval
    <3>1. down[m.to] \in 0 .. 4 * Interval
      BY <1>a, <2>1, <2>2 DEF Armed
    <3>2. Deadline(m, m.to) \in {Skew(prio[m.to]), down[m.to], MasterDownInterval(prio[m.to])}
      BY DEF Deadline
    <3> QED
      BY <1>f, <2>2, <3>1, <3>2, DeadlineFacts
  <2>4. Armed(role', down')
    <3>1. role = [role EXCEPT ![m.to] = "Backup"] /\ "Backup" \in Roles
      BY <1>a, <2>1, <2>2 DEF Roles
    <3>2. Armed([role EXCEPT ![m.to] = "Backup"], [down EXCEPT ![m.to] = Deadline(m, m.to)])
      BY <1>a, <2>2, <2>3, <3>1, ArmedChanges
    <3> QED
      BY <2>1, <3>1, <3>2
  <2> QED
    BY <1>a, <1>b, <1>e, <2>1, <2>4, TypesMeanNext
<1>6. CASE Tick
  <2>1. adv' \in [Nodes -> 0..Interval]
    <3>1. \A n \in Nodes : adv[n] \in 0 .. Interval /\ (Running(n) /\ Listens(n) => adv[n] # 0)
      BY <1>6, <1>a DEF Tick
    <3>2. \A n \in Nodes : (IF Running(n) /\ Listens(n) THEN adv[n] - 1 ELSE adv[n]) \in 0 .. Interval
      BY <1>c, <3>1
    <3> QED
      BY <1>6, <3>2 DEF Tick
  <2>2. Armed(role', down')
    <3>1. \A n \in Nodes : down[n] \in {Never} \cup 0 .. 4 * Interval /\ (role[n] = "Backup" <=> down[n] # Never)
      BY <1>a DEF Armed
    <3>2. ASSUME NEW n \in Nodes
          PROVE  /\ (IF down[n] > 0 THEN down[n] - 1 ELSE down[n]) \in {Never} \cup 0 .. 4 * Interval
                 /\ role[n] = "Backup" <=> (IF down[n] > 0 THEN down[n] - 1 ELSE down[n]) # Never
      BY <1>c, <3>1 DEF Never
    <3>3. down' = [n \in Nodes |-> IF down[n] > 0 THEN down[n] - 1 ELSE down[n]] /\ role' = role
      BY <1>6 DEF Tick
    <3> QED
      BY <3>2, <3>3 DEF Armed
  <2>3. UNCHANGED <<role, prio, vip, net, link>>
    BY <1>6 DEF Tick
  <2>4. Occupied(role', busy')
    <3>1. \A n \in Nodes : busy[n] \in {Never} \cup 0 .. AcquireTime /\ (busy[n] # Never => role[n] = "Master")
      BY <1>a DEF Occupied
    <3>2. ASSUME NEW n \in Nodes
          PROVE  /\ (IF busy[n] > 0 THEN busy[n] - 1 ELSE busy[n]) \in {Never} \cup 0 .. AcquireTime
                 /\ (IF busy[n] > 0 THEN busy[n] - 1 ELSE busy[n]) # Never => role[n] = "Master"
      BY <3>1, ConfigAssumption DEF Never
    <3>3. busy' = [n \in Nodes |-> IF busy[n] > 0 THEN busy[n] - 1 ELSE busy[n]] /\ role' = role
      BY <1>6 DEF Tick
    <3> QED
      BY <3>2, <3>3 DEF Occupied
  <2> QED
    BY <1>a, <1>b, <2>1, <2>2, <2>3, <2>4, TypesMeanNext
<1>7. ASSUME NEW n \in Nodes, Start(n) PROVE ElectionTypes'
  <2>1. Fit(prio') /\ adv' \in [Nodes -> 0..Interval] /\ UNCHANGED <<net, link>>
    BY <1>7, <1>a, <1>c, FitChanges DEF Start
  <2>2. CASE Priority[n] = PriorityOwner
    <3>1. Promote(n)
      BY <1>7, <2>2 DEF Start
    <3> QED
      BY <1>a, <1>b, <2>1, <3>1, PromoteTypes, TypesMeanNext
  <2>3. CASE Priority[n] # PriorityOwner
    <3>1. /\ role' = [role EXCEPT ![n] = "Backup"]
          /\ down' = [down EXCEPT ![n] = MasterDownInterval(Priority[n])]
          /\ UNCHANGED <<vip, busy>> /\ role[n] = "Down"
      BY <1>7, <2>3 DEF Start, Running
    <3>2. MasterDownInterval(Priority[n]) \in 0 .. 4 * Interval /\ "Backup" \in Roles
      BY <1>f, DeadlineFacts DEF Roles
    <3>3. role' \in [Nodes -> Roles] /\ Armed(role', down')
      BY <1>a, <3>1, <3>2, ArmedChanges
    <3>4. Occupied(role', busy')
      <4>1. busy[n] = Never
        BY <1>a, <3>1 DEF Occupied
      <4> QED
        BY <1>a, <3>1, <3>2, <4>1, OccupiedChanges
    <3> QED
      BY <1>a, <1>b, <2>1, <3>1, <3>3, <3>4, TypesMeanNext
  <2> QED
    BY <2>2, <2>3
<1>8. ASSUME NEW n \in Nodes, NEW k \in BOOLEAN, Leave(n, k), link' = link PROVE ElectionTypes'
  BY <1>8, <1>a, <1>b, LeaveTypes, TypesMeanNext
<1>9. ASSUME NEW n \in Nodes, Shutdown(n) \/ HostCrash(n) \/ ProcessCrash(n) \/ AcquireFails(n)
      PROVE  ElectionTypes'
  <2>1. \E k \in BOOLEAN : Leave(n, k)
    BY <1>9 DEF Shutdown, HostCrash, ProcessCrash, AcquireFails
  <2>2. link' = link
    BY <1>9 DEF Shutdown, HostCrash, ProcessCrash, AcquireFails
  <2> QED
    BY <1>8, <2>1, <2>2
<1>10. ASSUME NEW m \in net, ReleaseFails(m) PROVE ElectionTypes'
  BY <1>8, <1>10, <1>d DEF ReleaseFails
<1>11. ASSUME NEW n \in Nodes, HealthRelease(n) PROVE ElectionTypes'
  <2>1. UNCHANGED <<role, vip, adv, down, busy, link>> /\ Fit(prio')
    BY <1>11, <1>a, FitChanges DEF HealthRelease
  <2>2. WellSent(net')
    <3>1. PriorityRelease \in 0..255
      BY DEF PriorityRelease
    <3> QED
      BY <1>11, <1>a, <3>1, AdvertiseFacts DEF HealthRelease
  <2> QED
    BY <1>a, <1>b, <2>1, <2>2, TypesMeanNext
<1>12. ASSUME NEW n \in Nodes, HealthRecover(n) PROVE ElectionTypes'
  <2>1. UNCHANGED <<role, vip, adv, busy, net, link>> /\ Fit(prio')
    BY <1>12, <1>a, FitChanges DEF HealthRecover
  <2>2. Armed(role', down')
    <3>1. CASE role[n] = "Backup"
      <4>1. /\ role' = [role EXCEPT ![n] = "Backup"] /\ "Backup" \in Roles
            /\ down' = [down EXCEPT ![n] = MasterDownInterval(Priority[n])]
            /\ MasterDownInterval(Priority[n]) \in 0 .. 4 * Interval
        <5>1. role' = [role EXCEPT ![n] = "Backup"] /\ "Backup" \in Roles
          BY <1>a, <2>1, <3>1 DEF Roles
        <5>2. down' = [down EXCEPT ![n] = MasterDownInterval(Priority[n])]
          BY <1>12, <3>1 DEF HealthRecover
        <5>3. MasterDownInterval(Priority[n]) \in 1 .. 4 * Interval
          BY <1>f, DeadlineFacts
        <5> QED
          BY <5>1, <5>2, <5>3
      <4> QED
        BY <1>a, <4>1, ArmedChanges
    <3>2. CASE role[n] # "Backup"
      BY <1>12, <1>a, <2>1, <3>2 DEF HealthRecover
    <3> QED
      BY <3>1, <3>2
  <2> QED
    BY <1>a, <1>b, <2>1, <2>2, TypesMeanNext
<1>13. ASSUME NEW m \in net, Lose(m) PROVE ElectionTypes'
  <2>1. UNCHANGED <<role, prio, vip, adv, down, busy, link>> /\ net' = net \ {m}
    BY <1>13 DEF Lose, node
  <2> QED
    BY <1>a, <1>b, <1>e, <2>1, TypesMeanNext
<1>14. CASE Cut \/ Heal
  <2>1. UNCHANGED <<role, prio, vip, adv, down, busy>> /\ link' \in BOOLEAN /\ net' \subseteq net
    BY <1>14 DEF Cut, Heal, node
  <2>2. WellSent(net')
    BY <1>a, <2>1 DEF WellSent
  <2> QED
    BY <1>a, <1>b, <2>1, <2>2, TypesMeanNext
<1>15. CASE UNCHANGED vars
  <2>1. UNCHANGED <<role, prio, vip, adv, down, busy, net, link>>
    BY <1>15 DEF vars
  <2> QED
    BY <1>a, <1>b, <2>1, TypesMeanNext
<1>16. ASSUME NEW n \in Nodes, Announce(n) PROVE ElectionTypes'
  <2>1. UNCHANGED <<role, prio, vip, down, link>> /\ busy' = [busy EXCEPT ![n] = Never]
    BY <1>16 DEF Announce
  <2>2. adv' \in [Nodes -> 0..Interval]
    BY <1>16, <1>a DEF Announce
  <2>3. WellSent(net')
    BY <1>16, <1>a, <1>f, AdvertiseFacts DEF Announce
  <2>4. Occupied(role', busy')
    BY <1>a, <2>1 DEF Occupied
  <2> QED
    BY <1>a, <1>b, <2>1, <2>2, <2>3, <2>4, TypesMeanNext
<1> QED
  BY <1>1, <1>2, <1>3, <1>4, <1>5, <1>6, <1>7, <1>9, <1>10, <1>11, <1>12, <1>13, <1>14, <1>15, <1>16
     DEF Next, Loop, Environment

-----------------------------------------------------------------------------
(* Ranks, and the steps that let a clock run on. *)

LEMMA RankFacts ==
    ASSUME ElectionTypes
    PROVE  /\ \A n \in Nodes : Beats(n, Peer(n)) <=> ~Beats(Peer(n), n)
           /\ \A m \in net : /\ m.source \in Nodes /\ m.to \in Nodes /\ m.to = Peer(m.source)
                             /\ m.source = Peer(m.to) /\ m.to # m.source
           /\ \A m \in net : m = Message(m.source) =>
                 (Outranks(m, m.to) <=> Beats(m.source, m.to)) /\ m.priority = prio[m.source]
<1>1. \A n \in Nodes : n \in Nat /\ prio[n] \in Nat
  BY NodesAssumption DEF ElectionTypes
<1>2. ASSUME NEW n \in Nodes PROVE Beats(n, Peer(n)) <=> ~Beats(Peer(n), n)
  <2>1. PICK p \in Nodes : p = Peer(n) /\ p # n
    BY PeerFacts
  <2>2. n \in Nat /\ p \in Nat /\ prio[n] \in Nat /\ prio[p] \in Nat
    BY <1>1
  <2>3. Beats(n, p) <=> ~Beats(p, n)
    BY <2>1, <2>2 DEF Beats
  <2> QED
    BY <2>1, <2>3
<1>3. \A m \in net : m.source \in Nodes /\ m.to \in Nodes /\ m.to = Peer(m.source)
  BY DEF ElectionTypes
<1>4. \A m \in net : m.source = Peer(m.to) /\ m.to # m.source
  BY <1>3, PeerFacts
<1>5. \A n \in Nodes : Message(n).priority = prio[n]
  BY DEF Message
<1>6. \A m \in net : m = Message(m.source) =>
        (Outranks(m, m.to) <=> Beats(m.source, m.to)) /\ m.priority = prio[m.source]
  BY <1>3, <1>5 DEF Outranks, Beats
<1> QED
  BY <1>2, <1>3, <1>4, <1>6

\* A Backup never preempts a Master that beats it.
LEMMA NoPreemptBeaten ==
    ASSUME ElectionTypes, NEW h \in Nodes, NEW l \in Nodes, Beats(h, l),
           NEW m, m.priority = prio[h]
    PROVE  ~Preempts(m, l)
<1>1. prio[h] \in Int /\ prio[l] \in Int
  BY DEF ElectionTypes
<1>2. prio[h] > prio[l] \/ prio[h] = prio[l]
  BY DEF Beats
<1>3. ~(prio[h] < prio[l])
  BY <1>1, <1>2
<1> QED
  BY <1>3 DEF Preempts

\* What a loop does by itself between two ticks.
Calm ==
    \/ \E n \in Nodes : AdvertisementTimer(n) \/ MasterDownTimer(n) \/ Announce(n)
    \/ \E m \in net : StepDown(m) \/ HoldRole(m) \/ HearMaster(m)

Disagreements == {"two_masters", "unfit_master"}

\* Only a tick starts a clock, except that of a clean shutdown.
LEMMA OnlyTickCounts ==
    ASSUME [Next]_vars, trouble' # trouble, trouble' # "none", trouble' # "left"
    PROVE  Tick
<1>1. Delayed \/ Changed \/ Departed => UNCHANGED monitor \/ trouble' = "none"
  BY DEF Delayed, Changed, Disturbed, Departed
<1>2. ~UNCHANGED monitor
  BY DEF monitor
<1>3. ~(UNCHANGED vars)
  BY DEF vars
<1>4. ~Calm
  BY <1>2 DEF Calm, AdvertisementTimer, MasterDownTimer, Announce, StepDown, HoldRole, HearMaster
<1>5. ~Environment
  <2>1. \A n \in Nodes : ~Start(n)
    BY <1>2 DEF Start
  <2>2. \A n \in Nodes : ~Shutdown(n)
    BY DEF Shutdown
  <2>3. \A n \in Nodes : ~(HostCrash(n) \/ ProcessCrash(n) \/ AcquireFails(n))
    BY <1>1, <1>2 DEF HostCrash, ProcessCrash, AcquireFails
  <2>4. \A n \in Nodes : ~(HealthRelease(n) \/ HealthRecover(n))
    BY <1>1, <1>2 DEF HealthRelease, HealthRecover
  <2>5. \A m \in net : ~(ReleaseFails(m) \/ Lose(m))
    BY <1>1, <1>2 DEF ReleaseFails, Lose
  <2>6. ~(Cut \/ Heal)
    BY <1>1, <1>2 DEF Cut, Heal
  <2> QED
    BY <2>1, <2>2, <2>3, <2>4, <2>5, <2>6 DEF Environment
<1> QED
  BY <1>3, <1>4, <1>5 DEF Next, Loop, Calm

\* Every fault, start, repair or change of priority stops the clock of a
\* disagreement.
LEMMA CalmSteps ==
    ASSUME [Next]_vars, trouble \in Disagreements, trouble' = trouble, Undisturbed
    PROVE  Calm \/ Tick \/ UNCHANGED vars
<1>1. trouble \in {"two_masters", "unfit_master"} /\ trouble' \notin {"none", "left"}
  BY DEF Disagreements
<1>2. ~Delayed /\ ~Changed /\ ~Departed
  BY <1>1 DEF Delayed, Changed, Disturbed, Departed
<1>3. ~Environment
  <2>1. \A n \in Nodes : ~Start(n)
    BY DEF Start, Undisturbed
  <2>2. \A n \in Nodes : ~Shutdown(n)
    BY <1>1 DEF Shutdown
  <2>3. \A n \in Nodes : ~(HostCrash(n) \/ ProcessCrash(n) \/ AcquireFails(n))
    BY <1>2 DEF HostCrash, ProcessCrash, AcquireFails
  <2>4. \A n \in Nodes : ~(HealthRelease(n) \/ HealthRecover(n))
    BY <1>2 DEF HealthRelease, HealthRecover
  <2>5. \A m \in net : ~(ReleaseFails(m) \/ Lose(m))
    BY <1>2 DEF ReleaseFails, Lose
  <2>6. ~(Cut \/ Heal)
    BY <1>2 DEF Cut, Heal
  <2> QED
    BY <2>1, <2>2, <2>3, <2>4, <2>5, <2>6 DEF Environment
<1> QED
  BY <1>3 DEF Next, Loop, Calm

\* What is sent in such a step carries the sender's priority.
LEMMA SentFacts ==
    ASSUME Undisturbed, NEW n \in Nodes, NEW S, Advertise(n, prio[n], S)
    PROVE  net' = S \cup {Message(n)}
  BY PeerFacts DEF Advertise, Undisturbed, Message

\* Which messages and which role a calm step changes.
LEMMA CalmKeeps ==
    ASSUME ElectionTypes, Undisturbed, Calm
    PROVE  /\ Undisturbed' /\ prio' = prio /\ spell' = spell /\ trouble' = trouble
           /\ \A n \in Nodes : Message(n)' = Message(n)
           /\ \A m \in net' : m \in net \/ \E n \in Nodes : m = Message(n) /\ role[n] = "Master"
           /\ InForce => InForce'
<1>1. link /\ spell # 0 /\ \A n \in Nodes : role[n] # "Down"
  BY DEF Undisturbed, Running
<1>2. prio' = prio /\ link' = link /\ spell' = spell /\ trouble' = trouble
  BY DEF Calm, AdvertisementTimer, MasterDownTimer, Announce, StepDown, HoldRole, HearMaster, Promote, node, monitor
<1>3. \A n \in Nodes : Message(n).source = n /\ Message(n)' = Message(n)
  BY <1>2 DEF Message
<1>4. /\ \A n \in Nodes : role'[n] = role[n] \/ role'[n] \in {"Backup", "Master"}
      /\ \A m \in net' : m \in net \/ \E n \in Nodes : m = Message(n) /\ role[n] = "Master"
  <2>1. ASSUME NEW n \in Nodes, AdvertisementTimer(n)
        PROVE  role' = role /\ \A m \in net' : m \in net \/ (m = Message(n) /\ role[n] = "Master")
    BY <2>1, SentFacts DEF AdvertisementTimer
  <2>2. ASSUME NEW n \in Nodes, MasterDownTimer(n)
        PROVE  role' = [role EXCEPT ![n] = "Master"] /\ net' = net
    BY <2>2 DEF MasterDownTimer, Promote
  <2>10. ASSUME NEW n \in Nodes, Announce(n)
         PROVE  role' = role /\ \A m \in net' : m \in net \/ (m = Message(n) /\ role[n] = "Master")
    <3>1. role[n] = "Master"
      BY <2>10 DEF Announce, Listens, ElectionTypes
    <3> QED
      BY <2>10, <3>1, SentFacts DEF Announce
  <2>3. ASSUME NEW m \in net, StepDown(m) \/ HearMaster(m)
        PROVE  /\ role' = role \/ role' = [role EXCEPT ![m.to] = "Backup"]
               /\ net' = net \ {m}
    BY <2>3 DEF StepDown, HearMaster
  <2>4. ASSUME NEW m \in net, HoldRole(m)
        PROVE  role' = role /\ \A x \in net' : x \in net \/ (x = Message(m.to) /\ role[m.to] = "Master")
    BY <2>4, SentFacts, RankFacts DEF HoldRole, node
  <2>5. \A n \in Nodes, r \in {"Backup", "Master"} : \A k \in Nodes :
          [role EXCEPT ![n] = r][k] \in {role[k], "Backup", "Master"}
    BY DEF ElectionTypes
  <2>6. \A m \in net : m.to \in Nodes
    BY RankFacts
  <2>7. \E n \in Nodes, r \in {"Backup", "Master"} : role' = role \/ role' = [role EXCEPT ![n] = r]
    BY <2>1, <2>2, <2>3, <2>4, <2>6, <2>10 DEF Calm
  <2>8. \A n \in Nodes : role'[n] = role[n] \/ role'[n] \in {"Backup", "Master"}
    <3>1. PICK n \in Nodes, r \in {"Backup", "Master"} : role' = role \/ role' = [role EXCEPT ![n] = r]
      BY <2>7
    <3>2. CASE role' = role
      BY <3>2
    <3>3. CASE role' = [role EXCEPT ![n] = r]
      BY <2>5, <3>3
    <3> QED
      BY <3>1, <3>2, <3>3
  <2>9. \A m \in net' : m \in net \/ \E n \in Nodes : m = Message(n) /\ role[n] = "Master"
    BY <2>1, <2>2, <2>3, <2>4, <2>6, <2>10 DEF Calm
  <2> QED
    BY <2>8, <2>9
<1>5. \A n \in Nodes : role'[n] # "Down"
  BY <1>1, <1>4
<1>6. InForce => InForce'
  <2> SUFFICES ASSUME InForce, NEW m \in net' PROVE m = Message(m.source)'
    BY DEF InForce
  <2>1. m.source \in Nodes /\ m = Message(m.source)
    BY <1>3, <1>4, RankFacts DEF InForce
  <2> QED
    BY <1>3, <2>1
<1>7. Undisturbed'
  BY <1>1, <1>2, <1>5 DEF Undisturbed, Running
<1> QED
  BY <1>2, <1>3, <1>4, <1>6, <1>7

\* A Backup whose deadline has not passed stays one until time passes.
LEMMA BackupStays ==
    ASSUME ElectionTypes, Calm, NEW l \in Nodes, role[l] = "Backup", down[l] > 0
    PROVE  role'[l] = "Backup" /\ down'[l] > 0
<1>1. role \in [Nodes -> Roles] /\ down \in [Nodes -> {Never} \cup 0 .. 4 * Interval]
  BY DEF ElectionTypes
<1>2. \A n \in Nodes : Skew(prio[n]) > 0 /\ MasterDownInterval(prio[n]) > 0
  <2> SUFFICES ASSUME NEW n \in Nodes PROVE Skew(prio[n]) > 0 /\ MasterDownInterval(prio[n]) > 0
    OBVIOUS
  <2>1. prio[n] \in 0 .. 255
    BY DEF ElectionTypes
  <2>2. MasterDownInterval(prio[n]) \in 1 .. 4 * Interval /\ Skew(prio[n]) \in 1 .. 4 * Interval
    BY <2>1, DeadlineFacts
  <2> QED
    BY <2>2, ConfigAssumption
<1>3. \A m \in net : m.to \in Nodes
  BY RankFacts
<1>4. ASSUME NEW n \in Nodes, AdvertisementTimer(n) \/ Announce(n) PROVE UNCHANGED <<role, down>>
  BY <1>4 DEF AdvertisementTimer, Announce
<1>5. ASSUME NEW n \in Nodes, MasterDownTimer(n) PROVE role'[l] = "Backup" /\ down'[l] > 0
  <2>1. down[n] = 0 /\ role' = [role EXCEPT ![n] = "Master"] /\ down' = [down EXCEPT ![n] = Never]
    BY <1>5 DEF MasterDownTimer, Promote
  <2>2. n # l
    BY <2>1
  <2> QED
    BY <1>1, <2>1, <2>2
<1>6. ASSUME NEW m \in net, StepDown(m) PROVE role'[l] = "Backup" /\ down'[l] > 0
  <2>1. /\ role' = [role EXCEPT ![m.to] = "Backup"]
        /\ down' = [down EXCEPT ![m.to] = MasterDownInterval(prio[m.to])]
    BY <1>6 DEF StepDown
  <2> QED
    BY <1>1, <1>2, <1>3, <2>1
<1>7. ASSUME NEW m \in net, HoldRole(m) PROVE UNCHANGED <<role, down>>
  BY <1>7 DEF HoldRole, node
<1>8. ASSUME NEW m \in net, HearMaster(m) PROVE role'[l] = "Backup" /\ down'[l] > 0
  <2>1. role' = role /\ down' = [down EXCEPT ![m.to] = Deadline(m, m.to)]
    BY <1>8 DEF HearMaster
  <2>2. Deadline(m, l) \in {Skew(prio[l]), down[l], MasterDownInterval(prio[l])}
    BY DEF Deadline
  <2>3. Deadline(m, l) > 0
    BY <1>2, <2>2
  <2> QED
    BY <1>1, <1>3, <2>1, <2>3
<1> QED
  BY <1>4, <1>5, <1>6, <1>7, <1>8 DEF Calm

-----------------------------------------------------------------------------
(* Two Masters. *)

LEMMA LongerFacts ==
    ASSUME NEW s \in Nat, NEW t \in Nat
    PROVE  Longer(s, t) \in Nat /\ s <= Longer(s, t) /\ t <= Longer(s, t) /\ Longer(s, t) <= s + t
  BY DEF Longer

\* The clock of a node that is in vip.acquire or listens, over a tick.
LEMMA TickClocks ==
    ASSUME ElectionTypes, Tick, NEW n \in Nodes
    PROVE  /\ Listens(n)' <=> Listens(n)
           /\ ~Listens(n) => busy[n] \in Nat /\ busy[n] >= 1 /\ busy[n] <= AcquireTime /\ busy'[n] = busy[n] - 1
           /\ Listens(n) /\ Running(n) => /\ adv[n] \in Nat /\ adv[n] >= 1 /\ adv[n] <= Interval
                                          /\ adv'[n] = adv[n] - 1
<1>1. busy[n] \in {Never} \cup 0 .. AcquireTime /\ adv[n] \in 0 .. Interval
  BY DEF ElectionTypes
<1>2. Interval \in Nat /\ AcquireTime \in Nat
  BY ConfigAssumption
<1>3. /\ busy[n] # 0 /\ busy'[n] = IF busy[n] > 0 THEN busy[n] - 1 ELSE busy[n]
      /\ Listens(n) /\ Running(n) => adv[n] # 0 /\ adv'[n] = adv[n] - 1
  BY DEF Tick
<1>4. ~Listens(n) => busy[n] \in Nat /\ busy[n] >= 1 /\ busy[n] <= AcquireTime /\ busy'[n] = busy[n] - 1
  BY <1>1, <1>2, <1>3 DEF Listens
<1>5. Listens(n) => busy'[n] = busy[n]
  BY <1>3 DEF Listens, Never
<1>6. Listens(n)' <=> Listens(n)
  <2>1. Listens(n)' <=> busy'[n] = Never
    BY DEF Listens
  <2> QED
    BY <1>4, <1>5, <2>1 DEF Listens, Never
<1>7. Listens(n) /\ Running(n) => adv[n] \in Nat /\ adv[n] >= 1 /\ adv[n] <= Interval
  BY <1>1, <1>2, <1>3
<1> QED
  BY <1>3, <1>4, <1>6, <1>7

LEMMA TwoMastersTick ==
    ASSUME ElectionTypes, ElectionTypes', TwoMastersEnd, Tick, trouble' = "two_masters"
    PROVE  TwoMastersEnd'
<1>a. /\ Interval \in Nat /\ Interval >= 1 /\ AcquireTime \in Nat /\ spell \in Nat
  BY ConfigAssumption DEF ElectionTypes
<1>1. link /\ \A n \in Nodes : role[n] = "Master" /\ Running(n)
  BY DEF Tick, Ongoing, Trouble, Running
<1>2. PICK h \in Nodes :
        /\ Beats(h, Peer(h))
        /\ trouble = "two_masters" =>
             /\ spell <= Longer(AcquireTime, Interval)
             /\ \A n \in Nodes : ~Listens(n) => busy[n] + spell <= AcquireTime
             /\ ~Listens(h) \/ adv[h] + spell <= Interval \/ Message(h) \in net
  <2>1. CASE trouble = "two_masters"
    BY <1>1, <2>1 DEF TwoMastersEnd
  <2>2. CASE trouble # "two_masters"
    BY <2>2, NodesAssumption, RankFacts, PeerFacts
  <2> QED
    BY <2>1, <2>2
<1>3. PICK l \in Nodes : l = Peer(h) /\ l # h
  BY PeerFacts
<1>4. trouble = "two_masters" => spell < SpellCap
  BY <1>2, <1>a, LongerFacts DEF SpellCap
<1>5. /\ UNCHANGED <<role, prio, link, net>>
      /\ spell' = IF trouble = "two_masters" THEN spell + 1 ELSE 1
  BY <1>4 DEF Tick, Counted
<1>6. ASSUME NEW n \in Nodes, ~Listens(n)' PROVE busy'[n] + spell' <= AcquireTime
  <2>1. ~Listens(n) /\ busy[n] \in Nat /\ busy[n] >= 1 /\ busy[n] <= AcquireTime /\ busy'[n] = busy[n] - 1
    BY <1>6, TickClocks
  <2>2. trouble = "two_masters" => busy[n] + spell <= AcquireTime
    BY <1>2, <2>1
  <2> QED
    BY <1>5, <1>a, <2>1, <2>2
<1>7. \/ ~Listens(h)' \/ adv'[h] + spell' <= Interval
      \/ Message(h) \in net /\ ~Listens(l)
  <2> SUFFICES ASSUME Listens(h)' PROVE adv'[h] + spell' <= Interval \/ (Message(h) \in net /\ ~Listens(l))
    OBVIOUS
  <2>1. /\ Listens(h) /\ adv[h] \in Nat /\ adv[h] >= 1 /\ adv[h] <= Interval /\ adv'[h] = adv[h] - 1
    BY <1>1, TickClocks
  <2>2. Message(h) \in net => ~Listens(l)
    BY <1>3 DEF Tick, Message
  <2>3. trouble = "two_masters" => adv[h] + spell <= Interval \/ Message(h) \in net
    BY <1>2, <2>1
  <2> QED
    BY <1>5, <1>a, <2>1, <2>2, <2>3
<1>8. spell' # 0 /\ spell' <= Longer(AcquireTime, Interval)
  <2>1. spell' \in Nat /\ spell' # 0
    BY <1>5, <1>a
  <2>2. ASSUME NEW n \in Nodes, ~Listens(n)' PROVE spell' <= AcquireTime
    <3>1. busy'[n] + spell' <= AcquireTime
      BY <1>6, <2>2
    <3>2. busy'[n] \in Nat
      <4>1. busy[n] \in Nat /\ busy[n] >= 1 /\ busy'[n] = busy[n] - 1
        BY <2>2, TickClocks
      <4> QED
        BY <4>1
    <3> QED
      BY <1>a, <2>1, <3>1, <3>2
  <2>3. ~Listens(l) => ~Listens(l)'
    BY TickClocks
  <2>4. adv'[h] \in Nat
    BY <1>a DEF ElectionTypes
  <2>5. spell' <= AcquireTime \/ spell' <= Interval
    BY <1>7, <1>a, <2>1, <2>2, <2>3, <2>4
  <2> QED
    BY <1>a, <2>1, <2>5, LongerFacts
<1>9. Undisturbed'
  BY <1>1, <1>5, <1>8 DEF Undisturbed, Running
<1>10. Beats(h, Peer(h))' /\ (Message(h) \in net => Message(h)' \in net')
  BY <1>2, <1>5 DEF Beats, Message
<1> QED
  BY <1>1, <1>5, <1>6, <1>7, <1>8, <1>9, <1>10 DEF TwoMastersEnd

\* What the loops do between ticks: the better Master announces itself, or
\* somebody steps down.
LEMMA TwoMastersCalm ==
    ASSUME ElectionTypes, Undisturbed, Calm, \A n \in Nodes : role[n] = "Master",
           \A n \in Nodes : ~Listens(n) => busy[n] + spell <= AcquireTime,
           NEW h \in Nodes, Beats(h, Peer(h)),
           ~Listens(h) \/ adv[h] + spell <= Interval \/ Message(h) \in net
    PROVE  \/ \E l \in Nodes : role'[l] = "Backup" /\ down'[l] > 0
           \/ /\ \A n \in Nodes : role'[n] = "Master" /\ (~Listens(n)' => busy'[n] + spell <= AcquireTime)
              /\ ~Listens(h)' \/ adv'[h] + spell <= Interval \/ Message(h) \in net'
<1>1. /\ role \in [Nodes -> Roles] /\ adv \in [Nodes -> 0..Interval]
      /\ down \in [Nodes -> {Never} \cup 0 .. 4 * Interval]
      /\ busy \in [Nodes -> {Never} \cup 0 .. AcquireTime]
  BY DEF ElectionTypes
<1>2. \A m \in net : m.to \in Nodes /\ m.source = Peer(m.to) /\ m.to # m.source
  BY RankFacts
<1>3. PICK l \in Nodes : l = Peer(h) /\ l # h /\ Peer(l) = h /\ \A n \in Nodes : n = h \/ n = l
  BY PeerFacts
<1> DEFINE Stays == /\ \A n \in Nodes : role'[n] = "Master" /\ (~Listens(n)' => busy'[n] + spell <= AcquireTime)
                    /\ ~Listens(h)' \/ adv'[h] + spell <= Interval \/ Message(h) \in net'
           Ends == \E n \in Nodes : role'[n] = "Backup" /\ down'[n] > 0
<1>4. ASSUME NEW n \in Nodes, AdvertisementTimer(n) PROVE Stays
  <2>1. UNCHANGED <<role, busy>> /\ adv' = [adv EXCEPT ![n] = Interval] /\ Advertise(n, prio[n], net)
    BY <1>4 DEF AdvertisementTimer
  <2>2. net' = net \cup {Message(n)}
    BY <2>1, SentFacts
  <2>3. n # h => adv'[h] = adv[h]
    BY <1>1, <2>1
  <2>4. \A k \in Nodes : Listens(k)' <=> Listens(k)
    BY <2>1 DEF Listens
  <2> QED
    BY <2>1, <2>2, <2>3, <2>4
<1>5. ASSUME NEW n \in Nodes, Announce(n) PROVE Stays
  <2>1. /\ role' = role /\ busy' = [busy EXCEPT ![n] = Never] /\ Advertise(n, prio[n], net)
        /\ \E t \in 0..Interval : adv' = [adv EXCEPT ![n] = t]
    BY <1>5 DEF Announce
  <2>2. net' = net \cup {Message(n)}
    BY <2>1, SentFacts
  <2>3. n # h => adv'[h] = adv[h]
    BY <1>1, <2>1
  <2>4. \A k \in Nodes : (k = n => busy'[k] = Never) /\ (k # n => busy'[k] = busy[k])
    BY <1>1, <2>1
  <2>5. \A k \in Nodes : (Listens(k)' <=> Listens(k) \/ k = n) /\ (~Listens(k)' => busy'[k] = busy[k])
    BY <2>4 DEF Listens
  <2> QED
    BY <2>1, <2>2, <2>3, <2>5
<1>6. \A n \in Nodes : ~MasterDownTimer(n)
  BY DEF MasterDownTimer
<1>7. ASSUME NEW m \in net, StepDown(m) PROVE Ends
  <2>1. /\ role' = [role EXCEPT ![m.to] = "Backup"]
        /\ down' = [down EXCEPT ![m.to] = MasterDownInterval(prio[m.to])]
    BY <1>7 DEF StepDown
  <2>2. MasterDownInterval(prio[m.to]) > 0
    <3>1. prio[m.to] \in 0 .. 255
      BY <1>2 DEF ElectionTypes
    <3>2. MasterDownInterval(prio[m.to]) \in 1 .. 4 * Interval
      BY <3>1, DeadlineFacts
    <3> QED
      BY <3>2, ConfigAssumption
  <2> QED
    BY <1>1, <1>2, <2>1, <2>2
<1>8. ASSUME NEW m \in net, HoldRole(m) PROVE Stays
  <2>1. UNCHANGED <<role, adv, busy>> /\ ~Outranks(m, m.to) /\ Listens(m.to)
    BY <1>8 DEF HoldRole, node
  <2>2. m # Message(h)
    <3> SUFFICES ASSUME m = Message(h) PROVE FALSE
      OBVIOUS
    <3>1. m.source = h /\ m.to = l /\ m.priority = prio[h]
      BY <1>3 DEF Message
    <3> QED
      BY <1>3, <2>1, <3>1 DEF Outranks, Beats
  <2>3. net \ {m} \subseteq net'
    BY <1>2, <1>8, SentFacts DEF HoldRole
  <2>4. \A k \in Nodes : Listens(k)' <=> Listens(k)
    BY <2>1 DEF Listens
  <2> QED
    BY <2>1, <2>2, <2>3, <2>4
<1>9. \A m \in net : ~HearMaster(m)
  BY <1>2 DEF HearMaster
<1> HIDE DEF Stays, Ends
<1>10. Stays \/ Ends
  BY <1>4, <1>5, <1>6, <1>7, <1>8, <1>9 DEF Calm
<1> QED
  BY <1>10 DEF Stays, Ends

LEMMA TwoMastersStep ==
    ASSUME ElectionTypes, ElectionTypes', TwoMastersEnd, [Next]_vars
    PROVE  TwoMastersEnd'
<1> SUFFICES ASSUME trouble' = "two_masters" PROVE TwoMastersEnd'
  BY DEF TwoMastersEnd
<1>1. CASE Tick
  BY <1>1, TwoMastersTick
<1>2. CASE trouble # "two_masters" /\ ~Tick
  BY <1>2, OnlyTickCounts
<1>3. CASE trouble = "two_masters" /\ UNCHANGED vars
  BY <1>3 DEF vars, TwoMastersEnd, Undisturbed, Beats, Message, Running, Listens
<1>4. CASE trouble = "two_masters" /\ Calm
  <2>1. Undisturbed /\ spell <= Longer(AcquireTime, Interval)
    BY <1>4 DEF TwoMastersEnd
  <2>2. Undisturbed' /\ prio' = prio /\ spell' = spell /\ \A n \in Nodes : Message(n)' = Message(n)
    BY <1>4, <2>1, CalmKeeps
  <2>3. CASE \E l \in Nodes : role[l] = "Backup" /\ down[l] > 0
    <3>1. \E l \in Nodes : role'[l] = "Backup" /\ down'[l] > 0
      BY <1>4, <2>3, BackupStays
    <3> QED
      BY <2>1, <2>2, <3>1 DEF TwoMastersEnd
  <2>4. CASE ~\E l \in Nodes : role[l] = "Backup" /\ down[l] > 0
    <3>1. /\ \A n \in Nodes : role[n] = "Master" /\ (~Listens(n) => busy[n] + spell <= AcquireTime)
          /\ \E h \in Nodes : /\ Beats(h, Peer(h))
                              /\ ~Listens(h) \/ adv[h] + spell <= Interval \/ Message(h) \in net
      BY <1>4, <2>4 DEF TwoMastersEnd
    <3>2. PICK h \in Nodes : /\ Beats(h, Peer(h))
                             /\ ~Listens(h) \/ adv[h] + spell <= Interval \/ Message(h) \in net
      BY <3>1
    <3>3. \/ \E l \in Nodes : role'[l] = "Backup" /\ down'[l] > 0
          \/ /\ \A n \in Nodes : role'[n] = "Master" /\ (~Listens(n)' => busy'[n] + spell <= AcquireTime)
             /\ ~Listens(h)' \/ adv'[h] + spell <= Interval \/ Message(h) \in net'
      BY <1>4, <2>1, <3>1, <3>2, TwoMastersCalm
    <3>4. Beats(h, Peer(h))'
      BY <2>2, <3>2 DEF Beats
    <3> QED
      BY <2>1, <2>2, <3>3, <3>4 DEF TwoMastersEnd
  <2> QED
    BY <2>3, <2>4
<1> QED
  <2>1. trouble = "two_masters" => Undisturbed /\ trouble \in Disagreements
    BY DEF TwoMastersEnd, Disagreements
  <2> QED
    BY <1>1, <1>2, <1>3, <1>4, <2>1, CalmSteps

-----------------------------------------------------------------------------
(* An unfit Master. *)

\* The priority of a node that is not released is the configured one, whose
\* skew is shorter than the interval.
LEMMA FitSkew ==
    ASSUME ElectionTypes, NEW b \in Nodes, prio[b] # PriorityRelease
    PROVE  /\ prio[b] = Priority[b] /\ Skew(prio[b]) \in Nat
           /\ 1 <= Skew(prio[b]) /\ Skew(prio[b]) < Interval
<1>1. prio[b] = Priority[b] /\ prio[b] \in 0 .. 255
  BY DEF ElectionTypes
<1> QED
  BY <1>1, SkewFacts, TickAssumption

\* The numbers of ReleaseUnderWay.
LEMMA ReleaseFacts ==
    ASSUME ElectionTypes, NEW b \in Nodes, prio[b] # PriorityRelease
    PROVE  /\ Interval \in Nat /\ Interval >= 1 /\ AcquireTime \in Nat /\ spell \in Nat
           /\ Skew(prio[b]) \in Nat /\ 1 <= Skew(prio[b]) /\ Skew(prio[b]) < Interval
           /\ ReplacedBy(b) \in Nat /\ AcquireTime + Skew(prio[b]) <= ReplacedBy(b)
           /\ Interval <= ReplacedBy(b)
           /\ ReplacedBy(b) + Skew(prio[b]) < SpellCap
<1>1. Interval \in Nat /\ Interval >= 1 /\ AcquireTime \in Nat /\ spell \in Nat
  BY ConfigAssumption DEF ElectionTypes
<1>2. Skew(prio[b]) \in Nat /\ 1 <= Skew(prio[b]) /\ Skew(prio[b]) < Interval
  BY FitSkew
<1>3. AcquireTime + Skew(prio[b]) \in Nat
  BY <1>1, <1>2
<1>4. /\ ReplacedBy(b) \in Nat /\ AcquireTime + Skew(prio[b]) <= ReplacedBy(b)
      /\ Interval <= ReplacedBy(b)
  BY <1>1, <1>3, LongerFacts DEF ReplacedBy
<1>5. ReplacedBy(b) = AcquireTime + Skew(prio[b]) \/ ReplacedBy(b) = Interval
  BY DEF ReplacedBy, Longer
<1>6. ReplacedBy(b) + Skew(prio[b]) < SpellCap
  BY <1>1, <1>2, <1>5 DEF SpellCap
<1> QED
  BY <1>1, <1>2, <1>4, <1>6

LEMMA UnfitTick ==
    ASSUME ElectionTypes, ElectionTypes', UnfitMasterEnds, Tick, trouble' = "unfit_master"
    PROVE  UnfitMasterEnds'
<1>1. link /\ \E v \in Nodes :
         /\ role[v] = "Master" /\ prio[v] = PriorityRelease
         /\ role[Peer(v)] = "Backup" /\ prio[Peer(v)] # PriorityRelease
  BY DEF Tick, Ongoing, Trouble
<1>2. PICK u \in Nodes :
         /\ role[u] = "Master" /\ prio[u] = PriorityRelease
         /\ role[Peer(u)] = "Backup" /\ prio[Peer(u)] # PriorityRelease
  BY <1>1
<1>3. PICK b \in Nodes : b = Peer(u) /\ b # u /\ Peer(b) = u /\ \A n \in Nodes : n = u \/ n = b
  BY PeerFacts
<1> DEFINE sk == Skew(prio[b])
           w  == ReplacedBy(b)
<1>4. /\ Interval \in Nat /\ Interval >= 1 /\ AcquireTime \in Nat /\ spell \in Nat
      /\ sk \in Nat /\ 1 <= sk /\ sk < Interval
      /\ w \in Nat /\ AcquireTime + sk <= w /\ Interval <= w /\ w + sk < SpellCap
  BY <1>2, <1>3, ReleaseFacts
<1>5. Listens(b) /\ \A m \in net : m.to # b
  <2>1. Listens(b)
    BY <1>2, <1>3 DEF ElectionTypes, Listens
  <2> QED
    BY <2>1 DEF Tick
<1>6. trouble = "unfit_master" =>
        /\ spell <= w + sk
        /\ \/ ~Listens(u) /\ busy[u] + spell <= AcquireTime
           \/ Listens(u) /\ adv[u] + spell <= w
           \/ Listens(u) /\ down[b] + spell <= w + sk /\ down[b] < adv[u]
  <2> SUFFICES ASSUME trouble = "unfit_master"
               PROVE  /\ spell <= w + sk
                      /\ \/ ~Listens(u) /\ busy[u] + spell <= AcquireTime
                         \/ Listens(u) /\ adv[u] + spell <= w
                         \/ Listens(u) /\ down[b] + spell <= w + sk /\ down[b] < adv[u]
    OBVIOUS
  <2>1. PICK v \in Nodes :
          /\ prio[v] = PriorityRelease /\ prio[Peer(v)] # PriorityRelease
          /\ spell <= ReplacedBy(Peer(v)) + Skew(prio[Peer(v)])
          /\ ReleaseUnderWay(v, Peer(v)) \/ role[Peer(v)] = "Master" \/ role[v] = "Backup"
    BY DEF UnfitMasterEnds
  <2>2. v = u
    BY <1>2, <1>3, <2>1
  <2>3. ReleaseUnderWay(u, b)
    BY <1>2, <1>3, <2>1, <2>2
  <2>4. Message(u) \notin net
    BY <1>3, <1>5 DEF Message
  <2> QED
    BY <1>3, <2>1, <2>2, <2>3, <2>4 DEF ReleaseUnderWay
<1>7. trouble = "unfit_master" => spell < SpellCap
  BY <1>4, <1>6, ConfigAssumption DEF SpellCap
<1>8. /\ UNCHANGED <<role, prio, link, net>>
      /\ spell' = IF trouble = "unfit_master" THEN spell + 1 ELSE 1
  BY <1>7 DEF Tick, Counted
<1>9. down[b] \in Nat /\ down[b] >= 1 /\ down'[b] = down[b] - 1
  <2>1. down[b] # 0 /\ down'[b] = IF down[b] > 0 THEN down[b] - 1 ELSE down[b]
    BY <1>2, <1>3, <1>5 DEF Tick, Running
  <2>2. down[b] \in 0 .. 4 * Interval
    BY <1>2, <1>3 DEF ElectionTypes
  <2> QED
    BY <1>4, <2>1, <2>2
<1>10. /\ Listens(u)' <=> Listens(u)
       /\ ~Listens(u) => busy[u] \in Nat /\ busy[u] >= 1 /\ busy[u] <= AcquireTime /\ busy'[u] = busy[u] - 1
       /\ Listens(u) => adv[u] \in Nat /\ adv[u] >= 1 /\ adv[u] <= Interval /\ adv'[u] = adv[u] - 1
  BY <1>2, TickClocks DEF Running
<1>11. Listens(u) => net = {}
  BY <1>3, <1>5, RankFacts DEF Tick
<1> HIDE DEF sk, w
<1>12. /\ spell' # 0 /\ spell' <= w + sk
       /\ \/ ~Listens(u)' /\ busy'[u] + spell' <= AcquireTime
          \/ Listens(u)' /\ adv'[u] + spell' <= w
          \/ Listens(u)' /\ down'[b] + spell' <= w + sk /\ down'[b] < adv'[u]
  <2>1. CASE trouble # "unfit_master"
    <3>1. spell' = 1
      BY <1>8, <2>1
    <3> QED
      BY <1>4, <1>10, <3>1
  <2>2. CASE trouble = "unfit_master" /\ ~Listens(u)
    <3>1. spell' = spell + 1 /\ busy[u] + spell <= AcquireTime
      BY <1>6, <1>8, <2>2
    <3> QED
      BY <1>4, <1>10, <2>2, <3>1
  <2>3. CASE trouble = "unfit_master" /\ Listens(u)
    <3>1. spell' = spell + 1 /\ (adv[u] + spell <= w \/ (down[b] + spell <= w + sk /\ down[b] < adv[u]))
      BY <1>6, <1>8, <2>3
    <3> QED
      BY <1>4, <1>9, <1>10, <2>3, <3>1
  <2> QED
    BY <2>1, <2>2, <2>3
<1>13. Undisturbed'
  BY <1>1, <1>2, <1>3, <1>8, <1>12 DEF Undisturbed, Running
<1>14. ReplacedBy(b)' = w /\ Skew(prio[b])' = sk
  BY <1>8 DEF ReplacedBy, sk, w
<1>15. ReleaseUnderWay(u, b)'
  <2>1. role'[u] = "Master" /\ role'[b] = "Backup"
    BY <1>2, <1>3, <1>8
  <2>2. Listens(u)' => \A m \in net' : m.source = u
    BY <1>8, <1>10, <1>11
  <2>3. \A m \in net' : m.to # b
    BY <1>5, <1>8
  <2> QED
    BY <1>12, <1>14, <2>1, <2>2, <2>3 DEF ReleaseUnderWay
<1> QED
  BY <1>2, <1>3, <1>5, <1>8, <1>12, <1>13, <1>14, <1>15 DEF UnfitMasterEnds

\* What reaches the Backup is the release and nothing else.
LEMMA OnlyRelease ==
    ASSUME ElectionTypes, Undisturbed, Calm, NEW u \in Nodes, NEW b \in Nodes, b = Peer(u),
           \A m \in net : m.to = b => m = Message(u)
    PROVE  \A m \in net' : m.to = b => m = Message(u)
<1>1. b # u /\ Peer(b) = u /\ \A n \in Nodes : n = u \/ n = b
  BY PeerFacts
<1>2. \A m \in net' : m \in net \/ m = Message(u) \/ m = Message(b)
  BY <1>1, CalmKeeps
<1>3. Message(b).to = u
  BY <1>1 DEF Message
<1> QED
  BY <1>1, <1>2, <1>3

\* The Backup is Master: it hears nothing that outranks it.
LEMMA TakenOver ==
    ASSUME ElectionTypes, Undisturbed, Calm, NEW u \in Nodes, NEW b \in Nodes, b = Peer(u),
           prio[u] = PriorityRelease, prio[b] # PriorityRelease,
           \A m \in net : m.to = b => m = Message(u), role[b] = "Master"
    PROVE  role'[b] = "Master"
<1>1. role \in [Nodes -> Roles]
  BY DEF ElectionTypes
<1>2. prio[u] \in Int /\ prio[b] \in Int /\ prio[u] = 0 /\ prio[b] > 0
  BY DEF ElectionTypes, PriorityRelease
<1>3. ASSUME NEW n \in Nodes, AdvertisementTimer(n) \/ Announce(n) PROVE role' = role
  BY <1>3 DEF AdvertisementTimer, Announce
<1>4. ASSUME NEW n \in Nodes, MasterDownTimer(n) PROVE role'[b] = "Master"
  BY <1>1, <1>4 DEF MasterDownTimer, Promote
<1>5. ASSUME NEW m \in net, StepDown(m) PROVE role'[b] = "Master"
  <2>1. role' = [role EXCEPT ![m.to] = "Backup"] /\ Outranks(m, m.to)
    BY <1>5 DEF StepDown
  <2>2. m.to # b
    <3> SUFFICES ASSUME m.to = b PROVE FALSE
      OBVIOUS
    <3>1. m.priority = prio[u]
      BY DEF Message
    <3> QED
      BY <1>2, <2>1, <3>1 DEF Outranks
  <2> QED
    BY <1>1, <2>1, <2>2
<1>6. ASSUME NEW m \in net, HoldRole(m) \/ HearMaster(m) PROVE role' = role
  BY <1>6 DEF HoldRole, HearMaster, node
<1> QED
  BY <1>3, <1>4, <1>5, <1>6 DEF Calm

\* The release is announced, heard, and nothing pushes the deadline out.
LEMMA ReleaseProceeds ==
    ASSUME ElectionTypes, Undisturbed, Calm, NEW u \in Nodes, NEW b \in Nodes, b = Peer(u),
           prio[u] = PriorityRelease, prio[b] # PriorityRelease,
           \A m \in net : m.to = b => m = Message(u), ReleaseUnderWay(u, b)
    PROVE  \/ ReleaseUnderWay(u, b)'
           \/ role'[b] = "Master"
           \/ role'[u] = "Backup" /\ down'[u] > 0
<1> DEFINE sk == Skew(prio[b])
           w  == ReplacedBy(b)
<1>a. /\ Interval \in Nat /\ Interval >= 1 /\ AcquireTime \in Nat /\ spell \in Nat
      /\ sk \in Nat /\ 1 <= sk /\ sk < Interval
      /\ w \in Nat /\ AcquireTime + sk <= w /\ Interval <= w
  BY ReleaseFacts
<1>b. prio' = prio /\ spell' = spell
  BY CalmKeeps
<1>c. Message(u)' = Message(u) /\ ReplacedBy(b)' = w /\ Skew(prio[b])' = sk
  BY <1>b DEF Message, ReplacedBy
<1>1. b # u /\ Peer(b) = u /\ \A n \in Nodes : n = u \/ n = b
  BY PeerFacts
<1>2. role[u] = "Master" /\ role[b] = "Backup" /\ Running(u) /\ Running(b)
  BY DEF ReleaseUnderWay, Running
<1>3. /\ role \in [Nodes -> Roles] /\ adv \in [Nodes -> 0 .. Interval]
      /\ down \in [Nodes -> {Never} \cup 0 .. 4 * Interval] /\ down[b] \in 0 .. 4 * Interval
      /\ busy \in [Nodes -> {Never} \cup 0 .. AcquireTime]
  BY <1>2 DEF ElectionTypes
<1>4. /\ ~Listens(u) => busy[u] + spell <= AcquireTime /\ spell <= AcquireTime
      /\ Listens(u) =>
          /\ spell <= AcquireTime \/ \A m \in net : m.source = u
          /\ \/ adv[u] + spell <= w
             \/ Message(u) \in net /\ adv[u] = Interval /\ spell <= w
             \/ Message(u) \in net /\ spell <= AcquireTime
             \/ /\ \A m \in net : m.to # b
                /\ down[b] + spell <= w + sk
                /\ down[b] < adv[u]
  <2>1. ~Listens(u) => busy[u] \in Nat
    BY <1>3 DEF Listens
  <2>2. ~Listens(u) => busy[u] + spell <= AcquireTime
    BY DEF ReleaseUnderWay
  <2>3. ~Listens(u) => spell <= AcquireTime
    BY <1>a, <2>1, <2>2
  <2> QED
    BY <2>2, <2>3 DEF ReleaseUnderWay
<1>5. \A m \in net : \/ m.to = u /\ m.source = b
                     \/ m.to = b /\ m.source = u /\ m = Message(u) /\ m.priority = PriorityRelease
  BY <1>1, RankFacts DEF Message
<1>6. Listens(b)
  BY <1>2 DEF ElectionTypes, Listens
<1>7. \A m \in net' : m.to = b => m = Message(u)
  BY OnlyRelease
<1>8. adv[u] \in Nat /\ adv[u] <= Interval
  BY <1>3, <1>a
<1> DEFINE Underway ==
             /\ role'[u] = "Master" /\ role'[b] = "Backup"
             /\ \/ ~Listens(u)' /\ busy'[u] + spell <= AcquireTime
                \/ /\ Listens(u)'
                   /\ spell <= AcquireTime \/ \A m \in net' : m.source = u
                   /\ \/ adv'[u] + spell <= w
                      \/ Message(u) \in net' /\ adv'[u] = Interval /\ spell <= w
                      \/ Message(u) \in net' /\ spell <= AcquireTime
                      \/ /\ \A m \in net' : m.to # b
                         /\ down'[b] + spell <= w + sk
                         /\ down'[b] < adv'[u]
<1>9. Underway => ReleaseUnderWay(u, b)'
  BY <1>b, <1>c DEF ReleaseUnderWay
<1> HIDE DEF sk, w
<1>10. ASSUME NEW n \in Nodes, AdvertisementTimer(n) PROVE Underway
  <2>1. /\ UNCHANGED <<role, down, busy>> /\ adv' = [adv EXCEPT ![n] = Interval] /\ adv[n] = 0
        /\ Listens(n)
    BY <1>10 DEF AdvertisementTimer
  <2>2. Listens(u)' <=> Listens(u)
    BY <2>1 DEF Listens
  <2>3. CASE n = u
    <3>1. net' = net \cup {Message(u)}
      BY <1>2, <1>10, <2>3, SentFacts DEF AdvertisementTimer
    <3>2. spell <= w
      <4>1. ~(down[b] < adv[u])
        BY <1>3, <2>1, <2>3
      <4>2. 0 + spell = spell
        BY <1>a
      <4>3. spell <= w \/ spell <= AcquireTime
        BY <1>4, <2>1, <2>3, <4>1, <4>2
      <4> QED
        BY <1>a, <4>3
    <3>3. adv'[u] = Interval
      BY <1>3, <2>1, <2>3
    <3>4. Message(u).source = u
      BY DEF Message
    <3> QED
      BY <1>2, <1>4, <2>1, <2>2, <2>3, <3>1, <3>2, <3>3, <3>4
  <2>4. CASE n = b
    <3>1. net' = net /\ adv'[u] = adv[u]
      BY <1>1, <1>2, <1>3, <1>10, <2>1, <2>4 DEF AdvertisementTimer
    <3> QED
      BY <1>2, <1>4, <2>1, <2>2, <3>1
  <2> QED
    BY <1>1, <2>3, <2>4
<1>11. ASSUME NEW n \in Nodes, MasterDownTimer(n) PROVE role'[b] = "Master"
  <2>1. n = b
    BY <1>1, <1>2, <1>11 DEF MasterDownTimer
  <2> QED
    BY <1>3, <1>11, <2>1 DEF MasterDownTimer, Promote
<1>12. ASSUME NEW n \in Nodes, Announce(n) PROVE Underway
  <2>1. n = u
    BY <1>1, <1>6, <1>12 DEF Announce
  <2>2. role' = role /\ busy'[u] = Never /\ net' = net \cup {Message(u)} /\ ~Listens(u)
    BY <1>3, <1>12, <2>1, SentFacts DEF Announce
  <2>3. Listens(u)'
    BY <2>2 DEF Listens
  <2> QED
    BY <1>2, <1>4, <2>2, <2>3
<1>13. ASSUME NEW m \in net, StepDown(m) PROVE role'[u] = "Backup" /\ down'[u] > 0
  <2>1. m.to = u
    BY <1>2, <1>5, <1>13 DEF StepDown
  <2>2. /\ role' = [role EXCEPT ![u] = "Backup"]
        /\ down' = [down EXCEPT ![u] = MasterDownInterval(prio[u])]
    BY <1>13, <2>1 DEF StepDown
  <2>3. MasterDownInterval(prio[u]) > 0
    <3>1. MasterDownInterval(prio[u]) \in 1 .. 4 * Interval
      BY DeadlineFacts DEF ElectionTypes
    <3> QED
      BY <3>1, ConfigAssumption
  <2> QED
    BY <1>3, <2>2, <2>3
<1>14. ASSUME NEW m \in net, HoldRole(m) PROVE Underway
  <2>1. m.to = u /\ m.source = b /\ Listens(u) /\ UNCHANGED <<role, adv, down, busy>>
    BY <1>2, <1>5, <1>14 DEF HoldRole, node
  <2>2. Listens(u)'
    BY <2>1 DEF Listens
  <2>3. spell <= AcquireTime
    BY <1>1, <1>4, <2>1
  <2>4. net' = net \ {m} \/ Message(u) \in net'
    BY <1>14, <2>1, SentFacts DEF HoldRole
  <2>5. m # Message(u)
    BY <1>1, <2>1 DEF Message
  <2> QED
    BY <1>2, <1>4, <2>1, <2>2, <2>3, <2>4, <2>5
<1>15. ASSUME NEW m \in net, HearMaster(m) PROVE Underway
  <2>1. m.to = b /\ m = Message(u) /\ m.priority = PriorityRelease
    BY <1>2, <1>5, <1>15 DEF HearMaster
  <2>2. /\ down' = [down EXCEPT ![b] = Deadline(m, b)] /\ net' = net \ {m}
        /\ UNCHANGED <<role, adv, busy>>
    BY <1>15, <2>1 DEF HearMaster
  <2>3. \A x \in net' : x.to # b
    BY <1>7, <2>1, <2>2
  <2>4. Deadline(m, b) = sk
    BY <2>1 DEF Deadline, sk
  <2>5. down'[b] = sk
    BY <1>3, <2>2, <2>4
  <2>6. Listens(u)' <=> Listens(u)
    BY <2>2 DEF Listens
  <2>7. CASE ~Listens(u)
    BY <1>2, <1>4, <2>2, <2>6, <2>7
  <2>8. CASE Listens(u)
    <3>1. adv[u] + spell <= w \/ (down'[b] + spell <= w + sk /\ down'[b] < adv[u])
      <4>1. CASE adv[u] + spell <= w
        BY <4>1
      <4>2. CASE adv[u] = Interval /\ spell <= w
        BY <1>a, <2>5, <4>2
      <4>3. CASE spell <= AcquireTime
        BY <1>8, <1>a, <2>5, <4>3
      <4>4. ~\A x \in net : x.to # b
        BY <2>1
      <4> QED
        BY <1>4, <2>8, <4>1, <4>2, <4>3, <4>4
    <3> QED
      BY <1>2, <1>4, <2>2, <2>3, <2>6, <2>8, <3>1
  <2> QED
    BY <2>7, <2>8
<1> HIDE DEF Underway
<1> QED
  BY <1>9, <1>10, <1>11, <1>12, <1>13, <1>14, <1>15 DEF Calm

LEMMA UnfitMasterStep ==
    ASSUME ElectionTypes, ElectionTypes', UnfitMasterEnds, [Next]_vars
    PROVE  UnfitMasterEnds'
<1> SUFFICES ASSUME trouble' = "unfit_master" PROVE UnfitMasterEnds'
  BY DEF UnfitMasterEnds
<1>1. CASE Tick
  BY <1>1, UnfitTick
<1>2. CASE trouble # "unfit_master" /\ ~Tick
  BY <1>2, OnlyTickCounts
<1>3. CASE trouble = "unfit_master" /\ ~Tick
  <2>1. PICK u \in Nodes :
          /\ prio[u] = PriorityRelease /\ prio[Peer(u)] # PriorityRelease
          /\ spell <= ReplacedBy(Peer(u)) + Skew(prio[Peer(u)])
          /\ \A m \in net : m.to = Peer(u) => m = Message(u)
          /\ \/ ReleaseUnderWay(u, Peer(u))
             \/ role[Peer(u)] = "Master"
             \/ role[u] = "Backup" /\ down[u] > 0
    BY <1>3 DEF UnfitMasterEnds
  <2>2. Undisturbed
    BY <1>3 DEF UnfitMasterEnds
  <2>3. Calm \/ UNCHANGED vars
    BY <1>3, <2>2, CalmSteps DEF Disagreements
  <2>4. PICK b \in Nodes : b = Peer(u)
    BY PeerFacts
  <2>5. CASE UNCHANGED vars
    BY <2>1, <2>2, <2>5
       DEF vars, UnfitMasterEnds, Undisturbed, ReleaseUnderWay, ReplacedBy, Message, Running, Listens
  <2>6. CASE Calm
    <3>1. Undisturbed' /\ prio' = prio /\ spell' = spell /\ Message(u)' = Message(u)
      BY <2>2, <2>6, CalmKeeps
    <3>2. \/ ReleaseUnderWay(u, b)'
          \/ role'[b] = "Master"
          \/ role'[u] = "Backup" /\ down'[u] > 0
      BY <2>1, <2>2, <2>4, <2>6, ReleaseProceeds, TakenOver, BackupStays
    <3>3. \A m \in net' : m.to = b => m = Message(u)
      BY <2>1, <2>2, <2>4, <2>6, OnlyRelease
    <3>4. spell' <= ReplacedBy(b)' + Skew(prio[b])'
      BY <2>1, <2>4, <3>1 DEF ReplacedBy
    <3> QED
      BY <2>1, <2>4, <3>1, <3>2, <3>3, <3>4 DEF UnfitMasterEnds
  <2> QED
    BY <2>3, <2>5, <2>6
<1> QED
  BY <1>1, <1>2, <1>3

-----------------------------------------------------------------------------
(* No Master. *)

LEMMA SentAtMost ==
    ASSUME NEW n \in Nodes, NEW p, NEW S, Advertise(n, p, S)
    PROVE  /\ S \subseteq net'
           /\ \A m \in net' : m \in S \/ m = [to |-> Peer(n), source |-> n, priority |-> p]
  BY DEF Advertise

\* Without a health fault the priorities stay the configured ones.
StandStill == prio = Priority /\ InForce

LEMMA StandStillStep ==
    ASSUME ElectionTypes, \A n \in Nodes : ~HealthRelease(n), StandStill, [Next]_vars
    PROVE  /\ StandStill' /\ \A n \in Nodes : ~HealthRelease(n) /\ ~HealthRecover(n)
<1>1. prio = Priority /\ \A m \in net : m = Message(m.source)
  BY DEF StandStill, InForce
<1>2. \A n \in Nodes : [prio EXCEPT ![n] = Priority[n]] = Priority
  BY <1>1, ConfigAssumption
<1>3. \A n \in Nodes : ~HealthRelease(n) /\ ~HealthRecover(n)
  BY <1>1, ConfigAssumption DEF HealthRecover, PriorityRelease
<1>4. prio' = Priority /\ \A m \in net' : m \in net \/ \E n \in Nodes : m = Message(n)
  <2>1. ASSUME NEW n \in Nodes, AdvertisementTimer(n)
        PROVE  prio' = prio /\ \A m \in net' : m \in net \/ m = Message(n)
    BY <2>1, SentAtMost DEF AdvertisementTimer, Message
  <2>2. ASSUME NEW n \in Nodes, MasterDownTimer(n) PROVE prio' = prio /\ net' = net
    BY <2>2 DEF MasterDownTimer
  <2>11. ASSUME NEW n \in Nodes, Announce(n)
         PROVE  prio' = prio /\ \A m \in net' : m \in net \/ m = Message(n)
    BY <2>11, SentAtMost DEF Announce, Message
  <2>3. ASSUME NEW m \in net, StepDown(m) \/ HearMaster(m) \/ Lose(m)
        PROVE  prio' = prio /\ net' \subseteq net
    BY <2>3 DEF StepDown, HearMaster, Lose, node
  <2>4. ASSUME NEW m \in net, HoldRole(m)
        PROVE  prio' = prio /\ \A x \in net' : x \in net \/ x = Message(m.to)
    BY <2>4, SentAtMost, RankFacts DEF HoldRole, node, Message
  <2>5. ASSUME NEW n \in Nodes, Start(n) PROVE prio' = Priority /\ net' = net
    BY <1>2, <2>5 DEF Start
  <2>6. ASSUME NEW n \in Nodes, NEW k \in BOOLEAN, Leave(n, k) PROVE prio' = Priority /\ net' \subseteq net
    BY <1>2, <2>6 DEF Leave
  <2>7. ASSUME NEW n \in Nodes, Shutdown(n) \/ HostCrash(n) \/ ProcessCrash(n) \/ AcquireFails(n)
        PROVE  prio' = Priority /\ net' \subseteq net
    <3>1. \E k \in BOOLEAN : Leave(n, k)
      BY <2>7 DEF Shutdown, HostCrash, ProcessCrash, AcquireFails
    <3> QED
      BY <2>6, <3>1
  <2>8. ASSUME NEW m \in net, ReleaseFails(m) PROVE prio' = Priority /\ net' \subseteq net
    BY <2>6, <2>8, RankFacts DEF ReleaseFails
  <2>9. CASE Tick \/ Cut \/ Heal \/ UNCHANGED vars
    BY <1>1, <2>9 DEF Tick, Cut, Heal, vars, node
  <2>10. \A m \in net : m.to \in Nodes
    BY RankFacts
  <2> QED
    BY <1>1, <1>3, <2>1, <2>2, <2>3, <2>4, <2>5, <2>7, <2>8, <2>9, <2>10, <2>11 DEF Next, Loop, Environment
<1>5. \A n \in Nodes : Message(n).source = n
  BY DEF Message
<1>6. \A m \in net' : m = Message(m.source)
  BY <1>1, <1>4, <1>5
<1>7. InForce'
  BY <1>1, <1>4, <1>6 DEF InForce, Message
<1> QED
  BY <1>3, <1>4, <1>7 DEF StandStill

\* The steps that let the clock of a headless pair run on.
LEMMA HeadlessSteps ==
    ASSUME [Next]_vars, trouble' \in {"no_master", "left"}, ~Tick, spell' # 0,
           \A n \in Nodes : ~HealthRelease(n) /\ ~HealthRecover(n)
    PROVE  /\ trouble' = trouble /\ spell' = spell
           /\ \/ Calm \/ Cut \/ Heal \/ UNCHANGED vars
              \/ \E n \in Nodes : Start(n)
              \/ \E m \in net : Lose(m)
<1>1. Delayed \/ Changed => UNCHANGED monitor \/ trouble' = "none"
  BY DEF Delayed, Changed, Disturbed, Departed
<1>2. ~Departed
  BY DEF Departed
<1>3. UNCHANGED monitor => trouble' = trouble /\ spell' = spell
  BY DEF monitor
<1>4. ASSUME Calm \/ UNCHANGED vars \/ (\E n \in Nodes : Start(n)) PROVE UNCHANGED monitor
  BY <1>4 DEF Calm, AdvertisementTimer, MasterDownTimer, Announce, StepDown, HoldRole, HearMaster, Start, vars, monitor
<1>5. ASSUME Cut \/ Heal \/ (\E m \in net : Lose(m)) PROVE Delayed \/ Changed
  BY <1>5 DEF Cut, Heal, Lose
<1>6. \A n \in Nodes : ~Shutdown(n)
  BY DEF Shutdown
<1>7. \A n \in Nodes : ~(HostCrash(n) \/ ProcessCrash(n) \/ AcquireFails(n))
  BY <1>2 DEF HostCrash, ProcessCrash, AcquireFails
<1>8. \A m \in net : ~ReleaseFails(m)
  BY <1>2 DEF ReleaseFails
<1>9. \/ Calm \/ Cut \/ Heal \/ UNCHANGED vars
      \/ \E n \in Nodes : Start(n)
      \/ \E m \in net : Lose(m)
  BY <1>6, <1>7, <1>8 DEF Next, Loop, Environment, Calm
<1> QED
  BY <1>1, <1>3, <1>4, <1>5, <1>9

LEMMA HeadlessTick ==
    ASSUME ElectionTypes, HeadlessEnds, Tick, trouble' \in {"no_master", "left"}
    PROVE  /\ spell' <= 4 * Interval /\ net' = {}
           /\ \E n \in Nodes : role'[n] = "Backup" /\ down'[n] + spell' <= 4 * Interval
<1>a. Interval \in Nat /\ Interval >= 1 /\ spell \in Nat
  BY ConfigAssumption DEF ElectionTypes
<1>1. (\E n \in Nodes : Running(n)) /\ \A n \in Nodes : role[n] # "Master"
  BY DEF Tick, Ongoing, Trouble
<1>2. PICK n \in Nodes :
        /\ role[n] = "Backup"
        /\ trouble \in {"no_master", "left"} /\ spell # 0 => down[n] + spell <= 4 * Interval
  <2>1. CASE trouble \in {"no_master", "left"} /\ spell # 0
    BY <1>1, <2>1 DEF HeadlessEnds
  <2>2. CASE ~(trouble \in {"no_master", "left"} /\ spell # 0)
    <3>1. \A k \in Nodes : role[k] \in Roles
      BY DEF ElectionTypes
    <3> QED
      BY <1>1, <2>2, <3>1 DEF Running, Roles
  <2> QED
    BY <2>1, <2>2
<1>9. \A k \in Nodes : Listens(k)
  BY <1>1 DEF ElectionTypes, Listens
<1>3. down[n] \in 0 .. 4 * Interval /\ down[n] # 0
  BY <1>2, <1>9 DEF ElectionTypes, Tick, Running
<1>4. down[n] >= 1 /\ down[n] <= 4 * Interval /\ down[n] \in Int
  BY <1>a, <1>3
<1>5. down'[n] = down[n] - 1 /\ role' = role /\ net' = {}
  BY <1>4, <1>9, RankFacts DEF Tick
<1>6. trouble' \in Counted /\ trouble' = Ongoing
  BY DEF Counted, Tick
<1>7. CASE trouble' # trouble \/ spell = 0
  <2>1. spell' = 1
    BY <1>6, <1>7, <1>a, ConfigAssumption DEF Tick, SpellCap
  <2> QED
    BY <1>2, <1>4, <1>5, <1>a, <2>1
<1>8. CASE trouble' = trouble /\ spell # 0
  <2>1. down[n] + spell <= 4 * Interval
    BY <1>2, <1>8
  <2>2. spell < SpellCap
    BY <1>4, <1>a, <2>1, ConfigAssumption DEF SpellCap
  <2>3. spell' = spell + 1
    BY <1>6, <1>8, <2>2 DEF Tick
  <2> QED
    BY <1>2, <1>4, <1>5, <1>a, <2>1, <2>3
<1> QED
  BY <1>7, <1>8

LEMMA HeadlessStep ==
    ASSUME ElectionTypes, "health" \notin Faults, HeadlessEnds, [Next]_vars
    PROVE  HeadlessEnds'
<1>1. StandStill' /\ \A n \in Nodes : ~HealthRelease(n) /\ ~HealthRecover(n)
  <2>1. \A n \in Nodes : ~HealthRelease(n)
    BY DEF HealthRelease, Fault
  <2> QED
    BY <2>1, StandStillStep DEF HeadlessEnds, StandStill
<1>2. prio' = prio /\ prio = Priority
  BY <1>1 DEF HeadlessEnds, StandStill
<1> DEFINE Mastered == \E n \in Nodes : role'[n] = "Master"
           R1 == \E n \in Nodes : role'[n] # "Down"
           R2 == \A m \in net' : Mastered /\ (Beats(m.source, m.to) => role'[m.source] = "Master")
           R3 == Mastered \/ \E n \in Nodes : role'[n] = "Backup" /\ down'[n] + spell' <= 4 * Interval
<1> SUFFICES ASSUME trouble' \in {"no_master", "left"}
             PROVE  spell' <= 4 * Interval /\ (spell' # 0 => R1 /\ R2 /\ R3)
  <2>1. \A m : Beats(m.source, m.to)' <=> Beats(m.source, m.to)
    BY <1>2 DEF Beats
  <2> QED
    BY <1>1, <2>1 DEF HeadlessEnds, StandStill, Running
<1>3. CASE Tick
  BY <1>3, HeadlessTick
<1>4. CASE ~Tick /\ spell' = 0
  BY <1>4, ConfigAssumption
<1>5. CASE ~Tick /\ spell' # 0
  <2>1. /\ trouble' = trouble /\ spell' = spell
        /\ \/ Calm \/ Cut \/ Heal \/ UNCHANGED vars
           \/ \E n \in Nodes : Start(n)
           \/ \E m \in net : Lose(m)
    BY <1>1, <1>5, HeadlessSteps
  <2>2. /\ spell <= 4 * Interval /\ \E n \in Nodes : role[n] # "Down"
        /\ \A m \in net : /\ \E n \in Nodes : role[n] = "Master"
                          /\ Beats(m.source, m.to) => role[m.source] = "Master"
        /\ \/ \E n \in Nodes : role[n] = "Master"
           \/ \E n \in Nodes : role[n] = "Backup" /\ down[n] + spell <= 4 * Interval
    BY <1>5, <2>1 DEF HeadlessEnds, Running
  <2>3. role \in [Nodes -> Roles] /\ down \in [Nodes -> {Never} \cup 0 .. 4 * Interval]
    BY DEF ElectionTypes
  <2>4. \A m \in net : /\ m.to \in Nodes /\ m.source \in Nodes /\ m.to # m.source
                       /\ Outranks(m, m.to) => Beats(m.source, m.to) /\ ~Beats(m.to, m.source)
    BY RankFacts DEF HeadlessEnds, InForce
  <2>5. \A m, x \in net : x.source = m.to => x.to = m.source
    BY RankFacts, PeerFacts
  <2>6. ASSUME NEW n \in Nodes, AdvertisementTimer(n) PROVE R1 /\ R2 /\ R3
    <3>1. UNCHANGED <<role, down>>
      BY <2>6 DEF AdvertisementTimer
    <3>2. \A m \in net' : m \in net \/ (m.source = n /\ role[n] = "Master")
      BY <2>6, SentAtMost DEF AdvertisementTimer
    <3> QED
      BY <2>1, <2>2, <3>1, <3>2
  <2>7. ASSUME NEW n \in Nodes, MasterDownTimer(n) PROVE R1 /\ R2 /\ R3
    <3>1. role' = [role EXCEPT ![n] = "Master"] /\ net' = net
      BY <2>7 DEF MasterDownTimer, Promote
    <3>2. role'[n] = "Master" /\ \A k \in Nodes : k # n => role'[k] = role[k]
      BY <2>3, <3>1
    <3> QED
      BY <2>2, <2>4, <3>1, <3>2
  <2>13. ASSUME NEW n \in Nodes, Announce(n) PROVE R1 /\ R2 /\ R3
    <3>1. role' = role /\ role[n] = "Master"
      BY <2>13 DEF Announce, Listens, ElectionTypes
    <3>2. \A m \in net' : m \in net \/ m.source = n
      BY <2>13, SentAtMost DEF Announce
    <3> QED
      BY <2>2, <3>1, <3>2
  <2>8. ASSUME NEW m \in net, StepDown(m) PROVE R1 /\ R2 /\ R3
    <3>1. role' = [role EXCEPT ![m.to] = "Backup"] /\ Outranks(m, m.to) /\ net' = net \ {m}
      BY <2>8 DEF StepDown
    <3>2. role'[m.source] = "Master" /\ ~Beats(m.to, m.source)
      BY <2>2, <2>3, <2>4, <3>1
    <3>3. \A k \in Nodes : k # m.to => role'[k] = role[k]
      BY <2>3, <2>4, <3>1
    <3>4. \A x \in net' : Beats(x.source, x.to) => x.source # m.to /\ role[x.source] = "Master"
      BY <2>2, <2>5, <3>1, <3>2
    <3> QED
      BY <2>4, <3>1, <3>2, <3>3, <3>4
  <2>9. ASSUME NEW m \in net, HoldRole(m) PROVE R1 /\ R2 /\ R3
    <3>1. role' = role /\ role[m.to] = "Master"
      BY <2>9 DEF HoldRole, node
    <3>2. \A x \in net' : x \in net \/ x.source = m.to
      BY <2>4, <2>9, SentAtMost DEF HoldRole
    <3> QED
      BY <2>2, <2>4, <3>1, <3>2
  <2>10. ASSUME NEW m \in net, HearMaster(m) PROVE R1 /\ R2 /\ R3
    <3>1. role' = role /\ net' \subseteq net
      BY <2>10 DEF HearMaster
    <3> QED
      BY <2>2, <3>1
  <2>11. ASSUME NEW n \in Nodes, Start(n) PROVE R1 /\ R2 /\ R3
    <3>1. role[n] = "Down"
      BY <2>11 DEF Start, Running
    <3>2. CASE Priority[n] = PriorityOwner
      <4>1. role' = [role EXCEPT ![n] = "Master"] /\ net' = net
        BY <2>11, <3>2 DEF Start, Promote
      <4>2. role'[n] = "Master" /\ \A k \in Nodes : k # n => role'[k] = role[k]
        BY <2>3, <4>1
      <4> QED
        BY <2>2, <2>4, <4>1, <4>2
    <3>3. CASE Priority[n] # PriorityOwner
      <4>1. /\ role' = [role EXCEPT ![n] = "Backup"]
            /\ down' = [down EXCEPT ![n] = MasterDownInterval(Priority[n])] /\ net' = net
        BY <2>11, <3>3 DEF Start
      <4>2. \A k \in Nodes : k # n => role'[k] = role[k] /\ down'[k] = down[k]
        BY <2>3, <4>1
      <4>3. \A k \in Nodes : role[k] # "Down" => k # n
        BY <3>1
      <4> QED
        BY <2>1, <2>2, <2>4, <4>1, <4>2, <4>3
    <3> QED
      BY <3>2, <3>3
  <2>12. ASSUME Cut \/ Heal \/ UNCHANGED vars \/ \E m \in net : Lose(m) PROVE R1 /\ R2 /\ R3
    <3>1. UNCHANGED <<role, down>> /\ net' \subseteq net
      BY <2>12 DEF Cut, Heal, vars, Lose, node
    <3> QED
      BY <2>1, <2>2, <3>1
  <2> HIDE DEF R1, R2, R3
  <2> QED
    BY <2>1, <2>2, <2>6, <2>7, <2>8, <2>9, <2>10, <2>11, <2>12, <2>13 DEF Calm
<1> QED
  BY <1>3, <1>4, <1>5

-----------------------------------------------------------------------------
(* A settled pair. *)

FewFaults == faults \in 0 .. 2

\* The products of Ample and Early, as numbers.
LEMMA SlackFacts ==
    ASSUME NEW f \in 0 .. 2
    PROVE  \E x \in Nat, y \in Nat :
              /\ x = (2 - f) * Interval /\ y = f * Interval /\ y <= 2 * Interval
              /\ f # 0 => Interval <= y
              /\ f = 0 => x = 2 * Interval
              /\ f < 2 => (2 - (f + 1)) * Interval = x - Interval /\ (f + 1) * Interval = y + Interval
<1>1. Interval \in Nat
  BY ConfigAssumption
<1>2. CASE f = 0
  <2>1. (2 - f) * Interval = 2 * Interval /\ f * Interval = 0
        /\ (2 - (f + 1)) * Interval = Interval /\ (f + 1) * Interval = Interval
    BY <1>1, <1>2
  <2> QED
    BY <1>1, <1>2, <2>1
<1>3. CASE f = 1
  <2>1. (2 - f) * Interval = Interval /\ f * Interval = Interval
        /\ (2 - (f + 1)) * Interval = 0 /\ (f + 1) * Interval = 2 * Interval
    BY <1>1, <1>3
  <2> QED
    BY <1>1, <1>3, <2>1
<1>4. CASE f = 2
  <2>1. (2 - f) * Interval = 0 /\ f * Interval = 2 * Interval
    BY <1>1, <1>4
  <2> QED
    BY <1>1, <1>4, <2>1
<1> QED
  BY <1>2, <1>3, <1>4

\* A full deadline outlasts two intervals whatever the phase of the sender.
LEMMA FreshDeadline ==
    ASSUME NEW p \in 0 .. 255, NEW v \in 0 .. Interval
    PROVE  /\ MasterDownInterval(p) > v + 2 * Interval
           /\ \A f \in 0 .. 2 : MasterDownInterval(p) > v + (2 - f) * Interval
<1>1. Interval \in Nat /\ Skew(p) \in Nat /\ 1 <= Skew(p)
  BY ConfigAssumption, SkewFacts
<1>2. MasterDownInterval(p) > v + 2 * Interval
  BY <1>1 DEF MasterDownInterval
<1>3. ASSUME NEW f \in 0 .. 2 PROVE MasterDownInterval(p) > v + (2 - f) * Interval
  <2>1. PICK x \in Nat : x = (2 - f) * Interval /\ x <= 2 * Interval
    <3>1. f = 0 \/ f = 1 \/ f = 2
      OBVIOUS
    <3>2. (2 - f) * Interval \in Nat /\ (2 - f) * Interval <= 2 * Interval
      BY <1>1, <3>1
    <3> QED
      BY <3>2
  <2>2. v + x <= v + 2 * Interval
    BY <1>1, <2>1
  <2> QED
    BY <1>1, <2>1, <2>2 DEF MasterDownInterval
<1> QED
  BY <1>2, <1>3

\* Faults are only counted up, and never past the bound.
LEMMA FaultsStep ==
    ASSUME FewFaults, MaxFaults <= 2, [Next]_vars
    PROVE  /\ FewFaults' /\ (faults' = faults \/ faults' = faults + 1)
           /\ faults' = 0 => /\ faults = 0 /\ \A n \in Nodes : ~HealthRelease(n)
                             /\ \/ Calm \/ Tick \/ Heal \/ UNCHANGED vars
                                \/ \E n \in Nodes : Start(n) \/ HealthRecover(n)
<1>1. faults \in 0 .. 2 /\ MaxFaults \in Nat
  BY BoundsAssumption DEF FewFaults
<1>2. \A k : Fault(k) => faults' \in 0 .. 2 /\ faults' = faults + 1 /\ faults' # 0
  BY <1>1 DEF Fault
<1>3. ASSUME Calm \/ Tick \/ Heal \/ UNCHANGED vars \/ \E n \in Nodes : Start(n) \/ HealthRecover(n)
      PROVE  faults' = faults
  BY <1>3 DEF Calm, AdvertisementTimer, MasterDownTimer, Announce, StepDown, HoldRole, HearMaster, Tick, Heal,
              vars, Start, HealthRecover
<1>4. ASSUME NEW n \in Nodes, Shutdown(n) \/ HostCrash(n) \/ ProcessCrash(n) \/ HealthRelease(n) \/ AcquireFails(n)
      PROVE  \E k : Fault(k)
  BY <1>4 DEF Shutdown, HostCrash, ProcessCrash, HealthRelease, AcquireFails
<1>5. ASSUME NEW m \in net, ReleaseFails(m) \/ Lose(m) PROVE \E k : Fault(k)
  BY <1>5 DEF ReleaseFails, Lose
<1>6. Cut => \E k : Fault(k)
  BY DEF Cut
<1>7. \/ \E k : Fault(k)
      \/ Calm \/ Tick \/ Heal \/ UNCHANGED vars \/ \E n \in Nodes : Start(n) \/ HealthRecover(n)
  BY <1>4, <1>5, <1>6 DEF Next, Loop, Environment, Calm
<1>8. \A n \in Nodes : HealthRelease(n) => \E k : Fault(k)
  BY <1>4
<1> QED
  BY <1>1, <1>2, <1>3, <1>7, <1>8 DEF FewFaults

\* A node that has just been promoted does not listen.
LEMMA BusyMeans ==
    ASSUME ElectionTypes, NEW n \in Nodes, busy' = [busy EXCEPT ![n] = AcquireTime]
    PROVE  /\ ~Listens(n)' /\ \A k \in Nodes : k # n => (Listens(k)' <=> Listens(k))
<1>1. busy'[n] = AcquireTime /\ \A k \in Nodes : k # n => busy'[k] = busy[k]
  BY DEF ElectionTypes
<1>2. AcquireTime # Never
  BY ConfigAssumption DEF Never
<1> QED
  BY <1>1, <1>2 DEF Listens

\* The node that goes on following, before the first fault.
LEMMA FaultlessFollows ==
    ASSUME ElectionTypes, Faultless, faults = 0, prio' = prio, NEW a \in Nodes, NEW b \in Nodes, b = Peer(a),
           Calm \/ Tick \/ UNCHANGED vars \/ \E n \in Nodes : Start(n),
           role'[a] = "Master", role'[b] = "Backup", ~(Preempt /\ prio[b] > prio[a])
    PROVE  ~Listens(a)' \/ Message(a) \in net' \/ down'[b] > adv'[a] + 2 * Interval
<1>1. /\ link /\ prio = Priority /\ \A m \in net : m = Message(m.source)
      /\ Follows(a) => ~Listens(a) \/ Message(a) \in net \/ down[b] > adv[a] + 2 * Interval
  BY DEF Faultless, InForce
<1>2. a # b /\ \A n \in Nodes : n = a \/ n = b
  BY PeerFacts
<1>3. /\ role \in [Nodes -> Roles] /\ adv \in [Nodes -> 0..Interval]
      /\ down \in [Nodes -> {Never} \cup 0 .. 4 * Interval]
      /\ \A n \in Nodes : prio[n] \in 0..255 /\ adv[n] \in 0..Interval
  BY DEF ElectionTypes
<1>4. Interval \in Nat /\ Interval >= 1
  BY ConfigAssumption
<1>5. \A m \in net : (m.to = a /\ m.source = b) \/ (m.to = b /\ m.source = a /\ m = Message(a) /\ m.priority = prio[a])
  BY <1>1, <1>2, RankFacts DEF Message
<1>6. Follows(a) <=> role[a] = "Master" /\ role[b] = "Backup"
  BY DEF Follows
<1>7. MasterDownInterval(prio[b]) > adv[a] + 2 * Interval
  BY <1>3, FreshDeadline
<1>8. ASSUME NEW S, Running(b), Advertise(a, prio[a], S) PROVE Message(a) \in net'
  BY <1>1, <1>8 DEF Advertise, Message
<1>9. ASSUME NEW n \in Nodes, AdvertisementTimer(n) PROVE ~Listens(a)' \/ Message(a) \in net' \/ down'[b] > adv'[a] + 2 * Interval
  <2>1. UNCHANGED <<role, down, busy>> /\ adv' = [adv EXCEPT ![n] = Interval]
    BY <1>9 DEF AdvertisementTimer
  <2>2. CASE n = a
    BY <1>8, <1>9, <2>1, <2>2 DEF AdvertisementTimer, Running
  <2>3. CASE n # a
    <3>1. adv'[a] = adv[a] /\ net \subseteq net'
      BY <1>3, <1>9, <2>1, <2>3, SentAtMost DEF AdvertisementTimer
    <3> QED
      BY <1>1, <1>6, <2>1, <3>1 DEF Listens
  <2> QED
    BY <2>2, <2>3
<1>10. ASSUME NEW n \in Nodes, MasterDownTimer(n) PROVE ~Listens(a)'
  <2>1. role' = [role EXCEPT ![n] = "Master"] /\ busy' = [busy EXCEPT ![n] = AcquireTime]
    BY <1>10 DEF MasterDownTimer, Promote
  <2>2. n = a \/ role[a] = "Master"
    BY <1>3, <2>1
  <2>3. n = a
    BY <1>2, <1>3, <1>10, <2>1, <2>2 DEF MasterDownTimer
  <2> QED
    BY <2>1, <2>3, BusyMeans
<1>17. ASSUME NEW n \in Nodes, Announce(n) PROVE ~Listens(a)' \/ Message(a) \in net' \/ down'[b] > adv'[a] + 2 * Interval
  <2>1. /\ UNCHANGED <<role, down>> /\ role[n] = "Master" /\ Advertise(n, prio[n], net)
    BY <1>17 DEF Announce, Listens, ElectionTypes
  <2>2. n = a
    BY <1>2, <2>1
  <2> QED
    BY <1>8, <2>1, <2>2 DEF Running
<1>11. ASSUME NEW m \in net, StepDown(m) PROVE down'[b] > adv'[a] + 2 * Interval
  <2>1. /\ role' = [role EXCEPT ![m.to] = "Backup"] /\ adv' = adv
        /\ down' = [down EXCEPT ![m.to] = MasterDownInterval(prio[m.to])]
    BY <1>11 DEF StepDown
  <2>2. m.to = b
    BY <1>3, <1>5, <2>1
  <2> QED
    BY <1>3, <1>7, <2>1, <2>2
<1>12. ASSUME NEW m \in net, HoldRole(m) PROVE ~Listens(a)' \/ Message(a) \in net' \/ down'[b] > adv'[a] + 2 * Interval
  <2>1. UNCHANGED <<role, adv, down, busy>> /\ role[m.to] = "Master"
    BY <1>12 DEF HoldRole, node
  <2>2. m.to = a /\ m # Message(a)
    BY <1>2, <1>5, <2>1 DEF Message
  <2>3. net \ {m} \subseteq net'
    BY <1>12, <2>2, SentAtMost DEF HoldRole
  <2> QED
    BY <1>1, <1>6, <2>1, <2>2, <2>3 DEF Listens
<1>13. ASSUME NEW m \in net, HearMaster(m) PROVE down'[b] > adv'[a] + 2 * Interval
  <2>1. role' = role /\ adv' = adv /\ role[m.to] = "Backup" /\ down' = [down EXCEPT ![m.to] = Deadline(m, m.to)]
    BY <1>13 DEF HearMaster
  <2>2. m.to = b /\ m.priority = prio[a]
    BY <1>5, <2>1
  <2>3. m.priority # PriorityRelease
    BY <1>1, <2>2, ConfigAssumption DEF PriorityRelease
  <2>4. ~Preempts(m, b)
    BY <1>3, <2>2 DEF Preempts
  <2>5. Deadline(m, b) = MasterDownInterval(prio[b])
    BY <2>3, <2>4 DEF Deadline
  <2> QED
    BY <1>3, <1>7, <2>1, <2>2, <2>5
<1>14. ASSUME Tick PROVE ~Listens(a)' \/ down'[b] > adv'[a] + 2 * Interval
  <2> SUFFICES ASSUME Listens(a)' PROVE down'[b] > adv'[a] + 2 * Interval
    OBVIOUS
  <2>1. role' = role /\ Listens(a) /\ Listens(b)
    BY <1>14, TickClocks DEF Tick, ElectionTypes, Listens
  <2>2. net = {}
    BY <1>14, <1>2, <2>1, RankFacts DEF Tick
  <2>3. down[b] > adv[a] + 2 * Interval
    BY <1>1, <1>6, <2>1, <2>2
  <2>4. adv[a] \in Nat /\ down[b] \in Int /\ down[b] > 0
    BY <1>3, <1>4, <2>3 DEF Never
  <2>5. adv'[a] = adv[a] - 1 /\ down'[b] = down[b] - 1
    BY <1>14, <2>1, <2>4 DEF Tick, Running
  <2> QED
    BY <1>4, <2>3, <2>4, <2>5
<1>15. ASSUME NEW n \in Nodes, Start(n) PROVE ~Listens(a)' \/ Message(a) \in net' \/ down'[b] > adv'[a] + 2 * Interval
  <2>1. role[n] = "Down" /\ adv' = [adv EXCEPT ![n] = 0]
    BY <1>15 DEF Start, Running
  <2>2. CASE Priority[n] = PriorityOwner
    <3>1. role' = [role EXCEPT ![n] = "Master"] /\ busy' = [busy EXCEPT ![n] = AcquireTime]
      BY <1>15, <2>2 DEF Start, Promote
    <3>2. CASE n = a
      BY <3>1, <3>2, BusyMeans
    <3>3. CASE n = b
      BY <1>3, <3>1, <3>3
    <3> QED
      BY <1>2, <3>2, <3>3
  <2>3. CASE Priority[n] # PriorityOwner
    <3>1. /\ role' = [role EXCEPT ![n] = "Backup"]
          /\ down' = [down EXCEPT ![n] = MasterDownInterval(Priority[n])]
      BY <1>15, <2>3 DEF Start
    <3>2. n = b
      BY <1>2, <1>3, <3>1
    <3>3. adv'[a] = adv[a] /\ down'[b] = MasterDownInterval(prio[b])
      BY <1>1, <1>2, <1>3, <2>1, <3>1, <3>2
    <3> QED
      BY <1>7, <3>3
  <2> QED
    BY <2>2, <2>3
<1>16. ASSUME UNCHANGED vars PROVE ~Listens(a)' \/ Message(a) \in net' \/ down'[b] > adv'[a] + 2 * Interval
  BY <1>1, <1>6, <1>16 DEF vars, Listens
<1> QED
  BY <1>9, <1>10, <1>11, <1>12, <1>13, <1>14, <1>15, <1>16, <1>17 DEF Calm

LEMMA FaultlessStep ==
    ASSUME ElectionTypes, FewFaults, MaxFaults <= 2, Faultless, [Next]_vars
    PROVE  Faultless'
<1> SUFFICES ASSUME faults' = 0 PROVE Faultless'
  BY DEF Faultless
<1>1. /\ faults = 0 /\ \A n \in Nodes : ~HealthRelease(n)
      /\ Calm \/ Tick \/ Heal \/ UNCHANGED vars \/ \E n \in Nodes : Start(n) \/ HealthRecover(n)
  BY FaultsStep
<1>2. link /\ StandStill
  BY <1>1 DEF Faultless, StandStill
<1>3. StandStill' /\ \A n \in Nodes : ~HealthRecover(n)
  BY <1>1, <1>2, StandStillStep
<1>4. Calm \/ Tick \/ UNCHANGED vars \/ \E n \in Nodes : Start(n)
  BY <1>1, <1>2, <1>3 DEF Heal
<1>5. link' = link
  BY <1>4 DEF Calm, AdvertisementTimer, MasterDownTimer, Announce, StepDown, HoldRole, HearMaster, Tick, vars, Start
<1>6. prio' = prio
  BY <1>2, <1>3 DEF StandStill
<1>7. ASSUME NEW a \in Nodes, Follows(a)'
      PROVE  ~Listens(a)' \/ Message(a)' \in net' \/ down'[Peer(a)] > adv'[a] + 2 * Interval
  <2>1. PICK b \in Nodes : b = Peer(a)
    BY PeerFacts
  <2>2. role'[a] = "Master" /\ role'[b] = "Backup" /\ ~(Preempt /\ prio[b] > prio[a])
    BY <1>6, <1>7, <2>1 DEF Follows
  <2>3. ~Listens(a)' \/ Message(a) \in net' \/ down'[b] > adv'[a] + 2 * Interval
    BY <1>1, <1>4, <1>6, <2>1, <2>2, FaultlessFollows
  <2> QED
    BY <1>6, <2>1, <2>3 DEF Message
<1> QED
  BY <1>2, <1>3, <1>5, <1>7 DEF Faultless, StandStill

\* The steps that let the clock of a settled pair run on.
LEMMA SettledSteps ==
    ASSUME [Next]_vars, trouble' = "settled", spell' # 0, ~Tick, Undisturbed \/ trouble # "settled" \/ spell = 0
    PROVE  /\ trouble = "settled" /\ spell' = spell
           /\ Calm \/ UNCHANGED vars \/ \E m \in net : Lose(m)
<1>1. trouble = "settled"
  BY OnlyTickCounts
<1>2. ~Changed /\ ~Departed
  BY <1>1 DEF Changed, Disturbed, Departed
<1>3. Delayed => spell' = spell
  BY <1>1 DEF Delayed, Disturbed, Departed, monitor
<1>4. ASSUME Calm \/ UNCHANGED vars \/ \E n \in Nodes : Start(n) PROVE spell' = spell
  BY <1>4 DEF Calm, AdvertisementTimer, MasterDownTimer, Announce, StepDown, HoldRole, HearMaster, Start, vars, monitor
<1>5. \A n \in Nodes : ~Shutdown(n)
  BY DEF Shutdown
<1>6. \A n \in Nodes : ~(HostCrash(n) \/ ProcessCrash(n) \/ AcquireFails(n) \/ HealthRelease(n) \/ HealthRecover(n))
  BY <1>2 DEF HostCrash, ProcessCrash, AcquireFails, HealthRelease, HealthRecover
<1>7. (\A m \in net : ~ReleaseFails(m)) /\ ~Cut /\ ~Heal
  BY <1>2 DEF ReleaseFails, Cut, Heal
<1>8. Calm \/ UNCHANGED vars \/ (\E n \in Nodes : Start(n)) \/ \E m \in net : Lose(m)
  BY <1>5, <1>6, <1>7 DEF Next, Loop, Environment, Calm
<1>9. ASSUME NEW m \in net, Lose(m) PROVE Delayed
  BY <1>9 DEF Lose
<1>10. spell' = spell
  BY <1>3, <1>4, <1>8, <1>9
<1>11. \A n \in Nodes : ~Start(n)
  BY <1>1, <1>10 DEF Undisturbed, Start
<1> QED
  BY <1>1, <1>8, <1>10, <1>11

\* Somebody stays Master, and of two the one that steps down is the one the
\* other beats.
LEMMA SettledRoles ==
    ASSUME ElectionTypes, SettledStays, trouble = "settled", spell # 0, Calm
    PROVE  /\ \E n \in Nodes : role'[n] = "Master"
           /\ \A m \in net' : /\ Beats(m.source, m.to) => role'[m.source] = "Master"
                              /\ role'[m.source] = "Backup" => down'[m.source] > 0
           /\ \A n \in Nodes : ~Listens(n)' => role'[Peer(n)] = "Master" /\ \A m \in net' : m.source # n
           /\ \A n \in Nodes : role'[n] = "Master" /\ role'[Peer(n)] # "Master" => prio[n] # PriorityRelease
<1>1. /\ Undisturbed /\ InForce /\ \E n \in Nodes : role[n] = "Master"
      /\ \E n \in Nodes : prio[n] # PriorityRelease
      /\ \A m \in net : /\ Beats(m.source, m.to) => role[m.source] = "Master"
                        /\ role[m.source] = "Backup" => down[m.source] > 0
      /\ \A n \in Nodes : ~Listens(n) => role[Peer(n)] = "Master" /\ \A m \in net : m.source # n
      /\ \A n \in Nodes : role[n] = "Master" /\ role[Peer(n)] # "Master" => prio[n] # PriorityRelease
  BY DEF SettledStays
<1>2. role \in [Nodes -> Roles] /\ \A n \in Nodes : prio[n] \in 0..255
  BY DEF ElectionTypes
<1>3. \A m \in net : /\ m.to \in Nodes /\ m.source \in Nodes /\ m.to # m.source /\ m.source = Peer(m.to)
                     /\ Outranks(m, m.to) => Beats(m.source, m.to) /\ ~Beats(m.to, m.source)
  BY <1>1, RankFacts DEF InForce
<1>4. \A m, x \in net : x.source = m.to => x.to = m.source
  BY RankFacts, PeerFacts
<1> DEFINE R1 == \E n \in Nodes : role'[n] = "Master"
           R2 == \A m \in net' : Beats(m.source, m.to) => role'[m.source] = "Master"
           R4 == \A m \in net' : role'[m.source] = "Backup" => down'[m.source] > 0
           R5 == \A n \in Nodes : ~Listens(n)' => role'[Peer(n)] = "Master" /\ \A m \in net' : m.source # n
           R3 == \A n \in Nodes : role'[n] = "Master" /\ role'[Peer(n)] # "Master" => prio[n] # PriorityRelease
<1>5. ASSUME NEW n \in Nodes, AdvertisementTimer(n) PROVE R1 /\ R2 /\ R3 /\ R4 /\ R5
  <2>1. UNCHANGED <<role, down>> /\ Listens(n) /\ \A k \in Nodes : Listens(k)' <=> Listens(k)
    BY <1>5 DEF AdvertisementTimer, Listens
  <2>2. \A m \in net' : m \in net \/ (m.source = n /\ role[n] = "Master")
    BY <1>5, SentAtMost DEF AdvertisementTimer
  <2> QED
    BY <1>1, <2>1, <2>2
<1>11. ASSUME NEW n \in Nodes, Announce(n) PROVE R1 /\ R2 /\ R3 /\ R4 /\ R5
  <2>1. UNCHANGED <<role, down>> /\ role[n] = "Master"
    BY <1>11 DEF Announce, Listens, ElectionTypes
  <2>2. \A k \in Nodes : ~Listens(k)' => k # n /\ ~Listens(k)
    BY <1>11 DEF Announce, Listens, ElectionTypes
  <2>3. \A m \in net' : m \in net \/ m.source = n
    BY <1>11, SentAtMost DEF Announce
  <2> QED
    BY <1>1, <2>1, <2>2, <2>3
<1>6. ASSUME NEW n \in Nodes, MasterDownTimer(n) PROVE R1 /\ R2 /\ R3 /\ R4 /\ R5
  <2>1. /\ role' = [role EXCEPT ![n] = "Master"] /\ net' = net /\ role[n] = "Backup" /\ down[n] = 0
        /\ busy' = [busy EXCEPT ![n] = AcquireTime]
    BY <1>6 DEF MasterDownTimer, Promote
  <2>2. role'[n] = "Master" /\ \A k \in Nodes : k # n => role'[k] = role[k]
    BY <1>2, <2>1
  <2>3. \A m \in net : m.source # n
    BY <1>1, <2>1
  <2>4. \A k \in Nodes : role'[k] = "Master"
    <3>1. PICK k \in Nodes : role[k] = "Master"
      BY <1>1
    <3>2. k # n /\ \A j \in Nodes : j = k \/ j = n
      BY <2>1, <3>1, PeerFacts
    <3> QED
      BY <2>2, <3>1, <3>2
  <2>5. R2 /\ R4
    BY <1>3, <2>1, <2>4
  <2>6. R5
    <3>1. \A k \in Nodes : ~Listens(k)' => k = n \/ ~Listens(k)
      BY <2>1, BusyMeans
    <3> QED
      BY <1>1, <2>1, <2>3, <2>4, <3>1, PeerFacts
  <2> QED
    BY <2>4, <2>5, <2>6, PeerFacts
<1>7. ASSUME NEW m \in net, StepDown(m) PROVE R1 /\ R2 /\ R3 /\ R4 /\ R5
  <2>1. role' = [role EXCEPT ![m.to] = "Backup"] /\ Outranks(m, m.to) /\ net' = net \ {m}
        /\ down' = [down EXCEPT ![m.to] = MasterDownInterval(prio[m.to])] /\ Listens(m.to) /\ busy' = busy
    BY <1>7 DEF StepDown
  <2>2. role'[m.source] = "Master" /\ ~Beats(m.to, m.source) /\ Beats(m.source, m.to)
    BY <1>1, <1>2, <1>3, <2>1
  <2>3. \A k \in Nodes : k # m.to => role'[k] = role[k]
    BY <1>2, <1>3, <2>1
  <2>4. \A x \in net' : Beats(x.source, x.to) => x.source # m.to /\ role[x.source] = "Master"
    BY <1>1, <1>4, <2>1, <2>2
  <2>5. R2
    BY <1>3, <2>1, <2>3, <2>4
  <2>6. prio[m.source] # PriorityRelease
    <3>1. PICK s \in Nodes, t \in Nodes : s = m.source /\ t = m.to /\ \A j \in Nodes : j = s \/ j = t
      BY <1>3, PeerFacts
    <3>2. prio[s] \in Nat /\ prio[t] \in Nat /\ (prio[s] # 0 \/ prio[t] # 0)
      <4>1. PICK n \in Nodes : prio[n] # 0
        BY <1>1 DEF PriorityRelease
      <4>2. prio[s] \in 0 .. 255 /\ prio[t] \in 0 .. 255
        BY <1>2
      <4> QED
        BY <3>1, <4>1, <4>2
    <3>3. prio[s] >= prio[t]
      BY <2>2, <3>1, <3>2 DEF Beats
    <3> QED
      BY <3>1, <3>2, <3>3 DEF PriorityRelease
  <2>7. R3
    <3>1. \A n \in Nodes : n = m.source \/ n = m.to
      BY <1>3, PeerFacts
    <3>2. role'[m.to] # "Master"
      BY <1>2, <1>3, <2>1
    <3> QED
      BY <2>6, <3>1, <3>2
  <2>8. R4
    <3>1. MasterDownInterval(prio[m.to]) \in 1 .. 4 * Interval
      BY <1>2, <1>3, DeadlineFacts
    <3>2. MasterDownInterval(prio[m.to]) > 0
      BY <3>1, ConfigAssumption
    <3>3. \A k \in Nodes : down'[k] = IF k = m.to THEN MasterDownInterval(prio[m.to]) ELSE down[k]
      BY <1>3, <2>1 DEF ElectionTypes
    <3> QED
      BY <1>1, <1>3, <2>1, <2>3, <3>2, <3>3
  <2>9. R5
    <3>1. \A k \in Nodes : Listens(k)' <=> Listens(k)
      BY <2>1 DEF Listens
    <3>2. \A k \in Nodes : k = m.to \/ k = m.source
      BY <1>3, PeerFacts
    <3> QED
      BY <1>1, <2>1, <3>1, <3>2
  <2> QED
    BY <1>3, <2>2, <2>5, <2>7, <2>8, <2>9
<1>8. ASSUME NEW m \in net, HoldRole(m) PROVE R1 /\ R2 /\ R3 /\ R4 /\ R5
  <2>1. /\ UNCHANGED <<role, down>> /\ role[m.to] = "Master" /\ Listens(m.to)
        /\ \A k \in Nodes : Listens(k)' <=> Listens(k)
    BY <1>8 DEF HoldRole, node, Listens
  <2>2. \A x \in net' : x \in net \/ x.source = m.to
    BY <1>3, <1>8, SentAtMost DEF HoldRole
  <2> QED
    BY <1>1, <1>3, <2>1, <2>2
<1>9. ASSUME NEW m \in net, HearMaster(m) PROVE R1 /\ R2 /\ R3 /\ R4 /\ R5
  <2>1. role' = role /\ net' \subseteq net /\ \A k \in Nodes : Listens(k)' <=> Listens(k)
    BY <1>9 DEF HearMaster, Listens
  <2>2. R4
    BY <1>1, <1>3, <2>1, BackupStays
  <2> QED
    BY <1>1, <2>1, <2>2
<1> HIDE DEF R1, R2, R3, R4, R5
<1>10. R1 /\ R2 /\ R3 /\ R4 /\ R5
  BY <1>5, <1>6, <1>7, <1>8, <1>9, <1>11 DEF Calm
<1> QED
  BY <1>10 DEF R1, R2, R3, R4, R5

\* A step of the loops leaves a Backup that follows time enough.
LEMMA SettledDeadline ==
    ASSUME ElectionTypes, FewFaults, SettledStays, trouble = "settled", spell # 0, Calm,
           NEW a \in Nodes, NEW b \in Nodes, b = Peer(a),
           role'[a] = "Master", role'[b] = "Backup", ~(Preempt /\ prio[b] > prio[a])
    PROVE  \/ down'[b] > adv'[a] + (2 - faults) * Interval
           \/ Message(a) \in net' /\ adv'[a] = Interval /\ down'[b] > (2 - faults) * Interval
           \/ faults # 0 /\ spell + adv'[a] <= faults * Interval
           \/ faults # 0 /\ Message(a) \in net' /\ adv'[a] = Interval /\ spell <= faults * Interval
<1> DEFINE Goal == \/ down'[b] > adv'[a] + (2 - faults) * Interval
                   \/ Message(a) \in net' /\ adv'[a] = Interval /\ down'[b] > (2 - faults) * Interval
                   \/ faults # 0 /\ spell + adv'[a] <= faults * Interval
                   \/ faults # 0 /\ Message(a) \in net' /\ adv'[a] = Interval /\ spell <= faults * Interval
<1>1. /\ Undisturbed /\ InForce /\ \E n \in Nodes : role[n] = "Master"
      /\ \A n \in Nodes : ~Listens(n) => role[Peer(n)] = "Master"
      /\ role[a] = "Master" /\ role[b] # "Master" => prio[a] # PriorityRelease
      /\ Follows(a) => Ample(a, b) \/ Early(a)
  BY DEF SettledStays
<1>2. a # b /\ \A n \in Nodes : n = a \/ n = b
  BY PeerFacts
<1>3. /\ role \in [Nodes -> Roles] /\ adv \in [Nodes -> 0..Interval]
      /\ down \in [Nodes -> {Never} \cup 0 .. 4 * Interval] /\ spell \in Nat
      /\ \A n \in Nodes : prio[n] \in 0..255 /\ adv[n] \in 0..Interval
  BY DEF ElectionTypes
<1>4. Interval \in Nat /\ Interval >= 1
  BY ConfigAssumption
<1>5. \A m \in net : (m.to = a /\ m.source = b) \/ (m.to = b /\ m.source = a /\ m = Message(a) /\ m.priority = prio[a])
  BY <1>1, <1>2, RankFacts DEF Message, InForce
<1>6. Follows(a) <=> role[a] = "Master" /\ role[b] = "Backup"
  BY DEF Follows
<1>7. MasterDownInterval(prio[b]) > adv[a] + (2 - faults) * Interval
  BY <1>3, FreshDeadline DEF FewFaults
<1>8. role[a] = "Master" /\ role[b] = "Backup" =>
        \/ down[b] > adv[a] + (2 - faults) * Interval
        \/ Message(a) \in net /\ adv[a] = Interval /\ down[b] > (2 - faults) * Interval
        \/ faults # 0 /\ spell + adv[a] <= faults * Interval
        \/ faults # 0 /\ Message(a) \in net /\ adv[a] = Interval /\ spell <= faults * Interval
  BY <1>1, <1>6 DEF Ample, Early
<1>9. ASSUME NEW n \in Nodes, AdvertisementTimer(n) PROVE Goal
  <2>1. UNCHANGED <<role, down>> /\ adv[n] = 0 /\ adv' = [adv EXCEPT ![n] = Interval]
    BY <1>9 DEF AdvertisementTimer
  <2>2. CASE n = a
    <3>1. Message(a) \in net' /\ adv'[a] = Interval
      BY <1>1, <1>3, <1>9, <2>1, <2>2, SentFacts DEF AdvertisementTimer
    <3>2. PICK x \in Nat, y \in Nat : x = (2 - faults) * Interval /\ y = faults * Interval
      BY SlackFacts DEF FewFaults
    <3>3. 0 + x = x /\ spell + 0 = spell
      BY <1>3
    <3>4. adv[a] = 0 /\ adv[a] # Interval
      BY <1>4, <2>1, <2>2
    <3>5. down'[b] > x \/ (faults # 0 /\ spell <= y)
      BY <1>8, <2>1, <3>2, <3>3, <3>4
    <3> QED
      BY <3>1, <3>2, <3>5
  <2>3. CASE n # a
    <3>1. adv'[a] = adv[a] /\ net \subseteq net'
      BY <1>3, <1>9, <2>1, <2>3, SentAtMost DEF AdvertisementTimer
    <3> QED
      BY <1>8, <2>1, <3>1
  <2> QED
    BY <2>2, <2>3
<1>10. \A n \in Nodes : ~MasterDownTimer(n)
  <2> SUFFICES ASSUME NEW n \in Nodes, MasterDownTimer(n) PROVE FALSE
    OBVIOUS
  <2>1. role' = [role EXCEPT ![n] = "Master"] /\ role[n] = "Backup"
    BY DEF MasterDownTimer, Promote
  <2>2. n = a /\ role[b] = "Backup"
    BY <1>2, <1>3, <2>1
  <2> QED
    BY <1>1, <1>2, <2>1, <2>2
<1>11. ASSUME NEW m \in net, StepDown(m) PROVE Goal
  <2>1. /\ role' = [role EXCEPT ![m.to] = "Backup"] /\ adv' = adv
        /\ down' = [down EXCEPT ![m.to] = MasterDownInterval(prio[m.to])]
    BY <1>11 DEF StepDown
  <2>2. m.to = b
    BY <1>3, <1>5, <2>1
  <2> QED
    BY <1>3, <1>7, <2>1, <2>2
<1>12. ASSUME NEW m \in net, HoldRole(m) PROVE Goal
  <2>1. UNCHANGED <<role, adv, down>> /\ role[m.to] = "Master"
    BY <1>12 DEF HoldRole, node
  <2>2. m.to = a /\ m # Message(a)
    BY <1>2, <1>5, <2>1 DEF Message
  <2>3. net \ {m} \subseteq net'
    BY <1>12, <2>2, SentAtMost DEF HoldRole
  <2> QED
    BY <1>8, <2>1, <2>2, <2>3
<1>13. ASSUME NEW m \in net, HearMaster(m) PROVE Goal
  <2>1. role' = role /\ adv' = adv /\ role[m.to] = "Backup" /\ down' = [down EXCEPT ![m.to] = Deadline(m, m.to)]
    BY <1>13 DEF HearMaster
  <2>2. m.to = b /\ m.priority = prio[a]
    BY <1>5, <2>1
  <2>3. m.priority # PriorityRelease
    BY <1>1, <2>1, <2>2
  <2>4. ~Preempts(m, b)
    BY <1>3, <2>2 DEF Preempts
  <2>5. Deadline(m, b) = MasterDownInterval(prio[b])
    BY <2>3, <2>4 DEF Deadline
  <2> QED
    BY <1>3, <1>7, <2>1, <2>2, <2>5
<1>15. \A n \in Nodes : ~Announce(n)
  <2> SUFFICES ASSUME NEW n \in Nodes, Announce(n) PROVE FALSE
    OBVIOUS
  <2>1. role' = role /\ ~Listens(n) /\ role[n] = "Master"
    BY DEF Announce, Listens, ElectionTypes
  <2>2. role[Peer(n)] = "Master"
    BY <1>1, <2>1
  <2> QED
    BY <1>2, <2>1, <2>2, PeerFacts
<1> HIDE DEF Goal
<1>14. Goal
  BY <1>9, <1>10, <1>11, <1>12, <1>13, <1>15 DEF Calm
<1> QED
  BY <1>14 DEF Goal

\* An advertisement lost costs the Backup one interval, and one fault.
LEMMA SettledLoss ==
    ASSUME ElectionTypes, FewFaults, MaxFaults <= 2, NEW a \in Nodes, NEW b \in Nodes, NEW m \in net, Lose(m),
           Ample(a, b) \/ Early(a)
    PROVE  (Ample(a, b) \/ Early(a))'
<1>1. faults \in 0 .. 2 /\ faults < 2 /\ faults' = faults + 1 /\ faults' # 0
  BY BoundsAssumption DEF Lose, Fault, FewFaults
<1>2. PICK x \in Nat, y \in Nat :
        /\ x = (2 - faults) * Interval /\ y = faults * Interval
        /\ (2 - (faults + 1)) * Interval = x - Interval /\ (faults + 1) * Interval = y + Interval
  BY <1>1, SlackFacts
<1>3. (2 - faults') * Interval = x - Interval /\ faults' * Interval = y + Interval
  BY <1>1, <1>2
<1>4. UNCHANGED <<adv, down, prio>>
  BY DEF Lose, node
<1>5. spell' = spell \/ spell' = 0
  BY DEF Lose, Delayed, Disturbed, Departed, monitor
<1>6. PICK d \in Int, v \in Nat, s \in Nat : d = down[b] /\ v = adv[a] /\ s = spell
  BY DEF ElectionTypes, Never
<1>7. Interval \in Nat
  BY ConfigAssumption
<1>8. \/ d > v + x
      \/ v = Interval /\ d > x
      \/ s + v <= y
      \/ v = Interval /\ s <= y
  BY <1>2, <1>6 DEF Ample, Early
<1>9. d > v + (x - Interval) \/ s + v <= y + Interval
  BY <1>6, <1>7, <1>8
<1>10. PICK t \in Nat : t = spell' /\ (t = s \/ t = 0)
  BY <1>5, <1>6
<1>11. s + v <= y + Interval => t + v <= y + Interval
  <2>1. CASE t = s
    BY <2>1
  <2>2. CASE t = 0
    <3>1. t + v = v /\ v <= s + v
      BY <2>2
    <3> QED
      BY <1>7, <3>1
  <2> QED
    BY <1>10, <2>1, <2>2
<1>12. d = down'[b] /\ v = adv'[a]
  BY <1>4, <1>6
<1> QED
  BY <1>1, <1>3, <1>9, <1>10, <1>11, <1>12 DEF Ample, Early

LEMMA SettledTick ==
    ASSUME ElectionTypes, FewFaults, SettledStays, Faultless, Tick, trouble' = "settled"
    PROVE  SettledStays'
<1>1. Trouble = "settled" /\ trouble' = Ongoing
  BY DEF Tick, Ongoing
<1>2. /\ link /\ \A n \in Nodes : Running(n)
      /\ \A n \in Nodes : role[n] = "Master" => prio[n] # PriorityRelease
      /\ \E n \in Nodes : role[n] = "Master"
      /\ \A n \in Nodes : Listens(n)
  <2>1. link /\ \E n \in Nodes : /\ role[n] = "Master" /\ prio[n] # PriorityRelease
                                /\ Listens(n) /\ role[Peer(n)] = "Backup"
    BY <1>1 DEF Trouble
  <2>2. \A n \in Nodes : role[n] = "Backup" => Listens(n)
    BY DEF ElectionTypes, Listens
  <2> QED
    BY <2>1, <2>2, PeerFacts DEF Running
<1>3. net = {} /\ net' = {} /\ UNCHANGED <<role, prio, link, faults>>
  BY <1>2, RankFacts DEF Tick
<1>8. \A n \in Nodes : Listens(n)'
  BY <1>2, TickClocks
<1>4. /\ Interval \in Nat /\ Interval >= 1 /\ spell \in Nat
      /\ \A n \in Nodes : adv[n] \in 0..Interval /\ down[n] \in {Never} \cup 0 .. 4 * Interval
  BY ConfigAssumption DEF ElectionTypes
<1>5. /\ trouble = "settled" /\ spell # 0 => spell' = spell + 1 \/ spell' = spell
      /\ ~(trouble = "settled" /\ spell # 0) => spell' = 1
      /\ spell' # 0
  BY <1>1, <1>4, ConfigAssumption DEF Tick, Counted, SpellCap
<1>6. ASSUME NEW a \in Nodes, Follows(a)' PROVE (Ample(a, Peer(a)) \/ Early(a))'
  <2>1. PICK b \in Nodes : b = Peer(a)
    BY PeerFacts
  <2>2. Follows(a) /\ role[a] = "Master" /\ role[b] = "Backup"
    BY <1>3, <1>6, <2>1 DEF Follows
  <2>3. PICK x \in Nat, y \in Nat :
          /\ x = (2 - faults) * Interval /\ y = faults * Interval
          /\ faults # 0 => Interval <= y
          /\ faults = 0 => x = 2 * Interval
    BY SlackFacts DEF FewFaults
  <2>4. PICK d \in Nat, v \in Nat, s \in Nat, t \in Nat :
          /\ d = down[b] /\ v = adv[a] /\ s = spell /\ t = spell'
          /\ d >= 1 /\ v >= 1 /\ v <= Interval
          /\ down'[b] = d - 1 /\ adv'[a] = v - 1
    <3>1. down[b] # Never /\ down[b] # 0 /\ adv[a] # 0
      BY <1>2, <2>2 DEF ElectionTypes, Tick
    <3>2. down[b] \in Nat /\ down[b] >= 1 /\ adv[a] \in Nat /\ adv[a] >= 1 /\ adv[a] <= Interval
      BY <1>4, <3>1
    <3>3. down'[b] = down[b] - 1 /\ adv'[a] = adv[a] - 1
      BY <1>2, <3>2 DEF Tick
    <3>4. spell' \in Nat
      BY <1>4, <1>5
    <3> QED
      BY <1>4, <3>2, <3>3, <3>4
  <2>5. d > v + x \/ (faults # 0 /\ t + (v - 1) <= y)
    <3>1. CASE trouble = "settled" /\ spell # 0
      <4>1. Ample(a, b) \/ Early(a)
        BY <2>1, <2>2, <3>1 DEF SettledStays
      <4>2. d > v + x \/ (faults # 0 /\ s + v <= y)
        BY <1>3, <2>3, <2>4, <4>1 DEF Ample, Early
      <4>3. t = s + 1 \/ t = s
        BY <1>5, <2>4, <3>1
      <4> QED
        BY <2>4, <4>2, <4>3
    <3>2. CASE ~(trouble = "settled" /\ spell # 0)
      <4>1. t = 1
        BY <1>5, <2>4, <3>2
      <4>2. CASE faults = 0
        <5>1. d > v + 2 * Interval
          BY <1>2, <1>3, <2>1, <2>2, <2>4, <4>2 DEF Faultless
        <5> QED
          BY <2>3, <4>2, <5>1
      <4>3. CASE faults # 0
        BY <1>4, <2>3, <2>4, <4>1, <4>3
      <4> QED
        BY <4>2, <4>3
    <3> QED
      BY <3>1, <3>2
  <2>6. d - 1 > (v - 1) + x \/ (faults # 0 /\ t + (v - 1) <= y)
    BY <2>4, <2>5
  <2>7. (2 - faults') * Interval = x /\ faults' * Interval = y /\ (faults' # 0 <=> faults # 0)
    BY <1>3, <2>3
  <2> QED
    BY <2>1, <2>4, <2>6, <2>7 DEF Ample, Early
<1>7. Undisturbed' /\ InForce'
  BY <1>2, <1>3, <1>5 DEF Undisturbed, Running, InForce
<1> QED
  BY <1>2, <1>3, <1>6, <1>7, <1>8 DEF SettledStays

LEMMA SettledStep ==
    ASSUME ElectionTypes, FewFaults, MaxFaults <= 2, SettledStays, Faultless, [Next]_vars
    PROVE  SettledStays'
<1> SUFFICES ASSUME trouble' = "settled", spell' # 0 PROVE SettledStays'
  BY DEF SettledStays
<1>1. CASE Tick
  BY <1>1, SettledTick
<1>2. CASE ~Tick
  <2>1. Undisturbed \/ trouble # "settled" \/ spell = 0
    BY DEF SettledStays
  <2>2. trouble = "settled" /\ spell' = spell /\ (Calm \/ UNCHANGED vars \/ \E m \in net : Lose(m))
    BY <1>2, <2>1, SettledSteps
  <2>3. /\ Undisturbed /\ InForce
        /\ \E n \in Nodes : role[n] = "Master"
        /\ \E n \in Nodes : prio[n] # PriorityRelease
        /\ \A m \in net : /\ Beats(m.source, m.to) => role[m.source] = "Master"
                          /\ role[m.source] = "Backup" => down[m.source] > 0
        /\ \A n \in Nodes : ~Listens(n) => role[Peer(n)] = "Master" /\ \A m \in net : m.source # n
        /\ \A n \in Nodes : role[n] = "Master" /\ role[Peer(n)] # "Master" => prio[n] # PriorityRelease
        /\ \A a \in Nodes : Follows(a) => Ample(a, Peer(a)) \/ Early(a)
    BY <2>2 DEF SettledStays
  <2>4. CASE UNCHANGED vars
    BY <2>3, <2>4 DEF vars, SettledStays, Undisturbed, InForce, Running, Listens, Beats, Follows, Ample, Early, Message
  <2>5. ASSUME NEW m \in net, Lose(m) PROVE SettledStays'
    <3>1. UNCHANGED <<role, prio, adv, down, busy, link>> /\ net' = net \ {m}
      BY <2>5 DEF Lose, node
    <3>2. ASSUME NEW a \in Nodes, Follows(a)' PROVE (Ample(a, Peer(a)) \/ Early(a))'
      <4>1. PICK b \in Nodes : b = Peer(a)
        BY PeerFacts
      <4>2. Ample(a, b) \/ Early(a)
        BY <2>3, <3>1, <3>2, <4>1 DEF Follows
      <4> QED
        BY <2>5, <4>1, <4>2, SettledLoss
    <3>3. Undisturbed' /\ InForce'
      BY <2>2, <2>3, <3>1 DEF Undisturbed, InForce, Running, Message
    <3> QED
      BY <2>3, <3>1, <3>2, <3>3 DEF SettledStays, Beats, Listens
  <2>6. CASE Calm
    <3>1. Undisturbed' /\ InForce' /\ prio' = prio
      BY <2>3, <2>6, CalmKeeps
    <3>2. faults' = faults
      BY <2>6 DEF Calm, AdvertisementTimer, MasterDownTimer, Announce, StepDown, HoldRole, HearMaster
    <3>3. /\ \E n \in Nodes : role'[n] = "Master"
          /\ \A m \in net' : /\ Beats(m.source, m.to) => role'[m.source] = "Master"
                             /\ role'[m.source] = "Backup" => down'[m.source] > 0
          /\ \A n \in Nodes : ~Listens(n)' => role'[Peer(n)] = "Master" /\ \A m \in net' : m.source # n
          /\ \A n \in Nodes : role'[n] = "Master" /\ role'[Peer(n)] # "Master" => prio[n] # PriorityRelease
      BY <2>2, <2>6, SettledRoles
    <3>4. ASSUME NEW a \in Nodes, Follows(a)' PROVE (Ample(a, Peer(a)) \/ Early(a))'
      <4>1. PICK b \in Nodes : b = Peer(a)
        BY PeerFacts
      <4>2. role'[a] = "Master" /\ role'[b] = "Backup" /\ ~(Preempt /\ prio[b] > prio[a])
        BY <3>1, <3>4, <4>1 DEF Follows
      <4>3. \/ down'[b] > adv'[a] + (2 - faults) * Interval
            \/ Message(a) \in net' /\ adv'[a] = Interval /\ down'[b] > (2 - faults) * Interval
            \/ faults # 0 /\ spell + adv'[a] <= faults * Interval
            \/ faults # 0 /\ Message(a) \in net' /\ adv'[a] = Interval /\ spell <= faults * Interval
        BY <2>2, <2>6, <4>1, <4>2, SettledDeadline
      <4>4. Message(a)' = Message(a)
        BY <3>1 DEF Message
      <4> QED
        BY <2>2, <3>2, <4>1, <4>3, <4>4 DEF Ample, Early
    <3> QED
      BY <2>3, <3>1, <3>3, <3>4 DEF SettledStays, Beats
  <2> QED
    BY <2>2, <2>4, <2>5, <2>6
<1> QED
  BY <1>1, <1>2

\* Only a deadline that has passed makes a Backup Master.
LEMMA TakesOver ==
    ASSUME ElectionTypes, [Next]_vars, NEW n \in Nodes, role[n] = "Backup", role'[n] = "Master"
    PROVE  down[n] = 0
<1>1. role \in [Nodes -> Roles]
  BY DEF ElectionTypes
<1>2. \A k \in Nodes, r \in {"Down", "Backup"} : role' # [role EXCEPT ![k] = r]
  BY <1>1
<1>3. role' # role
  OBVIOUS
<1>4. \A k \in Nodes : role' = [role EXCEPT ![k] = "Master"] => k = n
  BY <1>1
<1>5. \A m \in net : m.to \in Nodes
  BY RankFacts
<1>6. \A k \in Nodes : \A b : ~Leave(k, b)
  BY <1>2 DEF Leave
<1>7. \A k \in Nodes : ~Start(k)
  BY <1>2, <1>4 DEF Start, Promote, Running
<1>8. \A k \in Nodes : ~(Shutdown(k) \/ HostCrash(k) \/ ProcessCrash(k) \/ AcquireFails(k))
  BY <1>6 DEF Shutdown, HostCrash, ProcessCrash, AcquireFails
<1>9. \A k \in Nodes : ~(AdvertisementTimer(k) \/ Announce(k) \/ HealthRelease(k) \/ HealthRecover(k))
  BY <1>3 DEF AdvertisementTimer, Announce, HealthRelease, HealthRecover
<1>10. \A m \in net : ~(StepDown(m) \/ HoldRole(m) \/ HearMaster(m) \/ ReleaseFails(m) \/ Lose(m))
  BY <1>2, <1>3, <1>5, <1>6 DEF StepDown, HoldRole, HearMaster, ReleaseFails, Lose, node
<1>11. ~(Tick \/ Cut \/ Heal \/ UNCHANGED vars)
  BY <1>3 DEF Tick, Cut, Heal, vars, node
<1>12. PICK k \in Nodes : MasterDownTimer(k)
  BY <1>7, <1>8, <1>9, <1>10, <1>11 DEF Next, Loop, Environment
<1> QED
  BY <1>4, <1>12 DEF MasterDownTimer, Promote

-----------------------------------------------------------------------------
(* The theorems. *)

LEMMA ElectionStarts ==
    ASSUME Init
    PROVE  ElectionTypes /\ TwoMastersEnd /\ UnfitMasterEnds /\ HeadlessEnds
<1>1. Priority \in [Nodes -> 0..255] /\ Interval \in Nat
  BY ConfigAssumption
<1>2. ElectionTypes
  <2>1. role \in [Nodes -> Roles] /\ vip \in [Nodes -> BOOLEAN] /\ link \in BOOLEAN
    BY DEF Init, Roles
  <2>2. Fit(prio) /\ adv \in [Nodes -> 0..Interval]
    BY <1>1 DEF Init, Fit
  <2>3. Armed(role, down) /\ Occupied(role, busy)
    BY DEF Init, Armed, Occupied
  <2>4. WellSent(net) /\ MonitorTypes
    BY DEF Init, WellSent, Messages, MonitorTypes, Counted
  <2> QED
    BY <2>1, <2>2, <2>3, <2>4, TypesMean
<1>3. TwoMastersEnd /\ UnfitMasterEnds
  BY DEF Init, TwoMastersEnd, UnfitMasterEnds
<1>4. HeadlessEnds
  BY DEF Init, HeadlessEnds, InForce
<1> QED
  BY <1>2, <1>3, <1>4

\* Roles, deadlines and messages keep their types, and a node has a
\* master-down deadline exactly while it is Backup: no transition of
\* VrrpInstance leaves a Backup without one.
THEOREM ElectionTyped == Spec => []ElectionTypes
<1>1. Init => ElectionTypes
  BY ElectionStarts
<1>2. ElectionTypes /\ [Next]_vars => ElectionTypes'
  BY TypesStep
<1> QED
  BY <1>1, <1>2, PTL DEF Spec

\* For every pair of priorities, with preempt on or off, and whatever faults
\* happen: two Masters that can hear each other are one again within an
\* advertisement interval, or within the time that vip.acquire takes when
\* that is longer (a node reads no advertisement and sends none before it
\* returns).
THEOREM SplitBrainEnds == Spec => []SplitBrainBounded
<1>1. Init => TwoMastersEnd
  BY ElectionStarts
<1>2. ElectionTypes /\ ElectionTypes' /\ TwoMastersEnd /\ [Next]_vars => TwoMastersEnd'
  BY TwoMastersStep
<1>3. TwoMastersEnd => SplitBrainBounded
  BY DEF TwoMastersEnd, SplitBrainBounded
<1> QED
  BY <1>1, <1>2, <1>3, ElectionTyped, PTL DEF Spec

\* Likewise: a Master whose health failed is replaced by the fit Backup within
\* an advertisement interval and a skew, or the acquire time and two skews when
\* that is longer: the release arms the short deadline (on_advertisement), and
\* only the advertisement that ends a promotion can be followed so soon by
\* another that it pushes the deadline out once.
THEOREM UnfitMasterGoes == Spec => []UnfitMasterReplaced
<1>1. Init => UnfitMasterEnds
  BY ElectionStarts
<1>2. ElectionTypes /\ ElectionTypes' /\ UnfitMasterEnds /\ [Next]_vars => UnfitMasterEnds'
  BY UnfitMasterStep
<1>3. ElectionTypes /\ UnfitMasterEnds => UnfitMasterReplaced
  <2> SUFFICES ASSUME ElectionTypes, UnfitMasterEnds, trouble = "unfit_master"
               PROVE  \E n \in Nodes : LET t == Skew(Priority[n])
                                       IN  spell <= Longer(AcquireTime + t, Interval) + t
    BY DEF UnfitMasterReplaced
  <2>1. PICK u \in Nodes : /\ prio[Peer(u)] # PriorityRelease
                           /\ spell <= ReplacedBy(Peer(u)) + Skew(prio[Peer(u)])
    BY DEF UnfitMasterEnds
  <2>2. Peer(u) \in Nodes
    BY PeerFacts
  <2>3. prio[Peer(u)] = Priority[Peer(u)]
    BY <2>1, <2>2, FitSkew
  <2> QED
    BY <2>1, <2>2, <2>3 DEF ReplacedBy
<1> QED
  BY <1>1, <1>2, <1>3, ElectionTyped, PTL DEF Spec

\* While the health verdicts stay green, and whatever else fails: a pair with
\* a running node has a Master again within the longest master-down interval.
THEOREM HeadlessEndsInTime ==
    ASSUME "health" \notin Faults
    PROVE  Spec => []HeadlessBounded
<1>1. Init => HeadlessEnds
  BY ElectionStarts
<1>2. ElectionTypes /\ HeadlessEnds /\ [Next]_vars => HeadlessEnds'
  BY HeadlessStep
<1>3. ElectionTypes /\ HeadlessEnds => HeadlessBounded
  <2>1. MasterDownInterval(PriorityRelease) = 4 * Interval
    BY SkewFacts, ConfigAssumption DEF MasterDownInterval, PriorityRelease
  <2> QED
    BY <2>1 DEF HeadlessEnds, HeadlessBounded
<1> QED
  BY <1>1, <1>2, <1>3, ElectionTyped, PTL DEF Spec

\* For every pair of priorities and every interval, as long as no more than
\* two faults of any kind happen: in a pair that has been settled for three
\* intervals the Backup takes over only to preempt.  The three intervals of
\* master_down_interval are what this rests on.
THEOREM SettledPairHolds ==
    ASSUME MaxFaults <= 2
    PROVE  Spec => NoSpuriousTakeover
<1> DEFINE Calls == ElectionTypes /\ FewFaults /\ SettledStays /\ Faultless
           Quiet == \A n \in Nodes :
                      /\ trouble = "settled" /\ spell >= 3 * Interval
                      /\ role[n] = "Backup" /\ role'[n] = "Master"
                      /\ role[Peer(n)] = "Master"
                      => Preempt /\ prio[n] > prio[Peer(n)]
<1>1. Init => Calls
  <2>1. Init => ElectionTypes
    BY ElectionStarts
  <2>2. Init => FewFaults /\ SettledStays
    BY DEF Init, FewFaults, SettledStays
  <2>3. Init => Faultless
    BY PeerFacts DEF Init, Faultless, Follows, InForce
  <2> QED
    BY <2>1, <2>2, <2>3
<1>2. Calls /\ [Next]_vars => Calls'
  BY TypesStep, FaultsStep, SettledStep, FaultlessStep
<1>3. Calls /\ [Next]_vars => Quiet
  <2> SUFFICES ASSUME Calls, [Next]_vars, NEW n \in Nodes,
                      trouble = "settled", spell >= 3 * Interval, role[n] = "Backup", role'[n] = "Master",
                      role[Peer(n)] = "Master", ~(Preempt /\ prio[n] > prio[Peer(n)])
               PROVE  FALSE
    OBVIOUS
  <2>1. PICK a \in Nodes : a = Peer(n) /\ Peer(a) = n
    BY PeerFacts
  <2>2. Interval \in Nat /\ Interval >= 1 /\ spell \in Nat /\ spell # 0
    BY ConfigAssumption DEF ElectionTypes
  <2>3. Ample(a, n) \/ Early(a)
    BY <2>1, <2>2 DEF SettledStays, Follows
  <2>4. down[n] = 0
    BY TakesOver DEF ElectionTypes
  <2>5. PICK x \in Nat, y \in Nat : x = (2 - faults) * Interval /\ y = faults * Interval /\ y <= 2 * Interval
    BY SlackFacts DEF FewFaults
  <2>6. adv[a] \in Nat
    BY <2>1, <2>2 DEF ElectionTypes
  <2>7. 0 > adv[a] + x \/ 0 > x \/ spell + adv[a] <= y \/ spell <= y
    BY <2>3, <2>4, <2>5 DEF Ample, Early
  <2> QED
    BY <2>2, <2>5, <2>6, <2>7
<1>4. NoSpuriousTakeover <=> [][Quiet]_vars
  BY DEF NoSpuriousTakeover
<1> HIDE DEF Calls
<1> QED
  BY <1>1, <1>2, <1>3, <1>4, PTL DEF Spec
=============================================================================
