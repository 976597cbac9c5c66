----------------------------- MODULE HaElection -----------------------------
(***************************************************************************)
(* The VRRP-style election between the two appliances of an HA pair:       *)
(* VrrpInstance (vrrp.rs) driven by the select loop of HaController::run   *)
(* (lib.rs), with the health verdict (health.rs) and the virtual IP        *)
(* (vip.rs).                                                               *)
(*                                                                         *)
(* Time is discrete.  A promotion takes up to AcquireTime: the address is  *)
(* on the interface at once, then the loop waits for the gratuitous ARPs,  *)
(* runs no other handler, and leaves what arrives in its socket; only then *)
(* it advertises.  Every other handler takes no time; handlers due at the  *)
(* same instant run in any order; an advertisement to a node that listens  *)
(* is read, or lost, before the next tick.  Deadlines are kept as the      *)
(* ticks that remain.                                                      *)
(***************************************************************************)
EXTENDS Integers

CONSTANTS
    Nodes,          \* the two local addresses, as numbers (the tie-break)
    Priority,       \* configured priority of each node, 1..255
    Preempt,        \* preempt_mode, the same on both nodes
    Interval,       \* advertisement_interval, in ticks
    AcquireTime,    \* the longest vip.acquire, in ticks
    Faults,         \* the kinds of fault that may happen
    MaxFaults       \* bound on the number of faults

FaultKinds == {"loss", "cut", "health", "host_crash", "process_crash",
               "shutdown", "vip"}

ASSUME NodesAssumption ==
    /\ Nodes \subseteq Nat
    /\ \E m, n \in Nodes : m # n /\ Nodes = {m, n}
ASSUME ConfigAssumption ==
    /\ Priority \in [Nodes -> 1..255]
    /\ Preempt \in BOOLEAN
    /\ Interval \in Nat \ {0}
    /\ AcquireTime \in Nat
ASSUME BoundsAssumption == Faults \subseteq FaultKinds /\ MaxFaults \in Nat

PriorityRelease == 0
PriorityOwner   == 255
Never           == -1       \* MASTER_DOWN_DISABLED: a Master has no deadline;
                            \* also of a node that is not acquiring

Roles == {"Down", "Backup", "Master"}

VARIABLES
    role,       \* VrrpInstance.state; Down: the loop does not run
    prio,       \* effective_priority
    vip,        \* does the node's interface carry the virtual IP
    adv,        \* ticks until adv_timer fires
    down,       \* ticks until next_master_down, or Never
    busy,       \* ticks that vip.acquire may still take, or Never
    net,        \* advertisements in flight
    link,       \* is the segment between the nodes up
    faults,     \* number of faults so far
    trouble,    \* monitor: what was wrong with the pair at the last tick
    spell       \* monitor: for how many ticks that has lasted

node    == <<role, prio, vip, adv, down, busy>>
monitor == <<trouble, spell>>
vars    == <<role, prio, vip, adv, down, busy, net, link, faults, trouble, spell>>

Peer(n)    == CHOOSE m \in Nodes : m # n
Running(n) == role[n] # "Down"

\* The select loop of n polls its arms: it is not inside vip.acquire.
Listens(n) == busy[n] = Never

-----------------------------------------------------------------------------
(* vrrp.rs: timers and ranking *)

\* skew_time: (256 - p) / 256 of the interval, rounded up to a tick.
Skew(p) == ((256 - p) * Interval + 255) \div 256

\* A tick is fine enough for the skew of a fit node to stay below the
\* interval, as it does in real time.
ASSUME TickAssumption == \A n \in Nodes : Skew(Priority[n]) < Interval

\* Mutant: two intervals instead of three.
MasterDownIntervalMutant(p) == 2 * Interval + Skew(p)

\* master_down_interval
MasterDownInterval(p) == 3 * Interval + Skew(p)

\* Mutant: equal priorities are not told apart by address.
OutranksMutant(m, n) == m.priority > prio[n]

\* peer_outranks: the peer's advertisement m beats node n.
Outranks(m, n) == \/ m.priority > prio[n]
                  \/ m.priority = prio[n] /\ m.source > n

\* Mutant: the comparison is the wrong way round.
PreemptsMutant(m, n) == Preempt /\ m.priority > prio[n]

\* A Backup that outranks the Master it hears, with preempt on.
Preempts(m, n) == Preempt /\ m.priority < prio[n]

-----------------------------------------------------------------------------
(* lib.rs: what a handler does *)

\* send_advertisement with priority p: lost at once when the segment is down
\* or nobody listens.
Advertise(n, p, inFlight) ==
    net' = IF link /\ Running(Peer(n))
           THEN inFlight \cup {[to |-> Peer(n), source |-> n, priority |-> p]}
           ELSE inFlight

\* apply_transition of a promotion, up to the await: the VIP is added and
\* announced, and the master-down deadline is disabled.
Promote(n) ==
    /\ role' = [role EXCEPT ![n] = "Master"]
    /\ vip'  = [vip EXCEPT ![n] = TRUE]
    /\ down' = [down EXCEPT ![n] = Never]
    /\ busy' = [busy EXCEPT ![n] = AcquireTime]

\* The loop ends and its sockets close.  keepVip: the address stays on the
\* interface because nobody removed it.
Leave(n, keepVip) ==
    /\ role' = [role EXCEPT ![n] = "Down"]
    /\ prio' = [prio EXCEPT ![n] = Priority[n]]
    /\ vip'  = [vip EXCEPT ![n] = keepVip /\ vip[n]]
    /\ adv'  = [adv EXCEPT ![n] = 0]
    /\ down' = [down EXCEPT ![n] = Never]
    /\ busy' = [busy EXCEPT ![n] = Never]
    /\ net'  = {m \in net : m.to # n}

Fault(kind) == /\ kind \in Faults
               /\ faults < MaxFaults
               /\ faults' = faults + 1

\* Monitors.  A node that leaves starts every clock anew; a message lost
\* only those that count on the next advertisement settling the matter; a
\* change of the segment or of a priority also the clock of a settled pair.
Departed == trouble' = "none" /\ spell' = 0

Disturbed(kinds) ==
    IF trouble \in kinds THEN Departed ELSE UNCHANGED monitor

Delayed == Disturbed({"two_masters", "unfit_master"})
Changed == Disturbed({"two_masters", "unfit_master", "settled"})

-----------------------------------------------------------------------------
(* HaController::run, one action per arm of the select loop *)

\* Start: the address owner is Master at once, everybody else is Backup and
\* waits.  Nothing looks at, or removes, an address already on the interface.
Start(n) ==
    /\ ~Running(n)
    /\ prio' = [prio EXCEPT ![n] = Priority[n]]
    /\ adv'  = [adv EXCEPT ![n] = 0]
    /\ IF Priority[n] = PriorityOwner
         THEN Promote(n)
         ELSE /\ role' = [role EXCEPT ![n] = "Backup"]
              /\ down' = [down EXCEPT ![n] = MasterDownInterval(Priority[n])]
              /\ UNCHANGED <<vip, busy>>
    /\ UNCHANGED <<net, link, faults, monitor>>

\* adv_timer: a Master advertises, a Backup ignores it.
AdvertisementTimer(n) ==
    /\ Running(n) /\ Listens(n)
    /\ adv[n] = 0
    /\ adv' = [adv EXCEPT ![n] = Interval]
    /\ IF role[n] = "Master" THEN Advertise(n, prio[n], net) ELSE net' = net
    /\ UNCHANGED <<role, prio, vip, down, busy, link, faults, monitor>>

\* The master-down deadline of a Backup has passed.
MasterDownTimer(n) ==
    /\ role[n] = "Backup"
    /\ down[n] = 0
    /\ Promote(n)
    /\ UNCHANGED <<prio, adv, net, link, faults, monitor>>

\* vip.acquire returns: the new Master advertises.  adv_timer went on and
\* skips what it missed, so it fires at any time of the next interval.
Announce(n) ==
    /\ ~Listens(n)
    /\ busy' = [busy EXCEPT ![n] = Never]
    /\ \E t \in 0..Interval : adv' = [adv EXCEPT ![n] = t]
    /\ Advertise(n, prio[n], net)
    /\ UNCHANGED <<role, prio, vip, down, link, faults, monitor>>

\* vip.acquire fails, before any ARP: run returns the error.
AcquireFails(n) ==
    /\ role[n] = "Backup"
    /\ down[n] = 0
    /\ Fault("vip")
    /\ Leave(n, TRUE)
    /\ UNCHANGED link
    /\ Departed

\* Mutant: the fresh Backup keeps the disabled deadline.
StepDownMutant(m) ==
    LET n == m.to IN
    /\ role[n] = "Master" /\ Listens(n)
    /\ Outranks(m, n)
    /\ role' = [role EXCEPT ![n] = "Backup"]
    /\ vip'  = [vip EXCEPT ![n] = FALSE]
    /\ net'  = net \ {m}
    /\ UNCHANGED <<prio, adv, down, busy, link, faults, monitor>>

\* A Master that is outranked releases the VIP and arms a fresh deadline.
StepDown(m) ==
    LET n == m.to IN
    /\ role[n] = "Master" /\ Listens(n)
    /\ Outranks(m, n)
    /\ role' = [role EXCEPT ![n] = "Backup"]
    /\ vip'  = [vip EXCEPT ![n] = FALSE]
    /\ down' = [down EXCEPT ![n] = MasterDownInterval(prio[n])]
    /\ net'  = net \ {m}
    /\ UNCHANGED <<prio, adv, busy, link, faults, monitor>>

\* vip.release fails: run returns the error with the address still there.
ReleaseFails(m) ==
    /\ role[m.to] = "Master" /\ Listens(m.to)
    /\ Outranks(m, m.to)
    /\ Fault("vip")
    /\ Leave(m.to, TRUE)
    /\ UNCHANGED link
    /\ Departed

\* A Master that hears a release re-asserts itself; other chatter of a
\* lesser peer is ignored.
HoldRole(m) ==
    LET n == m.to IN
    /\ role[n] = "Master" /\ Listens(n)
    /\ ~Outranks(m, n)
    /\ IF m.priority = PriorityRelease THEN Advertise(n, prio[n], net \ {m})
                                       ELSE net' = net \ {m}
    /\ UNCHANGED <<node, link, faults, monitor>>

\* Mutant: the release of the Master re-arms the full deadline.
DeadlineMutant(m, n) ==
    CASE Preempts(m, n) -> down[n]
      [] OTHER          -> MasterDownInterval(prio[n])

\* What a Backup does with its deadline when it hears a Master.
Deadline(m, n) ==
    CASE m.priority = PriorityRelease -> Skew(prio[n])
      [] m.priority # PriorityRelease /\ Preempts(m, n) -> down[n]
      [] OTHER -> MasterDownInterval(prio[n])

HearMaster(m) ==
    /\ role[m.to] = "Backup"
    /\ down' = [down EXCEPT ![m.to] = Deadline(m, m.to)]
    /\ net'  = net \ {m}
    /\ UNCHANGED <<role, prio, vip, adv, busy, link, faults, monitor>>

\* health_timer, on the edge where a mandatory probe turns red: the priority
\* drops to 0, a Master announces it and keeps the role for now.
HealthRelease(n) ==
    /\ Running(n) /\ Listens(n)
    /\ prio[n] # PriorityRelease
    /\ Fault("health")
    /\ prio' = [prio EXCEPT ![n] = PriorityRelease]
    /\ IF role[n] = "Master" THEN Advertise(n, PriorityRelease, net) ELSE net' = net
    /\ UNCHANGED <<role, vip, adv, down, busy, link>>
    /\ Changed

\* health_timer, on the edge back to green: the configured priority returns
\* and a Backup arms its deadline anew, from now.
HealthRecover(n) ==
    /\ Running(n) /\ Listens(n)
    /\ prio[n] = PriorityRelease
    /\ prio' = [prio EXCEPT ![n] = Priority[n]]
    /\ down' = IF role[n] = "Backup"
               THEN [down EXCEPT ![n] = MasterDownInterval(Priority[n])]
               ELSE down
    /\ UNCHANGED <<role, vip, adv, busy, net, link, faults>>
    /\ Changed

\* Clean shutdown: a Master removes the VIP; nothing is advertised.
Shutdown(n) ==
    /\ Running(n) /\ Listens(n)
    /\ Fault("shutdown")
    /\ Leave(n, role[n] # "Master")
    /\ UNCHANGED link
    /\ trouble' = IF role[n] = "Master" THEN "left" ELSE "none"
    /\ spell' = 0

-----------------------------------------------------------------------------
(* The environment *)

\* The machine dies and takes its addresses with it.
HostCrash(n) ==
    /\ Running(n)
    /\ Fault("host_crash")
    /\ Leave(n, FALSE)
    /\ UNCHANGED link
    /\ Departed

\* Only the process dies; the kernel keeps the address.
ProcessCrash(n) ==
    /\ Running(n)
    /\ Fault("process_crash")
    /\ Leave(n, TRUE)
    /\ UNCHANGED link
    /\ Departed

\* An advertisement is lost, or its send failed.
Lose(m) ==
    /\ m \in net
    /\ Fault("loss")
    /\ net' = net \ {m}
    /\ UNCHANGED <<node, link>>
    /\ Delayed

\* A partition; what is in the socket of a node that does not listen stays.
Cut ==
    /\ link
    /\ Fault("cut")
    /\ link' = FALSE
    /\ net' = {m \in net : ~Listens(m.to)}
    /\ UNCHANGED node
    /\ Changed

Heal ==
    /\ ~link
    /\ link' = TRUE
    /\ UNCHANGED <<node, net, faults>>
    /\ Changed

\* What is wrong with the pair right now, for the monitors ("settled": both
\* run and hear each other, and a fit one is Master).
Trouble ==
    CASE link /\ \A n \in Nodes : role[n] = "Master" -> "two_masters"
      [] (\E n \in Nodes : Running(n)) /\ \A n \in Nodes : role[n] # "Master"
           -> "no_master"
      [] link /\ \E n \in Nodes :
                   /\ role[n] = "Master" /\ prio[n] = PriorityRelease
                   /\ role[Peer(n)] = "Backup" /\ prio[Peer(n)] # PriorityRelease
           -> "unfit_master"
      [] link /\ \E n \in Nodes :
                   /\ role[n] = "Master" /\ prio[n] # PriorityRelease
                   /\ Listens(n) /\ role[Peer(n)] = "Backup"
           -> "settled"
      [] OTHER -> "none"

Counted == {"two_masters", "no_master", "left", "unfit_master", "settled"}

SpellCap == 4 * Interval + AcquireTime + 1

\* The trouble the coming tick counts: "left" is a pair that has had no
\* Master since the last one shut down cleanly.
Ongoing == IF trouble = "left" /\ Trouble = "no_master" THEN "left" ELSE Trouble

\* Time passes once nothing is due and nobody who listens has to be told
\* anything.
Tick ==
    /\ \A m \in net : ~Listens(m.to)
    /\ \A n \in Nodes : Running(n) /\ Listens(n) => adv[n] # 0 /\ down[n] # 0
    /\ \A n \in Nodes : busy[n] # 0
    /\ adv'  = [n \in Nodes |-> IF Running(n) /\ Listens(n) THEN adv[n] - 1 ELSE adv[n]]
    /\ down' = [n \in Nodes |-> IF down[n] > 0 THEN down[n] - 1 ELSE down[n]]
    /\ busy' = [n \in Nodes |-> IF busy[n] > 0 THEN busy[n] - 1 ELSE busy[n]]
    /\ trouble' = Ongoing
    /\ spell' = CASE Ongoing \notin Counted -> 0
                  [] Ongoing \in Counted /\ Ongoing # trouble -> 1
                  [] OTHER -> IF spell < SpellCap THEN spell + 1 ELSE spell
    /\ UNCHANGED <<role, prio, vip, net, link, faults>>

-----------------------------------------------------------------------------

Init ==
    /\ role = [n \in Nodes |-> "Down"]
    /\ prio = Priority
    /\ vip  = [n \in Nodes |-> FALSE]
    /\ adv  = [n \in Nodes |-> 0]
    /\ down = [n \in Nodes |-> Never]
    /\ busy = [n \in Nodes |-> Never]
    /\ net  = {}
    /\ link = TRUE
    /\ faults = 0
    /\ trouble = "none"
    /\ spell = 0

\* What the loops and the clock do by themselves.
Loop ==
    \/ \E n \in Nodes : AdvertisementTimer(n) \/ MasterDownTimer(n) \/ Announce(n)
    \/ \E m \in net : StepDown(m) \/ HoldRole(m) \/ HearMaster(m)
    \/ Tick

Environment ==
    \/ \E n \in Nodes :
         \/ Start(n) \/ Shutdown(n) \/ HostCrash(n) \/ ProcessCrash(n)
         \/ HealthRelease(n) \/ HealthRecover(n) \/ AcquireFails(n)
    \/ \E m \in net : ReleaseFails(m) \/ Lose(m)
    \/ Cut \/ Heal

Next == Loop \/ Environment

Spec == Init /\ [][Next]_vars

\* Fairness: timers fire, sockets are read and time passes.  Nothing is
\* assumed of starts, recoveries or repairs.
FairSpec == Spec /\ WF_vars(Loop)

-----------------------------------------------------------------------------
(* Properties *)

Longer(s, t) == IF s > t THEN s ELSE t

\* While advertisements get through, both appliances are Master, and answer
\* for the virtual IP, for at most one advertisement interval or the time it
\* takes to acquire the VIP, whichever is longer: then one of them has heard
\* the other and steps down, whatever promoted them both.
SplitBrainBounded == trouble = "two_masters" => spell <= Longer(AcquireTime, Interval)

\* The pair is without a Master for at most the longest master-down interval,
\* in any phase of the timers and however messages were lost.
HeadlessBounded ==
    trouble \in {"no_master", "left"} => spell <= MasterDownInterval(PriorityRelease)

\* A Master whose health failed is replaced by a fit Backup within the time
\* to its next advertisement plus the Backup's skew: the release is heard, and
\* only the first advertisement after a promotion can be followed by another
\* one that pushes the short deadline out again.
UnfitMasterReplaced ==
    trouble = "unfit_master" =>
        \E n \in Nodes : LET s == Skew(Priority[n])
                         IN  spell <= Longer(AcquireTime + s, Interval) + s

\* In a pair that has had one fit Master for three intervals, a Backup takes
\* the role only by preemption: two lost advertisements are ridden out.
NoSpuriousTakeover ==
    [][\A n \in Nodes :
         /\ trouble = "settled" /\ spell >= 3 * Interval
         /\ role[n] = "Backup" /\ role'[n] = "Master"
         /\ role[Peer(n)] = "Master"
         => Preempt /\ prio[n] > prio[Peer(n)]]_vars

\* Who ought to be Master: a fit node, the best one when preempt is on.
Rightful(n) ==
    /\ Running(n) /\ prio[n] # PriorityRelease
    /\ Preempt /\ Running(Peer(n)) => prio[n] >= prio[Peer(n)]

\* Once the segment stays up and some node stays fit, the pair settles: one
\* rightful node is Master and owns the VIP for ever, the other does not.
Converges ==
    <>[](link /\ \E n \in Nodes : Running(n) /\ prio[n] # PriorityRelease)
      => \E n \in Nodes :
            <>[](Rightful(n) /\ role[n] = "Master" /\ vip[n]
                 /\ role[Peer(n)] # "Master" /\ ~vip[Peer(n)])

-----------------------------------------------------------------------------
(* The inductive strengthening that the proofs use. *)

Message(n) == [to |-> Peer(n), source |-> n, priority |-> prio[n]]

ElectionTypes ==
    /\ role \in [Nodes -> Roles] /\ vip \in [Nodes -> BOOLEAN] /\ link \in BOOLEAN
    /\ prio \in [Nodes -> 0..255] /\ \A n \in Nodes : prio[n] \in {PriorityRelease, Priority[n]}
    /\ adv \in [Nodes -> 0..Interval] /\ down \in [Nodes -> {Never} \cup 0 .. 4 * Interval]
    /\ \A n \in Nodes : role[n] = "Backup" <=> down[n] # Never
    /\ busy \in [Nodes -> {Never} \cup 0 .. AcquireTime]
    /\ \A n \in Nodes : busy[n] # Never => role[n] = "Master"
    /\ net \subseteq [to : Nodes, source : Nodes, priority : 0..255]
    /\ \A m \in net : m.to = Peer(m.source)
    /\ trouble \in Counted \cup {"none"} /\ spell \in Nat

\* Both appliances run on one segment: what every tick finds that counts a
\* disagreement, and what ends its clock when it changes.
Undisturbed == link /\ spell # 0 /\ \A n \in Nodes : Running(n)

\* The advertisements in flight carry the priorities in force.
InForce == \A m \in net : m = Message(m.source)

Beats(n, p) == prio[n] > prio[p] \/ (prio[n] = prio[p] /\ n > p)

\* Of two Masters the better one is about to advertise, or has, and the other
\* reads it when it listens again; one that has stepped down does not come
\* back in the same instant.
TwoMastersEnd ==
    trouble = "two_masters" =>
        /\ Undisturbed /\ spell <= Longer(AcquireTime, Interval)
        /\ \/ \E l \in Nodes : role[l] = "Backup" /\ down[l] > 0
           \/ /\ \A n \in Nodes : /\ role[n] = "Master"
                                  /\ ~Listens(n) => busy[n] + spell <= AcquireTime
              /\ \E h \in Nodes :
                    /\ Beats(h, Peer(h))
                    /\ ~Listens(h) \/ adv[h] + spell <= Interval \/ Message(h) \in net

\* Master u is unfit and Backup b is not: u is about to announce it, has
\* announced it, or b's short deadline runs and expires before u's next
\* advertisement.  Only what waited for u to listen again can make it repeat
\* the announcement out of turn.
ReplacedBy(b) == Longer(AcquireTime + Skew(prio[b]), Interval)

ReleaseUnderWay(u, b) ==
    /\ role[u] = "Master" /\ role[b] = "Backup"
    /\ \/ ~Listens(u) /\ busy[u] + spell <= AcquireTime
       \/ /\ Listens(u)
          /\ spell <= AcquireTime \/ \A m \in net : m.source = u
          /\ \/ adv[u] + spell <= ReplacedBy(b)
             \/ Message(u) \in net /\ adv[u] = Interval /\ spell <= ReplacedBy(b)
             \/ Message(u) \in net /\ spell <= AcquireTime
             \/ /\ \A m \in net : m.to # b
                /\ down[b] + spell <= ReplacedBy(b) + Skew(prio[b])
                /\ down[b] < adv[u]

UnfitMasterEnds ==
    trouble = "unfit_master" =>
        /\ Undisturbed
        /\ \E u \in Nodes :
            /\ prio[u] = PriorityRelease /\ prio[Peer(u)] # PriorityRelease
            /\ spell <= ReplacedBy(Peer(u)) + Skew(prio[Peer(u)])
            /\ \A m \in net : m.to = Peer(u) => m = Message(u)
            /\ \/ ReleaseUnderWay(u, Peer(u))
               \/ role[Peer(u)] = "Master"
               \/ role[u] = "Backup" /\ down[u] > 0

\* Without a Master, somebody's deadline runs out in time.  While priorities
\* stay as configured, a Master that appears and steps down at once has left
\* the better one in office.
HeadlessEnds ==
    /\ prio = Priority /\ InForce
    /\ trouble \in {"no_master", "left"} =>
        /\ spell <= 4 * Interval
        /\ spell # 0 =>
            /\ \E n \in Nodes : Running(n)
            /\ \A m \in net :
                /\ \E n \in Nodes : role[n] = "Master"
                /\ Beats(m.source, m.to) => role[m.source] = "Master"
            /\ \/ \E n \in Nodes : role[n] = "Master"
               \/ \E n \in Nodes : role[n] = "Backup" /\ down[n] + spell <= 4 * Interval

\* Backup b, which does not preempt Master a, can do without as many
\* advertisements of a as may still be lost when two faults are the most.
\* While an advertisement is under way the deadline counts on it.
Ample(a, b) ==
    \/ down[b] > adv[a] + (2 - faults) * Interval
    \/ Message(a) \in net /\ adv[a] = Interval /\ down[b] > (2 - faults) * Interval

\* A pair that settled after a fault: b has not heard a yet, and every
\* interval without its advertisement took one more fault.
Early(a) ==
    \/ faults # 0 /\ spell + adv[a] <= faults * Interval
    \/ faults # 0 /\ Message(a) \in net /\ adv[a] = Interval /\ spell <= faults * Interval

\* a is Master and its Backup is not one to preempt it.
Follows(a) ==
    role[a] = "Master" /\ role[Peer(a)] = "Backup" /\ ~(Preempt /\ prio[Peer(a)] > prio[a])

\* The clock of a settled pair runs on only while one of them is a Master
\* that listens; a node that promotes itself beside it has sent nothing yet.
SettledStays ==
    (trouble = "settled" /\ spell # 0) =>
        /\ Undisturbed /\ InForce
        /\ \E n \in Nodes : role[n] = "Master"
        /\ \E n \in Nodes : prio[n] # PriorityRelease
        /\ \A m \in net : /\ Beats(m.source, m.to) => role[m.source] = "Master"
                          /\ role[m.source] = "Backup" => down[m.source] > 0
        /\ \A n \in Nodes : ~Listens(n) => /\ role[Peer(n)] = "Master"
                                           /\ \A m \in net : m.source # n
        /\ \A n \in Nodes : role[n] = "Master" /\ role[Peer(n)] # "Master" => prio[n] # PriorityRelease
        /\ \A a \in Nodes : Follows(a) => Ample(a, Peer(a)) \/ Early(a)

\* Before the first fault every advertisement is heard.
Faultless ==
    faults = 0 =>
        /\ link /\ prio = Priority /\ InForce
        /\ \A a \in Nodes : Follows(a) =>
              ~Listens(a) \/ Message(a) \in net \/ down[Peer(a)] > adv[a] + 2 * Interval
=============================================================================
