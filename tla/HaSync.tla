------------------------------- MODULE HaSync -------------------------------
(***************************************************************************)
(* State synchronisation between the appliances of an HA pair: SyncQueue,  *)
(* pump_to_writer, pump_from_reader and FenceState of state_sync.rs, and   *)
(* the epochs that HaController::apply_transition mints (lib.rs).          *)
(*                                                                         *)
(* Each node sends to the other: everything indexed by n below that speaks *)
(* of a stream is the direction from n to Peer(n).  The elections are free *)
(* to promote and demote as they like; HaElection is about when they do.   *)
(* A flow-state record is its number in the order in which its node        *)
(* enqueued it.                                                            *)
(***************************************************************************)
EXTENDS Integers, Sequences

CONSTANTS
    Nodes,          \* the two appliances
    Capacity,       \* SyncQueue capacity
    BatchSize,      \* records taken by one pump_to_writer call
    Faults,         \* the kinds of fault that may happen
    MaxRecords,     \* bound on the records a node enqueues
    MaxPromotions,  \* bound on the promotions of the pair
    MaxFaults       \* bound on the faults of the pair

ASSUME NodesAssumption == \E m, n \in Nodes : m # n /\ Nodes = {m, n}
ASSUME QueueAssumption == Capacity \in Nat \ {0} /\ BatchSize \in Nat \ {0}
ASSUME BoundsAssumption ==
    /\ Faults \subseteq {"write", "session", "restart"}
    /\ MaxRecords \in Nat /\ MaxPromotions \in Nat /\ MaxFaults \in Nat

VARIABLES
    role,       \* "Backup" or "Master"
    epoch,      \* master_epoch: the epoch the node stamps while Master
    rise,       \* the running promotion: apply_transition's own step and epoch
    cleared,    \* history: a promotion cleared the lag latch of this node
    gate,       \* FenceState.state: 0 unprimed, else the epoch plus one
    queue,      \* SyncQueue.inner
    lagged,     \* SyncQueue.lagged
    pump,       \* the running pump_to_writer call
    wire,       \* frames written and not yet read
    session,    \* history: epoch the receiver admitted last on this stream
    applied,    \* history: records of this stream in the receiver's table
    newest,     \* history: epoch and number of the record applied last
    told,       \* history: the receiver's table is marked incomplete
    pushed,     \* records enqueued so far
    promotions, faults

master   == <<role, epoch, rise, cleared>>
sender   == <<queue, lagged, pump, pushed>>
receiver == <<session, applied, newest, told>>
bounds   == <<promotions, faults>>
vars     == <<role, epoch, rise, cleared, gate, queue, lagged, pump, wire, session, applied,
              newest, told, pushed, promotions, faults>>

Peer(n) == CHOOSE m \in Nodes : m # n

FenceFrame(e)   == [kind |-> "Fence",  value |-> e]
LaggedFrame     == [kind |-> "Lagged", value |-> 0]
RecordFrame(r)  == [kind |-> "Record", value |-> r]
Frames == [kind: {"Fence", "Lagged", "Record"}, value: Nat]

Idle    == [pc |-> "idle", lag |-> FALSE, batch |-> <<>>, epoch |-> 0]
PumpPcs == {"idle", "put_back", "fence", "lag", "records", "flush"}

\* No promotion is under way.  raced: a fence was admitted since the promotion
\* read the gate.
Steady  == [pc |-> "none", epoch |-> 0, raced |-> FALSE]
RisePcs == {"none", "admit", "store", "acquire"}

Shorter(a, b) == IF a < b THEN a ELSE b
Larger(a, b)  == IF a > b THEN a ELSE b

-----------------------------------------------------------------------------
(* FenceState *)

\* FenceState::current and is_primed, unpacked from the biased word.
Current(g) == IF g = 0 THEN 0 ELSE g - 1
Primed(g)  == g # 0

\* Mutant: every epoch is admitted.
AdmitsMutant(g, e) == TRUE

\* FenceState::admit, the check ...
Admits(g, e) == ~(Primed(g) /\ e < Current(g))

\* ... and the advance of the high-water mark.
Advanced(g, e) == Larger(e, Current(g)) + 1

-----------------------------------------------------------------------------
(* apply_transition *)

\* Mutant: the epoch counts the node's own promotions.
MintedEpochMutant(n) == epoch[n] + 1

\* One more than the highest epoch seen.
MintedEpoch(n) == Current(gate[n]) + 1

\* apply_transition of a promotion, one step per access to what it shares with
\* the reader and the writer task.  It reads the gate ...
Promote(n) ==
    /\ role[n] = "Backup"
    /\ promotions < MaxPromotions
    /\ promotions' = promotions + 1
    /\ role' = [role EXCEPT ![n] = "Master"]
    /\ rise' = [rise EXCEPT ![n] = [pc |-> "admit", epoch |-> MintedEpoch(n),
                                    raced |-> FALSE]]
    /\ UNCHANGED <<epoch, cleared, gate, sender, wire, receiver, faults>>

\* ... admits its epoch into the gate, without looking at the answer ...
AdmitOwn(n) ==
    /\ rise[n].pc = "admit"
    /\ gate' = [gate EXCEPT ![n] = IF Admits(@, rise[n].epoch)
                                   THEN Advanced(@, rise[n].epoch) ELSE @]
    /\ rise' = [rise EXCEPT ![n].pc = "store"]
    /\ UNCHANGED <<role, epoch, cleared, sender, wire, receiver, bounds>>

\* ... stores it for the writer task, and awaits the VIP ...
StoreEpoch(n) ==
    /\ rise[n].pc = "store"
    /\ epoch' = [epoch EXCEPT ![n] = rise[n].epoch]
    /\ rise'  = [rise EXCEPT ![n].pc = "acquire"]
    /\ UNCHANGED <<role, cleared, gate, sender, wire, receiver, bounds>>

\* ... and clears the lag latch of the node's own queue, with a log line that
\* asks for a full reconciliation if it was set.
ResetLagged(n) ==
    /\ rise[n].pc = "acquire"
    /\ cleared' = [cleared EXCEPT ![n] = @ \/ lagged[n]]
    /\ lagged'  = [lagged EXCEPT ![n] = FALSE]
    /\ rise'    = [rise EXCEPT ![n] = Steady]
    /\ UNCHANGED <<role, epoch, gate, queue, pump, pushed, wire, receiver, bounds>>

\* The VIP cannot be acquired: the loop returns the error, and a later one
\* starts as Backup.
AcquireFails(n) ==
    /\ rise[n].pc = "acquire"
    /\ role' = [role EXCEPT ![n] = "Backup"]
    /\ rise' = [rise EXCEPT ![n] = Steady]
    /\ UNCHANGED <<epoch, cleared, gate, sender, wire, receiver, bounds>>

\* The select loop handles nothing else while a promotion is under way.
Demote(n) ==
    /\ role[n] = "Master"
    /\ rise[n].pc = "none"
    /\ role' = [role EXCEPT ![n] = "Backup"]
    /\ UNCHANGED <<epoch, rise, cleared, gate, sender, wire, receiver, bounds>>

-----------------------------------------------------------------------------
(* SyncQueue *)

Full(n) == Len(queue[n]) >= Capacity

\* Mutant: nothing is evicted.
PushMutant(n) ==
    /\ role[n] = "Master"
    /\ pushed[n] < MaxRecords
    /\ pushed' = [pushed EXCEPT ![n] = @ + 1]
    /\ queue'  = [queue EXCEPT ![n] = Append(@, pushed[n] + 1)]
    /\ UNCHANGED <<master, gate, lagged, pump, wire, receiver, bounds>>

\* push: a full queue evicts its oldest record and latches the lag flag.
Push(n) ==
    /\ role[n] = "Master"
    /\ pushed[n] < MaxRecords
    /\ pushed' = [pushed EXCEPT ![n] = @ + 1]
    /\ queue'  = [queue EXCEPT ![n] =
                    Append(IF Full(n) THEN Tail(@) ELSE @, pushed[n] + 1)]
    /\ lagged' = [lagged EXCEPT ![n] = @ \/ Full(n)]
    /\ UNCHANGED <<master, gate, pump, wire, receiver, bounds>>

-----------------------------------------------------------------------------
(* pump_to_writer: one step per await *)

\* drain_with_lag takes the latch and a batch under one lock.
DrainWithLag(n) ==
    LET k == Shorter(Len(queue[n]), BatchSize) IN
    /\ role[n] = "Master"
    /\ pump[n].pc = "idle"
    /\ lagged[n] \/ queue[n] # <<>>
    /\ pump' = [pump EXCEPT ![n] =
                  [pc    |-> IF k = 0 THEN "put_back" ELSE "fence",
                   lag   |-> lagged[n],
                   batch |-> SubSeq(queue[n], 1, k),
                   epoch |-> epoch[n]]]
    /\ queue'  = [queue EXCEPT ![n] = SubSeq(@, k + 1, Len(@))]
    /\ lagged' = [lagged EXCEPT ![n] = FALSE]
    /\ UNCHANGED <<master, gate, pushed, wire, receiver, bounds>>

\* Nothing to flush: the signal that was taken goes back.
PutBack(n) ==
    /\ pump[n].pc = "put_back"
    /\ lagged' = [lagged EXCEPT ![n] = @ \/ pump[n].lag]
    /\ pump'   = [pump EXCEPT ![n] = Idle]
    /\ UNCHANGED <<master, gate, queue, pushed, wire, receiver, bounds>>

Write(n, frame) == wire' = [wire EXCEPT ![n] = Append(@, frame)]

WriteFence(n) ==
    /\ pump[n].pc = "fence"
    /\ Write(n, FenceFrame(pump[n].epoch))
    /\ pump' = [pump EXCEPT ![n].pc = IF pump[n].lag THEN "lag" ELSE "records"]
    /\ UNCHANGED <<master, gate, queue, lagged, pushed, receiver, bounds>>

WriteLagged(n) ==
    /\ pump[n].pc = "lag"
    /\ Write(n, LaggedFrame)
    /\ pump' = [pump EXCEPT ![n].pc = "records", ![n].lag = FALSE]
    /\ UNCHANGED <<master, gate, queue, lagged, pushed, receiver, bounds>>

WriteRecord(n) ==
    /\ pump[n].pc = "records"
    /\ Write(n, RecordFrame(Head(pump[n].batch)))
    /\ pump' = [pump EXCEPT ![n].batch = Tail(@),
                            ![n].pc = IF Len(pump[n].batch) = 1 THEN "flush" ELSE "records"]
    /\ UNCHANGED <<master, gate, queue, lagged, pushed, receiver, bounds>>

Flush(n) ==
    /\ pump[n].pc = "flush"
    /\ pump' = [pump EXCEPT ![n] = Idle]
    /\ UNCHANGED <<master, gate, queue, lagged, pushed, wire, receiver, bounds>>

Fault(kind) == /\ kind \in Faults
               /\ faults < MaxFaults
               /\ faults' = faults + 1

\* Mutant: the error is returned and the taken latch forgotten.
WriteFailsMutant(n) ==
    /\ pump[n].pc \in {"fence", "lag", "records", "flush"}
    /\ Fault("write")
    /\ pump' = [pump EXCEPT ![n] = Idle]
    /\ wire' \in {wire, [wire EXCEPT ![n] = <<>>]}
    /\ UNCHANGED <<master, gate, queue, lagged, pushed, receiver, promotions>>

\* Any write or the flush fails: the batch is gone, the latch is set again.
\* The connection is broken; what it still held may or may not arrive.
WriteFails(n) ==
    /\ pump[n].pc \in {"fence", "lag", "records", "flush"}
    /\ Fault("write")
    /\ lagged' = [lagged EXCEPT ![n] = TRUE]
    /\ pump'   = [pump EXCEPT ![n] = Idle]
    /\ wire' \in {wire, [wire EXCEPT ![n] = <<>>]}
    /\ UNCHANGED <<master, gate, queue, pushed, receiver, promotions>>

-----------------------------------------------------------------------------
(* pump_from_reader at the peer *)

Arrives(n, kind) == wire[n] # <<>> /\ Head(wire[n]).kind = kind

Consume(n) == wire' = [wire EXCEPT ![n] = Tail(@)]

\* A fence of a current Master.
ReadFence(n) ==
    LET e == Head(wire[n]).value IN
    /\ Arrives(n, "Fence")
    /\ Admits(gate[Peer(n)], e)
    /\ gate'    = [gate EXCEPT ![Peer(n)] = Advanced(@, e)]
    /\ session' = [session EXCEPT ![n] = e]
    /\ rise'    = [rise EXCEPT ![Peer(n)].raced = rise[Peer(n)].pc \in {"admit", "store"}]
    /\ Consume(n)
    /\ UNCHANGED <<role, epoch, cleared, sender, applied, newest, told, bounds>>

\* A fence of a deposed Master, or data before any fence: the reader returns
\* Fenced and the session is torn down with all it holds.
Refuse(n) ==
    /\ \/ Arrives(n, "Fence") /\ ~Admits(gate[Peer(n)], Head(wire[n]).value)
       \/ wire[n] # <<>> /\ ~Arrives(n, "Fence") /\ ~Primed(gate[Peer(n)])
    /\ wire' = [wire EXCEPT ![n] = <<>>]
    /\ UNCHANGED <<master, gate, sender, receiver, bounds>>

ReadLagged(n) ==
    /\ Arrives(n, "Lagged")
    /\ Primed(gate[Peer(n)])
    /\ told' = [told EXCEPT ![n] = TRUE]
    /\ Consume(n)
    /\ UNCHANGED <<master, gate, sender, session, applied, newest, bounds>>

ReadRecord(n) ==
    /\ Arrives(n, "Record")
    /\ Primed(gate[Peer(n)])
    /\ applied' = [applied EXCEPT ![n] = @ \cup {Head(wire[n]).value}]
    /\ newest'  = [newest EXCEPT ![n] = [epoch  |-> session[n],
                                         record |-> Head(wire[n]).value]]
    /\ Consume(n)
    /\ UNCHANGED <<master, gate, sender, session, told, bounds>>

\* The connection is reset, or the applier returned an error: what was on
\* its way is gone although every write of it succeeded.
SessionLost(n) ==
    /\ Fault("session")
    /\ wire[n] # <<>>
    /\ wire' = [wire EXCEPT ![n] = <<>>]
    /\ UNCHANGED <<master, gate, sender, receiver, promotions>>

\* The process of n restarts with a fresh controller: its gate, its epoch,
\* its queue, its table and both connections are gone.
Restart(n) ==
    LET p == Peer(n) IN
    /\ Fault("restart")
    /\ role'    = [role EXCEPT ![n] = "Backup"]
    /\ epoch'   = [epoch EXCEPT ![n] = 0]
    /\ rise'    = [rise EXCEPT ![n] = Steady]
    /\ gate'    = [gate EXCEPT ![n] = 0]
    /\ queue'   = [queue EXCEPT ![n] = <<>>]
    /\ lagged'  = [lagged EXCEPT ![n] = FALSE]
    /\ pump'    = [pump EXCEPT ![n] = Idle]
    /\ wire'    = [m \in Nodes |-> <<>>]
    /\ session' = [session EXCEPT ![p] = 0]
    /\ applied' = [applied EXCEPT ![p] = {}]
    /\ newest'  = [newest EXCEPT ![p] = [epoch |-> 0, record |-> 0]]
    /\ told'    = [told EXCEPT ![p] = FALSE]
    /\ UNCHANGED <<cleared, pushed, promotions>>

-----------------------------------------------------------------------------

Init ==
    /\ role       = [n \in Nodes |-> "Backup"]
    /\ epoch      = [n \in Nodes |-> 0]
    /\ rise       = [n \in Nodes |-> Steady]
    /\ cleared    = [n \in Nodes |-> FALSE]
    /\ gate       = [n \in Nodes |-> 0]
    /\ queue      = [n \in Nodes |-> <<>>]
    /\ lagged     = [n \in Nodes |-> FALSE]
    /\ pump       = [n \in Nodes |-> Idle]
    /\ wire       = [n \in Nodes |-> <<>>]
    /\ session    = [n \in Nodes |-> 0]
    /\ applied    = [n \in Nodes |-> {}]
    /\ newest     = [n \in Nodes |-> [epoch |-> 0, record |-> 0]]
    /\ told       = [n \in Nodes |-> FALSE]
    /\ pushed     = [n \in Nodes |-> 0]
    /\ promotions = 0
    /\ faults     = 0

\* The pump at n and the reader at its peer.
Sync(n) ==
    \/ DrainWithLag(n) \/ PutBack(n) \/ WriteFence(n) \/ WriteLagged(n)
    \/ WriteRecord(n) \/ Flush(n)
    \/ ReadFence(n) \/ Refuse(n) \/ ReadLagged(n) \/ ReadRecord(n)

Promotion(n) == \/ Promote(n) \/ AdmitOwn(n) \/ StoreEpoch(n)
                \/ ResetLagged(n) \/ AcquireFails(n)

Next == \E n \in Nodes :
            \/ Sync(n)
            \/ Promotion(n) \/ Demote(n) \/ Push(n)
            \/ WriteFails(n) \/ SessionLost(n) \/ Restart(n)

Spec == Init /\ [][Next]_vars

-----------------------------------------------------------------------------
(* Properties *)

\* Every variable stays in its type, and the queue within its capacity.
TypeOK ==
    /\ role \in [Nodes -> {"Backup", "Master"}]
    /\ epoch \in [Nodes -> Nat]
    /\ rise \in [Nodes -> [pc: RisePcs, epoch: Nat, raced: BOOLEAN]]
    /\ cleared \in [Nodes -> BOOLEAN]
    /\ gate \in [Nodes -> Nat]
    /\ queue \in [Nodes -> Seq(Nat)]
    /\ \A n \in Nodes : Len(queue[n]) <= Capacity
    /\ lagged \in [Nodes -> BOOLEAN]
    /\ pump \in [Nodes -> [pc: PumpPcs, lag: BOOLEAN, batch: Seq(Nat), epoch: Nat]]
    /\ wire \in [Nodes -> Seq(Frames)]
    /\ session \in [Nodes -> Nat]
    /\ applied \in [Nodes -> SUBSET Nat]
    /\ newest \in [Nodes -> [epoch: Nat, record: Nat]]
    /\ told \in [Nodes -> BOOLEAN]
    /\ pushed \in [Nodes -> 0..MaxRecords]
    /\ promotions \in 0..MaxPromotions
    /\ faults \in 0..MaxFaults

Elements(s) == {s[i] : i \in DOMAIN s}

\* The records among the frames of a connection.
RecordsIn(frames) == {f.value : f \in {g \in Elements(frames) : g.kind = "Record"}}

\* Records of n that no buffer holds any more and the peer never got.
Lost(n) ==
    (1..pushed[n]) \ (applied[n] \cup RecordsIn(wire[n]) \cup Elements(pump[n].batch)
                      \cup Elements(queue[n]))

\* Some lag signal of n's stream is on its way to the peer or there, or n's
\* promotion cleared it and asked for a reconciliation instead.
Signalled(n) ==
    \/ lagged[n] \/ pump[n].lag \/ told[n] \/ LaggedFrame \in Elements(wire[n])
    \/ cleared[n]

\* A record that will not arrive is never lost in silence: the latch, the
\* pump, the wire or the peer knows that its table is incomplete, or the
\* promotion that cleared the latch said so.
LagKnown == \A n \in Nodes : Lost(n) # {} => Signalled(n)

\* The peer's table never goes back: each record it applies is newer than the
\* one before it and comes from the same or a later generation, across
\* failovers, restarts of the sender and broken connections.
AppliedInOrder ==
    [][\A n \in Nodes :
         \/ newest'[n] = newest[n]
         \/ newest'[n].record > newest[n].record /\ newest'[n].epoch >= newest[n].epoch
         \/ newest'[n].record = 0]_vars

\* From the moment a node stamps a new epoch its own gate refuses every lower
\* one, and the epoch outranks every generation whose records are in its
\* table, unless a fence was admitted after the promotion had read the gate.
SuccessorOutranksTable ==
    [][\A n \in Nodes :
         StoreEpoch(n) => /\ Current(gate[n]) >= epoch'[n]
                          /\ ~rise[n].raced => epoch'[n] > newest[Peer(n)].epoch]_vars

-----------------------------------------------------------------------------
(* The inductive strengthenings that the proofs use *)

\* A batch is not empty before its last record is written, and an idle pump
\* holds nothing.
PumpInv ==
    \A n \in Nodes :
        /\ pump[n].pc \in {"fence", "lag", "records"} => pump[n].batch # <<>>
        /\ pump[n].pc = "idle" => pump[n] = Idle

\* What a reader applied came under an epoch its node's gate has seen; a
\* promotion outranks it as long as no other fence came in between.
FenceInv ==
    \A n \in Nodes :
        /\ newest[n].epoch <= session[n] /\ session[n] <= Current(gate[Peer(n)])
        /\ rise[Peer(n)].pc \in {"admit", "store"} /\ ~rise[Peer(n)].raced
             => session[n] < rise[Peer(n)].epoch
        /\ rise[n].pc = "store" => rise[n].epoch <= Current(gate[n])

Ascending(s) == \A i, j \in DOMAIN s : i < j => s[i] < s[j]

AscendingRecords(frames) ==
    \A i, j \in DOMAIN frames :
        i < j /\ frames[i].kind = "Record" /\ frames[j].kind = "Record"
          => frames[i].value < frames[j].value

\* From the record applied last over the wire and the batch to the queue,
\* records only get newer.
Ordered(last, frames, batch, waiting, count) ==
    /\ AscendingRecords(frames) /\ Ascending(batch) /\ Ascending(waiting)
    /\ \A x \in RecordsIn(frames), y \in Elements(batch) \cup Elements(waiting) : x < y
    /\ \A x \in Elements(batch), y \in Elements(waiting) : x < y
    /\ \A x \in RecordsIn(frames) \cup Elements(batch) \cup Elements(waiting) :
         last < x /\ x <= count
    /\ last <= count

OrderInv ==
    \A n \in Nodes :
        Ordered(newest[n].record, wire[n], pump[n].batch, queue[n], pushed[n])

\* One node is Master, once, and only its writes may fail.
OneGeneration == MaxPromotions <= 1 /\ Faults \subseteq {"write"}

\* Within one generation the fences of a stream never go down (the writer may
\* stamp 0 before the promotion stores its epoch 1), so no reader refuses
\* anything, and a pump forgets neither a record nor the latch.
FencesAscend(frames) ==
    \A i, j \in DOMAIN frames :
        i < j /\ frames[i].kind = "Fence" /\ frames[j].kind = "Fence"
          => frames[i].value <= frames[j].value

FencesIn(frames) == {f.value : f \in {g \in Elements(frames) : g.kind = "Fence"}}

\* n is the node that was promoted.
Risen(n) == epoch[n] # 0 \/ rise[n].pc # "none"

GenerationOf(n) ==
    /\ epoch[n] \in {0, 1} /\ gate[n] \in {0, 1, 2}
    /\ rise[n].pc \in {"admit", "store"} => rise[n].epoch = 1
    /\ rise[n].pc = "acquire" => epoch[n] = 1
    /\ ~Risen(n) =>
         role[n] = "Backup" /\ pump[n] = Idle /\ wire[n] = <<>> /\ pushed[n] = 0
    /\ pump[n].pc # "idle" => pump[n].epoch <= epoch[n]
    /\ pump[n].pc \in {"put_back", "flush"} => pump[n].batch = <<>>
    /\ pump[n].pc \in {"records", "flush"} => ~pump[n].lag
    /\ FencesAscend(wire[n])
    /\ \A e \in FencesIn(wire[n]) : /\ Current(gate[Peer(n)]) <= e /\ e <= epoch[n]
                                    /\ pump[n].pc = "fence" => e <= pump[n].epoch
    /\ pump[n].pc = "fence" => Current(gate[Peer(n)]) <= pump[n].epoch
    /\ Risen(n) => ~Risen(Peer(n)) /\ Current(gate[Peer(n)]) <= epoch[n]
    /\ ~Primed(gate[Peer(n)]) =>
         IF wire[n] = <<>> THEN pump[n].pc \in {"idle", "put_back", "fence"}
                           ELSE Head(wire[n]).kind = "Fence"

GenerationInv ==
    /\ promotions = 0 => \A n \in Nodes : epoch[n] = 0 /\ gate[n] = 0 /\ rise[n] = Steady
    /\ \A n \in Nodes : GenerationOf(n)
=============================================================================
