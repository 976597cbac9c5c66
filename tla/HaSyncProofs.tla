---------------------------- MODULE HaSyncProofs ----------------------------
(***************************************************************************)
(* Theorems about HaSync, for every capacity, batch size and bound.        *)
(***************************************************************************)
EXTENDS HaSync, SequenceTheorems, TLAPS

USE DEF master

\* The pair: each node has one peer, and is its peer's peer.
LEMMA PeerFacts ==
    ASSUME NEW n \in Nodes
    PROVE  /\ Peer(n) \in Nodes /\ Peer(n) # n /\ Peer(Peer(n)) = n
           /\ \A m \in Nodes : m = n \/ m = Peer(n)
<1>1. PICK a, b \in Nodes : a # b /\ Nodes = {a, b}
  BY NodesAssumption
<1>2. \A m \in Nodes : \E k \in Nodes : k # m
  BY <1>1
<1>3. \A m \in Nodes : Peer(m) \in Nodes /\ Peer(m) # m
  BY <1>2 DEF Peer
<1> QED
  BY <1>1, <1>3

\* What the batch taken and the queue left behind by a drain hold.
LEMMA SplitSeq ==
    ASSUME NEW S, NEW s \in Seq(S), NEW k \in 0..Len(s)
    PROVE  /\ SubSeq(s, 1, k) \in Seq(S)
           /\ SubSeq(s, k + 1, Len(s)) \in Seq(S)
           /\ Len(SubSeq(s, 1, k)) = k
           /\ Len(SubSeq(s, k + 1, Len(s))) = Len(s) - k
           /\ \A i \in 1..k : SubSeq(s, 1, k)[i] = s[i]
           /\ \A i \in 1..(Len(s) - k) : SubSeq(s, k + 1, Len(s))[i] = s[i + k]
<1>1. k \in Nat /\ k <= Len(s) /\ Len(s) \in Nat
  OBVIOUS
<1>2. \A i \in 1..Len(s) : s[i] \in S
  OBVIOUS
<1>3. SubSeq(s, 1, k) = [i \in 1..k |-> s[i]]
  BY <1>1
<1>4. SubSeq(s, k + 1, Len(s)) = [i \in 1..(Len(s) - k) |-> s[i + k]]
  BY <1>1
<1> QED
  BY <1>1, <1>2, <1>3, <1>4

\* One entry of a function changes, to a value of its range.
LEMMA Updated ==
    ASSUME NEW S, NEW T, NEW f \in [S -> T], NEW x \in S, NEW y \in T
    PROVE  [f EXCEPT ![x] = y] \in [S -> T]
  OBVIOUS

\* A sequence of more than one element has a tail.
LEMMA TailLeft ==
    ASSUME NEW s \in Seq(Nat), s # <<>>, Len(s) # 1
    PROVE  Tail(s) # <<>>
<1>1. Len(Tail(s)) = Len(s) - 1 /\ Len(s) \in Nat
  BY HeadTailProperties
<1>2. Len(Tail(s)) # 0
  BY <1>1
<1> QED
  BY <1>2, EmptySeq

\* A sequence of one element has none.
LEMMA TailGone ==
    ASSUME NEW s \in Seq(Nat), s # <<>>, Len(s) = 1
    PROVE  Tail(s) = <<>>
<1>1. Tail(s) \in Seq(Nat) /\ Len(Tail(s)) = Len(s) - 1
  BY HeadTailProperties
<1>2. Len(Tail(s)) = 0
  BY <1>1
<1> QED
  BY <1>1, <1>2, EmptySeq

\* What a push leaves in the queue.
LEMMA PushedSeq ==
    ASSUME NEW s \in Seq(Nat), NEW x \in Nat, Len(s) <= Capacity,
           NEW t, t = Append(IF Len(s) >= Capacity THEN Tail(s) ELSE s, x)
    PROVE  t \in Seq(Nat) /\ Len(t) <= Capacity
<1>1. CASE Len(s) >= Capacity
  <2>1. s # <<>> /\ Len(s) \in Nat /\ Capacity \in Nat
    BY <1>1, QueueAssumption
  <2>2. Tail(s) \in Seq(Nat) /\ Len(Tail(s)) = Len(s) - 1
    BY <2>1, HeadTailProperties
  <2> QED
    BY <1>1, <2>1, <2>2
<1>2. CASE ~(Len(s) >= Capacity)
  BY <1>2, QueueAssumption
<1> QED
  BY <1>1, <1>2

-----------------------------------------------------------------------------

\* The types, and that a batch being written is not empty before its last frame.
LEMMA TypeStep ==
    ASSUME TypeOK, PumpInv, [Next]_vars
    PROVE  TypeOK' /\ PumpInv'
<1> DEFINE Calls == [pc: PumpPcs, lag: BOOLEAN, batch: Seq(Nat), epoch: Nat]
           Rises == [pc: RisePcs, epoch: Nat, raced: BOOLEAN]
<1>a. MaxRecords \in Nat /\ MaxPromotions \in Nat /\ MaxFaults \in Nat
  BY BoundsAssumption
<1>q. queue \in [Nodes -> Seq(Nat)] /\ \A m \in Nodes : Len(queue[m]) <= Capacity
  BY DEF TypeOK
<1>p. pump \in [Nodes -> Calls]
  BY DEF TypeOK
<1>w. wire \in [Nodes -> Seq(Frames)]
  BY DEF TypeOK
<1>l. lagged \in [Nodes -> BOOLEAN]
  BY DEF TypeOK
<1>n. /\ epoch \in [Nodes -> Nat] /\ gate \in [Nodes -> Nat] /\ session \in [Nodes -> Nat]
      /\ pushed \in [Nodes -> 0..MaxRecords]
  BY DEF TypeOK
<1>i. Idle \in Calls
  BY EmptySeq DEF Idle, PumpPcs
<1>r. rise \in [Nodes -> Rises] /\ cleared \in [Nodes -> BOOLEAN]
  BY DEF TypeOK
<1>s. Steady \in Rises
  BY DEF Steady, RisePcs
<1> HIDE DEF Calls, Rises
<1>1. ASSUME NEW n \in Nodes, Promotion(n) PROVE TypeOK' /\ PumpInv'
  <2> DEFINE r == rise[n]
  <2>1. /\ r \in Rises /\ r.pc \in RisePcs /\ r.epoch \in Nat /\ r.raced \in BOOLEAN
        /\ \A pc \in RisePcs : [r EXCEPT !.pc = pc] \in Rises
    BY <1>r DEF Rises
  <2>2. CASE Promote(n)
    <3>1. [pc |-> "admit", epoch |-> MintedEpoch(n), raced |-> FALSE] \in Rises
      BY <1>n DEF MintedEpoch, Current, Rises, RisePcs
    <3>2. promotions' \in 0..MaxPromotions
      BY <2>2, <1>a DEF Promote, TypeOK
    <3>3. rise' \in [Nodes -> Rises]
      BY <2>2, <1>r, <3>1, Updated DEF Promote
    <3> QED
      BY <2>2, <3>2, <3>3 DEF Promote, sender, receiver, TypeOK, PumpInv, Rises
  <2>3. CASE AdmitOwn(n)
    <3> DEFINE g == IF Admits(gate[n], r.epoch) THEN Advanced(gate[n], r.epoch) ELSE gate[n]
    <3>1. g \in Nat
      BY <1>n, <2>1 DEF Advanced, Current, Larger
    <3>2. gate' = [gate EXCEPT ![n] = g] /\ rise' = [rise EXCEPT ![n] = [r EXCEPT !.pc = "store"]]
      BY <2>3 DEF AdmitOwn
    <3> HIDE DEF g, r
    <3>3. gate' \in [Nodes -> Nat]
      BY <1>n, <3>1, <3>2, Updated
    <3>4. rise' \in [Nodes -> Rises]
      BY <1>r, <2>1, <3>2, Updated DEF RisePcs
    <3> QED
      BY <2>3, <3>3, <3>4 DEF AdmitOwn, sender, receiver, bounds, TypeOK, PumpInv, Rises
  <2>4. CASE StoreEpoch(n)
    <3>1. epoch' = [epoch EXCEPT ![n] = r.epoch] /\ rise' = [rise EXCEPT ![n] = [r EXCEPT !.pc = "acquire"]]
      BY <2>4 DEF StoreEpoch
    <3> HIDE DEF r
    <3>2. epoch' \in [Nodes -> Nat]
      BY <1>n, <2>1, <3>1, Updated
    <3>3. rise' \in [Nodes -> Rises]
      BY <1>r, <2>1, <3>1, Updated DEF RisePcs
    <3> QED
      BY <2>4, <3>2, <3>3 DEF StoreEpoch, sender, receiver, bounds, TypeOK, PumpInv, Rises
  <2>5. CASE ResetLagged(n)
    <3>1. rise' \in [Nodes -> Rises]
      BY <2>5, <1>r, <1>s, Updated DEF ResetLagged
    <3>2. lagged' \in [Nodes -> BOOLEAN] /\ cleared' \in [Nodes -> BOOLEAN]
      BY <2>5, <1>r, <1>l DEF ResetLagged
    <3> QED
      BY <2>5, <3>1, <3>2 DEF ResetLagged, receiver, bounds, TypeOK, PumpInv, Rises
  <2>6. CASE AcquireFails(n)
    <3>1. rise' \in [Nodes -> Rises]
      BY <2>6, <1>r, <1>s, Updated DEF AcquireFails
    <3> QED
      BY <2>6, <3>1 DEF AcquireFails, sender, receiver, bounds, TypeOK, PumpInv, Rises
  <2> QED
    BY <1>1, <2>2, <2>3, <2>4, <2>5, <2>6 DEF Promotion
<1>2. ASSUME NEW n \in Nodes, Demote(n) PROVE TypeOK' /\ PumpInv'
  BY <1>2 DEF Demote, sender, receiver, bounds, TypeOK, PumpInv
<1>3. ASSUME NEW n \in Nodes, Push(n) PROVE TypeOK' /\ PumpInv'
  <2> DEFINE t == Append(IF Full(n) THEN Tail(queue[n]) ELSE queue[n], pushed[n] + 1)
  <2>1. queue[n] \in Seq(Nat) /\ Len(queue[n]) <= Capacity /\ pushed[n] + 1 \in Nat
    BY <1>a, <1>q, <1>n
  <2>2. t \in Seq(Nat) /\ Len(t) <= Capacity
    BY <2>1, PushedSeq DEF Full
  <2>3. queue' = [queue EXCEPT ![n] = t]
    BY <1>3 DEF Push
  <2> HIDE DEF t
  <2>4. queue' \in [Nodes -> Seq(Nat)] /\ \A m \in Nodes : Len(queue'[m]) <= Capacity
    BY <1>q, <2>2, <2>3
  <2>5. pushed[n] + 1 \in 0..MaxRecords
    BY <1>3, <1>a, <1>n DEF Push
  <2>6. pushed' \in [Nodes -> 0..MaxRecords]
    BY <1>3, <1>n, <2>5 DEF Push
  <2>7. lagged' \in [Nodes -> BOOLEAN]
    BY <1>3, <1>l DEF Push, Full
  <2>8. TypeOK'
    BY <1>3, <2>4, <2>6, <2>7 DEF Push, receiver, bounds, TypeOK
  <2> QED
    BY <1>3, <2>8 DEF Push, PumpInv
<1>4. ASSUME NEW n \in Nodes, DrainWithLag(n) PROVE TypeOK' /\ PumpInv'
  <2> DEFINE k == Shorter(Len(queue[n]), BatchSize)
             taken == SubSeq(queue[n], 1, k)
             rest == SubSeq(queue[n], k + 1, Len(queue[n]))
             call == [pc    |-> IF k = 0 THEN "put_back" ELSE "fence",
                      lag   |-> lagged[n],
                      batch |-> taken,
                      epoch |-> epoch[n]]
  <2>1. queue[n] \in Seq(Nat) /\ Len(queue[n]) <= Capacity /\ Capacity \in Nat
    BY <1>q, QueueAssumption
  <2>2. k \in 0..Len(queue[n])
    BY <2>1, QueueAssumption DEF Shorter
  <2>3. /\ taken \in Seq(Nat) /\ rest \in Seq(Nat)
        /\ Len(taken) = k /\ Len(rest) = Len(queue[n]) - k
    <3> HIDE DEF k
    <3> QED
      BY ONLY <2>1, <2>2, SplitSeq
  <2>4. Len(rest) <= Capacity
    <3>1. Len(queue[n]) \in Nat
      BY <2>1
    <3> HIDE DEF rest, k
    <3> QED
      BY <2>1, <2>2, <2>3, <3>1
  <2>5. pump' = [pump EXCEPT ![n] = call] /\ queue' = [queue EXCEPT ![n] = rest]
    BY <1>4 DEF DrainWithLag
  <2>6. call.pc = "fence" => call.batch # <<>>
    BY <2>2, <2>3
  <2>7. call \in Calls /\ call.pc \in {"fence", "put_back"}
    BY <1>l, <1>n, <2>3 DEF Calls, PumpPcs
  <2> HIDE DEF call, rest
  <2>8. pump' \in [Nodes -> Calls]
    BY <1>p, <2>5, <2>7, Updated
  <2>9. queue' \in [Nodes -> Seq(Nat)] /\ \A m \in Nodes : Len(queue'[m]) <= Capacity
    BY <1>q, <2>3, <2>4, <2>5
  <2>10. lagged' \in [Nodes -> BOOLEAN]
    BY <1>4, <1>l DEF DrainWithLag
  <2>11. TypeOK'
    BY <1>4, <2>8, <2>9, <2>10 DEF DrainWithLag, receiver, bounds, TypeOK, Calls
  <2>12. PumpInv'
    BY <1>p, <2>5, <2>6, <2>7 DEF PumpInv
  <2> QED
    BY <2>11, <2>12
<1>5. ASSUME NEW n \in Nodes, PutBack(n) \/ Flush(n) PROVE TypeOK' /\ PumpInv'
  <2>1. pump' = [pump EXCEPT ![n] = Idle]
    BY <1>5 DEF PutBack, Flush
  <2>2. pump' \in [Nodes -> Calls]
    BY <1>p, <1>i, <2>1, Updated
  <2>3. lagged' \in [Nodes -> BOOLEAN]
    BY <1>5, <1>l DEF PutBack, Flush
  <2>4. TypeOK'
    BY <1>5, <2>2, <2>3 DEF PutBack, Flush, receiver, bounds, TypeOK, Calls
  <2>5. PumpInv'
    BY <1>p, <2>1 DEF PumpInv, Idle
  <2> QED
    BY <2>4, <2>5
<1>6. ASSUME NEW n \in Nodes, WriteFence(n) \/ WriteLagged(n) \/ WriteRecord(n)
      PROVE  TypeOK' /\ PumpInv'
  <2> DEFINE c == pump[n]
  <2>1. /\ c.pc \in PumpPcs /\ c.lag \in BOOLEAN /\ c.batch \in Seq(Nat) /\ c.epoch \in Nat
        /\ c = [pc |-> c.pc, lag |-> c.lag, batch |-> c.batch, epoch |-> c.epoch]
    BY <1>p DEF Calls
  <2>2. c.pc \in {"fence", "lag", "records"} => c.batch # <<>>
    BY DEF PumpInv
  <2>3. c.pc \in {"fence", "lag", "records"}
    BY <1>6 DEF WriteFence, WriteLagged, WriteRecord
  <2>4. /\ Head(c.batch) \in Nat /\ Tail(c.batch) \in Seq(Nat)
        /\ Len(Tail(c.batch)) = Len(c.batch) - 1
    BY <2>1, <2>2, <2>3, HeadTailProperties
  <2>5. PICK f \in Frames : wire' = [wire EXCEPT ![n] = Append(wire[n], f)]
    BY <1>6, <2>1, <2>4 DEF WriteFence, WriteLagged, WriteRecord, Write, FenceFrame,
                            LaggedFrame, RecordFrame, Frames
  <2>6. Append(wire[n], f) \in Seq(Frames)
    BY <1>w
  <2>7. wire' \in [Nodes -> Seq(Frames)]
    BY <1>w, <2>5, <2>6, Updated
  <2>8. PICK d \in Calls : /\ pump' = [pump EXCEPT ![n] = d]
                           /\ d.pc \in {"fence", "lag", "records"} => d.batch # <<>>
                           /\ d.pc # "idle"
    <3>1. CASE WriteFence(n)
      <4> DEFINE d == [c EXCEPT !.pc = IF c.lag THEN "lag" ELSE "records"]
      <4>1. d \in Calls /\ d.batch # <<>> /\ d.pc # "idle"
        BY <2>1, <2>2, <2>3 DEF Calls, PumpPcs
      <4>2. pump' = [pump EXCEPT ![n] = d]
        BY <3>1 DEF WriteFence
      <4> QED
        BY <4>1, <4>2
    <3>2. CASE WriteLagged(n)
      <4> DEFINE d == [c EXCEPT !.pc = "records", !.lag = FALSE]
      <4>1. d \in Calls /\ d.batch # <<>> /\ d.pc # "idle"
        BY <2>1, <2>2, <2>3 DEF Calls, PumpPcs
      <4>2. pump' = [pump EXCEPT ![n] = d]
        BY <3>2 DEF WriteLagged
      <4> QED
        BY <4>1, <4>2
    <3>3. CASE WriteRecord(n)
      <4> DEFINE d == [c EXCEPT !.batch = Tail(c.batch),
                                !.pc = IF Len(c.batch) = 1 THEN "flush" ELSE "records"]
      <4>1. d \in Calls /\ d.pc # "idle"
        BY <2>1, <2>4 DEF Calls, PumpPcs
      <4>2. d.pc \in {"fence", "lag", "records"} => d.batch # <<>>
        <5>1. d.pc = (IF Len(c.batch) = 1 THEN "flush" ELSE "records")
              /\ d.batch = Tail(c.batch)
          BY <2>1
        <5>2. Len(c.batch) # 1 => Tail(c.batch) # <<>>
          BY <2>1, <2>2, <2>3, TailLeft
        <5> QED
          BY <5>1, <5>2
      <4>3. pump' = [pump EXCEPT ![n] = d]
        BY <3>3 DEF WriteRecord
      <4> QED
        BY <4>1, <4>2, <4>3
    <3> QED
      BY <1>6, <3>1, <3>2, <3>3
  <2>9. pump' \in [Nodes -> Calls]
    BY <1>p, <2>8, Updated
  <2>10. TypeOK'
    BY <1>6, <2>7, <2>9 DEF WriteFence, WriteLagged, WriteRecord, receiver, bounds, TypeOK,
                            Calls
  <2>11. PumpInv'
    BY <1>p, <2>8 DEF PumpInv
  <2> QED
    BY <2>10, <2>11
<1>7. ASSUME NEW n \in Nodes, WriteFails(n) PROVE TypeOK' /\ PumpInv'
  <2>1. pump' = [pump EXCEPT ![n] = Idle]
    BY <1>7 DEF WriteFails
  <2>2. pump' \in [Nodes -> Calls]
    BY <1>p, <1>i, <2>1, Updated
  <2>3. faults' \in 0..MaxFaults
    BY <1>7, <1>a DEF WriteFails, Fault, TypeOK
  <2>4. [wire EXCEPT ![n] = <<>>] \in [Nodes -> Seq(Frames)]
    BY <1>w, EmptySeq, Updated
  <2>5. wire' \in [Nodes -> Seq(Frames)]
    BY <1>7, <1>w, <2>4 DEF WriteFails
  <2>6. TypeOK'
    BY <1>7, <2>2, <2>3, <2>5 DEF WriteFails, receiver, TypeOK, Calls
  <2>7. PumpInv'
    BY <1>p, <2>1 DEF PumpInv, Idle
  <2> QED
    BY <2>6, <2>7
<1>8. ASSUME NEW n \in Nodes,
             ReadFence(n) \/ Refuse(n) \/ ReadLagged(n) \/ ReadRecord(n)
      PROVE  TypeOK' /\ PumpInv'
  <2> DEFINE f == Head(wire[n])
  <2>1. Peer(n) \in Nodes
    BY PeerFacts
  <2>2. wire[n] \in Seq(Frames) /\ wire[n] # <<>>
    BY <1>8, <1>w DEF ReadFence, Refuse, ReadLagged, ReadRecord, Arrives
  <2>3. f \in Frames /\ Tail(wire[n]) \in Seq(Frames)
    BY <2>2, HeadTailProperties
  <2>4. wire' = [wire EXCEPT ![n] = Tail(wire[n])] \/ wire' = [wire EXCEPT ![n] = <<>>]
    BY <1>8 DEF ReadFence, Refuse, ReadLagged, ReadRecord, Consume
  <2>5. wire' \in [Nodes -> Seq(Frames)]
    <3>1. [wire EXCEPT ![n] = Tail(wire[n])] \in [Nodes -> Seq(Frames)]
      BY <1>w, <2>3, Updated
    <3>2. [wire EXCEPT ![n] = <<>>] \in [Nodes -> Seq(Frames)]
      BY <1>w, EmptySeq, Updated
    <3> QED
      BY <2>4, <3>1, <3>2
  <2>6. f.value \in Nat
    BY <2>3 DEF Frames
  <2>7. PumpInv'
    BY <1>8 DEF ReadFence, Refuse, ReadLagged, ReadRecord, sender, PumpInv
  <2>8. CASE ReadFence(n)
    <3>1. gate' = [gate EXCEPT ![Peer(n)] = Advanced(gate[Peer(n)], f.value)]
          /\ session' = [session EXCEPT ![n] = f.value]
      BY <2>8 DEF ReadFence
    <3>2. Advanced(gate[Peer(n)], f.value) \in Nat
      BY <1>n, <2>1, <2>6 DEF Advanced, Current, Larger
    <3>3. gate' \in [Nodes -> Nat] /\ session' \in [Nodes -> Nat]
      <4> HIDE DEF f
      <4>1. gate' \in [Nodes -> Nat]
        BY <1>n, <2>1, <3>1, <3>2, Updated
      <4>2. session' \in [Nodes -> Nat]
        BY <1>n, <2>6, <3>1, Updated
      <4> QED
        BY <4>1, <4>2
    <3>4. UNCHANGED <<role, epoch, cleared, queue, lagged, pump, pushed, applied, newest, told,
                      promotions, faults>>
      BY <2>8 DEF ReadFence, sender, bounds
    <3>5. rise' \in [Nodes -> Rises]
      <4> DEFINE b == rise[Peer(n)].pc \in {"admit", "store"}
      <4>0. ASSUME NEW x \in BOOLEAN PROVE [rise[Peer(n)] EXCEPT !.raced = x] \in Rises
        BY <1>r, <2>1 DEF Rises
      <4>1. rise' = [rise EXCEPT ![Peer(n)] = [rise[Peer(n)] EXCEPT !.raced = b]]
        BY <2>8 DEF ReadFence
      <4>2. b \in BOOLEAN
        OBVIOUS
      <4> HIDE DEF b
      <4>3. [rise[Peer(n)] EXCEPT !.raced = b] \in Rises
        BY <4>0, <4>2
      <4> QED
        BY <1>r, <2>1, <4>1, <4>3, Updated
    <3> QED
      BY <2>5, <2>7, <3>3, <3>4, <3>5 DEF TypeOK, Rises
  <2>9. CASE Refuse(n)
    BY <2>5, <2>7, <2>9 DEF Refuse, sender, receiver, bounds, TypeOK
  <2>10. CASE ReadLagged(n)
    BY <2>5, <2>7, <2>10 DEF ReadLagged, sender, bounds, TypeOK
  <2>11. CASE ReadRecord(n)
    <3>1. applied' \in [Nodes -> SUBSET Nat]
      BY <2>6, <2>11 DEF ReadRecord, TypeOK
    <3>2. newest' \in [Nodes -> [epoch: Nat, record: Nat]]
      BY <1>n, <2>6, <2>11 DEF ReadRecord, TypeOK
    <3> QED
      BY <2>5, <2>7, <2>11, <3>1, <3>2 DEF ReadRecord, sender, bounds, TypeOK
  <2> QED
    BY <1>8, <2>8, <2>9, <2>10, <2>11
<1>9. ASSUME NEW n \in Nodes, SessionLost(n) PROVE TypeOK' /\ PumpInv'
  <2>1. faults' \in 0..MaxFaults
    BY <1>9, <1>a DEF SessionLost, Fault, TypeOK
  <2>2. wire' \in [Nodes -> Seq(Frames)]
    BY <1>9, <1>w, EmptySeq, Updated DEF SessionLost
  <2> QED
    BY <1>9, <2>1, <2>2 DEF SessionLost, sender, receiver, TypeOK, PumpInv
<1>10. ASSUME NEW n \in Nodes, Restart(n) PROVE TypeOK' /\ PumpInv'
  <2>1. Peer(n) \in Nodes
    BY PeerFacts
  <2>2. faults' \in 0..MaxFaults
    BY <1>10, <1>a DEF Restart, Fault, TypeOK
  <2>3. wire' \in [Nodes -> Seq(Frames)]
    BY <1>10, EmptySeq DEF Restart
  <2>4. queue' \in [Nodes -> Seq(Nat)] /\ \A m \in Nodes : Len(queue'[m]) <= Capacity
    BY <1>10, <1>q, EmptySeq, QueueAssumption DEF Restart
  <2>5. pump' = [pump EXCEPT ![n] = Idle]
    BY <1>10 DEF Restart
  <2>6. pump' \in [Nodes -> Calls]
    BY <1>p, <1>i, <2>5, Updated
  <2>7. /\ session' \in [Nodes -> Nat] /\ epoch' \in [Nodes -> Nat] /\ gate' \in [Nodes -> Nat]
    BY <1>10, <1>n, <2>1 DEF Restart
  <2>8. applied' \in [Nodes -> SUBSET Nat]
    BY <1>10, <2>1 DEF Restart, TypeOK
  <2>9. newest' \in [Nodes -> [epoch: Nat, record: Nat]]
    BY <1>10, <2>1 DEF Restart, TypeOK
  <2>10. rise' \in [Nodes -> Rises]
    BY <1>10, <1>r, <1>s, Updated DEF Restart
  <2>11. TypeOK'
    BY <1>10, <2>1, <2>2, <2>3, <2>4, <2>6, <2>7, <2>8, <2>9, <2>10
       DEF Restart, TypeOK, Calls, Rises
  <2>12. PumpInv'
    BY <1>p, <2>5 DEF PumpInv, Idle
  <2> QED
    BY <2>11, <2>12
<1>11. CASE UNCHANGED vars
  BY <1>11 DEF vars, TypeOK, PumpInv
<1> QED
  BY <1>1, <1>2, <1>3, <1>4, <1>5, <1>6, <1>7, <1>8, <1>9, <1>10, <1>11 DEF Next, Sync

\* A fresh pair is well typed and its pumps are idle.
LEMMA TypeInit == Init => TypeOK /\ PumpInv
  BY BoundsAssumption, QueueAssumption
     DEF Init, TypeOK, Idle, PumpPcs, Steady, RisePcs, Frames, PumpInv

\* Type correctness: the queue never outgrows its capacity, and no step of the
\* pump or of the reader leaves its type.
THEOREM TypeCorrect == Spec => []TypeOK
  BY TypeInit, TypeStep, PTL DEF Spec

-----------------------------------------------------------------------------
(* Sequences of records *)

\* What a sequence holds after an append.
LEMMA AppendFacts ==
    ASSUME NEW S, NEW s \in Seq(S), NEW x \in S
    PROVE  /\ Append(s, x) \in Seq(S)
           /\ DOMAIN s = 1..Len(s) /\ Len(s) \in Nat
           /\ DOMAIN Append(s, x) = 1..(Len(s) + 1)
           /\ \A i \in 1..Len(s) : Append(s, x)[i] = s[i]
           /\ Append(s, x)[Len(s) + 1] = x
           /\ Elements(Append(s, x)) = Elements(s) \cup {x}
<1>1. /\ Append(s, x) \in Seq(S) /\ Len(s) \in Nat
      /\ DOMAIN s = 1..Len(s) /\ DOMAIN Append(s, x) = 1..(Len(s) + 1)
      /\ \A i \in 1..Len(s) : Append(s, x)[i] = s[i]
      /\ Append(s, x)[Len(s) + 1] = x
  OBVIOUS
<1>2. Elements(Append(s, x)) = Elements(s) \cup {x}
  <2>1. ASSUME NEW y \in Elements(Append(s, x)) PROVE y \in Elements(s) \cup {x}
    <3>1. PICK i \in 1..(Len(s) + 1) : y = Append(s, x)[i]
      BY <1>1, <2>1 DEF Elements
    <3>2. i \in 1..Len(s) \/ i = Len(s) + 1
      BY <1>1
    <3> QED
      BY <1>1, <3>1, <3>2 DEF Elements
  <2>2. ASSUME NEW y \in Elements(s) PROVE y \in Elements(Append(s, x))
    <3>1. PICK i \in 1..Len(s) : y = s[i]
      BY <1>1, <2>2 DEF Elements
    <3>2. i \in 1..(Len(s) + 1)
      BY <1>1
    <3> QED
      BY <1>1, <3>1, <3>2 DEF Elements
  <2>3. x \in Elements(Append(s, x))
    <3>1. Len(s) + 1 \in 1..(Len(s) + 1)
      BY <1>1
    <3> QED
      BY <1>1, <3>1 DEF Elements
  <2> QED
    BY <2>1, <2>2, <2>3
<1> QED
  BY <1>1, <1>2

\* What a sequence holds besides its head.
LEMMA TailFacts ==
    ASSUME NEW S, NEW s \in Seq(S), s # <<>>
    PROVE  /\ Tail(s) \in Seq(S) /\ Head(s) \in S
           /\ Len(s) \in Nat \ {0} /\ DOMAIN s = 1..Len(s) /\ Head(s) = s[1]
           /\ DOMAIN Tail(s) = 1..(Len(s) - 1)
           /\ \A i \in 1..(Len(s) - 1) : Tail(s)[i] = s[i + 1]
           /\ Elements(s) = {Head(s)} \cup Elements(Tail(s))
<1>1. /\ Tail(s) \in Seq(S) /\ Head(s) \in S /\ Len(Tail(s)) = Len(s) - 1
      /\ \A i \in 1..Len(Tail(s)) : Tail(s)[i] = s[i + 1]
  BY HeadTailProperties
<1>2. Len(s) \in Nat \ {0} /\ DOMAIN s = 1..Len(s) /\ Head(s) = s[1]
  BY EmptySeq, LenProperties
<1>3. DOMAIN Tail(s) = 1..(Len(s) - 1)
  BY <1>1, LenProperties
<1>4. Elements(s) = {Head(s)} \cup Elements(Tail(s))
  <2>1. ASSUME NEW y \in Elements(s) PROVE y \in {Head(s)} \cup Elements(Tail(s))
    <3>1. PICK i \in 1..Len(s) : y = s[i]
      BY <1>2, <2>1 DEF Elements
    <3>2. CASE i = 1
      BY <1>2, <3>1, <3>2
    <3>3. CASE i # 1
      <4>1. i - 1 \in 1..(Len(s) - 1) /\ (i - 1) + 1 = i
        BY <1>2, <3>3
      <4>2. y = Tail(s)[i - 1]
        BY <1>1, <3>1, <4>1
      <4> QED
        BY <1>3, <4>1, <4>2 DEF Elements
    <3> QED
      BY <3>2, <3>3
  <2>2. Head(s) \in Elements(s)
    BY <1>2 DEF Elements
  <2>3. ASSUME NEW y \in Elements(Tail(s)) PROVE y \in Elements(s)
    <3>1. PICK i \in 1..(Len(s) - 1) : y = Tail(s)[i]
      BY <1>3, <2>3 DEF Elements
    <3>2. i + 1 \in 1..Len(s) /\ y = s[i + 1]
      BY <1>1, <1>2, <3>1
    <3> QED
      BY <1>2, <3>2 DEF Elements
  <2> QED
    BY <2>1, <2>2, <2>3
<1> QED
  BY <1>1, <1>2, <1>3, <1>4

\* A drain splits the elements of the queue, the older ones into the batch.
LEMMA SplitFacts ==
    ASSUME NEW S, NEW s \in Seq(S), NEW k \in 0..Len(s)
    PROVE  /\ Elements(s) = Elements(SubSeq(s, 1, k)) \cup Elements(SubSeq(s, k + 1, Len(s)))
           /\ \A y \in Elements(SubSeq(s, 1, k)) : \E i \in 1..k : y = s[i]
           /\ \A y \in Elements(SubSeq(s, k + 1, Len(s))) : \E i \in (k + 1)..Len(s) : y = s[i]
<1> DEFINE a == SubSeq(s, 1, k)
           b == SubSeq(s, k + 1, Len(s))
<1>1. /\ a \in Seq(S) /\ b \in Seq(S) /\ Len(a) = k /\ Len(b) = Len(s) - k
      /\ \A i \in 1..k : a[i] = s[i]
      /\ \A i \in 1..(Len(s) - k) : b[i] = s[i + k]
  BY SplitSeq
<1>2. DOMAIN s = 1..Len(s) /\ DOMAIN a = 1..k /\ DOMAIN b = 1..(Len(s) - k) /\ Len(s) \in Nat
  BY <1>1, LenProperties
<1> HIDE DEF a, b
<1>3. \A y \in Elements(a) : \E i \in 1..k : y = s[i]
  BY <1>1, <1>2 DEF Elements
<1>4. \A y \in Elements(b) : \E i \in (k + 1)..Len(s) : y = s[i]
  <2>1. ASSUME NEW y \in Elements(b) PROVE \E i \in (k + 1)..Len(s) : y = s[i]
    <3>1. PICK j \in 1..(Len(s) - k) : y = b[j]
      BY <1>2, <2>1 DEF Elements
    <3>2. j + k \in (k + 1)..Len(s) /\ y = s[j + k]
      BY <1>1, <1>2, <3>1
    <3> QED
      BY <3>2
  <2> QED
    BY <2>1
<1>5. ASSUME NEW y \in Elements(s) PROVE y \in Elements(a) \cup Elements(b)
  <2>1. PICK i \in 1..Len(s) : y = s[i]
    BY <1>2, <1>5 DEF Elements
  <2>2. CASE i <= k
    <3>1. i \in 1..k /\ y = a[i]
      BY <1>1, <1>2, <2>1, <2>2
    <3> QED
      BY <1>2, <3>1 DEF Elements
  <2>3. CASE ~(i <= k)
    <3>1. i - k \in 1..(Len(s) - k) /\ (i - k) + k = i
      BY <1>2, <2>3
    <3>2. y = b[i - k]
      BY <1>1, <2>1, <3>1
    <3> QED
      BY <1>2, <3>1, <3>2 DEF Elements
  <2> QED
    BY <2>2, <2>3
<1>6. Elements(a) \cup Elements(b) \subseteq Elements(s)
  <2>1. 1..k \subseteq 1..Len(s) /\ (k + 1)..Len(s) \subseteq 1..Len(s)
    BY <1>2
  <2>2. \A y \in Elements(a) \cup Elements(b) : \E i \in 1..Len(s) : y = s[i]
    BY <1>3, <1>4, <2>1
  <2> QED
    BY <1>2, <2>2 DEF Elements
<1>7. Elements(s) = Elements(a) \cup Elements(b)
  BY <1>5, <1>6
<1> QED
  BY <1>3, <1>4, <1>7 DEF a, b

\* A newer record at the end keeps a buffer ascending.
LEMMA AscendingAppend ==
    ASSUME NEW s \in Seq(Nat), NEW x \in Nat, Ascending(s), \A y \in Elements(s) : y < x
    PROVE  Ascending(Append(s, x))
<1>1. \A i \in 1..Len(s) : s[i] < x
  BY AppendFacts DEF Elements
<1>2. \A i \in 1..(Len(s) + 1) : i \in 1..Len(s) \/ i = Len(s) + 1
  OBVIOUS
<1>3. ASSUME NEW i \in 1..(Len(s) + 1), NEW j \in 1..(Len(s) + 1), i < j
      PROVE  Append(s, x)[i] < Append(s, x)[j]
  <2>1. i \in 1..Len(s)
    BY <1>3
  <2>2. CASE j = Len(s) + 1
    BY <1>1, <2>1, <2>2, AppendFacts
  <2>3. CASE j \in 1..Len(s)
    BY <1>3, <2>1, <2>3, AppendFacts DEF Ascending
  <2> QED
    BY <1>2, <2>2, <2>3
<1> QED
  BY <1>3, AppendFacts DEF Ascending

\* Taking the oldest record keeps a buffer ascending.
LEMMA AscendingTail ==
    ASSUME NEW s \in Seq(Nat), s # <<>>, Ascending(s)
    PROVE  Ascending(Tail(s)) /\ \A y \in Elements(Tail(s)) : Head(s) < y
<1> DEFINE n == Len(s) - 1
<1>1. /\ n \in Nat /\ DOMAIN s = 1..(n + 1) /\ DOMAIN Tail(s) = 1..n /\ Head(s) = s[1]
      /\ \A i \in 1..n : Tail(s)[i] = s[i + 1]
  BY TailFacts
<1> HIDE DEF n
<1>2. \A i \in 1..n : i + 1 \in 1..(n + 1) /\ 1 \in 1..(n + 1) /\ 1 < i + 1
  BY <1>1
<1>3. \A i \in 1..n : Head(s) < Tail(s)[i]
  BY <1>1, <1>2 DEF Ascending
<1>4. \A i, j \in 1..n : i < j => Tail(s)[i] < Tail(s)[j]
  <2>1. ASSUME NEW i \in 1..n, NEW j \in 1..n, i < j PROVE Tail(s)[i] < Tail(s)[j]
    <3>1. i + 1 < j + 1
      BY <1>1, <2>1
    <3>2. s[i + 1] < s[j + 1]
      BY <1>1, <1>2, <3>1 DEF Ascending
    <3> QED
      BY <1>1, <3>2
  <2> QED
    BY <2>1
<1> QED
  BY <1>1, <1>3, <1>4 DEF Ascending, Elements

\* A drain leaves batch and queue ascending, the batch before the queue.
LEMMA AscendingSplit ==
    ASSUME NEW s \in Seq(Nat), NEW k \in 0..Len(s), Ascending(s)
    PROVE  /\ Ascending(SubSeq(s, 1, k)) /\ Ascending(SubSeq(s, k + 1, Len(s)))
           /\ \A x \in Elements(SubSeq(s, 1, k)), y \in Elements(SubSeq(s, k + 1, Len(s))) :
                x < y
<1> DEFINE a == SubSeq(s, 1, k)
           b == SubSeq(s, k + 1, Len(s))
<1>1. /\ a \in Seq(Nat) /\ b \in Seq(Nat) /\ Len(a) = k /\ Len(b) = Len(s) - k
      /\ \A i \in 1..k : a[i] = s[i]
      /\ \A i \in 1..(Len(s) - k) : b[i] = s[i + k]
  BY SplitSeq
<1>2. DOMAIN s = 1..Len(s) /\ DOMAIN a = 1..k /\ DOMAIN b = 1..(Len(s) - k) /\ Len(s) \in Nat
  BY <1>1, LenProperties
<1>3. \A x \in Elements(a), y \in Elements(b) : x < y
  <2>1. ASSUME NEW x \in Elements(a), NEW y \in Elements(b) PROVE x < y
    <3>1. PICK i \in 1..k : x = s[i]
      BY SplitFacts
    <3>2. PICK j \in (k + 1)..Len(s) : y = s[j]
      BY SplitFacts
    <3>3. i \in 1..Len(s) /\ j \in 1..Len(s) /\ i < j
      BY <1>2
    <3> QED
      BY <1>2, <3>1, <3>2, <3>3 DEF Ascending
  <2> QED
    BY <2>1
<1> HIDE DEF a, b
<1>4. Ascending(a)
  <2>1. \A i \in 1..k : i \in 1..Len(s)
    BY <1>2
  <2> QED
    BY <1>1, <1>2, <2>1 DEF Ascending
<1>5. Ascending(b)
  <2>1. ASSUME NEW i \in 1..(Len(s) - k), NEW j \in 1..(Len(s) - k), i < j
        PROVE  b[i] < b[j]
    <3>1. i + k \in 1..Len(s) /\ j + k \in 1..Len(s) /\ i + k < j + k
      BY <1>2, <2>1
    <3>2. s[i + k] < s[j + k]
      BY <1>2, <3>1 DEF Ascending
    <3> QED
      BY <1>1, <3>2
  <2> QED
    BY <1>2, <2>1 DEF Ascending
<1> QED
  BY <1>3, <1>4, <1>5 DEF a, b

\* A frame more on the wire.
LEMMA FrameAppended ==
    ASSUME NEW s \in Seq(Frames), NEW f \in Frames, AscendingRecords(s),
           f.kind = "Record" => \A x \in RecordsIn(s) : x < f.value
    PROVE  /\ AscendingRecords(Append(s, f))
           /\ RecordsIn(Append(s, f))
                = RecordsIn(s) \cup IF f.kind = "Record" THEN {f.value} ELSE {}
<1> DEFINE t == Append(s, f)
<1>1. /\ DOMAIN s = 1..Len(s) /\ Len(s) \in Nat /\ DOMAIN t = 1..(Len(s) + 1)
      /\ \A i \in 1..Len(s) : t[i] = s[i]
      /\ t[Len(s) + 1] = f /\ Elements(t) = Elements(s) \cup {f}
  BY AppendFacts
<1> HIDE DEF t
<1>2. RecordsIn(t) = RecordsIn(s) \cup IF f.kind = "Record" THEN {f.value} ELSE {}
  BY <1>1 DEF RecordsIn
<1>3. \A i \in 1..Len(s) : s[i].kind = "Record" => s[i].value \in RecordsIn(s)
  BY <1>1 DEF RecordsIn, Elements
<1>4. ASSUME NEW i \in 1..(Len(s) + 1), NEW j \in 1..(Len(s) + 1), i < j,
             t[i].kind = "Record", t[j].kind = "Record"
      PROVE  t[i].value < t[j].value
  <2>1. i \in 1..Len(s)
    BY <1>1, <1>4
  <2>2. CASE j = Len(s) + 1
    BY <1>1, <1>3, <1>4, <2>1, <2>2
  <2>3. CASE j # Len(s) + 1
    <3>1. j \in 1..Len(s)
      BY <1>1, <2>3
    <3> QED
      BY <1>1, <1>4, <2>1, <3>1 DEF AscendingRecords
  <2> QED
    BY <2>2, <2>3
<1> QED
  BY <1>1, <1>2, <1>4 DEF AscendingRecords, t

\* A frame fewer on the wire.
LEMMA FrameConsumed ==
    ASSUME NEW s \in Seq(Frames), s # <<>>, AscendingRecords(s)
    PROVE  /\ AscendingRecords(Tail(s))
           /\ RecordsIn(s) = RecordsIn(Tail(s))
                \cup IF Head(s).kind = "Record" THEN {Head(s).value} ELSE {}
           /\ Head(s).kind = "Record" => \A x \in RecordsIn(Tail(s)) : Head(s).value < x
<1> DEFINE n == Len(s) - 1
           t == Tail(s)
           f == Head(s)
<1>1. /\ n \in Nat /\ DOMAIN s = 1..(n + 1) /\ DOMAIN t = 1..n /\ f = s[1]
      /\ \A i \in 1..n : t[i] = s[i + 1]
      /\ Elements(s) = {f} \cup Elements(t)
  BY TailFacts
<1> HIDE DEF n, t, f
<1>2. RecordsIn(s) = RecordsIn(t) \cup IF f.kind = "Record" THEN {f.value} ELSE {}
  BY <1>1 DEF RecordsIn
<1>3. \A i \in 1..n : i + 1 \in 1..(n + 1) /\ 1 \in 1..(n + 1) /\ 1 < i + 1
  BY <1>1
<1>4. ASSUME NEW i \in 1..n, NEW j \in 1..n, i < j,
             t[i].kind = "Record", t[j].kind = "Record"
      PROVE  t[i].value < t[j].value
  <2>1. i + 1 < j + 1
    BY <1>1, <1>4
  <2> QED
    BY <1>1, <1>3, <1>4, <2>1 DEF AscendingRecords
<1>5. f.kind = "Record" => \A x \in RecordsIn(t) : f.value < x
  <2>1. ASSUME f.kind = "Record", NEW x \in RecordsIn(t) PROVE f.value < x
    <3>1. PICK i \in 1..n : t[i].kind = "Record" /\ x = t[i].value
      BY <1>1 DEF RecordsIn, Elements
    <3> QED
      BY <1>1, <1>3, <2>1, <3>1 DEF AscendingRecords
  <2> QED
    BY <2>1
<1> QED
  BY <1>1, <1>2, <1>4, <1>5 DEF AscendingRecords, t, f

-----------------------------------------------------------------------------
(* What each operation does to the order of a stream *)

\* An empty buffer holds no record.
LEMMA NothingHeld ==
    /\ Elements(<<>>) = {} /\ RecordsIn(<<>>) = {}
    /\ Ascending(<<>>) /\ AscendingRecords(<<>>)
  BY DEF Elements, RecordsIn, Ascending, AscendingRecords

\* Buffers hold record numbers.
LEMMA NumbersHeld ==
    /\ \A s \in Seq(Nat) : Elements(s) \subseteq Nat
    /\ \A s \in Seq(Frames) : RecordsIn(s) \subseteq Nat
<1>1. ASSUME NEW S, NEW s \in Seq(S) PROVE Elements(s) \subseteq S
  BY <1>1, LenProperties DEF Elements
<1>2. \A f \in Frames : f.value \in Nat
  BY DEF Frames
<1>3. \A s \in Seq(Frames) : Elements(s) \subseteq Frames
  BY <1>1
<1>4. \A s \in Seq(Frames) : RecordsIn(s) \subseteq Nat
  BY <1>2, <1>3 DEF RecordsIn
<1> QED
  BY <1>1, <1>4

\* Forgetting frames, a batch, a queue or what was applied keeps the order.
LEMMA OrderedDrop ==
    ASSUME NEW last \in Nat, NEW frames, NEW batch, NEW waiting, NEW count \in Nat,
           Elements(batch) \subseteq Nat, Elements(waiting) \subseteq Nat,
           RecordsIn(frames) \subseteq Nat,
           Ordered(last, frames, batch, waiting, count)
    PROVE  /\ Ordered(last, <<>>, batch, waiting, count)
           /\ Ordered(last, frames, <<>>, waiting, count)
           /\ Ordered(last, <<>>, <<>>, waiting, count)
           /\ Ordered(last, <<>>, <<>>, <<>>, count)
           /\ Ordered(0, <<>>, batch, waiting, count)
  BY NothingHeld DEF Ordered

\* A push keeps a stream in order, with or without an eviction.
LEMMA OrderedPush ==
    ASSUME NEW last \in Nat, NEW frames, NEW batch, NEW waiting \in Seq(Nat), NEW count \in Nat,
           Elements(batch) \subseteq Nat, RecordsIn(frames) \subseteq Nat,
           Ordered(last, frames, batch, waiting, count)
    PROVE  /\ Ordered(last, frames, batch, Append(waiting, count + 1), count + 1)
           /\ waiting # <<>>
                => Ordered(last, frames, batch, Append(Tail(waiting), count + 1), count + 1)
<1>1. ASSUME NEW s \in Seq(Nat), Ascending(s), Elements(s) \subseteq Elements(waiting)
      PROVE  Ordered(last, frames, batch, Append(s, count + 1), count + 1)
  <2>1. Elements(s) \subseteq Nat
    BY <1>1, LenProperties DEF Elements
  <2>2. \A y \in Elements(s) : y < count + 1
    BY <1>1, <2>1 DEF Ordered
  <2>3. Ascending(Append(s, count + 1))
    BY <1>1, <2>2, AscendingAppend
  <2>4. Elements(Append(s, count + 1)) = Elements(s) \cup {count + 1}
    <3>1. count + 1 \in Nat
      OBVIOUS
    <3> QED
      BY ONLY <1>1, <3>1, AppendFacts
  <2>5. \A x \in RecordsIn(frames) \cup Elements(batch) : x <= count
    BY DEF Ordered
  <2>6. \A x \in RecordsIn(frames) \cup Elements(batch) : x < count + 1
    BY <2>5
  <2>7. /\ AscendingRecords(frames) /\ Ascending(batch) /\ last <= count
        /\ \A x \in RecordsIn(frames) : \A y \in Elements(batch) \cup Elements(s) : x < y
        /\ \A x \in Elements(batch) : \A y \in Elements(s) : x < y
        /\ \A x \in RecordsIn(frames) \cup Elements(batch) \cup Elements(s) :
              last < x /\ x <= count
    BY <1>1 DEF Ordered
  <2>8. last <= count + 1 /\ last < count + 1
    BY <2>7
  <2>9. \A x \in RecordsIn(frames) \cup Elements(batch) \cup Elements(s) :
           last < x /\ x <= count + 1
    BY <2>1, <2>7
  <2> QED
    BY <2>3, <2>4, <2>6, <2>7, <2>8, <2>9 DEF Ordered
<1>2. Ascending(waiting)
  BY DEF Ordered
<1>3. waiting # <<>> => /\ Tail(waiting) \in Seq(Nat) /\ Ascending(Tail(waiting))
                        /\ Elements(Tail(waiting)) \subseteq Elements(waiting)
  BY <1>2, TailFacts, AscendingTail
<1> QED
  BY <1>1, <1>2, <1>3

\* A drain keeps a stream in order.
LEMMA OrderedDrain ==
    ASSUME NEW last, NEW frames, NEW waiting \in Seq(Nat), NEW count,
           NEW k \in 0..Len(waiting),
           Ordered(last, frames, <<>>, waiting, count)
    PROVE  Ordered(last, frames, SubSeq(waiting, 1, k),
                   SubSeq(waiting, k + 1, Len(waiting)), count)
<1> DEFINE a == SubSeq(waiting, 1, k)
           b == SubSeq(waiting, k + 1, Len(waiting))
<1>1. Elements(waiting) = Elements(a) \cup Elements(b)
  BY SplitFacts
<1>2. Ascending(a) /\ Ascending(b) /\ \A x \in Elements(a), y \in Elements(b) : x < y
  BY AscendingSplit DEF Ordered
<1> HIDE DEF a, b
<1>3. Ordered(last, frames, a, b, count)
  BY <1>1, <1>2 DEF Ordered
<1> QED
  BY <1>3 DEF a, b

\* A written frame keeps a stream in order.
LEMMA OrderedWrite ==
    ASSUME NEW last, NEW frames \in Seq(Frames), NEW batch \in Seq(Nat), NEW waiting, NEW count,
           Ordered(last, frames, batch, waiting, count)
    PROVE  /\ batch # <<>> => Ordered(last, Append(frames, RecordFrame(Head(batch))),
                                      Tail(batch), waiting, count)
           /\ \A f \in Frames : f.kind # "Record"
                => Ordered(last, Append(frames, f), batch, waiting, count)
<1>1. AscendingRecords(frames) /\ Ascending(batch)
  BY DEF Ordered
<1>2. ASSUME batch # <<>>
      PROVE  Ordered(last, Append(frames, RecordFrame(Head(batch))), Tail(batch), waiting, count)
  <2> DEFINE h == Head(batch)
             t == Tail(batch)
             sent == Append(frames, RecordFrame(h))
  <2>1. Elements(batch) = {h} \cup Elements(t) /\ h \in Nat
    BY <1>2, TailFacts
  <2>2. Ascending(t) /\ \A y \in Elements(t) : h < y
    BY <1>1, <1>2, AscendingTail
  <2>3. RecordFrame(h) \in Frames /\ RecordFrame(h).kind = "Record" /\ RecordFrame(h).value = h
    BY <2>1 DEF RecordFrame, Frames
  <2>4. \A x \in RecordsIn(frames) : x < h
    BY <2>1 DEF Ordered
  <2>5. AscendingRecords(sent) /\ RecordsIn(sent) = RecordsIn(frames) \cup {h}
    BY <1>1, <2>3, <2>4, FrameAppended
  <2> HIDE DEF h, t, sent
  <2>6. Ordered(last, sent, t, waiting, count)
    BY <2>1, <2>2, <2>4, <2>5 DEF Ordered
  <2> QED
    BY <2>6 DEF h, t, sent
<1>3. ASSUME NEW f \in Frames, f.kind # "Record"
      PROVE  Ordered(last, Append(frames, f), batch, waiting, count)
  <2>1. AscendingRecords(Append(frames, f)) /\ RecordsIn(Append(frames, f)) = RecordsIn(frames)
    BY <1>1, <1>3, FrameAppended
  <2> QED
    BY <2>1 DEF Ordered
<1> QED
  BY <1>2, <1>3

\* A frame that is read keeps a stream in order, and a record is newer than the
\* one applied before it.
LEMMA OrderedRead ==
    ASSUME NEW last, NEW frames \in Seq(Frames), NEW batch, NEW waiting, NEW count,
           frames # <<>>, Ordered(last, frames, batch, waiting, count)
    PROVE  IF Head(frames).kind = "Record"
           THEN /\ last < Head(frames).value
                /\ Ordered(Head(frames).value, Tail(frames), batch, waiting, count)
           ELSE Ordered(last, Tail(frames), batch, waiting, count)
<1> DEFINE f == Head(frames)
           t == Tail(frames)
<1>1. AscendingRecords(frames)
  BY DEF Ordered
<1>2. /\ AscendingRecords(t)
      /\ RecordsIn(frames) = RecordsIn(t) \cup IF f.kind = "Record" THEN {f.value} ELSE {}
      /\ f.kind = "Record" => \A x \in RecordsIn(t) : f.value < x
  BY <1>1, FrameConsumed
<1> HIDE DEF f, t
<1>3. CASE f.kind = "Record"
  <2>1. f.value \in RecordsIn(frames)
    BY <1>2, <1>3
  <2>2. last < f.value /\ f.value <= count
        /\ \A y \in Elements(batch) \cup Elements(waiting) : f.value < y
    BY <2>1 DEF Ordered
  <2>3. Ordered(f.value, t, batch, waiting, count)
    BY <1>2, <1>3, <2>2 DEF Ordered
  <2> QED
    BY <1>3, <2>2, <2>3 DEF f, t
<1>4. CASE f.kind # "Record"
  <2>1. Ordered(last, t, batch, waiting, count)
    BY <1>2, <1>4 DEF Ordered
  <2> QED
    BY <1>4, <2>1 DEF f, t
<1> QED
  BY <1>3, <1>4

-----------------------------------------------------------------------------
(* Fencing and order of the whole pair *)

\* Every operation keeps the epochs of a reader's table below its node's gate.
LEMMA FenceStep ==
    ASSUME TypeOK, FenceInv, [Next]_vars
    PROVE  FenceInv'
<1> DEFINE Rises == [pc: RisePcs, epoch: Nat, raced: BOOLEAN]
           Early(m) == rise[m].pc \in {"admit", "store"} /\ ~rise[m].raced
           Above(m) == Early(m) => session[Peer(m)] < rise[m].epoch
           Shut(m) == rise[m].pc = "store" => rise[m].epoch <= Current(gate[m])
<1>t. /\ gate \in [Nodes -> Nat] /\ session \in [Nodes -> Nat]
      /\ newest \in [Nodes -> [epoch: Nat, record: Nat]] /\ rise \in [Nodes -> Rises]
  BY DEF TypeOK
<1>c. \A g \in Nat : Current(g) \in Nat
  BY DEF Current
<1>p. \A m \in Nodes : Peer(m) \in Nodes /\ Peer(m) # m /\ Peer(Peer(m)) = m
                       /\ \A k \in Nodes : k = m \/ k = Peer(m)
  BY PeerFacts
<1>m. \A m \in Nodes : /\ newest[m].epoch \in Nat /\ newest[m].epoch <= session[m]
                       /\ session[m] <= Current(gate[Peer(m)])
  BY <1>t DEF FenceInv
<1>e. \A m \in Nodes : Above(m) /\ Shut(m)
  BY <1>p DEF FenceInv
<1>k. ASSUME NEW m \in Nodes PROVE /\ session[m] \in Nat /\ gate[m] \in Nat
                                    /\ rise[m].epoch \in Nat /\ rise[m].pc \in RisePcs
  BY <1>t
<1>i. ASSUME \A m \in Nodes : /\ newest'[m].epoch <= session'[m]
                              /\ session'[m] <= Current(gate'[Peer(m)])
                              /\ Above(m)' /\ Shut(m)'
      PROVE  FenceInv'
  BY <1>i, <1>p DEF FenceInv
<1> HIDE DEF Rises
<1>1. ASSUME NEW n \in Nodes, Promotion(n) PROVE FenceInv'
  <2> DEFINE r == rise[n]
  <2>0. /\ UNCHANGED <<session, newest>>
        /\ \A m \in Nodes \ {n} : rise'[m] = rise[m] /\ gate'[m] = gate[m]
    BY <1>1, <1>t DEF Promotion, Promote, AdmitOwn, StoreEpoch, ResetLagged, AcquireFails, receiver
  <2>1. ASSUME UNCHANGED gate, Above(n)', Shut(n)' PROVE FenceInv'
    <3>1. ASSUME NEW m \in Nodes PROVE Above(m)' /\ Shut(m)'
      BY <1>e, <2>0, <2>1
    <3> QED
      BY <1>i, <1>m, <2>0, <2>1, <3>1
  <2>2. CASE Promote(n)
    <3>1. gate' = gate /\ rise'[n] = [pc |-> "admit", epoch |-> Current(gate[n]) + 1, raced |-> FALSE]
      BY <2>2, <1>t DEF Promote, MintedEpoch
    <3>2. session[Peer(n)] <= Current(gate[n]) /\ session[Peer(n)] \in Nat /\ Current(gate[n]) \in Nat
      BY <1>c, <1>k, <1>m, <1>p
    <3>3. session[Peer(n)] < Current(gate[n]) + 1
      BY <3>2
    <3> QED
      BY <2>0, <2>1, <3>1, <3>3
  <2>3. CASE AdmitOwn(n)
    <3> DEFINE g == IF Admits(gate[n], r.epoch) THEN Advanced(gate[n], r.epoch) ELSE gate[n]
    <3>1. /\ gate'[n] = g /\ rise'[n] = [r EXCEPT !.pc = "store"] /\ r.pc = "admit"
      BY <2>3, <1>t DEF AdmitOwn
    <3>2. g \in Nat /\ Current(gate[n]) <= Current(g) /\ r.epoch <= Current(g)
      BY <1>k DEF Admits, Advanced, Current, Larger, Primed
    <3>3. r.epoch = rise'[n].epoch /\ rise'[n].raced = r.raced /\ rise'[n].pc = "store"
      BY <1>t, <3>1 DEF Rises
    <3> HIDE DEF g, r
    <3>4. Above(n)' /\ Shut(n)'
      BY <1>e, <2>0, <3>1, <3>2, <3>3 DEF r
    <3>5. ASSUME NEW m \in Nodes PROVE session[m] <= Current(gate'[Peer(m)])
      <4>1. Current(gate[Peer(m)]) <= Current(gate'[Peer(m)])
        BY <1>c, <1>k, <1>p, <2>0, <3>1, <3>2
      <4>2. Peer(m) \in Nodes /\ gate'[Peer(m)] \in Nat
        BY <1>k, <1>p, <2>0, <3>1, <3>2
      <4> QED
        BY <1>c, <1>k, <1>m, <4>1, <4>2
    <3>6. ASSUME NEW m \in Nodes PROVE Above(m)' /\ Shut(m)'
      BY <1>e, <2>0, <3>4
    <3> QED
      BY <1>i, <1>m, <2>0, <3>5, <3>6
  <2>4. CASE StoreEpoch(n)
    <3>1. gate' = gate /\ rise'[n].pc = "acquire"
      BY <2>4, <1>t DEF StoreEpoch, Rises
    <3> QED
      BY <2>1, <3>1
  <2>5. CASE ResetLagged(n) \/ AcquireFails(n)
    <3>1. gate' = gate /\ rise'[n].pc = "none"
      BY <2>5, <1>t DEF ResetLagged, AcquireFails, Steady
    <3> QED
      BY <2>1, <3>1
  <2> QED
    BY <1>1, <2>2, <2>3, <2>4, <2>5 DEF Promotion
<1>2. ASSUME NEW n \in Nodes, ReadFence(n) PROVE FenceInv'
  <2> DEFINE p == Peer(n)
             e == Head(wire[n]).value
  <2>1. p \in Nodes /\ p # n /\ \A m \in Nodes : Peer(m) = p => m = n
    BY PeerFacts
  <2>2. e \in Nat
    <3>1. wire[n] \in Seq(Frames) /\ wire[n] # <<>>
      BY <1>2 DEF ReadFence, Arrives, TypeOK
    <3>2. Head(wire[n]) \in Frames
      BY <3>1, HeadTailProperties
    <3> QED
      BY <3>2 DEF Frames
  <2>3. /\ gate' = [gate EXCEPT ![p] = Advanced(gate[p], e)]
        /\ session' = [session EXCEPT ![n] = e]
        /\ newest' = newest /\ Admits(gate[p], e)
        /\ rise' = [rise EXCEPT ![p].raced = rise[p].pc \in {"admit", "store"}]
    BY <1>2 DEF ReadFence
  <2> HIDE DEF p, e
  <2>4. e <= Current(Advanced(gate[p], e))
    BY <1>t, <2>1, <2>2 DEF Advanced, Current, Larger
  <2>5. Current(gate[p]) <= e
    BY <1>t, <2>1, <2>2, <2>3 DEF Admits, Primed, Current
  <2>6. newest[n].epoch <= e
    <3>1. newest[n].epoch <= session[n] /\ session[n] <= Current(gate[p])
      BY <1>m DEF p
    <3>2. session[n] \in Nat /\ newest[n].epoch \in Nat /\ Current(gate[p]) \in Nat
      BY <1>t, <1>m, <2>1 DEF Current
    <3> QED
      BY <2>2, <2>5, <3>1, <3>2
  <2>7. ASSUME NEW m \in Nodes
        PROVE  newest'[m].epoch <= session'[m] /\ session'[m] <= Current(gate'[Peer(m)])
    <3>1. CASE m = n
      <4>1. session'[m] = e /\ gate'[Peer(m)] = Advanced(gate[p], e)
        BY <1>t, <2>1, <2>3, <3>1 DEF p
      <4> QED
        BY <2>3, <2>4, <2>6, <3>1, <4>1
    <3>2. CASE m # n
      <4>1. session'[m] = session[m] /\ gate'[Peer(m)] = gate[Peer(m)]
        BY <1>t, <2>1, <2>3, <3>2, PeerFacts
      <4> QED
        BY <1>m, <2>3, <4>1
    <3> QED
      BY <3>1, <3>2
  <2>8. /\ rise'[p].pc = rise[p].pc /\ rise'[p].epoch = rise[p].epoch
        /\ rise'[p].raced = (rise[p].pc \in {"admit", "store"}) /\ rise'[n] = rise[n]
    BY <1>t, <2>1, <2>3 DEF Rises
  <2>9. Above(p)' /\ Shut(p)'
    <3>1. Current(gate[p]) <= Current(Advanced(gate[p], e))
      BY <1>k, <2>1, <2>2 DEF Advanced, Current, Larger
    <3>2. gate'[p] = Advanced(gate[p], e) /\ Advanced(gate[p], e) \in Nat
      BY <1>t, <2>1, <2>2, <2>3 DEF Advanced, Current, Larger
    <3>3. ~Early(p)'
      BY <2>8
    <3>4. Shut(p)'
      <4>1. Shut(p) /\ rise[p].epoch \in Nat /\ Current(gate[p]) \in Nat
            /\ Current(gate'[p]) \in Nat
        BY <1>c, <1>e, <1>k, <2>1, <3>2
      <4> QED
        BY <2>8, <3>1, <3>2, <4>1
    <3> QED
      BY <3>3, <3>4
  <2>10. Above(n)' /\ Shut(n)'
    BY <1>e, <1>p, <1>t, <2>1, <2>3, <2>8 DEF p
  <2> QED
    BY <1>i, <1>p, <2>7, <2>9, <2>10 DEF p
<1>3. ASSUME NEW n \in Nodes, ReadRecord(n) PROVE FenceInv'
  <2>1. /\ newest' = [newest EXCEPT ![n] = [epoch |-> session[n],
                                            record |-> Head(wire[n]).value]]
        /\ UNCHANGED <<session, gate, rise>>
    BY <1>3 DEF ReadRecord
  <2>2. \A m \in Nodes : newest'[m].epoch <= session[m]
    BY <1>t, <1>m, <2>1
  <2> QED
    BY <1>e, <1>i, <1>m, <2>1, <2>2
<1>4. ASSUME NEW n \in Nodes, Restart(n) PROVE FenceInv'
  <2> DEFINE p == Peer(n)
  <2>1. p \in Nodes /\ p # n /\ Peer(p) = n /\ \A m \in Nodes : m = n \/ m = p
    BY PeerFacts
  <2>2. /\ gate' = [gate EXCEPT ![n] = 0] /\ session' = [session EXCEPT ![p] = 0]
        /\ newest' = [newest EXCEPT ![p] = [epoch |-> 0, record |-> 0]]
        /\ rise' = [rise EXCEPT ![n] = Steady]
    BY <1>4 DEF Restart
  <2>3. newest'[p].epoch <= session'[p] /\ session'[p] <= Current(gate'[Peer(p)])
    BY <1>t, <2>1, <2>2 DEF Current
  <2>4. newest'[n].epoch <= session'[n] /\ session'[n] <= Current(gate'[Peer(n)])
    BY <1>t, <1>m, <2>1, <2>2
  <2>5. Above(n)' /\ Shut(n)'
    BY <1>t, <2>2 DEF Steady
  <2>6. Above(p)' /\ Shut(p)'
    <3>1. rise'[p] = rise[p] /\ gate'[p] = gate[p] /\ session'[n] = session[n]
      BY <1>t, <2>1, <2>2
    <3> QED
      BY <1>e, <2>1, <3>1
  <2> QED
    BY <1>i, <2>1, <2>3, <2>4, <2>5, <2>6
<1>5. ASSUME UNCHANGED <<gate, session, newest, rise>> PROVE FenceInv'
  BY <1>5 DEF FenceInv
<1>6. ASSUME NEW n \in Nodes,
             Demote(n) \/ Push(n) \/ DrainWithLag(n) \/ PutBack(n) \/ Flush(n) \/ WriteFence(n)
               \/ WriteLagged(n) \/ WriteRecord(n) \/ WriteFails(n)
      PROVE  FenceInv'
  BY <1>5, <1>6 DEF Demote, Push, DrainWithLag, PutBack, Flush, WriteFence, WriteLagged,
                    WriteRecord, WriteFails, receiver
<1>7. ASSUME NEW n \in Nodes, Refuse(n) \/ ReadLagged(n) \/ SessionLost(n) PROVE FenceInv'
  BY <1>5, <1>7 DEF Refuse, ReadLagged, SessionLost, receiver
<1>8. CASE UNCHANGED vars
  BY <1>5, <1>8 DEF vars
<1> QED
  BY <1>1, <1>2, <1>3, <1>4, <1>6, <1>7, <1>8 DEF Next, Sync

\* A fresh pair has seen no epoch.
LEMMA FenceInit == Init => FenceInv
<1> SUFFICES ASSUME Init, NEW n \in Nodes
             PROVE  /\ newest[n].epoch <= session[n] /\ session[n] <= Current(gate[Peer(n)])
                    /\ rise[n].pc = "none" /\ rise[Peer(n)].pc = "none"
  BY DEF FenceInv
<1>1. Peer(n) \in Nodes
  BY PeerFacts
<1>2. newest[n].epoch = 0 /\ session[n] = 0 /\ gate[Peer(n)] = 0
  BY <1>1 DEF Init
<1>3. rise[n].pc = "none" /\ rise[Peer(n)].pc = "none"
  BY <1>1 DEF Init, Steady
<1> QED
  BY <1>2, <1>3 DEF Current

\* When a promotion stores its epoch, the node's gate already refuses every lower
\* one, and the epoch outranks every generation in the node's table unless a
\* fence was admitted while the promotion was minting: through any number of
\* failovers, restarts and broken sessions, with the reader running between the
\* steps of apply_transition.
THEOREM TableOutranked == Spec => SuccessorOutranksTable
<1>1. ASSUME TypeOK, FenceInv, NEW n \in Nodes, StoreEpoch(n)
      PROVE  /\ Current(gate[n]) >= epoch'[n]
             /\ ~rise[n].raced => epoch'[n] > newest[Peer(n)].epoch
  <2>1. epoch'[n] = rise[n].epoch /\ rise[n].pc = "store"
    BY <1>1 DEF StoreEpoch, TypeOK
  <2>2. Peer(n) \in Nodes /\ Peer(Peer(n)) = n
    BY PeerFacts
  <2>3. /\ newest[Peer(n)].epoch <= session[Peer(n)]
        /\ rise[n].epoch <= Current(gate[n])
        /\ ~rise[n].raced => session[Peer(n)] < rise[n].epoch
    BY <1>1, <2>1, <2>2 DEF FenceInv
  <2>4. /\ newest[Peer(n)].epoch \in Nat /\ session[Peer(n)] \in Nat
        /\ Current(gate[n]) \in Nat /\ rise[n].epoch \in Nat
    <3>1. /\ newest \in [Nodes -> [epoch: Nat, record: Nat]]
          /\ rise \in [Nodes -> [pc: RisePcs, epoch: Nat, raced: BOOLEAN]]
          /\ session \in [Nodes -> Nat] /\ gate \in [Nodes -> Nat]
      BY <1>1 DEF TypeOK
    <3> QED
      BY <2>2, <3>1 DEF Current
  <2> QED
    BY <2>1, <2>3, <2>4
<1>2. ASSUME TypeOK, FenceInv
      PROVE  [\A n \in Nodes :
                StoreEpoch(n) => /\ Current(gate[n]) >= epoch'[n]
                                 /\ ~rise[n].raced => epoch'[n] > newest[Peer(n)].epoch]_vars
  BY <1>1, <1>2
<1> QED
  BY <1>2, TypeInit, TypeStep, FenceInit, FenceStep, PTL DEF Spec, SuccessorOutranksTable

\* Every operation keeps every stream in order.
LEMMA OrderStep ==
    ASSUME TypeOK, PumpInv, OrderInv, [Next]_vars
    PROVE  OrderInv'
<1> DEFINE InOrder(m) == Ordered(newest[m].record, wire[m], pump[m].batch, queue[m], pushed[m])
<1>t. \A m \in Nodes :
        /\ newest[m].record \in Nat /\ wire[m] \in Seq(Frames) /\ pump[m].batch \in Seq(Nat)
        /\ queue[m] \in Seq(Nat) /\ pushed[m] \in Nat
  <2>1. /\ newest \in [Nodes -> [epoch: Nat, record: Nat]] /\ wire \in [Nodes -> Seq(Frames)]
        /\ pump \in [Nodes -> [pc: PumpPcs, lag: BOOLEAN, batch: Seq(Nat), epoch: Nat]]
        /\ queue \in [Nodes -> Seq(Nat)] /\ pushed \in [Nodes -> 0..MaxRecords]
        /\ MaxRecords \in Nat
    BY BoundsAssumption DEF TypeOK
  <2> QED
    BY <2>1
<1>f. /\ newest \in [Nodes -> [epoch: Nat, record: Nat]] /\ wire \in [Nodes -> Seq(Frames)]
      /\ pump \in [Nodes -> [pc: PumpPcs, lag: BOOLEAN, batch: Seq(Nat), epoch: Nat]]
      /\ queue \in [Nodes -> Seq(Nat)] /\ pushed \in [Nodes -> 0..MaxRecords]
  BY DEF TypeOK
<1>o. \A m \in Nodes : InOrder(m)
  BY DEF OrderInv
<1>d. ASSUME NEW m \in Nodes
      PROVE  /\ Ordered(newest[m].record, <<>>, pump[m].batch, queue[m], pushed[m])
             /\ Ordered(newest[m].record, wire[m], <<>>, queue[m], pushed[m])
             /\ Ordered(newest[m].record, <<>>, <<>>, queue[m], pushed[m])
             /\ Ordered(newest[m].record, <<>>, <<>>, <<>>, pushed[m])
             /\ Ordered(0, <<>>, pump[m].batch, queue[m], pushed[m])
  <2>1. Elements(pump[m].batch) \subseteq Nat /\ Elements(queue[m]) \subseteq Nat
    BY <1>t, NumbersHeld
  <2>2. RecordsIn(wire[m]) \subseteq Nat
    BY <1>t, NumbersHeld
  <2> QED
    BY <1>t, <1>o, <2>1, <2>2, OrderedDrop
<1>1. ASSUME NEW n \in Nodes, Push(n) PROVE OrderInv'
  <2>1. /\ queue' = [queue EXCEPT ![n] =
                       Append(IF Full(n) THEN Tail(queue[n]) ELSE queue[n], pushed[n] + 1)]
        /\ pushed' = [pushed EXCEPT ![n] = pushed[n] + 1]
        /\ UNCHANGED <<newest, wire, pump>>
    BY <1>1 DEF Push, receiver
  <2>2. Elements(pump[n].batch) \subseteq Nat /\ RecordsIn(wire[n]) \subseteq Nat
    BY <1>t, NumbersHeld
  <2>3. Full(n) => queue[n] # <<>>
    BY <1>t, QueueAssumption, EmptySeq DEF Full
  <2>4. Ordered(newest[n].record, wire[n], pump[n].batch,
                Append(IF Full(n) THEN Tail(queue[n]) ELSE queue[n], pushed[n] + 1),
                pushed[n] + 1)
    BY <1>t, <1>o, <2>2, <2>3, OrderedPush
  <2> QED
    BY <1>f, <1>o, <2>1, <2>4 DEF OrderInv
<1>2. ASSUME NEW n \in Nodes, DrainWithLag(n) PROVE OrderInv'
  <2> DEFINE k == Shorter(Len(queue[n]), BatchSize)
             taken == SubSeq(queue[n], 1, k)
             rest == SubSeq(queue[n], k + 1, Len(queue[n]))
  <2>1. k \in 0..Len(queue[n])
    BY <1>t, QueueAssumption DEF Shorter
  <2>2. pump[n].batch = <<>>
    BY <1>2 DEF DrainWithLag, PumpInv, Idle
  <2>3. Ordered(newest[n].record, wire[n], taken, rest, pushed[n])
    BY <1>t, <1>o, <2>1, <2>2, OrderedDrain
  <2>4. /\ pump' = [pump EXCEPT ![n] = [pc    |-> IF k = 0 THEN "put_back" ELSE "fence",
                                        lag   |-> lagged[n],
                                        batch |-> taken,
                                        epoch |-> epoch[n]]]
        /\ queue' = [queue EXCEPT ![n] = rest]
        /\ UNCHANGED <<newest, wire, pushed>>
    BY <1>2 DEF DrainWithLag, receiver
  <2> HIDE DEF k, taken, rest
  <2> QED
    BY <1>f, <1>o, <2>3, <2>4 DEF OrderInv
<1>3. ASSUME NEW n \in Nodes, PutBack(n) \/ Flush(n) PROVE OrderInv'
  <2>1. pump' = [pump EXCEPT ![n] = Idle] /\ UNCHANGED <<newest, wire, queue, pushed>>
    BY <1>3 DEF PutBack, Flush, receiver
  <2>2. \A m \in Nodes : pump'[m].batch = IF m = n THEN <<>> ELSE pump[m].batch
    BY <1>f, <2>1 DEF Idle
  <2> QED
    BY <1>d, <1>o, <2>1, <2>2 DEF OrderInv
<1>4. ASSUME NEW n \in Nodes, WriteFence(n) \/ WriteLagged(n) PROVE OrderInv'
  <2>1. PICK f \in Frames : /\ f.kind # "Record"
                            /\ wire' = [wire EXCEPT ![n] = Append(wire[n], f)]
    <3>1. pump[n].epoch \in Nat
      BY <1>f
    <3>2. /\ FenceFrame(pump[n].epoch) \in Frames /\ LaggedFrame \in Frames
          /\ FenceFrame(pump[n].epoch).kind # "Record" /\ LaggedFrame.kind # "Record"
      BY <3>1 DEF FenceFrame, LaggedFrame, Frames
    <3> QED
      BY <1>4, <3>2 DEF WriteFence, WriteLagged, Write
  <2>2. UNCHANGED <<newest, queue, pushed>>
    BY <1>4 DEF WriteFence, WriteLagged, receiver
  <2>3. \A m \in Nodes : pump'[m].batch = pump[m].batch
    <3>1. CASE WriteFence(n)
      BY <1>f, <3>1 DEF WriteFence
    <3>2. CASE WriteLagged(n)
      <4>1. pump' = [pump EXCEPT ![n] = [pump[n] EXCEPT !.pc = "records", !.lag = FALSE]]
        BY <3>2 DEF WriteLagged
      <4> QED
        BY <1>f, <4>1
    <3> QED
      BY <1>4, <3>1, <3>2
  <2>4. Ordered(newest[n].record, Append(wire[n], f), pump[n].batch, queue[n], pushed[n])
    BY <1>t, <1>o, <2>1, OrderedWrite
  <2> QED
    BY <1>f, <1>o, <2>1, <2>2, <2>3, <2>4 DEF OrderInv
<1>5. ASSUME NEW n \in Nodes, WriteRecord(n) PROVE OrderInv'
  <2> DEFINE b == pump[n].batch
  <2>1. /\ wire' = [wire EXCEPT ![n] = Append(wire[n], RecordFrame(Head(b)))]
        /\ UNCHANGED <<newest, queue, pushed>>
    BY <1>5 DEF WriteRecord, Write, receiver
  <2>2. \A m \in Nodes : pump'[m].batch = IF m = n THEN Tail(b) ELSE pump[m].batch
    BY <1>5, <1>f DEF WriteRecord
  <2>3. b # <<>>
    BY <1>5 DEF WriteRecord, PumpInv
  <2>4. Ordered(newest[n].record, Append(wire[n], RecordFrame(Head(b))), Tail(b), queue[n],
                pushed[n])
    BY <1>t, <1>o, <2>3, OrderedWrite
  <2> HIDE DEF b
  <2> QED
    BY <1>f, <1>o, <2>1, <2>2, <2>4 DEF OrderInv
<1>6. ASSUME NEW n \in Nodes, WriteFails(n) PROVE OrderInv'
  <2>1. /\ pump' = [pump EXCEPT ![n] = Idle] /\ UNCHANGED <<newest, queue, pushed>>
        /\ wire' = wire \/ wire' = [wire EXCEPT ![n] = <<>>]
    BY <1>6 DEF WriteFails, receiver
  <2>2. \A m \in Nodes : pump'[m].batch = IF m = n THEN <<>> ELSE pump[m].batch
    BY <1>f, <2>1 DEF Idle
  <2> QED
    BY <1>d, <1>f, <1>o, <2>1, <2>2 DEF OrderInv
<1>7. ASSUME NEW n \in Nodes, ReadFence(n) \/ ReadLagged(n) \/ ReadRecord(n) PROVE OrderInv'
  <2>1. /\ wire' = [wire EXCEPT ![n] = Tail(wire[n])] /\ wire[n] # <<>>
        /\ UNCHANGED <<pump, queue, pushed>>
    BY <1>7 DEF ReadFence, ReadLagged, ReadRecord, Consume, Arrives, sender
  <2>2. IF Head(wire[n]).kind = "Record"
        THEN Ordered(Head(wire[n]).value, Tail(wire[n]), pump[n].batch, queue[n], pushed[n])
        ELSE Ordered(newest[n].record, Tail(wire[n]), pump[n].batch, queue[n], pushed[n])
    BY <1>t, <1>o, <2>1, OrderedRead
  <2>3. /\ Head(wire[n]).kind = "Record" => newest'[n].record = Head(wire[n]).value
        /\ Head(wire[n]).kind # "Record" => newest' = newest
        /\ \A m \in Nodes \ {n} : newest'[m] = newest[m]
    BY <1>7, <1>f DEF ReadFence, ReadLagged, ReadRecord, Arrives
  <2> QED
    BY <1>f, <1>o, <2>1, <2>2, <2>3 DEF OrderInv
<1>8. ASSUME NEW n \in Nodes, Refuse(n) \/ SessionLost(n) PROVE OrderInv'
  <2>1. /\ wire' = [wire EXCEPT ![n] = <<>>]
        /\ UNCHANGED <<newest, pump, queue, pushed>>
    BY <1>8 DEF Refuse, SessionLost, sender, receiver
  <2> QED
    BY <1>d, <1>f, <1>o, <2>1 DEF OrderInv
<1>9. ASSUME NEW n \in Nodes, Restart(n) PROVE OrderInv'
  <2> DEFINE p == Peer(n)
  <2>1. p \in Nodes /\ p # n /\ \A m \in Nodes : m = n \/ m = p
    BY PeerFacts
  <2>2. /\ queue' = [queue EXCEPT ![n] = <<>>] /\ pump' = [pump EXCEPT ![n] = Idle]
        /\ wire' = [m \in Nodes |-> <<>>] /\ pushed' = pushed
        /\ newest' = [newest EXCEPT ![p] = [epoch |-> 0, record |-> 0]]
    BY <1>9 DEF Restart
  <2> HIDE DEF p
  <2>3. /\ newest'[n] = newest[n] /\ wire'[n] = <<>> /\ pump'[n].batch = <<>>
        /\ queue'[n] = <<>>
    BY <1>f, <2>1, <2>2 DEF Idle
  <2>4. /\ newest'[p].record = 0 /\ wire'[p] = <<>> /\ pump'[p] = pump[p]
        /\ queue'[p] = queue[p]
    BY <1>f, <2>1, <2>2
  <2>5. InOrder(n)'
    BY <1>d, <2>2, <2>3
  <2>6. InOrder(p)'
    BY <1>d, <2>1, <2>2, <2>4
  <2> QED
    BY <2>1, <2>5, <2>6 DEF OrderInv
<1>10. ASSUME UNCHANGED <<newest, wire, pump, queue, pushed>> PROVE OrderInv'
  BY <1>10 DEF OrderInv
<1>11. ASSUME NEW n \in Nodes, Promotion(n) \/ Demote(n) PROVE OrderInv'
  BY <1>10, <1>11 DEF Promotion, Promote, AdmitOwn, StoreEpoch, ResetLagged, AcquireFails,
                      Demote, sender, receiver
<1>12. CASE UNCHANGED vars
  BY <1>10, <1>12 DEF vars
<1> QED
  BY <1>1, <1>2, <1>3, <1>4, <1>5, <1>6, <1>7, <1>8, <1>9, <1>11, <1>12 DEF Next, Sync

\* A fresh pair's streams are empty.
LEMMA OrderInit == Init => OrderInv
<1> SUFFICES ASSUME Init, NEW n \in Nodes
             PROVE  Ordered(newest[n].record, wire[n], pump[n].batch, queue[n], pushed[n])
  BY DEF OrderInv
<1>1. /\ newest[n].record = 0 /\ wire[n] = <<>> /\ pump[n].batch = <<>> /\ queue[n] = <<>>
      /\ pushed[n] = 0
  BY DEF Init, Idle
<1> QED
  BY <1>1, NothingHeld DEF Ordered

\* The passive's table only moves forward, for any capacity, batch size and
\* number of failovers, failed writes, broken sessions and restarts: a frame of
\* an older batch or of a deposed generation never follows a newer one.
THEOREM TableNeverBack == Spec => AppliedInOrder
<1>1. ASSUME TypeOK, OrderInv, FenceInv, [Next]_vars, NEW n \in Nodes
      PROVE  \/ newest'[n] = newest[n]
             \/ newest'[n].record > newest[n].record /\ newest'[n].epoch >= newest[n].epoch
             \/ newest'[n].record = 0
  <2>t. newest \in [Nodes -> [epoch: Nat, record: Nat]] /\ session \in [Nodes -> Nat]
    BY <1>1 DEF TypeOK
  <2>1. ASSUME NEW m \in Nodes, ReadRecord(m)
        PROVE  \/ newest'[n] = newest[n]
               \/ newest'[n].record > newest[n].record /\ newest'[n].epoch >= newest[n].epoch
    <3>1. newest' = [newest EXCEPT ![m] = [epoch  |-> session[m],
                                           record |-> Head(wire[m]).value]]
      BY <2>1 DEF ReadRecord
    <3>2. wire[m] \in Seq(Frames) /\ wire[m] # <<>> /\ Head(wire[m]).kind = "Record"
      BY <1>1, <2>1 DEF ReadRecord, Arrives, TypeOK
    <3>3. newest[m].record < Head(wire[m]).value
      BY <1>1, <3>2, OrderedRead DEF OrderInv
    <3>4. newest[m].epoch <= session[m]
      BY <1>1 DEF FenceInv
    <3>5. Head(wire[m]).value \in Nat
      <4>1. Head(wire[m]) \in Frames
        BY <3>2, HeadTailProperties
      <4> QED
        BY <4>1 DEF Frames
    <3> QED
      BY <2>t, <3>1, <3>3, <3>4, <3>5
  <2>2. ASSUME NEW m \in Nodes, Restart(m)
        PROVE  newest'[n] = newest[n] \/ newest'[n].record = 0
    BY <2>t, <2>2, PeerFacts DEF Restart
  <2>3. ASSUME NEW m \in Nodes,
               Promotion(m) \/ Demote(m) \/ Push(m) \/ DrainWithLag(m) \/ PutBack(m) \/ Flush(m)
                 \/ WriteFence(m) \/ WriteLagged(m) \/ WriteRecord(m) \/ WriteFails(m)
        PROVE  newest' = newest
    BY <2>3 DEF Promotion, Promote, AdmitOwn, StoreEpoch, ResetLagged, AcquireFails, Demote,
                Push, DrainWithLag, PutBack, Flush, WriteFence, WriteLagged, WriteRecord,
                WriteFails, receiver
  <2>4. ASSUME NEW m \in Nodes, ReadFence(m) \/ Refuse(m) \/ ReadLagged(m) \/ SessionLost(m)
        PROVE  newest' = newest
    BY <2>4 DEF ReadFence, Refuse, ReadLagged, SessionLost, receiver
  <2>5. CASE UNCHANGED vars
    BY <2>5 DEF vars
  <2> QED
    BY <1>1, <2>1, <2>2, <2>3, <2>4, <2>5 DEF Next, Sync
<1>2. ASSUME TypeOK, OrderInv, FenceInv, [Next]_vars
      PROVE  [\A n \in Nodes :
                \/ newest'[n] = newest[n]
                \/ newest'[n].record > newest[n].record
                   /\ newest'[n].epoch >= newest[n].epoch
                \/ newest'[n].record = 0]_vars
  BY <1>1, <1>2
<1> QED
  BY <1>2, TypeInit, TypeStep, FenceInit, FenceStep, OrderInit, OrderStep, PTL
     DEF Spec, AppliedInOrder

-----------------------------------------------------------------------------
(* No silent loss within one generation *)

\* A frame more on the wire, as the fences see it.
LEMMA FenceAppended ==
    ASSUME NEW s \in Seq(Frames), NEW f \in Frames, FencesAscend(s),
           f.kind = "Fence" => \A e \in FencesIn(s) : e <= f.value
    PROVE  /\ FencesAscend(Append(s, f))
           /\ FencesIn(Append(s, f))
                = FencesIn(s) \cup IF f.kind = "Fence" THEN {f.value} ELSE {}
<1> DEFINE t == Append(s, f)
<1>1. /\ DOMAIN s = 1..Len(s) /\ Len(s) \in Nat /\ DOMAIN t = 1..(Len(s) + 1)
      /\ \A i \in 1..Len(s) : t[i] = s[i]
      /\ t[Len(s) + 1] = f /\ Elements(t) = Elements(s) \cup {f}
  BY AppendFacts
<1> HIDE DEF t
<1>2. FencesIn(t) = FencesIn(s) \cup IF f.kind = "Fence" THEN {f.value} ELSE {}
  BY <1>1 DEF FencesIn
<1>3. \A i \in 1..Len(s) : s[i].kind = "Fence" => s[i].value \in FencesIn(s)
  BY <1>1 DEF FencesIn, Elements
<1>4. ASSUME NEW i \in 1..(Len(s) + 1), NEW j \in 1..(Len(s) + 1), i < j,
             t[i].kind = "Fence", t[j].kind = "Fence"
      PROVE  t[i].value <= t[j].value
  <2>1. i \in 1..Len(s)
    BY <1>1, <1>4
  <2>2. CASE j = Len(s) + 1
    BY <1>1, <1>3, <1>4, <2>1, <2>2
  <2>3. CASE j # Len(s) + 1
    <3>1. j \in 1..Len(s)
      BY <1>1, <2>3
    <3> QED
      BY <1>1, <1>4, <2>1, <3>1 DEF FencesAscend
  <2> QED
    BY <2>2, <2>3
<1> QED
  BY <1>1, <1>2, <1>4 DEF FencesAscend, t

\* A frame fewer on the wire: a fence that is read is below those behind it.
LEMMA FenceConsumed ==
    ASSUME NEW s \in Seq(Frames), s # <<>>, FencesAscend(s)
    PROVE  /\ FencesAscend(Tail(s)) /\ FencesIn(Tail(s)) \subseteq FencesIn(s)
           /\ Head(s).kind = "Fence" => /\ Head(s).value \in FencesIn(s)
                                        /\ \A e \in FencesIn(Tail(s)) : Head(s).value <= e
<1> DEFINE n == Len(s) - 1
           t == Tail(s)
           f == Head(s)
<1>1. /\ n \in Nat /\ DOMAIN s = 1..(n + 1) /\ DOMAIN t = 1..n /\ f = s[1]
      /\ \A i \in 1..n : t[i] = s[i + 1]
      /\ Elements(s) = {f} \cup Elements(t)
  BY TailFacts
<1> HIDE DEF n, t, f
<1>2. /\ FencesIn(t) \subseteq FencesIn(s)
      /\ f.kind = "Fence" => f.value \in FencesIn(s)
  BY <1>1 DEF FencesIn
<1>3. \A i \in 1..n : i + 1 \in 1..(n + 1) /\ 1 \in 1..(n + 1) /\ 1 < i + 1
  BY <1>1
<1>4. ASSUME NEW i \in 1..n, NEW j \in 1..n, i < j,
             t[i].kind = "Fence", t[j].kind = "Fence"
      PROVE  t[i].value <= t[j].value
  <2>1. i + 1 < j + 1
    BY <1>1, <1>4
  <2> QED
    BY <1>1, <1>3, <1>4, <2>1 DEF FencesAscend
<1>5. f.kind = "Fence" => \A e \in FencesIn(t) : f.value <= e
  <2>1. ASSUME f.kind = "Fence", NEW e \in FencesIn(t) PROVE f.value <= e
    <3>1. PICK i \in 1..n : t[i].kind = "Fence" /\ e = t[i].value
      BY <1>1 DEF FencesIn, Elements
    <3> QED
      BY <1>1, <1>3, <2>1, <3>1 DEF FencesAscend
  <2> QED
    BY <2>1
<1> QED
  BY <1>1, <1>2, <1>4, <1>5 DEF FencesAscend, t, f

\* An empty connection carries no fence.
LEMMA NoFences == FencesIn(<<>>) = {} /\ FencesAscend(<<>>)
  BY DEF FencesIn, Elements, FencesAscend

\* Fences carry epochs.
LEMMA FencesHeld == \A s \in Seq(Frames) : FencesIn(s) \subseteq Nat
<1>1. \A f \in Frames : f.value \in Nat
  BY DEF Frames
<1>2. \A s \in Seq(Frames) : Elements(s) \subseteq Frames
  BY LenProperties DEF Elements
<1> QED
  BY <1>1, <1>2 DEF FencesIn

\* Within one generation a step of one stream leaves the other one alone, and
\* the node that was not promoted has no stream.
LEMMA GenerationKept ==
    ASSUME NEW m \in Nodes, GenerationOf(m), gate'[m] \in {0, 1, 2},
           UNCHANGED <<epoch[m], role[m], rise[m].pc, rise[m].epoch, pump[m], wire[m], pushed[m]>>,
           \/ ~Risen(m)
           \/ /\ gate'[Peer(m)] = gate[Peer(m)]
              /\ Risen(Peer(m))' => Risen(Peer(m))
    PROVE  GenerationOf(m)'
<1>1. CASE ~Risen(m)
  <2>1. wire'[m] = <<>> /\ pump'[m] = Idle /\ ~Risen(m)'
    BY <1>1 DEF GenerationOf, Risen
  <2>2. FencesIn(wire'[m]) = {} /\ FencesAscend(wire'[m])
    BY <2>1, NoFences
  <2> QED
    BY <1>1, <2>1, <2>2 DEF GenerationOf, Idle
<1>2. CASE Risen(m)
  BY <1>2 DEF GenerationOf, Risen
<1> QED
  BY <1>1, <1>2

\* Within one generation no reader ever returns Fenced.
LEMMA NothingRefused ==
    ASSUME NEW n \in Nodes, \A m \in Nodes : GenerationOf(m), TypeOK
    PROVE  ~Refuse(n)
<1> SUFFICES ASSUME Refuse(n) PROVE FALSE
  OBVIOUS
<1>1. wire[n] # <<>> /\ wire[n] \in Seq(Frames)
  BY DEF Refuse, Arrives, TypeOK
<1>2. CASE Arrives(n, "Fence")
  <2>1. Head(wire[n]).value \in FencesIn(wire[n])
    BY <1>1, <1>2, FenceConsumed DEF Arrives, GenerationOf
  <2>2. Current(gate[Peer(n)]) <= Head(wire[n]).value
    BY <2>1 DEF GenerationOf
  <2>3. Head(wire[n]).value \in Nat
    <3>1. Head(wire[n]) \in Frames
      BY <1>1, TailFacts
    <3> QED
      BY <3>1 DEF Frames
  <2>4. Current(gate[Peer(n)]) \in Nat
    <3>1. Peer(n) \in Nodes /\ gate \in [Nodes -> Nat]
      BY PeerFacts DEF TypeOK
    <3>2. gate[Peer(n)] \in Nat
      BY <3>1
    <3> QED
      BY <3>2 DEF Current
  <2> QED
    BY <1>2, <2>2, <2>3, <2>4 DEF Refuse, Admits
<1>3. CASE ~Arrives(n, "Fence")
  <2>1. ~Primed(gate[Peer(n)])
    BY <1>3 DEF Refuse
  <2> QED
    BY <1>1, <1>3, <2>1 DEF GenerationOf, Arrives
<1> QED
  BY <1>2, <1>3

\* Every operation keeps the pair within one generation.
LEMMA GenerationStep ==
    ASSUME OneGeneration, TypeOK, PumpInv, GenerationInv, [Next]_vars
    PROVE  GenerationInv'
<1> DEFINE Calls == [pc: PumpPcs, lag: BOOLEAN, batch: Seq(Nat), epoch: Nat]
           Rises == [pc: RisePcs, epoch: Nat, raced: BOOLEAN]
<1>f. /\ role \in [Nodes -> {"Backup", "Master"}] /\ epoch \in [Nodes -> Nat]
      /\ gate \in [Nodes -> Nat] /\ pump \in [Nodes -> Calls] /\ rise \in [Nodes -> Rises]
      /\ wire \in [Nodes -> Seq(Frames)] /\ queue \in [Nodes -> Seq(Nat)]
      /\ pushed \in [Nodes -> 0..MaxRecords] /\ promotions \in Nat
  BY BoundsAssumption DEF TypeOK
<1>g. \A m \in Nodes : GenerationOf(m)
  BY DEF GenerationInv
<1>z. promotions = 0 => \A m \in Nodes : epoch[m] = 0 /\ gate[m] = 0 /\ rise[m] = Steady
  BY DEF GenerationInv
<1>p. \A m \in Nodes : Peer(m) \in Nodes /\ Peer(m) # m /\ Peer(Peer(m)) = m
                       /\ \A k \in Nodes : k = m \/ k = Peer(m)
  BY PeerFacts
<1>q. ASSUME NEW m \in Nodes PROVE /\ gate[m] \in {0, 1, 2} /\ epoch[m] \in {0, 1}
                                    /\ Current(gate[m]) \in {0, 1}
  BY <1>g DEF GenerationOf, Current
<1> HIDE DEF Calls, Rises
<1>1. ASSUME NEW n \in Nodes, Promotion(n) PROVE GenerationInv'
  <2> DEFINE r == rise[n]
             p == Peer(n)
  <2>1. /\ UNCHANGED <<pump, wire, pushed>> /\ p \in Nodes /\ p # n /\ Peer(p) = n
        /\ \A m \in Nodes : m = n \/ m = p
        /\ UNCHANGED <<epoch[p], gate[p], role[p], rise[p]>>
    BY <1>1, <1>f, <1>p DEF Promotion, Promote, AdmitOwn, StoreEpoch, ResetLagged,
                            AcquireFails, sender
  <2>2. promotions' # 0 /\ Risen(n)' /\ ~Risen(p) /\ ~Risen(p)'
    <3>1. CASE Promote(n)
      <4>1. promotions = 0 /\ promotions' # 0
        BY <3>1, <1>f, BoundsAssumption DEF Promote, OneGeneration
      <4>2. rise'[n].pc = "admit"
        BY <3>1, <1>f DEF Promote
      <4> QED
        BY <1>z, <2>1, <4>1, <4>2 DEF Risen, Steady
    <3>2. CASE ~Promote(n)
      <4>1. rise[n].pc # "none" /\ promotions' = promotions
        BY <1>1, <3>2 DEF Promotion, AdmitOwn, StoreEpoch, ResetLagged, AcquireFails, bounds
      <4>2. promotions # 0
        BY <1>z, <4>1 DEF Steady
      <4>3. Risen(n) /\ ~Risen(p)
        BY <1>g, <4>1 DEF Risen, GenerationOf
      <4>4. ~Risen(p)'
        BY <2>1, <4>3 DEF Risen
      <4>5. rise'[n].pc # "none" \/ epoch'[n] # 0
        <5>1. r.pc \in {"admit", "store"} => r.epoch = 1
          BY <1>g DEF GenerationOf
        <5>2. r.pc = "acquire" => epoch[n] = 1
          BY <1>g DEF GenerationOf
        <5> QED
          BY <1>1, <1>f, <3>2, <5>1, <5>2 DEF Promotion, AdmitOwn, StoreEpoch, ResetLagged,
                                              AcquireFails, Rises
      <4> QED
        BY <4>1, <4>2, <4>3, <4>4, <4>5 DEF Risen
    <3> QED
      BY <3>1, <3>2
  <2>3. GenerationOf(p)'
    BY <1>g, <1>q, <2>1, <2>2, GenerationKept
  <2>4. ASSUME epoch'[n] \in {0, 1}, epoch[n] <= epoch'[n], gate'[n] \in {0, 1, 2},
               rise'[n].pc \in {"admit", "store"} => rise'[n].epoch = 1,
               rise'[n].pc = "acquire" => epoch'[n] = 1
        PROVE  GenerationOf(n)'
    <3>1. /\ pump'[n] = pump[n] /\ wire'[n] = wire[n] /\ gate'[p] = gate[p]
          /\ epoch[n] \in {0, 1} /\ Current(gate[p]) \in {0, 1}
      BY <1>q, <2>1
    <3>2. Current(gate[p]) <= epoch'[n]
      <4>1. CASE Risen(n)
        BY <1>g, <2>4, <3>1, <4>1 DEF GenerationOf
      <4>2. CASE ~Risen(n)
        <5>1. promotions = 0
          <6>1. Promote(n)
            BY <1>1, <4>2 DEF Promotion, AdmitOwn, StoreEpoch, ResetLagged, AcquireFails, Risen
          <6> QED
            BY <6>1, <1>f, BoundsAssumption DEF Promote, OneGeneration
        <5> QED
          BY <1>z, <2>1, <2>4, <5>1 DEF Current
      <4> QED
        BY <4>1, <4>2
    <3>3. \A e \in FencesIn(wire[n]) : /\ Current(gate[p]) <= e /\ e <= epoch'[n]
                                       /\ pump[n].pc = "fence" => e <= pump[n].epoch
      <4>1. FencesIn(wire[n]) \subseteq Nat
        BY <1>f, FencesHeld
      <4>2. \A e \in FencesIn(wire[n]) : /\ Current(gate[p]) <= e /\ e <= epoch[n]
                                         /\ pump[n].pc = "fence" => e <= pump[n].epoch
        BY <1>g DEF GenerationOf
      <4> QED
        BY <2>4, <3>1, <4>1, <4>2
    <3>4. pump[n].pc # "idle" => pump[n].epoch <= epoch'[n]
      <4>1. pump[n].epoch \in Nat
        BY <1>f DEF Calls
      <4>2. pump[n].pc # "idle" => pump[n].epoch <= epoch[n]
        BY <1>g DEF GenerationOf
      <4> QED
        BY <2>4, <3>1, <4>1, <4>2
    <3>5. GenerationOf(n)
      BY <1>g
    <3> HIDE DEF p
    <3> QED
      BY <2>2, <2>4, <3>1, <3>2, <3>3, <3>4, <3>5 DEF GenerationOf, p
  <2>5. /\ epoch'[n] \in {0, 1} /\ epoch[n] <= epoch'[n] /\ gate'[n] \in {0, 1, 2}
        /\ rise'[n].pc \in {"admit", "store"} => rise'[n].epoch = 1
        /\ rise'[n].pc = "acquire" => epoch'[n] = 1
    <3>1. /\ r.pc \in {"admit", "store"} => r.epoch = 1
          /\ r.pc = "acquire" => epoch[n] = 1
          /\ gate[n] \in {0, 1, 2} /\ epoch[n] \in {0, 1}
      BY <1>g, <1>q DEF GenerationOf
    <3>2. CASE Promote(n)
      <4>1. promotions = 0
        BY <3>2, <1>f, BoundsAssumption DEF Promote, OneGeneration
      <4>2. MintedEpoch(n) = 1
        BY <1>z, <4>1 DEF MintedEpoch, Current
      <4> QED
        BY <1>f, <3>1, <3>2, <4>2 DEF Promote
    <3>3. CASE AdmitOwn(n)
      <4>1. r.epoch = 1 /\ rise'[n].epoch = r.epoch /\ rise'[n].pc = "store"
        BY <1>f, <3>1, <3>3 DEF AdmitOwn, Rises
      <4>2. gate'[n] \in {gate[n], Advanced(gate[n], 1)} /\ epoch' = epoch
        BY <1>f, <3>3, <4>1 DEF AdmitOwn
      <4>3. Advanced(gate[n], 1) \in {1, 2}
        BY <3>1 DEF Advanced, Current, Larger
      <4> QED
        BY <3>1, <4>1, <4>2, <4>3
    <3>4. CASE StoreEpoch(n)
      <4>1. r.epoch = 1 /\ rise'[n].pc = "acquire" /\ epoch'[n] = r.epoch /\ gate' = gate
        BY <1>f, <3>1, <3>4 DEF StoreEpoch, Rises
      <4> QED
        BY <3>1, <4>1
    <3>5. CASE ResetLagged(n) \/ AcquireFails(n)
      <4>1. rise'[n].pc = "none" /\ epoch' = epoch /\ gate' = gate
        BY <1>f, <3>5 DEF ResetLagged, AcquireFails, Steady
      <4> QED
        BY <3>1, <4>1
    <3> QED
      BY <1>1, <3>2, <3>3, <3>4, <3>5 DEF Promotion
  <2> QED
    BY <2>1, <2>2, <2>3, <2>4, <2>5 DEF GenerationInv
<1>2. ASSUME NEW n \in Nodes, UNCHANGED <<epoch, gate, rise, promotions>>,
             \A m \in Nodes \ {n} : UNCHANGED <<role[m], pump[m], wire[m], pushed[m]>>,
             GenerationOf(n)'
      PROVE  GenerationInv'
  <2>1. ASSUME NEW m \in Nodes, m # n PROVE GenerationOf(m)'
    BY <1>2, <1>g, <1>q, <2>1, GenerationKept DEF Risen
  <2> QED
    BY <1>2, <1>z, <2>1 DEF GenerationInv
<1>3. ASSUME NEW n \in Nodes, Demote(n) \/ Push(n) PROVE GenerationInv'
  <2>1. UNCHANGED <<epoch, gate, rise, promotions, pump, wire>> /\ role[n] = "Master"
    BY <1>3 DEF Demote, Push, sender, bounds
  <2>2. \A m \in Nodes \ {n} : UNCHANGED <<role[m], pump[m], wire[m], pushed[m]>>
    BY <1>3, <1>f DEF Demote, Push, sender
  <2>3. GenerationOf(n) /\ Risen(n)
    BY <1>g, <2>1 DEF GenerationOf
  <2>4. GenerationOf(n)'
    BY <2>1, <2>3 DEF GenerationOf, Risen
  <2> QED
    BY <1>2, <2>1, <2>2, <2>4
<1>4. ASSUME NEW n \in Nodes, DrainWithLag(n) PROVE GenerationInv'
  <2> DEFINE k == Shorter(Len(queue[n]), BatchSize)
             taken == SubSeq(queue[n], 1, k)
             call == [pc    |-> IF k = 0 THEN "put_back" ELSE "fence",
                      lag   |-> lagged[n],
                      batch |-> taken,
                      epoch |-> epoch[n]]
  <2>1. /\ UNCHANGED <<epoch, gate, rise, promotions, role, wire, pushed>>
        /\ role[n] = "Master" /\ pump[n].pc = "idle" /\ pump' = [pump EXCEPT ![n] = call]
    BY <1>4 DEF DrainWithLag, bounds
  <2>2. k \in 0..Len(queue[n])
    BY <1>f, QueueAssumption DEF Shorter
  <2>3. k = 0 => taken = <<>>
    <3>1. taken \in Seq(Nat) /\ Len(taken) = k
      <4> HIDE DEF k
      <4> QED
        BY <1>f, <2>2, SplitSeq
    <3> QED
      BY <3>1, EmptySeq
  <2>4. Risen(n) /\ epoch[n] \in {0, 1} /\ Current(gate[Peer(n)]) <= epoch[n]
    BY <1>g, <2>1 DEF GenerationOf
  <2>5. /\ pump'[n].pc = IF k = 0 THEN "put_back" ELSE "fence"
        /\ pump'[n].batch = taken /\ pump'[n].epoch = epoch[n]
    BY <1>f, <2>1
  <2> HIDE DEF k, taken, call
  <2>6. pump'[n].pc \in {"put_back", "fence"} /\ (pump'[n].pc = "put_back" => k = 0)
    BY <2>5
  <2>7. GenerationOf(n)'
    <3>1. Risen(n)' /\ (Risen(Peer(n))' <=> Risen(Peer(n)))
      BY <2>1, <2>4 DEF Risen
    <3>2. ~Primed(gate[Peer(n)]) => wire[n] = <<>> \/ Head(wire[n]).kind = "Fence"
      BY <1>g DEF GenerationOf
    <3> QED
      BY <1>g, <2>1, <2>3, <2>4, <2>5, <2>6, <3>1, <3>2 DEF GenerationOf
  <2>8. \A m \in Nodes \ {n} : UNCHANGED <<role[m], pump[m], wire[m], pushed[m]>>
    BY <1>f, <2>1
  <2> QED
    BY <1>2, <2>1, <2>7, <2>8
<1>5. ASSUME NEW n \in Nodes, PutBack(n) \/ Flush(n) \/ WriteFails(n) PROVE GenerationInv'
  <2>1. /\ UNCHANGED <<epoch, gate, rise, promotions, role, pushed>>
        /\ pump' = [pump EXCEPT ![n] = Idle]
        /\ wire' = wire \/ wire' = [wire EXCEPT ![n] = <<>>]
    BY <1>5 DEF PutBack, Flush, WriteFails, bounds
  <2>2. \A m \in Nodes \ {n} : UNCHANGED <<role[m], pump[m], wire[m], pushed[m]>>
    BY <1>f, <2>1
  <2>3. pump'[n] = Idle /\ (wire'[n] = wire[n] \/ wire'[n] = <<>>)
    BY <1>f, <2>1
  <2>4. \A e \in FencesIn(wire'[n]) : e \in FencesIn(wire[n])
    BY <2>3, NoFences
  <2>5. FencesAscend(wire'[n])
    BY <1>g, <2>3, NoFences DEF GenerationOf
  <2>6. (Risen(n)' <=> Risen(n)) /\ (Risen(Peer(n))' <=> Risen(Peer(n)))
    BY <2>1 DEF Risen
  <2>7. pump'[n].pc = "idle" /\ ~pump'[n].lag
    BY <2>3 DEF Idle
  <2>8. GenerationOf(n)'
    BY <1>g, <2>1, <2>3, <2>4, <2>5, <2>6, <2>7 DEF GenerationOf
  <2> QED
    BY <1>2, <2>1, <2>2, <2>8
<1>6. ASSUME NEW n \in Nodes, WriteFence(n) \/ WriteLagged(n) \/ WriteRecord(n)
      PROVE  GenerationInv'
  <2> DEFINE c == pump[n]
             d == pump'[n]
  <2>1. UNCHANGED <<epoch, gate, rise, promotions, role, pushed>>
    BY <1>6 DEF WriteFence, WriteLagged, WriteRecord, bounds
  <2>2. \A m \in Nodes \ {n} : UNCHANGED <<role[m], pump[m], wire[m], pushed[m]>>
    BY <1>6, <1>f, <2>1 DEF WriteFence, WriteLagged, WriteRecord, Write
  <2>3. /\ c.pc \in {"fence", "lag", "records"} /\ c.batch # <<>> /\ c.epoch <= epoch[n]
        /\ c.batch \in Seq(Nat) /\ c.lag \in BOOLEAN /\ c.epoch \in Nat
    <3>1. c.pc \in {"fence", "lag", "records"}
      BY <1>6 DEF WriteFence, WriteLagged, WriteRecord
    <3>2. c.batch # <<>>
      BY <3>1 DEF PumpInv
    <3>3. c.epoch <= epoch[n]
      BY <1>g, <3>1 DEF GenerationOf
    <3> QED
      BY <1>f, <3>1, <3>2, <3>3 DEF Calls
  <2>4. PICK f \in Frames : /\ wire' = [wire EXCEPT ![n] = Append(wire[n], f)]
                            /\ f.kind = "Fence" => f.value = c.epoch /\ c.pc = "fence"
                            /\ c.pc = "fence" => f.kind = "Fence"
    <3>1. CASE WriteFence(n)
      <4>1. FenceFrame(c.epoch) \in Frames
        BY <2>3 DEF FenceFrame, Frames
      <4> QED
        BY <2>3, <3>1, <4>1 DEF WriteFence, Write, FenceFrame
    <3>2. CASE WriteLagged(n)
      <4>1. LaggedFrame \in Frames
        BY DEF LaggedFrame, Frames
      <4> QED
        BY <3>2, <4>1 DEF WriteLagged, Write, LaggedFrame
    <3>3. CASE WriteRecord(n)
      <4>1. RecordFrame(Head(c.batch)) \in Frames
        BY <2>3, HeadTailProperties DEF RecordFrame, Frames
      <4> QED
        BY <3>3, <4>1 DEF WriteRecord, Write, RecordFrame
    <3> QED
      BY <1>6, <3>1, <3>2, <3>3
  <2>5. /\ d.pc \in {"lag", "records", "flush"} /\ d.epoch = c.epoch
        /\ d.pc = "flush" => d.batch = <<>>
        /\ d.pc \in {"records", "flush"} => ~d.lag
    <3>1. CASE WriteFence(n)
      <4>1. pump' = [pump EXCEPT ![n] = [c EXCEPT !.pc = IF c.lag THEN "lag" ELSE "records"]]
        BY <3>1 DEF WriteFence
      <4>2. d = [c EXCEPT !.pc = IF c.lag THEN "lag" ELSE "records"]
        BY <1>f, <4>1
      <4>3. c \in Calls
        BY <1>f
      <4>4. d.pc = (IF c.lag THEN "lag" ELSE "records") /\ d.epoch = c.epoch /\ d.lag = c.lag
        BY <4>2, <4>3 DEF Calls
      <4> QED
        BY <2>3, <4>4
    <3>2. CASE WriteLagged(n)
      <4>1. pump' = [pump EXCEPT ![n] = [c EXCEPT !.pc = "records", !.lag = FALSE]]
        BY <3>2 DEF WriteLagged
      <4>2. d = [c EXCEPT !.pc = "records", !.lag = FALSE]
        BY <1>f, <4>1
      <4>3. c \in Calls
        BY <1>f
      <4> QED
        BY <2>3, <4>2, <4>3 DEF Calls
    <3>3. CASE WriteRecord(n)
      <4>1. pump' = [pump EXCEPT ![n] =
                       [c EXCEPT !.batch = Tail(c.batch),
                                 !.pc = IF Len(c.batch) = 1 THEN "flush" ELSE "records"]]
        BY <3>3 DEF WriteRecord
      <4>2. d = [c EXCEPT !.batch = Tail(c.batch),
                          !.pc = IF Len(c.batch) = 1 THEN "flush" ELSE "records"]
        BY <1>f, <4>1
      <4>3. c \in Calls
        BY <1>f
      <4>4. /\ d.pc = (IF Len(c.batch) = 1 THEN "flush" ELSE "records")
            /\ d.batch = Tail(c.batch) /\ d.epoch = c.epoch /\ d.lag = c.lag
        BY <4>2, <4>3 DEF Calls
      <4>5. ~c.lag
        BY <1>g, <3>3 DEF GenerationOf, WriteRecord
      <4>6. Len(c.batch) = 1 => Tail(c.batch) = <<>>
        BY <2>3, TailGone
      <4> QED
        BY <2>3, <4>4, <4>5, <4>6
    <3> QED
      BY <1>6, <3>1, <3>2, <3>3
  <2>6. /\ wire'[n] # <<>> /\ wire'[n] = Append(wire[n], f)
        /\ Head(wire'[n]) = IF wire[n] = <<>> THEN f ELSE Head(wire[n])
    <3>1. wire'[n] = Append(wire[n], f) /\ wire[n] \in Seq(Frames)
      BY <1>f, <2>4
    <3>2. /\ Append(wire[n], f) # <<>>
          /\ Head(Append(wire[n], f)) = IF wire[n] = <<>> THEN f ELSE Head(wire[n])
      BY <3>1, AppendProperties
    <3> QED
      BY <3>1, <3>2
  <2>7. ~Primed(gate[Peer(n)]) => Head(wire'[n]).kind = "Fence"
    BY <1>g, <2>3, <2>4, <2>6 DEF GenerationOf
  <2>8. Risen(n) /\ Risen(n)' /\ (Risen(Peer(n))' <=> Risen(Peer(n)))
    <3>1. Risen(n)
      BY <1>g, <2>3 DEF GenerationOf, Idle
    <3> QED
      BY <2>1, <3>1 DEF Risen
  <2>9. /\ FencesAscend(wire'[n])
        /\ \A e \in FencesIn(wire'[n]) : Current(gate[Peer(n)]) <= e /\ e <= epoch[n]
    <3>1. /\ FencesAscend(wire[n])
          /\ \A e \in FencesIn(wire[n]) : /\ Current(gate[Peer(n)]) <= e /\ e <= epoch[n]
                                          /\ c.pc = "fence" => e <= c.epoch
          /\ c.pc = "fence" => Current(gate[Peer(n)]) <= c.epoch
      BY <1>g DEF GenerationOf
    <3>2. f.kind = "Fence" => \A e \in FencesIn(wire[n]) : e <= f.value
      BY <2>4, <3>1
    <3>3. /\ FencesAscend(wire'[n])
          /\ FencesIn(wire'[n]) = FencesIn(wire[n]) \cup IF f.kind = "Fence" THEN {f.value} ELSE {}
      BY <1>f, <2>6, <3>1, <3>2, FenceAppended
    <3> QED
      BY <2>3, <2>4, <3>1, <3>3
  <2>10. GenerationOf(n)'
    <3>1. GenerationOf(n) /\ gate' = gate /\ epoch' = epoch /\ rise' = rise
      BY <1>g, <2>1
    <3> HIDE DEF d
    <3> QED
      BY <2>3, <2>5, <2>6, <2>7, <2>8, <2>9, <3>1 DEF GenerationOf, d
  <2> QED
    BY <1>2, <2>1, <2>2, <2>10
<1>7. ASSUME NEW n \in Nodes, ReadFence(n) \/ ReadLagged(n) \/ ReadRecord(n)
      PROVE  GenerationInv'
  <2> DEFINE p == Peer(n)
  <2>1. /\ wire[n] # <<>> /\ wire' = [wire EXCEPT ![n] = Tail(wire[n])]
        /\ UNCHANGED <<role, epoch, pump, pushed, promotions>>
    BY <1>7 DEF ReadFence, ReadLagged, ReadRecord, Arrives, Consume, sender, bounds
  <2>2. /\ p \in Nodes /\ p # n /\ Peer(p) = n /\ \A m \in Nodes : m = n \/ m = p
        /\ Risen(n) /\ ~Risen(p) /\ promotions # 0
    <3>1. Risen(n)
      BY <1>g, <2>1 DEF GenerationOf
    <3>2. promotions # 0
      BY <1>z, <3>1 DEF Risen, Steady
    <3> QED
      BY <1>g, <1>p, <3>1, <3>2 DEF GenerationOf
  <2>3. /\ rise'[n] = rise[n] /\ gate'[n] = gate[n]
        /\ rise'[p].pc = rise[p].pc /\ rise'[p].epoch = rise[p].epoch
    BY <1>7, <1>f, <2>2 DEF ReadFence, ReadLagged, ReadRecord, Rises
  <2>4. Risen(n)' /\ ~Risen(p)'
    BY <2>1, <2>2, <2>3 DEF Risen
  <2>5. /\ FencesAscend(Tail(wire[n])) /\ FencesIn(Tail(wire[n])) \subseteq FencesIn(wire[n])
        /\ Head(wire[n]).kind = "Fence" =>
             /\ Head(wire[n]).value \in FencesIn(wire[n])
             /\ \A e \in FencesIn(Tail(wire[n])) : Head(wire[n]).value <= e
    BY <1>f, <1>g, <2>1, FenceConsumed DEF GenerationOf
  <2>6. /\ Primed(gate'[p]) /\ gate'[p] \in {0, 1, 2} /\ Current(gate'[p]) <= epoch[n]
        /\ \A e \in FencesIn(Tail(wire[n])) : Current(gate'[p]) <= e
        /\ pump[n].pc = "fence" => Current(gate'[p]) <= pump[n].epoch
    <3>0. GenerationOf(n)
      BY <1>g
    <3>1. CASE ReadFence(n)
      <4> DEFINE e == Head(wire[n]).value
      <4>1. /\ e \in FencesIn(wire[n]) /\ \A x \in FencesIn(Tail(wire[n])) : e <= x
        BY <2>5, <3>1 DEF ReadFence, Arrives
      <4>2. e <= epoch[n] /\ Current(gate[p]) <= e /\ (pump[n].pc = "fence" => e <= pump[n].epoch)
        BY <3>0, <4>1 DEF GenerationOf
      <4>3. e \in Nat
        <5>1. Head(wire[n]) \in Frames
          BY <1>f, <2>1, TailFacts
        <5> QED
          BY <5>1 DEF Frames
      <4>4. gate'[p] = Advanced(gate[p], e)
        BY <1>f, <2>2, <3>1 DEF ReadFence
      <4> HIDE DEF e
      <4>5. gate'[p] = e + 1
        BY <1>q, <2>2, <4>2, <4>3, <4>4 DEF Advanced, Larger
      <4>6. Current(gate'[p]) = e /\ Primed(gate'[p]) /\ e \in {0, 1}
        BY <1>q, <4>2, <4>3, <4>5 DEF Current, Primed
      <4> QED
        BY <4>1, <4>2, <4>5, <4>6
    <3>2. CASE ReadLagged(n) \/ ReadRecord(n)
      <4>1. gate' = gate /\ Primed(gate[p])
        BY <3>2 DEF ReadLagged, ReadRecord
      <4> QED
        BY <1>q, <2>2, <2>5, <3>0, <4>1 DEF GenerationOf
    <3> QED
      BY <1>7, <3>1, <3>2
  <2>7. GenerationOf(n)'
    <3>1. GenerationOf(n) /\ wire'[n] = Tail(wire[n])
      BY <1>f, <1>g, <2>1
    <3> QED
      BY <2>1, <2>3, <2>4, <2>5, <2>6, <3>1 DEF GenerationOf
  <2>8. GenerationOf(p)'
    <3>1. UNCHANGED <<epoch[p], role[p], pump[p], wire[p], pushed[p]>>
      BY <1>f, <2>1, <2>2
    <3> QED
      BY <1>g, <2>2, <2>3, <2>6, <3>1, GenerationKept
  <2> QED
    BY <2>1, <2>2, <2>7, <2>8 DEF GenerationInv
<1>8. ASSUME NEW n \in Nodes, Refuse(n) PROVE FALSE
  BY <1>8, NothingRefused DEF GenerationInv
<1>9. ASSUME NEW n \in Nodes, SessionLost(n) \/ Restart(n) PROVE FALSE
  BY <1>9 DEF SessionLost, Restart, Fault, OneGeneration
<1>10. CASE UNCHANGED vars
  BY <1>10 DEF vars, GenerationInv, GenerationOf, Risen
<1> QED
  BY <1>1, <1>3, <1>4, <1>5, <1>6, <1>7, <1>8, <1>9, <1>10 DEF Next, Sync

\* A pair starts within its generation.
LEMMA GenerationInit == Init => GenerationInv
<1> SUFFICES ASSUME Init PROVE GenerationInv
  OBVIOUS
<1>1. ASSUME NEW n \in Nodes PROVE GenerationOf(n)
  <2>1. /\ epoch[n] = 0 /\ gate[n] = 0 /\ role[n] = "Backup" /\ pump[n] = Idle
        /\ wire[n] = <<>> /\ pushed[n] = 0 /\ rise[n] = Steady
    BY DEF Init
  <2>2. ~Risen(n)
    BY <2>1 DEF Risen, Steady
  <2> QED
    BY <2>1, <2>2, NoFences DEF GenerationOf, Idle, Steady
<1> QED
  BY <1>1 DEF Init, GenerationInv

\* No operation loses a record of n's stream, or forgets a signal, in silence:
\* what is newly lost is signalled, and a signal only moves on.
LEMMA LossStep ==
    ASSUME OneGeneration, TypeOK, PumpInv, GenerationInv, LagKnown, [Next]_vars
    PROVE  LagKnown'
<1> DEFINE Calls == [pc: PumpPcs, lag: BOOLEAN, batch: Seq(Nat), epoch: Nat]
           Held(m) == applied[m] \cup RecordsIn(wire[m]) \cup Elements(pump[m].batch)
                        \cup Elements(queue[m])
           Safe(m) == (1..pushed[m]) \subseteq Held(m) \/ Signalled(m)
<1>f. /\ pump \in [Nodes -> Calls] /\ wire \in [Nodes -> Seq(Frames)]
      /\ queue \in [Nodes -> Seq(Nat)] /\ pushed \in [Nodes -> 0..MaxRecords]
      /\ lagged \in [Nodes -> BOOLEAN] /\ told \in [Nodes -> BOOLEAN]
      /\ cleared \in [Nodes -> BOOLEAN]
      /\ applied \in [Nodes -> SUBSET Nat] /\ MaxRecords \in Nat /\ promotions \in Nat
  BY BoundsAssumption DEF TypeOK
<1>g. \A m \in Nodes : GenerationOf(m)
  BY DEF GenerationInv
<1>k. LagKnown <=> \A m \in Nodes : Safe(m)
  BY DEF LagKnown, Lost
<1>kp. LagKnown' <=> \A m \in Nodes : Safe(m)'
  BY DEF LagKnown, Lost
<1>s. \A m \in Nodes : Safe(m)
  BY <1>k
<1>h. ASSUME NEW m \in Nodes,
             UNCHANGED <<applied[m], wire[m], pump[m], queue[m], pushed[m], lagged[m], told[m]>>,
             cleared'[m] = cleared[m]
      PROVE  Safe(m)'
  BY <1>s, <1>h DEF Signalled
<1> HIDE DEF Calls, Safe
<1>o. ASSUME NEW n \in Nodes, Safe(n)',
             \A m \in Nodes \ {n} :
               UNCHANGED <<applied[m], wire[m], pump[m], queue[m], pushed[m], lagged[m], told[m],
                           cleared[m]>>
      PROVE  LagKnown'
  <2>1. ASSUME NEW m \in Nodes, m # n PROVE Safe(m)'
    BY <1>o, <1>h, <2>1
  <2> QED
    BY <1>kp, <1>o, <2>1
<1>1. ASSUME NEW n \in Nodes, ResetLagged(n) PROVE LagKnown'
  <2>1. /\ UNCHANGED <<applied, wire, pump, queue, pushed, told>>
        /\ lagged' = [lagged EXCEPT ![n] = FALSE]
        /\ cleared' = [cleared EXCEPT ![n] = cleared[n] \/ lagged[n]]
    BY <1>1 DEF ResetLagged, receiver
  <2>2. lagged[n] \/ cleared[n] => cleared'[n]
    BY <1>f, <2>1
  <2>3. Safe(n)'
    BY <1>s, <2>1, <2>2 DEF Safe, Signalled
  <2>4. \A m \in Nodes \ {n} : lagged'[m] = lagged[m] /\ cleared'[m] = cleared[m]
    BY <1>f, <2>1
  <2> QED
    BY <1>o, <2>1, <2>3, <2>4
<1>2. ASSUME NEW n \in Nodes, Push(n) PROVE LagKnown'
  <2>1. /\ UNCHANGED <<applied, wire, pump, told, cleared>>
        /\ queue' = [queue EXCEPT ![n] =
                       Append(IF Full(n) THEN Tail(queue[n]) ELSE queue[n], pushed[n] + 1)]
        /\ pushed' = [pushed EXCEPT ![n] = pushed[n] + 1]
        /\ lagged' = [lagged EXCEPT ![n] = lagged[n] \/ Full(n)]
    BY <1>2 DEF Push, receiver
  <2>2. lagged'[n] = (lagged[n] \/ Full(n))
    BY <1>f, <2>1
  <2>3. ASSUME Full(n) PROVE Safe(n)'
    BY <2>2, <2>3 DEF Safe, Signalled
  <2>4. ASSUME ~Full(n) PROVE Safe(n)'
    <3>1. queue'[n] = Append(queue[n], pushed[n] + 1) /\ pushed'[n] = pushed[n] + 1
      BY <1>f, <2>1, <2>4
    <3>2. pushed[n] \in Nat /\ pushed[n] + 1 \in Nat
      BY <1>f
    <3>3. Elements(queue'[n]) = Elements(queue[n]) \cup {pushed[n] + 1}
      <4>1. queue[n] \in Seq(Nat)
        BY <1>f
      <4> QED
        BY ONLY <3>1, <3>2, <4>1, AppendFacts
    <3>4. 1..(pushed[n] + 1) = (1..pushed[n]) \cup {pushed[n] + 1}
      BY <3>2
    <3>5. lagged[n] => lagged'[n]
      BY <2>2
    <3> QED
      BY <1>s, <2>1, <3>1, <3>3, <3>4, <3>5 DEF Safe, Signalled
  <2>5. \A m \in Nodes \ {n} : UNCHANGED <<queue[m], pushed[m], lagged[m]>>
    BY <1>f, <2>1
  <2> QED
    BY <1>o, <2>1, <2>3, <2>4, <2>5
<1>3. ASSUME NEW n \in Nodes, DrainWithLag(n) PROVE LagKnown'
  <2> DEFINE k == Shorter(Len(queue[n]), BatchSize)
             taken == SubSeq(queue[n], 1, k)
             rest == SubSeq(queue[n], k + 1, Len(queue[n]))
             call == [pc    |-> IF k = 0 THEN "put_back" ELSE "fence",
                      lag   |-> lagged[n],
                      batch |-> taken,
                      epoch |-> epoch[n]]
  <2>1. /\ UNCHANGED <<applied, wire, pushed, told, cleared>>
        /\ pump' = [pump EXCEPT ![n] = call] /\ queue' = [queue EXCEPT ![n] = rest]
        /\ lagged' = [lagged EXCEPT ![n] = FALSE]
    BY <1>3 DEF DrainWithLag, receiver
  <2>2. k \in 0..Len(queue[n])
    BY <1>f, QueueAssumption DEF Shorter
  <2>3. Elements(queue[n]) = Elements(taken) \cup Elements(rest)
    <3> HIDE DEF k
    <3>1. queue[n] \in Seq(Nat)
      BY <1>f
    <3> QED
      BY ONLY <2>2, <3>1, SplitFacts
  <2>4. pump[n].batch = <<>> /\ ~pump[n].lag
    BY <1>3 DEF DrainWithLag, PumpInv, Idle
  <2>5. pump'[n].batch = taken /\ pump'[n].lag = lagged[n] /\ queue'[n] = rest
    BY <1>f, <2>1
  <2> HIDE DEF k, taken, rest, call
  <2>6. Safe(n)'
    BY <1>s, <2>1, <2>3, <2>4, <2>5, NothingHeld DEF Safe, Signalled
  <2>7. \A m \in Nodes \ {n} : UNCHANGED <<queue[m], pump[m], lagged[m]>>
    BY <1>f, <2>1
  <2> QED
    BY <1>o, <2>1, <2>6, <2>7
<1>4. ASSUME NEW n \in Nodes, PutBack(n) \/ Flush(n) PROVE LagKnown'
  <2>1. /\ UNCHANGED <<applied, wire, queue, pushed, told, cleared>>
        /\ pump' = [pump EXCEPT ![n] = Idle]
        /\ \A m \in Nodes \ {n} : lagged'[m] = lagged[m]
    BY <1>4, <1>f DEF PutBack, Flush, receiver
  <2>2. pump'[n].batch = <<>>
    BY <1>f, <2>1 DEF Idle
  <2>3. pump[n].batch = <<>>
    BY <1>4, <1>g DEF PutBack, Flush, GenerationOf
  <2>4. lagged[n] \/ pump[n].lag => lagged'[n]
    <3>1. CASE PutBack(n)
      BY <1>f, <3>1 DEF PutBack
    <3>2. CASE Flush(n)
      BY <1>g, <3>2 DEF Flush, GenerationOf
    <3> QED
      BY <1>4, <3>1, <3>2
  <2>5. Safe(n)'
    BY <1>s, <2>1, <2>2, <2>3, <2>4 DEF Safe, Signalled
  <2>6. \A m \in Nodes \ {n} : pump'[m] = pump[m]
    BY <1>f, <2>1
  <2> QED
    BY <1>o, <2>1, <2>5, <2>6
<1>5. ASSUME NEW n \in Nodes, WriteFails(n) PROVE LagKnown'
  <2>1. /\ UNCHANGED <<applied, queue, pushed, told, cleared>>
        /\ pump' = [pump EXCEPT ![n] = Idle] /\ lagged' = [lagged EXCEPT ![n] = TRUE]
        /\ wire' = wire \/ wire' = [wire EXCEPT ![n] = <<>>]
    BY <1>5 DEF WriteFails, receiver
  <2>2. lagged'[n]
    BY <1>f, <2>1
  <2>3. Safe(n)'
    BY <2>2 DEF Safe, Signalled
  <2>4. \A m \in Nodes \ {n} : UNCHANGED <<wire[m], pump[m], lagged[m]>>
    BY <1>f, <2>1
  <2> QED
    BY <1>o, <2>1, <2>3, <2>4
<1>6. ASSUME NEW n \in Nodes, WriteFence(n) \/ WriteLagged(n) \/ WriteRecord(n) PROVE LagKnown'
  <2> DEFINE c == pump[n]
             d == pump'[n]
  <2>1. UNCHANGED <<applied, queue, pushed, told, lagged, cleared>>
    BY <1>6 DEF WriteFence, WriteLagged, WriteRecord, receiver
  <2>2. \A m \in Nodes \ {n} : UNCHANGED <<wire[m], pump[m]>>
    BY <1>6, <1>f DEF WriteFence, WriteLagged, WriteRecord, Write
  <2>3. c \in Calls /\ c.batch \in Seq(Nat) /\ c.batch # <<>> /\ c.epoch \in Nat
    BY <1>6, <1>f DEF WriteFence, WriteLagged, WriteRecord, PumpInv, Calls
  <2>4. PICK f \in Frames :
          /\ wire'[n] = Append(wire[n], f)
          /\ c.lag => d.lag \/ f = LaggedFrame
          /\ Elements(c.batch)
               \subseteq Elements(d.batch) \cup IF f.kind = "Record" THEN {f.value} ELSE {}
    <3>1. CASE WriteFence(n)
      <4>1. FenceFrame(c.epoch) \in Frames
        BY <2>3 DEF FenceFrame, Frames
      <4>2. wire'[n] = Append(wire[n], FenceFrame(c.epoch))
        BY <1>f, <3>1 DEF WriteFence, Write
      <4>3. d = [c EXCEPT !.pc = IF c.lag THEN "lag" ELSE "records"]
        BY <1>f, <3>1 DEF WriteFence
      <4>4. d.lag = c.lag /\ d.batch = c.batch
        BY <2>3, <4>3 DEF Calls
      <4> QED
        BY <4>1, <4>2, <4>4
    <3>2. CASE WriteLagged(n)
      <4>1. LaggedFrame \in Frames
        BY DEF LaggedFrame, Frames
      <4>2. wire'[n] = Append(wire[n], LaggedFrame)
        BY <1>f, <3>2 DEF WriteLagged, Write
      <4>3. d = [c EXCEPT !.pc = "records", !.lag = FALSE]
        BY <1>f, <3>2 DEF WriteLagged
      <4>4. d.batch = c.batch
        BY <2>3, <4>3 DEF Calls
      <4> QED
        BY <4>1, <4>2, <4>4
    <3>3. CASE WriteRecord(n)
      <4> DEFINE f == RecordFrame(Head(c.batch))
      <4>1. Elements(c.batch) = {Head(c.batch)} \cup Elements(Tail(c.batch))
            /\ Head(c.batch) \in Nat
        BY <2>3, TailFacts
      <4>2. f \in Frames /\ f.kind = "Record" /\ f.value = Head(c.batch)
        BY <4>1 DEF RecordFrame, Frames
      <4>3. wire'[n] = Append(wire[n], f)
        BY <1>f, <3>3 DEF WriteRecord, Write
      <4>4. d = [c EXCEPT !.batch = Tail(c.batch),
                          !.pc = IF Len(c.batch) = 1 THEN "flush" ELSE "records"]
        BY <1>f, <3>3 DEF WriteRecord
      <4>5. d.lag = c.lag /\ d.batch = Tail(c.batch)
        BY <2>3, <4>4 DEF Calls
      <4> HIDE DEF f
      <4> QED
        BY <4>1, <4>2, <4>3, <4>5
    <3> QED
      BY <1>6, <3>1, <3>2, <3>3
  <2>5. Elements(wire'[n]) = Elements(wire[n]) \cup {f}
    BY <1>f, <2>4, AppendFacts
  <2>6. RecordsIn(wire'[n]) = RecordsIn(wire[n]) \cup IF f.kind = "Record" THEN {f.value} ELSE {}
    BY <2>5 DEF RecordsIn
  <2>7. Held(n) \subseteq Held(n)'
    BY <2>1, <2>4, <2>6
  <2>8. Signalled(n) => Signalled(n)'
    BY <2>1, <2>4, <2>5 DEF Signalled
  <2>9. Safe(n)'
    BY <1>s, <2>1, <2>7, <2>8 DEF Safe
  <2> QED
    BY <1>o, <2>1, <2>2, <2>9
<1>7. ASSUME NEW n \in Nodes, ReadFence(n) \/ ReadLagged(n) \/ ReadRecord(n) PROVE LagKnown'
  <2> DEFINE f == Head(wire[n])
  <2>1. /\ wire[n] # <<>> /\ wire' = [wire EXCEPT ![n] = Tail(wire[n])]
        /\ UNCHANGED <<pump, queue, pushed, lagged, cleared>>
    BY <1>7 DEF ReadFence, ReadLagged, ReadRecord, Arrives, Consume, sender
  <2>2. \A m \in Nodes \ {n} : UNCHANGED <<applied[m], wire[m], told[m]>>
    BY <1>7, <1>f, <2>1 DEF ReadFence, ReadLagged, ReadRecord
  <2>3. Elements(wire[n]) = {f} \cup Elements(wire'[n])
    BY <1>f, <2>1, TailFacts
  <2>4. RecordsIn(wire[n]) = RecordsIn(wire'[n]) \cup IF f.kind = "Record" THEN {f.value} ELSE {}
    BY <2>3 DEF RecordsIn
  <2>5. /\ applied[n] \subseteq applied'[n]
        /\ f.kind = "Record" => f.value \in applied'[n]
    BY <1>7, <1>f DEF ReadFence, ReadLagged, ReadRecord, Arrives
  <2>6. (told[n] => told'[n]) /\ (f.kind = "Lagged" => told'[n])
    BY <1>7, <1>f DEF ReadFence, ReadLagged, ReadRecord, Arrives
  <2>7. f = LaggedFrame => f.kind = "Lagged"
    BY DEF LaggedFrame
  <2> HIDE DEF f
  <2>8. Held(n) \subseteq Held(n)'
    BY <2>1, <2>4, <2>5
  <2>9. Signalled(n) => Signalled(n)'
    BY <2>1, <2>3, <2>6, <2>7 DEF Signalled
  <2>10. Safe(n)'
    BY <1>s, <2>1, <2>8, <2>9 DEF Safe
  <2> QED
    BY <1>o, <2>1, <2>2, <2>10
<1>8. ASSUME NEW n \in Nodes, Refuse(n) PROVE FALSE
  BY <1>8, <1>g, NothingRefused
<1>9. ASSUME NEW n \in Nodes, SessionLost(n) \/ Restart(n) PROVE FALSE
  BY <1>9 DEF SessionLost, Restart, Fault, OneGeneration
<1>10. ASSUME UNCHANGED <<applied, wire, pump, queue, pushed, lagged, told, cleared>> PROVE LagKnown'
  <2>1. \A m \in Nodes : Safe(m)'
    BY <1>10, <1>h
  <2> QED
    BY <1>kp, <2>1
<1>11. ASSUME NEW n \in Nodes,
              Promote(n) \/ AdmitOwn(n) \/ StoreEpoch(n) \/ AcquireFails(n) \/ Demote(n)
       PROVE  LagKnown'
  BY <1>10, <1>11 DEF Promote, AdmitOwn, StoreEpoch, AcquireFails, Demote, sender, receiver
<1>12. CASE UNCHANGED vars
  BY <1>10, <1>12 DEF vars
<1> QED
  BY <1>1, <1>2, <1>3, <1>4, <1>5, <1>6, <1>7, <1>8, <1>9, <1>11, <1>12
     DEF Next, Sync, Promotion

\* A fresh pair has lost nothing.
LEMMA LossInit == Init => LagKnown
<1> SUFFICES ASSUME Init, NEW n \in Nodes PROVE Lost(n) = {}
  BY DEF LagKnown
<1>1. pushed[n] = 0
  BY DEF Init
<1> QED
  BY <1>1 DEF Lost

\* While one node is Master and only writes fail, the passive is never missing a
\* record without a lag signal held for it: for any capacity, batch size, burst
\* of pushes and number of failed writes, whichever write of a batch fails.
THEOREM LossKnown == OneGeneration => (Spec => []LagKnown)
<1> SUFFICES ASSUME OneGeneration PROVE Spec => []LagKnown
  OBVIOUS
<1>1. Init => TypeOK /\ PumpInv /\ GenerationInv /\ LagKnown
  BY TypeInit, GenerationInit, LossInit
<1>2. /\ TypeOK /\ PumpInv /\ GenerationInv /\ LagKnown /\ [Next]_vars
      => (TypeOK /\ PumpInv /\ GenerationInv /\ LagKnown)'
  BY TypeStep, GenerationStep, LossStep
<1> QED
  BY <1>1, <1>2, PTL DEF Spec
=============================================================================
