--------------------------- MODULE TelemetryProofs ---------------------------
(* Proofs about the telemetry egress: the order of the batches on their way *)
(* out, and the step simulation of the event channel.                       *)
EXTENDS Telemetry, DataLemmas, TLAPS

-----------------------------------------------------------------------------
(* Types. *)

\* The two pushes keep the spool a sequence of batches and shed only events.
LEMMA PushTypes ==
    ASSUME TelemetryTypes, NEW entry \in Batches, SpoolPush(entry) \/ SpoolPushFront(entry)
    PROVE  tmSpool' \in Seq(Batches) /\ tmShed' \subseteq TmEvents
<1>1. tmSpool \in Seq(Batches) /\ tmShed \subseteq TmEvents
  BY DEF TelemetryTypes
<1>2. \A b \in Batches : ToSet(b.events) \subseteq TmEvents
  BY DEF Batches, ToSet
<1>3. CASE Len(tmSpool) >= SpoolCapacity
  <2>1. tmSpool # <<>>
    BY <1>1, <1>3, TelemetryAssumption
  <2>2. Head(tmSpool) \in Batches /\ Last(tmSpool) \in Batches
    BY <1>1, <2>1, SeqEntries
  <2>3. Tail(tmSpool) \in Seq(Batches) /\ Front(tmSpool) \in Seq(Batches)
    BY <1>1, <2>1, TailEntries, FrontEntries
  <2>4. /\ tmSpool' = Append(Tail(tmSpool), entry) \/ tmSpool' = <<entry>> \o Front(tmSpool)
        /\ \E b \in Batches : tmShed' = tmShed \cup ToSet(b.events)
    BY <1>3, <2>2 DEF SpoolPush, SpoolPushFront, Evicted
  <2>5. Append(Tail(tmSpool), entry) \in Seq(Batches) /\ <<entry>> \o Front(tmSpool) \in Seq(Batches)
    BY <2>3, AppendEntries, ConsEntries
  <2> QED
    BY <1>1, <1>2, <2>4, <2>5
<1>4. CASE ~(Len(tmSpool) >= SpoolCapacity)
  <2>1. /\ tmSpool' = Append(tmSpool, entry) \/ tmSpool' = <<entry>> \o tmSpool
        /\ tmShed' = tmShed
    BY <1>4 DEF SpoolPush, SpoolPushFront
  <2>2. Append(tmSpool, entry) \in Seq(Batches) /\ <<entry>> \o tmSpool \in Seq(Batches)
    BY <1>1, AppendEntries, ConsEntries
  <2> QED
    BY <1>1, <2>1, <2>2
<1> QED
  BY <1>3, <1>4

\* The builder gives out and keeps sequences of events.
LEMMA PushTakesFacts ==
    ASSUME TelemetryTypes, NEW e \in TmEvents
    PROVE  /\ PushTakes(e).batch \in Seq(TmEvents) /\ PushTakes(e).left \in Seq(TmEvents)
           /\ ToSet(PushTakes(e).batch) \cup ToSet(PushTakes(e).left) = ToSet(tmPending) \cup {e}
<1>1. tmPending \in Seq(TmEvents)
  BY DEF TelemetryTypes
<1>2. /\ Append(tmPending, e) \in Seq(TmEvents)
      /\ ToSet(Append(tmPending, e)) = ToSet(tmPending) \cup {e}
  <2>1. /\ Append(tmPending, e) \in Seq(TmEvents)
        /\ DOMAIN Append(tmPending, e) = 1 .. Len(tmPending) + 1
        /\ \A i \in 1 .. Len(tmPending) : Append(tmPending, e)[i] = tmPending[i]
        /\ Append(tmPending, e)[Len(tmPending) + 1] = e
    BY <1>1, AppendEntries
  <2>2. DOMAIN tmPending = 1 .. Len(tmPending) /\ Len(tmPending) \in Nat
    BY <1>1
  <2> QED
    BY <2>1, <2>2 DEF ToSet
<1>3. <<e>> \in Seq(TmEvents) /\ ToSet(<<e>>) = {e} /\ <<>> \in Seq(TmEvents) /\ ToSet(<<>>) = {}
  BY DEF ToSet
<1>4. \/ PushTakes(e).batch = tmPending /\ PushTakes(e).left = <<e>>
      \/ PushTakes(e).batch = Append(tmPending, e) /\ PushTakes(e).left = <<>>
      \/ PushTakes(e).batch = <<>> /\ PushTakes(e).left = Append(tmPending, e)
  BY DEF PushTakes
<1> QED
  BY <1>1, <1>2, <1>3, <1>4

LEMMA TelemetryTypesStep ==
    ASSUME TelemetryTypes, tmTracker.next # 0, [TelemetryNext]_telemetryVars
    PROVE  TelemetryTypes'
<1> DEFINE Flights == [seq : Nat, events : Seq(TmEvents), arrived : BOOLEAN]
           Trackers == [next : Nat, emitted : Nat, acked : Nat]
           Servers == [last : Nat, events : SUBSET TmEvents]
<1>a. /\ tmOffered \in 0 .. Cardinality(TmEvents) /\ tmPending \in Seq(TmEvents)
      /\ tmSealing \in [TmTasks -> Seq(TmEvents)]
  BY DEF TelemetryTypes
<1>b. tmSpool \in Seq(Batches) /\ tmShed \subseteq TmEvents
  BY DEF TelemetryTypes
<1>c. tmTracker \in Trackers
  BY DEF TelemetryTypes
<1>d. tmFlight \in Flights /\ (tmFlight # Idle => tmFlight.seq # 0)
  BY DEF TelemetryTypes, InFlight
<1>e. tmServer \in Servers
  BY DEF TelemetryTypes
<1>f. ASSUME tmOffered' \in 0 .. Cardinality(TmEvents), tmPending' \in Seq(TmEvents),
             tmSealing' \in [TmTasks -> Seq(TmEvents)], tmSpool' \in Seq(Batches),
             tmTracker' \in Trackers, tmFlight' \in Flights,
             tmFlight' # Idle => tmFlight'.seq # 0, tmServer' \in Servers,
             tmShed' \subseteq TmEvents
      PROVE  TelemetryTypes'
  BY <1>f DEF TelemetryTypes, InFlight
<1>g. Idle \in Flights
  BY DEF Idle
<1>1. ASSUME NEW t \in TmTasks, Submit(t) PROVE TelemetryTypes'
  <2>1. tmOffered + 1 \in TmEvents /\ tmOffered' = tmOffered + 1
    BY <1>1, <1>a, TelemetryAssumption DEF Submit
  <2>2. PushTakes(tmOffered + 1).batch \in Seq(TmEvents) /\ PushTakes(tmOffered + 1).left \in Seq(TmEvents)
    BY <2>1, PushTakesFacts
  <2>3. /\ tmPending' = PushTakes(tmOffered + 1).left
        /\ tmSealing' = [tmSealing EXCEPT ![t] = PushTakes(tmOffered + 1).batch]
        /\ UNCHANGED <<tmSpool, tmTracker, tmFlight, tmLink, tmServer, tmShed>>
    BY <1>1 DEF Submit
  <2>4. tmSealing' \in [TmTasks -> Seq(TmEvents)]
    BY <1>a, <2>2, <2>3
  <2>5. tmOffered' \in 0 .. Cardinality(TmEvents)
    BY <2>1, TelemetryAssumption
  <2> HIDE DEF Flights, Trackers, Servers
  <2> QED
    BY <1>b, <1>c, <1>d, <1>e, <1>f, <2>2, <2>3, <2>4, <2>5
<1>2. ASSUME NEW t \in TmTasks, TakePending(t) PROVE TelemetryTypes'
  <2>1. /\ tmSealing' = [tmSealing EXCEPT ![t] = tmPending] /\ tmPending' = <<>>
        /\ UNCHANGED <<tmOffered, tmSpool, tmTracker, tmFlight, tmServer, tmShed>>
    BY <1>2 DEF TakePending
  <2>2. tmSealing' \in [TmTasks -> Seq(TmEvents)] /\ tmPending' \in Seq(TmEvents)
    BY <1>a, <2>1
  <2> HIDE DEF Flights, Trackers, Servers
  <2> QED
    BY <1>a, <1>b, <1>c, <1>d, <1>e, <1>f, <2>1, <2>2
<1>3. ASSUME NEW t \in TmTasks, Seal(t) PROVE TelemetryTypes'
  <2> DEFINE entry == [seq |-> tmTracker.next, events |-> tmSealing[t]]
  <2>1. entry \in Batches
    BY <1>a, <1>c DEF Batches
  <2>2. tmSpool' \in Seq(Batches) /\ tmShed' \subseteq TmEvents
    BY <1>3, <2>1, PushTypes DEF Seal
  <2>3. /\ tmTracker' = [tmTracker EXCEPT !.next = @ + 1, !.emitted = tmTracker.next]
        /\ tmSealing' = [tmSealing EXCEPT ![t] = <<>>]
        /\ UNCHANGED <<tmOffered, tmPending, tmFlight, tmLink, tmServer>>
    BY <1>3 DEF Seal
  <2>4. tmSealing' \in [TmTasks -> Seq(TmEvents)]
    BY <1>a, <2>3
  <2>5. tmTracker' \in Trackers
    <3>1. tmTracker.next \in Nat /\ tmTracker.next + 1 \in Nat
      BY <1>c
    <3>2. \A k, m \in Nat : [tmTracker EXCEPT !.next = k, !.emitted = m] \in Trackers
      BY <1>c
    <3> QED
      BY <2>3, <3>1, <3>2
  <2> HIDE DEF Flights, Trackers, Servers
  <2> QED
    BY <1>a, <1>d, <1>e, <1>f, <2>2, <2>3, <2>4, <2>5
<1>4. ASSUME NEW t \in TmTasks, SealFails(t) PROVE TelemetryTypes'
  <2>1. ToSet(tmSealing[t]) \subseteq TmEvents
    BY <1>a DEF ToSet
  <2>2. /\ tmShed' = tmShed \cup ToSet(tmSealing[t])
        /\ tmSealing' = [tmSealing EXCEPT ![t] = <<>>]
        /\ UNCHANGED <<tmOffered, tmPending, tmSpool, tmTracker, tmFlight, tmServer>>
    BY <1>4 DEF SealFails
  <2>3. tmSealing' \in [TmTasks -> Seq(TmEvents)]
    BY <1>a, <2>2
  <2> HIDE DEF Flights, Trackers, Servers
  <2> QED
    BY <1>a, <1>b, <1>c, <1>d, <1>e, <1>f, <2>1, <2>2, <2>3
<1>5. CASE Connect \/ MalformedAck
  <2>1. /\ UNCHANGED <<tmOffered, tmPending, tmSealing, tmSpool, tmTracker, tmServer, tmShed>>
        /\ tmFlight' = tmFlight \/ tmFlight' = Idle
    BY <1>5 DEF Connect, MalformedAck
  <2> HIDE DEF Flights, Trackers, Servers
  <2> QED
    BY <1>a, <1>b, <1>c, <1>d, <1>e, <1>f, <1>g, <2>1
<1>6. CASE Pop
  <2>1. Head(tmSpool) \in Batches /\ Tail(tmSpool) \in Seq(Batches)
    BY <1>6, <1>b DEF Pop
  <2>2. /\ tmFlight' = [seq |-> Head(tmSpool).seq, events |-> Head(tmSpool).events, arrived |-> FALSE]
        /\ tmSpool' = Tail(tmSpool)
        /\ UNCHANGED <<tmOffered, tmPending, tmSealing, tmTracker, tmLink, tmServer, tmShed>>
    BY <1>6 DEF Pop
  <2>3. /\ tmFlight' \in Flights
        /\ tmFlight'.seq # 0
    BY <2>1, <2>2 DEF Batches
  <2> HIDE DEF Flights, Trackers, Servers
  <2> QED
    BY <1>a, <1>b, <1>c, <1>e, <1>f, <2>1, <2>2, <2>3
<1>7. CASE Arrive
  <2>1. /\ tmFlight' = [tmFlight EXCEPT !.arrived = TRUE] /\ tmFlight # Idle
        /\ tmServer' = [last |-> tmFlight.seq, events |-> tmServer.events \cup ToSet(tmFlight.events)]
        /\ UNCHANGED <<tmOffered, tmPending, tmSealing, tmSpool, tmTracker, tmLink, tmShed>>
    BY <1>7 DEF Arrive, InFlight
  <2>2. ToSet(tmFlight.events) \subseteq TmEvents
    BY <1>d DEF ToSet
  <2>3. tmServer' \in Servers
    BY <1>d, <1>e, <2>1, <2>2
  <2>4. /\ tmFlight' \in Flights
        /\ tmFlight'.seq = tmFlight.seq
    BY <1>d, <2>1
  <2> HIDE DEF Flights, Trackers, Servers
  <2> QED
    BY <1>a, <1>b, <1>c, <1>d, <1>f, <2>1, <2>3, <2>4
<1>8. CASE Acked
  <2>1. /\ tmFlight' = Idle
        /\ tmTracker' = tmTracker \/ tmTracker' = [tmTracker EXCEPT !.acked = tmFlight.seq]
        /\ UNCHANGED <<tmOffered, tmPending, tmSealing, tmSpool, tmServer, tmShed>>
    BY <1>8 DEF Acked
  <2>2. tmTracker' \in Trackers
    BY <1>c, <1>d, <2>1
  <2> HIDE DEF Flights, Trackers, Servers
  <2> QED
    BY <1>a, <1>b, <1>e, <1>f, <1>g, <2>1, <2>2
<1>9. CASE Transient \/ TransportError
  <2>1. /\ tmFlight # Idle /\ tmFlight' = Idle
        /\ SpoolPushFront([seq |-> tmFlight.seq, events |-> tmFlight.events])
        /\ UNCHANGED <<tmOffered, tmPending, tmSealing, tmTracker, tmServer>>
    BY <1>9 DEF Transient, TransportError, Respool, InFlight
  <2>2. [seq |-> tmFlight.seq, events |-> tmFlight.events] \in Batches
    BY <1>d, <2>1 DEF Batches
  <2>3. tmSpool' \in Seq(Batches) /\ tmShed' \subseteq TmEvents
    BY <2>1, <2>2, PushTypes
  <2> HIDE DEF Flights, Trackers, Servers
  <2> QED
    BY <1>a, <1>c, <1>e, <1>f, <1>g, <2>1, <2>3
<1>10. CASE Rejected
  <2>1. ToSet(tmFlight.events) \subseteq TmEvents
    BY <1>d DEF ToSet
  <2>2. /\ tmShed' = tmShed \cup ToSet(tmFlight.events) /\ tmFlight' = Idle
        /\ UNCHANGED <<tmOffered, tmPending, tmSealing, tmSpool, tmTracker, tmServer>>
    BY <1>10 DEF Rejected
  <2> HIDE DEF Flights, Trackers, Servers
  <2> QED
    BY <1>a, <1>b, <1>c, <1>e, <1>f, <1>g, <2>1, <2>2
<1>11. CASE UNCHANGED telemetryVars
  BY <1>11 DEF telemetryVars, TelemetryTypes, InFlight
<1> QED
  BY <1>1, <1>2, <1>3, <1>4, <1>5, <1>6, <1>7, <1>8, <1>9, <1>10, <1>11
     DEF TelemetryNext, Flush

-----------------------------------------------------------------------------
(* Order. *)

\* What a push leaves of the spool of n batches: d = 1 of the oldest is
\* evicted when the spool is full, and the new one is last.
LEMMA PushShape ==
    ASSUME TelemetryTypes, NEW entry \in Batches, SpoolPush(entry)
    PROVE  \E d \in {0, 1} :
             /\ d <= Len(tmSpool) /\ DOMAIN tmSpool' = 1 .. Len(tmSpool) - d + 1
             /\ \A i \in 1 .. Len(tmSpool) - d : tmSpool'[i] = tmSpool[i + d]
             /\ tmSpool'[Len(tmSpool) - d + 1] = entry
             /\ tmShed' = IF d = 0 THEN tmShed ELSE tmShed \cup ToSet(tmSpool[1].events)
<1>1. tmSpool \in Seq(Batches)
  BY DEF TelemetryTypes
<1>2. CASE Len(tmSpool) >= SpoolCapacity
  <2>1. tmSpool # <<>>
    BY <1>1, <1>2, TelemetryAssumption
  <2>2. Len(tmSpool) \in Nat /\ Len(tmSpool) >= 1 /\ Head(tmSpool) = tmSpool[1]
    BY <1>1, <2>1, SeqEntries
  <2>3. /\ tmSpool' = Append(Tail(tmSpool), entry)
        /\ tmShed' = tmShed \cup ToSet(tmSpool[1].events)
    BY <1>2, <2>2 DEF SpoolPush, Evicted
  <2>4. /\ Tail(tmSpool) \in Seq(Batches) /\ Len(Tail(tmSpool)) = Len(tmSpool) - 1
        /\ \A i \in 1 .. Len(tmSpool) - 1 : Tail(tmSpool)[i] = tmSpool[i + 1]
    BY <1>1, <2>1, TailEntries
  <2>5. /\ DOMAIN tmSpool' = 1 .. Len(Tail(tmSpool)) + 1
        /\ \A i \in 1 .. Len(Tail(tmSpool)) : tmSpool'[i] = Tail(tmSpool)[i]
        /\ tmSpool'[Len(Tail(tmSpool)) + 1] = entry
    BY <2>3, <2>4, AppendEntries
  <2>6. /\ DOMAIN tmSpool' = 1 .. Len(tmSpool) - 1 + 1
        /\ \A i \in 1 .. Len(tmSpool) - 1 : tmSpool'[i] = tmSpool[i + 1]
        /\ tmSpool'[Len(tmSpool) - 1 + 1] = entry
    BY <2>4, <2>5
  <2> QED
    BY <2>2, <2>3, <2>6
<1>3. CASE ~(Len(tmSpool) >= SpoolCapacity)
  <2>1. tmSpool' = Append(tmSpool, entry) /\ tmShed' = tmShed
    BY <1>3 DEF SpoolPush
  <2>2. /\ DOMAIN tmSpool' = 1 .. Len(tmSpool) + 1 /\ Len(tmSpool) \in Nat
        /\ \A i \in 1 .. Len(tmSpool) : tmSpool'[i] = tmSpool[i]
        /\ tmSpool'[Len(tmSpool) + 1] = entry
    BY <1>1, <2>1, AppendEntries
  <2>3. 0 <= Len(tmSpool) /\ DOMAIN tmSpool' = 1 .. Len(tmSpool) - 0 + 1
    BY <2>2
  <2>4. \A i \in 1 .. Len(tmSpool) - 0 : tmSpool'[i] = tmSpool[i + 0]
    BY <2>2
  <2>5. tmSpool'[Len(tmSpool) - 0 + 1] = entry
    BY <2>2
  <2>6. tmShed' = IF 0 = 0 THEN tmShed ELSE tmShed \cup ToSet(tmSpool[1].events)
    BY <2>1
  <2> WITNESS 0 \in {0, 1}
  <2> QED
    BY <2>3, <2>4, <2>5, <2>6
<1> QED
  BY <1>2, <1>3

\* The same of a push to the front: the newest is evicted, the new one first.
LEMMA PushFrontShape ==
    ASSUME TelemetryTypes, NEW entry \in Batches, SpoolPushFront(entry)
    PROVE  \E d \in {0, 1} :
             /\ d <= Len(tmSpool) /\ DOMAIN tmSpool' = 1 .. Len(tmSpool) - d + 1
             /\ tmSpool'[1] = entry
             /\ \A i \in 2 .. Len(tmSpool) - d + 1 : tmSpool'[i] = tmSpool[i - 1]
             /\ tmShed' = IF d = 0 THEN tmShed
                          ELSE tmShed \cup ToSet(tmSpool[Len(tmSpool)].events)
<1>1. tmSpool \in Seq(Batches)
  BY DEF TelemetryTypes
<1>2. CASE Len(tmSpool) >= SpoolCapacity
  <2>1. tmSpool # <<>>
    BY <1>1, <1>2, TelemetryAssumption
  <2>2. Len(tmSpool) \in Nat /\ Len(tmSpool) >= 1 /\ Last(tmSpool) = tmSpool[Len(tmSpool)]
    BY <1>1, <2>1, SeqEntries
  <2>3. /\ tmSpool' = <<entry>> \o Front(tmSpool)
        /\ tmShed' = tmShed \cup ToSet(tmSpool[Len(tmSpool)].events)
    BY <1>2, <2>2 DEF SpoolPushFront, Evicted
  <2>4. /\ Front(tmSpool) \in Seq(Batches) /\ Len(Front(tmSpool)) = Len(tmSpool) - 1
        /\ \A i \in 1 .. Len(tmSpool) - 1 : Front(tmSpool)[i] = tmSpool[i]
    BY <1>1, <2>1, FrontEntries
  <2>5. /\ DOMAIN tmSpool' = 1 .. Len(Front(tmSpool)) + 1
        /\ tmSpool'[1] = entry
        /\ \A i \in 2 .. Len(Front(tmSpool)) + 1 : tmSpool'[i] = Front(tmSpool)[i - 1]
    BY <2>3, <2>4, ConsEntries
  <2>6. /\ DOMAIN tmSpool' = 1 .. Len(tmSpool) - 1 + 1
        /\ \A i \in 2 .. Len(tmSpool) - 1 + 1 : tmSpool'[i] = tmSpool[i - 1]
    BY <2>2, <2>4, <2>5
  <2> QED
    BY <2>2, <2>3, <2>5, <2>6
<1>3. CASE ~(Len(tmSpool) >= SpoolCapacity)
  <2>1. tmSpool' = <<entry>> \o tmSpool /\ tmShed' = tmShed
    BY <1>3 DEF SpoolPushFront
  <2>2. /\ DOMAIN tmSpool' = 1 .. Len(tmSpool) + 1 /\ Len(tmSpool) \in Nat
        /\ tmSpool'[1] = entry
        /\ \A i \in 2 .. Len(tmSpool) + 1 : tmSpool'[i] = tmSpool[i - 1]
    BY <1>1, <2>1, ConsEntries
  <2>3. Len(tmSpool) - 0 + 1 = Len(tmSpool) + 1
    BY <2>2
  <2> QED
    BY <2>1, <2>2, <2>3
<1> QED
  BY <1>2, <1>3

\* Evictions, re-queues and concurrent seals leave the outgoing batches in
\* the order of their numbers.
LEMMA OrderStep ==
    ASSUME TelemetryTypes, SpoolOrdered, [TelemetryNext]_telemetryVars
    PROVE  SpoolOrdered'
<1>a. /\ tmTracker \in [next : Nat, emitted : Nat, acked : Nat]
      /\ tmFlight \in [seq : Nat, events : Seq(TmEvents), arrived : BOOLEAN]
  BY DEF TelemetryTypes
<1>b. /\ Len(tmSpool) \in Nat /\ DOMAIN tmSpool = 1 .. Len(tmSpool)
      /\ \A i \in DOMAIN tmSpool : tmSpool[i] \in Batches /\ tmSpool[i].seq \in Nat
  <2>1. tmSpool \in Seq(Batches)
    BY DEF TelemetryTypes
  <2>2. /\ Len(tmSpool) \in Nat /\ DOMAIN tmSpool = 1 .. Len(tmSpool)
        /\ \A i \in DOMAIN tmSpool : tmSpool[i] \in Batches
    BY <2>1, SeqEntries
  <2>3. \A b \in Batches : b.seq \in Nat
    BY DEF Batches
  <2> QED
    BY <2>2, <2>3
<1>c. tmTracker.next \in Nat /\ tmTracker.emitted \in Nat /\ tmTracker.acked \in Nat
  BY <1>a
<1>d. tmFlight.seq \in Nat /\ tmServer.last \in Nat /\ (tmFlight # Idle => tmFlight.seq # 0)
  BY DEF TelemetryTypes, InFlight
<1>e. tmTracker.next = tmTracker.emitted + 1
  BY DEF SpoolOrdered
<1>f. tmTracker.acked <= tmTracker.emitted /\ tmServer.last <= tmTracker.emitted
  BY DEF SpoolOrdered
<1>g. tmFlight # Idle => /\ tmTracker.acked <= tmFlight.seq /\ tmServer.last <= tmFlight.seq
                         /\ tmFlight.seq <= tmTracker.emitted
  BY DEF SpoolOrdered, InFlight, MayGoOut
<1>h. \A i \in DOMAIN tmSpool :
        /\ tmTracker.acked <= tmSpool[i].seq /\ tmServer.last <= tmSpool[i].seq
        /\ tmSpool[i].seq <= tmTracker.emitted
        /\ tmFlight # Idle => tmFlight.seq < tmSpool[i].seq
  BY DEF SpoolOrdered, InFlight, MayGoOut
<1>i. \A i, j \in DOMAIN tmSpool : i < j => tmSpool[i].seq < tmSpool[j].seq
  BY DEF SpoolOrdered
<1>j. ASSUME tmTracker'.next = tmTracker'.emitted + 1,
             tmTracker'.acked <= tmTracker'.emitted, tmServer'.last <= tmTracker'.emitted,
             tmFlight' # Idle => /\ tmTracker'.acked <= tmFlight'.seq
                                 /\ tmServer'.last <= tmFlight'.seq
                                 /\ tmFlight'.seq <= tmTracker'.emitted,
             \A i \in DOMAIN tmSpool' :
                /\ tmTracker'.acked <= tmSpool'[i].seq /\ tmServer'.last <= tmSpool'[i].seq
                /\ tmSpool'[i].seq <= tmTracker'.emitted
                /\ tmFlight' # Idle => tmFlight'.seq < tmSpool'[i].seq,
             \A i, j \in DOMAIN tmSpool' : i < j => tmSpool'[i].seq < tmSpool'[j].seq
      PROVE  SpoolOrdered'
  BY <1>j DEF SpoolOrdered, InFlight, MayGoOut
<1>k. tmFlight.arrived => tmFlight # Idle
  BY DEF Idle
<1>1. ASSUME NEW t \in TmTasks, Submit(t) \/ TakePending(t) \/ SealFails(t) PROVE SpoolOrdered'
  <2>1. UNCHANGED <<tmSpool, tmTracker, tmFlight, tmServer>>
    BY <1>1 DEF Submit, TakePending, SealFails
  <2> QED
    BY <1>e, <1>f, <1>g, <1>h, <1>i, <1>j, <2>1
<1>2. ASSUME NEW t \in TmTasks, Seal(t) PROVE SpoolOrdered'
  <2>1. [seq |-> tmTracker.next, events |-> tmSealing[t]] \in Batches
    BY <1>c, <1>e DEF Batches, TelemetryTypes
  <2>2. PICK d \in {0, 1} :
             /\ d <= Len(tmSpool) /\ DOMAIN tmSpool' = 1 .. Len(tmSpool) - d + 1
             /\ \A i \in 1 .. Len(tmSpool) - d : tmSpool'[i] = tmSpool[i + d]
             /\ tmSpool'[Len(tmSpool) - d + 1] = [seq |-> tmTracker.next, events |-> tmSealing[t]]
    BY <1>2, <2>1, PushShape DEF Seal
  <2>3. /\ tmTracker' = [tmTracker EXCEPT !.next = @ + 1, !.emitted = tmTracker.next]
        /\ tmFlight' = tmFlight /\ tmServer' = tmServer
    BY <1>2 DEF Seal
  <2>4. /\ tmTracker'.next = tmTracker.next + 1 /\ tmTracker'.emitted = tmTracker.next
        /\ tmTracker'.acked = tmTracker.acked
    BY <1>a, <2>3
  <2>5. \A i \in 1 .. Len(tmSpool) - d : i + d \in DOMAIN tmSpool /\ tmSpool'[i].seq = tmSpool[i + d].seq
    BY <1>b, <2>2
  <2>6. tmSpool'[Len(tmSpool) - d + 1].seq = tmTracker.next
    BY <2>2
  <2>7. \A i \in DOMAIN tmSpool' : i = Len(tmSpool) - d + 1 \/ i \in 1 .. Len(tmSpool) - d
    BY <1>b, <2>2
  <2>8. \A i \in DOMAIN tmSpool' :
                /\ tmTracker'.acked <= tmSpool'[i].seq /\ tmServer'.last <= tmSpool'[i].seq
                /\ tmSpool'[i].seq <= tmTracker'.emitted
                /\ tmFlight' # Idle => tmFlight'.seq < tmSpool'[i].seq
    <3> SUFFICES ASSUME NEW i \in DOMAIN tmSpool'
                 PROVE  /\ tmTracker.acked <= tmSpool'[i].seq /\ tmServer.last <= tmSpool'[i].seq
                        /\ tmSpool'[i].seq <= tmTracker.next
                        /\ tmFlight # Idle => tmFlight.seq < tmSpool'[i].seq
      BY <2>3, <2>4
    <3>1. CASE i = Len(tmSpool) - d + 1
      BY <3>1, <1>c, <1>d, <1>e, <1>f, <1>g, <2>6
    <3>2. CASE i \in 1 .. Len(tmSpool) - d
      <4>1. i + d \in DOMAIN tmSpool /\ tmSpool'[i].seq = tmSpool[i + d].seq
        BY <3>2, <2>5
      <4> QED
        BY <4>1, <1>b, <1>c, <1>e, <1>h
    <3> QED
      BY <2>7, <3>1, <3>2
  <2>9. \A i, j \in DOMAIN tmSpool' : i < j => tmSpool'[i].seq < tmSpool'[j].seq
    <3> SUFFICES ASSUME NEW i \in DOMAIN tmSpool', NEW j \in DOMAIN tmSpool', i < j
                 PROVE  tmSpool'[i].seq < tmSpool'[j].seq
      OBVIOUS
    <3>1. i \in 1 .. Len(tmSpool) - d
      BY <1>b, <2>2, <2>7
    <3>2. i + d \in DOMAIN tmSpool /\ tmSpool'[i].seq = tmSpool[i + d].seq
      BY <3>1, <2>5
    <3>3. CASE j = Len(tmSpool) - d + 1
      BY <3>2, <3>3, <2>6, <1>b, <1>c, <1>e, <1>h
    <3>4. CASE j \in 1 .. Len(tmSpool) - d
      <4>1. j + d \in DOMAIN tmSpool /\ tmSpool'[j].seq = tmSpool[j + d].seq
        BY <3>4, <2>5
      <4>2. i + d < j + d
        BY <3>1, <3>4
      <4> QED
        BY <3>2, <4>1, <4>2, <1>i
    <3> QED
      BY <2>7, <3>3, <3>4
  <2>10. /\ tmTracker'.next = tmTracker'.emitted + 1
         /\ tmTracker'.acked <= tmTracker'.emitted /\ tmServer'.last <= tmTracker'.emitted
         /\ tmFlight' # Idle => /\ tmTracker'.acked <= tmFlight'.seq
                                /\ tmServer'.last <= tmFlight'.seq
                                /\ tmFlight'.seq <= tmTracker'.emitted
    BY <2>3, <2>4, <1>c, <1>d, <1>e, <1>f, <1>g
  <2> QED
    BY <1>j, <2>8, <2>9, <2>10
<1>3. CASE Connect
  <2>1. UNCHANGED <<tmSpool, tmTracker, tmFlight, tmServer>>
    BY <1>3 DEF Connect
  <2> QED
    BY <1>e, <1>f, <1>g, <1>h, <1>i, <1>j, <2>1
<1>4. CASE Pop
  <2>1. /\ tmFlight' = [seq |-> Head(tmSpool).seq, events |-> Head(tmSpool).events, arrived |-> FALSE]
        /\ tmSpool # <<>> /\ tmSpool' = Tail(tmSpool) /\ UNCHANGED <<tmTracker, tmServer>>
    BY <1>4 DEF Pop
  <2>2. 1 \in DOMAIN tmSpool /\ tmFlight'.seq = tmSpool[1].seq
    BY <1>b, <2>1 DEF TelemetryTypes
  <2>3. /\ DOMAIN tmSpool' = 1 .. Len(tmSpool) - 1
        /\ \A i \in 1 .. Len(tmSpool) - 1 : tmSpool'[i] = tmSpool[i + 1]
    BY <2>1, TailEntries DEF TelemetryTypes
  <2>4. \A i \in DOMAIN tmSpool' : i + 1 \in DOMAIN tmSpool /\ tmSpool'[i] = tmSpool[i + 1] /\ 1 < i + 1
    BY <1>b, <2>3
  <2>5. \A i \in DOMAIN tmSpool' : tmFlight'.seq < tmSpool'[i].seq
    BY <2>2, <2>4, <1>i
  <2>6. \A i, j \in DOMAIN tmSpool' : i < j => tmSpool'[i].seq < tmSpool'[j].seq
    <3> SUFFICES ASSUME NEW i \in DOMAIN tmSpool', NEW j \in DOMAIN tmSpool', i < j
                 PROVE  tmSpool'[i].seq < tmSpool'[j].seq
      OBVIOUS
    <3>1. i + 1 < j + 1
      BY <1>b, <2>3
    <3> QED
      BY <3>1, <2>4, <1>i
  <2>7. \A i \in DOMAIN tmSpool' :
          /\ tmTracker'.acked <= tmSpool'[i].seq /\ tmServer'.last <= tmSpool'[i].seq
          /\ tmSpool'[i].seq <= tmTracker'.emitted
    BY <2>1, <2>4, <1>h
  <2>8. /\ tmTracker'.acked <= tmFlight'.seq /\ tmServer'.last <= tmFlight'.seq
        /\ tmFlight'.seq <= tmTracker'.emitted
    BY <2>1, <2>2, <1>h
  <2> QED
    BY <1>e, <1>f, <1>j, <2>1, <2>5, <2>6, <2>7, <2>8
<1>5. CASE Arrive
  <2>1. /\ tmFlight # Idle /\ tmFlight' = [tmFlight EXCEPT !.arrived = TRUE]
        /\ tmServer' = [last |-> tmFlight.seq, events |-> tmServer.events \cup ToSet(tmFlight.events)]
        /\ UNCHANGED <<tmSpool, tmTracker>>
    BY <1>5 DEF Arrive, InFlight
  <2>2. tmFlight'.seq = tmFlight.seq /\ tmServer'.last = tmFlight.seq
    BY <1>a, <2>1
  <2>3. \A i \in DOMAIN tmSpool : tmFlight.seq < tmSpool[i].seq /\ tmFlight.seq <= tmSpool[i].seq
    BY <1>b, <1>d, <1>h, <2>1
  <2>4. tmFlight.seq <= tmFlight.seq
    BY <1>d
  <2> QED
    BY <1>e, <1>f, <1>g, <1>h, <1>i, <1>j, <2>1, <2>2, <2>3, <2>4
<1>6. CASE Acked
  <2>1. /\ tmFlight # Idle /\ tmFlight' = Idle /\ UNCHANGED <<tmSpool, tmServer>>
        /\ tmTracker' = tmTracker \/ tmTracker' = [tmTracker EXCEPT !.acked = tmFlight.seq]
    BY <1>6, <1>k DEF Acked
  <2>2. /\ tmTracker'.next = tmTracker.next /\ tmTracker'.emitted = tmTracker.emitted
        /\ tmTracker'.acked = tmTracker.acked \/ tmTracker'.acked = tmFlight.seq
    BY <1>a, <2>1
  <2>3. tmTracker'.acked <= tmTracker.emitted
    BY <2>1, <2>2, <1>f, <1>g
  <2>4. \A i \in DOMAIN tmSpool : tmTracker'.acked <= tmSpool[i].seq
    <3>1. \A i \in DOMAIN tmSpool : tmFlight.seq <= tmSpool[i].seq
      BY <1>b, <1>d, <1>h, <2>1
    <3> QED
      BY <2>2, <3>1, <1>h
  <2> QED
    BY <1>e, <1>f, <1>h, <1>i, <1>j, <2>1, <2>2, <2>3, <2>4
<1>7. CASE MalformedAck \/ Rejected
  <2>1. tmFlight' = Idle /\ UNCHANGED <<tmSpool, tmTracker, tmServer>>
    BY <1>7 DEF MalformedAck, Rejected
  <2> QED
    BY <1>e, <1>f, <1>h, <1>i, <1>j, <2>1
<1>8. CASE Transient \/ TransportError
  <2> DEFINE entry == [seq |-> tmFlight.seq, events |-> tmFlight.events]
  <2>1. /\ tmFlight # Idle /\ tmFlight' = Idle /\ SpoolPushFront(entry)
        /\ UNCHANGED <<tmTracker, tmServer>>
    BY <1>8 DEF Transient, TransportError, Respool, InFlight
  <2>2. entry \in Batches
    BY <1>a, <1>d, <2>1 DEF Batches
  <2>3. PICK d \in {0, 1} :
             /\ d <= Len(tmSpool) /\ DOMAIN tmSpool' = 1 .. Len(tmSpool) - d + 1
             /\ tmSpool'[1] = entry
             /\ \A i \in 2 .. Len(tmSpool) - d + 1 : tmSpool'[i] = tmSpool[i - 1]
    <3> HIDE DEF entry
    <3> QED
      BY <2>1, <2>2, PushFrontShape
  <2>4. tmSpool'[1].seq = tmFlight.seq
    BY <2>3
  <2>5. \A i \in DOMAIN tmSpool' :
          i = 1 \/ (i - 1 \in DOMAIN tmSpool /\ tmSpool'[i].seq = tmSpool[i - 1].seq)
    <3> SUFFICES ASSUME NEW i \in DOMAIN tmSpool', i # 1
                 PROVE  i - 1 \in DOMAIN tmSpool /\ tmSpool'[i].seq = tmSpool[i - 1].seq
      OBVIOUS
    <3>1. i \in 2 .. Len(tmSpool) - d + 1 /\ i - 1 \in 1 .. Len(tmSpool)
      BY <1>b, <2>3
    <3> QED
      BY <3>1, <1>b, <2>3
  <2>6. \A i \in DOMAIN tmSpool' :
          /\ tmTracker.acked <= tmSpool'[i].seq /\ tmServer.last <= tmSpool'[i].seq
          /\ tmSpool'[i].seq <= tmTracker.emitted
    BY <1>g, <1>h, <2>1, <2>4, <2>5
  <2>7. \A i, j \in DOMAIN tmSpool' : i < j => tmSpool'[i].seq < tmSpool'[j].seq
    <3> SUFFICES ASSUME NEW i \in DOMAIN tmSpool', NEW j \in DOMAIN tmSpool', i < j
                 PROVE  tmSpool'[i].seq < tmSpool'[j].seq
      OBVIOUS
    <3>1. j # 1 /\ i \in Int /\ j \in Int /\ i >= 1
      BY <1>b, <2>3
    <3>2. j - 1 \in DOMAIN tmSpool /\ tmSpool'[j].seq = tmSpool[j - 1].seq
      BY <2>5, <3>1
    <3>3. CASE i = 1
      BY <3>2, <3>3, <2>1, <2>4, <1>h
    <3>4. CASE i # 1
      <4>1. i - 1 \in DOMAIN tmSpool /\ tmSpool'[i].seq = tmSpool[i - 1].seq
        BY <2>5, <3>4
      <4>2. i - 1 < j - 1
        BY <3>1
      <4> QED
        BY <3>2, <4>1, <4>2, <1>i
    <3> QED
      BY <3>3, <3>4
  <2> QED
    BY <1>e, <1>f, <1>j, <2>1, <2>6, <2>7
<1>9. CASE UNCHANGED telemetryVars
  <2>1. UNCHANGED <<tmSpool, tmTracker, tmFlight, tmServer>>
    BY <1>9 DEF telemetryVars
  <2> QED
    BY <1>e, <1>f, <1>g, <1>h, <1>i, <1>j, <2>1
<1> QED
  BY <1>1, <1>2, <1>3, <1>4, <1>5, <1>6, <1>7, <1>8, <1>9 DEF TelemetryNext, Flush

-----------------------------------------------------------------------------
(* Where the events are. *)

Sealed == UNION {ToSet(tmSealing[t]) : t \in TmTasks}
Flown  == ToSet(tmFlight.events)
Queued == UNION {ToSet(tmSpool[i].events) : i \in DOMAIN tmSpool}

\* The batches of the outgoing queue: the one in flight, if any, and the spool.
LEMMA QueueEntries ==
    ASSUME NEW S, NEW s \in Seq(S), NEW f \in S
    PROVE  /\ \A x : x \in Range(<<f>> \o s) <=> (\E i \in DOMAIN s : x = s[i]) \/ x = f
           /\ \A x : x \in Range(s) <=> \E i \in DOMAIN s : x = s[i]
           /\ <<>> \o s = s
<1> DEFINE out == <<f>> \o s
<1>1. /\ DOMAIN out = 1 .. Len(s) + 1 /\ out[1] = f
      /\ \A i \in 2 .. Len(s) + 1 : out[i] = s[i - 1]
  BY ConsEntries
<1>2. DOMAIN s = 1 .. Len(s) /\ Len(s) \in Nat
  BY SeqEntries
<1>3. \A x : x \in Range(out) <=> \E i \in DOMAIN out : x = out[i]
  BY DEF Range
<1> HIDE DEF out
<1>4. \A i \in DOMAIN s : i + 1 \in DOMAIN out /\ out[i + 1] = s[i]
  BY <1>1, <1>2
<1>5. \A i \in DOMAIN out : i = 1 \/ (i - 1 \in DOMAIN s /\ out[i] = s[i - 1])
  BY <1>1, <1>2
<1>6. 1 \in DOMAIN out
  BY <1>1, <1>2
<1>7. ASSUME NEW x, \E i \in DOMAIN s : x = s[i] PROVE x \in Range(out)
  BY <1>3, <1>4, <1>7
<1>8. ASSUME NEW x, x \in Range(out) PROVE (\E i \in DOMAIN s : x = s[i]) \/ x = f
  BY <1>1, <1>3, <1>5, <1>8
<1>9. f \in Range(out)
  BY <1>1, <1>3, <1>6
<1>10. \A x : x \in Range(s) <=> \E i \in DOMAIN s : x = s[i]
  BY DEF Range
<1>11. <<>> \o s = s
  BY ConcatEmptySeq
<1> QED
  BY <1>7, <1>8, <1>9, <1>10, <1>11 DEF out

LEMMA HeldMeans ==
    ASSUME TelemetryTypes
    PROVE  Held = ToSet(tmPending) \cup Sealed \cup Flown \cup Queued
<1> DEFINE S == [seq : Nat, events : Seq(TmEvents), arrived : BOOLEAN] \cup Batches
<1>1. tmSpool \in Seq(S) /\ tmFlight \in S
  BY DEF TelemetryTypes
<1>2. \A x : x \in Range(Outgoing)
                <=> (\E i \in DOMAIN tmSpool : x = tmSpool[i]) \/ (InFlight /\ x = tmFlight)
  <2> HIDE DEF S
  <2>1. /\ \A x : x \in Range(<<tmFlight>> \o tmSpool)
                    <=> (\E i \in DOMAIN tmSpool : x = tmSpool[i]) \/ x = tmFlight
        /\ \A x : x \in Range(tmSpool) <=> \E i \in DOMAIN tmSpool : x = tmSpool[i]
        /\ <<>> \o tmSpool = tmSpool
    BY <1>1, QueueEntries
  <2>2. CASE InFlight
    BY <2>1, <2>2 DEF Outgoing
  <2>3. CASE ~InFlight
    <3>1. Outgoing = tmSpool
      BY <2>1, <2>3 DEF Outgoing
    <3> QED
      BY <2>1, <2>3, <3>1
  <2> QED
    BY <2>2, <2>3
<1>3. ~InFlight => Flown = {}
  BY DEF InFlight, Idle, Flown, ToSet
<1>4. \A e : e \in UNION {ToSet(o.events) : o \in Range(Outgoing)} <=> e \in Flown \cup Queued
  <2>1. \A e : e \in UNION {ToSet(o.events) : o \in Range(Outgoing)}
                <=> \E o \in Range(Outgoing) : e \in ToSet(o.events)
    OBVIOUS
  <2>2. \A e : e \in Queued <=> \E i \in DOMAIN tmSpool : e \in ToSet(tmSpool[i].events)
    BY DEF Queued
  <2>3. Flown = ToSet(tmFlight.events)
    BY DEF Flown
  <2> QED
    BY <1>2, <1>3, <2>1, <2>2, <2>3
<1> QED
  BY <1>4 DEF Held, Sealed

LEMMA HeldMeansNext ==
    ASSUME TelemetryTypes'
    PROVE  Held' = ToSet(tmPending') \cup Sealed' \cup Flown' \cup Queued'
<1> DEFINE S == [seq : Nat, events : Seq(TmEvents), arrived : BOOLEAN] \cup Batches
<1>1. tmSpool' \in Seq(S) /\ tmFlight' \in S
  BY DEF TelemetryTypes
<1>2. \A x : x \in Range(Outgoing')
                <=> (\E i \in DOMAIN tmSpool' : x = tmSpool'[i]) \/ (InFlight' /\ x = tmFlight')
  <2> HIDE DEF S
  <2>1. /\ \A x : x \in Range(<<tmFlight'>> \o tmSpool')
                    <=> (\E i \in DOMAIN tmSpool' : x = tmSpool'[i]) \/ x = tmFlight'
        /\ \A x : x \in Range(tmSpool') <=> \E i \in DOMAIN tmSpool' : x = tmSpool'[i]
        /\ <<>> \o tmSpool' = tmSpool'
    BY <1>1, QueueEntries
  <2>2. CASE InFlight'
    BY <2>1, <2>2 DEF Outgoing
  <2>3. CASE ~InFlight'
    <3>1. Outgoing' = tmSpool'
      BY <2>1, <2>3 DEF Outgoing
    <3> QED
      BY <2>1, <2>3, <3>1
  <2> QED
    BY <2>2, <2>3
<1>3. ~InFlight' => Flown' = {}
  BY DEF InFlight, Idle, Flown, ToSet
<1>4. \A e : e \in UNION {ToSet(o.events) : o \in Range(Outgoing')} <=> e \in Flown' \cup Queued'
  <2>1. \A e : e \in UNION {ToSet(o.events) : o \in Range(Outgoing')}
                <=> \E o \in Range(Outgoing') : e \in ToSet(o.events)
    OBVIOUS
  <2>2. \A e : e \in Queued' <=> \E i \in DOMAIN tmSpool' : e \in ToSet(tmSpool'[i].events)
    BY DEF Queued
  <2>3. Flown' = ToSet(tmFlight'.events)
    BY DEF Flown
  <2> QED
    BY <1>2, <1>3, <2>1, <2>2, <2>3
<1> QED
  BY <1>4 DEF Held, Sealed

\* A task's batch in hand changes: what the sealing tasks hold together.
LEMMA SealingMoves ==
    ASSUME TelemetryTypes, NEW t \in TmTasks, NEW b, tmSealing' = [tmSealing EXCEPT ![t] = b]
    PROVE  /\ tmSealing[t] = <<>> => Sealed' = Sealed \cup ToSet(b)
           /\ b = <<>> => Sealed' \subseteq Sealed /\ Sealed \subseteq Sealed' \cup ToSet(tmSealing[t])
           /\ ToSet(tmSealing[t]) \subseteq Sealed
<1>1. DOMAIN tmSealing = TmTasks
  BY DEF TelemetryTypes
<1>2. tmSealing'[t] = b /\ \A u \in TmTasks : u # t => tmSealing'[u] = tmSealing[u]
  BY <1>1
<1>3. ToSet(<<>>) = {}
  BY DEF ToSet
<1>4. \A e : e \in Sealed <=> \E u \in TmTasks : e \in ToSet(tmSealing[u])
  BY DEF Sealed
<1>5. \A e : e \in Sealed' <=> \E u \in TmTasks : e \in ToSet(tmSealing'[u])
  BY DEF Sealed
<1> QED
  BY <1>2, <1>3, <1>4, <1>5

\* What is spooled together after a push to either end: the new batch, and
\* everything old that was not shed.
LEMMA PushMoves ==
    ASSUME TelemetryTypes, NEW entry \in Batches, SpoolPush(entry) \/ SpoolPushFront(entry)
    PROVE  /\ Queued' \subseteq Queued \cup ToSet(entry.events) /\ ToSet(entry.events) \subseteq Queued'
           /\ Queued \subseteq Queued' \cup tmShed'
           /\ tmShed \subseteq tmShed' /\ tmShed' \subseteq tmShed \cup Queued
<1>1. DOMAIN tmSpool = 1 .. Len(tmSpool) /\ Len(tmSpool) \in Nat
  BY SeqEntries DEF TelemetryTypes
<1>2. \A e : e \in Queued <=> \E i \in DOMAIN tmSpool : e \in ToSet(tmSpool[i].events)
  BY DEF Queued
<1>3. \A e : e \in Queued' <=> \E i \in DOMAIN tmSpool' : e \in ToSet(tmSpool'[i].events)
  BY DEF Queued
<1>4. CASE SpoolPush(entry)
  <2>1. PICK d \in {0, 1} :
             /\ d <= Len(tmSpool) /\ DOMAIN tmSpool' = 1 .. Len(tmSpool) - d + 1
             /\ \A i \in 1 .. Len(tmSpool) - d : tmSpool'[i] = tmSpool[i + d]
             /\ tmSpool'[Len(tmSpool) - d + 1] = entry
             /\ tmShed' = IF d = 0 THEN tmShed ELSE tmShed \cup ToSet(tmSpool[1].events)
    BY <1>4, PushShape
  <2>2. \A i \in DOMAIN tmSpool' :
          tmSpool'[i] = entry \/ (i + d \in DOMAIN tmSpool /\ tmSpool'[i] = tmSpool[i + d])
    <3> SUFFICES ASSUME NEW i \in DOMAIN tmSpool', i # Len(tmSpool) - d + 1
                 PROVE  i + d \in DOMAIN tmSpool /\ tmSpool'[i] = tmSpool[i + d]
      BY <2>1
    <3>1. i \in 1 .. Len(tmSpool) - d /\ i + d \in 1 .. Len(tmSpool)
      BY <1>1, <2>1
    <3> QED
      BY <1>1, <2>1, <3>1
  <2>3. \A i \in DOMAIN tmSpool :
          (d = 1 /\ i = 1) \/ (i - d \in DOMAIN tmSpool' /\ tmSpool'[i - d] = tmSpool[i])
    <3> SUFFICES ASSUME NEW i \in DOMAIN tmSpool, ~(d = 1 /\ i = 1)
                 PROVE  i - d \in DOMAIN tmSpool' /\ tmSpool'[i - d] = tmSpool[i]
      OBVIOUS
    <3>1. i - d \in 1 .. Len(tmSpool) - d /\ i - d + d = i
      BY <1>1
    <3> QED
      BY <1>1, <2>1, <3>1
  <2>4. Len(tmSpool) - d + 1 \in DOMAIN tmSpool' /\ (d = 1 => 1 \in DOMAIN tmSpool)
    BY <1>1, <2>1
  <2>5. d = 1 => tmShed' = tmShed \cup ToSet(tmSpool[1].events)
    BY <2>1
  <2>6. d # 1 => tmShed' = tmShed
    BY <2>1
  <2>7. Queued' \subseteq Queued \cup ToSet(entry.events) /\ ToSet(entry.events) \subseteq Queued'
    BY <1>2, <1>3, <2>1, <2>2, <2>4
  <2>8. Queued \subseteq Queued' \cup tmShed'
    BY <1>2, <1>3, <2>3, <2>5
  <2>9. tmShed \subseteq tmShed' /\ tmShed' \subseteq tmShed \cup Queued
    BY <1>2, <2>4, <2>5, <2>6
  <2> QED
    BY <2>7, <2>8, <2>9
<1>5. CASE SpoolPushFront(entry)
  <2>1. PICK d \in {0, 1} :
             /\ d <= Len(tmSpool) /\ DOMAIN tmSpool' = 1 .. Len(tmSpool) - d + 1
             /\ tmSpool'[1] = entry
             /\ \A i \in 2 .. Len(tmSpool) - d + 1 : tmSpool'[i] = tmSpool[i - 1]
             /\ tmShed' = IF d = 0 THEN tmShed
                          ELSE tmShed \cup ToSet(tmSpool[Len(tmSpool)].events)
    BY <1>5, PushFrontShape
  <2>2. \A i \in DOMAIN tmSpool' :
          tmSpool'[i] = entry \/ (i - 1 \in DOMAIN tmSpool /\ tmSpool'[i] = tmSpool[i - 1])
    <3> SUFFICES ASSUME NEW i \in DOMAIN tmSpool', i # 1
                 PROVE  i - 1 \in DOMAIN tmSpool /\ tmSpool'[i] = tmSpool[i - 1]
      BY <2>1
    <3>1. i \in 2 .. Len(tmSpool) - d + 1 /\ i - 1 \in 1 .. Len(tmSpool)
      BY <1>1, <2>1
    <3> QED
      BY <1>1, <2>1, <3>1
  <2>3. \A i \in DOMAIN tmSpool :
          (d = 1 /\ i = Len(tmSpool)) \/ (i + 1 \in DOMAIN tmSpool' /\ tmSpool'[i + 1] = tmSpool[i])
    <3> SUFFICES ASSUME NEW i \in DOMAIN tmSpool, ~(d = 1 /\ i = Len(tmSpool))
                 PROVE  i + 1 \in DOMAIN tmSpool' /\ tmSpool'[i + 1] = tmSpool[i]
      OBVIOUS
    <3>1. i + 1 \in 2 .. Len(tmSpool) - d + 1 /\ i + 1 \in 1 .. Len(tmSpool) - d + 1 /\ i + 1 - 1 = i
      BY <1>1
    <3> QED
      BY <2>1, <3>1
  <2>4. 1 \in DOMAIN tmSpool' /\ (d = 1 => Len(tmSpool) \in DOMAIN tmSpool)
    BY <1>1, <2>1
  <2>5. d = 1 => tmShed' = tmShed \cup ToSet(tmSpool[Len(tmSpool)].events)
    BY <2>1
  <2>6. d # 1 => tmShed' = tmShed
    BY <2>1
  <2>7. Queued' \subseteq Queued \cup ToSet(entry.events) /\ ToSet(entry.events) \subseteq Queued'
    BY <1>2, <1>3, <2>1, <2>2, <2>4
  <2>8. Queued \subseteq Queued' \cup tmShed'
    BY <1>2, <1>3, <2>3, <2>5
  <2>9. tmShed \subseteq tmShed' /\ tmShed' \subseteq tmShed \cup Queued
    BY <1>2, <2>4, <2>5, <2>6
  <2> QED
    BY <2>7, <2>8, <2>9
<1> QED
  BY <1>4, <1>5

\* The three things a step can do with events: accept the next one, hand
\* held ones to the control plane, or give held ones up on the record.
Accepts ==
    /\ tmOffered + 1 \in TmEvents /\ tmOffered' = tmOffered + 1
    /\ Held' = Held \cup {tmOffered + 1}
    /\ tmServer'.events = tmServer.events /\ tmShed' = tmShed

Delivers ==
    /\ tmOffered' = tmOffered /\ Held' = Held /\ tmShed' = tmShed
    /\ tmServer.events \subseteq tmServer'.events
    /\ tmServer'.events \subseteq tmServer.events \cup Held

Sheds ==
    /\ tmOffered' = tmOffered /\ tmServer'.events = tmServer.events
    /\ Held' \subseteq Held /\ Held \subseteq Held' \cup tmShed' \cup tmServer.events
    /\ tmShed \subseteq tmShed' /\ tmShed' \subseteq tmShed \cup Held

LEMMA FlowStep ==
    ASSUME TelemetryTypes, TelemetryTypes', EventsTraced, tmTracker.next # 0,
           [TelemetryNext]_telemetryVars
    PROVE  Accepts \/ Delivers \/ Sheds
<1>a. Held = ToSet(tmPending) \cup Sealed \cup Flown \cup Queued
  BY HeldMeans
<1>b. Held' = ToSet(tmPending') \cup Sealed' \cup Flown' \cup Queued'
  BY HeldMeansNext
<1>c. tmFlight' = tmFlight => Flown' = Flown
  BY DEF Flown
<1>d. tmSpool' = tmSpool => Queued' = Queued
  BY DEF Queued
<1>e. tmSealing' = tmSealing => Sealed' = Sealed
  BY DEF Sealed
<1>f. ToSet(<<>>) = {}
  BY DEF ToSet
<1>g. tmFlight' = Idle => Flown' = {}
  BY <1>f DEF Flown, Idle
<1>h. tmFlight.arrived => Flown \subseteq tmServer.events
  BY DEF EventsTraced, Flown
<1>1. ASSUME NEW t \in TmTasks, Submit(t) PROVE Accepts
  <2> DEFINE e == tmOffered + 1
  <2>1. e \in TmEvents
    BY <1>1, TelemetryAssumption DEF Submit, TelemetryTypes
  <2>2. ToSet(PushTakes(e).batch) \cup ToSet(PushTakes(e).left) = ToSet(tmPending) \cup {e}
    BY <2>1, PushTakesFacts
  <2>3. /\ tmSealing[t] = <<>> /\ tmOffered' = e /\ tmPending' = PushTakes(e).left
        /\ tmSealing' = [tmSealing EXCEPT ![t] = PushTakes(e).batch]
        /\ UNCHANGED <<tmSpool, tmFlight, tmServer, tmShed>>
    BY <1>1 DEF Submit
  <2>4. Sealed' = Sealed \cup ToSet(PushTakes(e).batch)
    BY <2>3, SealingMoves
  <2> HIDE DEF e
  <2>5. Held' = Held \cup {e}
    BY <1>a, <1>b, <1>c, <1>d, <2>2, <2>3, <2>4
  <2> QED
    BY <2>1, <2>3, <2>5 DEF Accepts, e
<1>2. ASSUME NEW t \in TmTasks, TakePending(t) PROVE Sheds
  <2>1. /\ tmSealing[t] = <<>> /\ tmSealing' = [tmSealing EXCEPT ![t] = tmPending] /\ tmPending' = <<>>
        /\ UNCHANGED <<tmOffered, tmSpool, tmFlight, tmServer, tmShed>>
    BY <1>2 DEF TakePending
  <2>2. Sealed' = Sealed \cup ToSet(tmPending)
    BY <2>1, SealingMoves
  <2>3. Held' = Held
    BY <1>a, <1>b, <1>c, <1>d, <1>f, <2>1, <2>2
  <2> QED
    BY <2>1, <2>3 DEF Sheds
<1>3. ASSUME NEW t \in TmTasks, Seal(t) PROVE Sheds
  <2> DEFINE entry == [seq |-> tmTracker.next, events |-> tmSealing[t]]
  <2>1. entry \in Batches /\ entry.events = tmSealing[t]
    BY DEF Batches, TelemetryTypes
  <2>2. /\ SpoolPush(entry) /\ tmSealing' = [tmSealing EXCEPT ![t] = <<>>]
        /\ UNCHANGED <<tmOffered, tmPending, tmFlight, tmServer>>
    BY <1>3 DEF Seal
  <2> HIDE DEF entry
  <2>3. /\ Queued' \subseteq Queued \cup ToSet(tmSealing[t]) /\ ToSet(tmSealing[t]) \subseteq Queued'
        /\ Queued \subseteq Queued' \cup tmShed'
        /\ tmShed \subseteq tmShed' /\ tmShed' \subseteq tmShed \cup Queued
    BY <2>1, <2>2, PushMoves
  <2>4. /\ Sealed' \subseteq Sealed /\ Sealed \subseteq Sealed' \cup ToSet(tmSealing[t])
        /\ ToSet(tmSealing[t]) \subseteq Sealed
    BY <2>2, SealingMoves
  <2>5. Held' \subseteq Held /\ Held \subseteq Held' \cup tmShed' /\ tmShed' \subseteq tmShed \cup Held
    BY <1>a, <1>b, <1>c, <2>2, <2>3, <2>4
  <2> QED
    BY <2>2, <2>3, <2>5 DEF Sheds
<1>4. ASSUME NEW t \in TmTasks, SealFails(t) PROVE Sheds
  <2>1. /\ tmShed' = tmShed \cup ToSet(tmSealing[t]) /\ tmSealing' = [tmSealing EXCEPT ![t] = <<>>]
        /\ UNCHANGED <<tmOffered, tmPending, tmSpool, tmFlight, tmServer>>
    BY <1>4 DEF SealFails
  <2>2. /\ Sealed' \subseteq Sealed /\ Sealed \subseteq Sealed' \cup ToSet(tmSealing[t])
        /\ ToSet(tmSealing[t]) \subseteq Sealed
    BY <2>1, SealingMoves
  <2>3. Held' \subseteq Held /\ Held \subseteq Held' \cup tmShed' /\ tmShed' \subseteq tmShed \cup Held
    BY <1>a, <1>b, <1>c, <1>d, <2>1, <2>2
  <2> QED
    BY <2>1, <2>3 DEF Sheds
<1>5. CASE Connect \/ UNCHANGED telemetryVars
  <2>1. UNCHANGED <<tmOffered, tmPending, tmSealing, tmSpool, tmFlight, tmServer, tmShed>>
    BY <1>5 DEF Connect, telemetryVars
  <2>2. Held' = Held
    BY <1>a, <1>b, <1>c, <1>d, <1>e, <2>1
  <2> QED
    BY <2>1, <2>2 DEF Sheds
<1>6. CASE Pop
  <2>1. /\ tmFlight = Idle /\ tmSpool # <<>> /\ tmSpool' = Tail(tmSpool)
        /\ tmFlight' = [seq |-> Head(tmSpool).seq, events |-> Head(tmSpool).events, arrived |-> FALSE]
        /\ UNCHANGED <<tmOffered, tmPending, tmSealing, tmServer, tmShed>>
    BY <1>6 DEF Pop, InFlight
  <2>2. /\ DOMAIN tmSpool = 1 .. Len(tmSpool) /\ Len(tmSpool) \in Nat /\ Len(tmSpool) >= 1
        /\ Head(tmSpool) = tmSpool[1]
    BY <2>1, SeqEntries DEF TelemetryTypes
  <2>3. /\ DOMAIN tmSpool' = 1 .. Len(tmSpool) - 1
        /\ \A i \in 1 .. Len(tmSpool) - 1 : tmSpool'[i] = tmSpool[i + 1]
    BY <2>1, TailEntries DEF TelemetryTypes
  <2>4. Flown = {} /\ Flown' = ToSet(tmSpool[1].events)
    BY <1>f, <2>1, <2>2 DEF Flown, Idle
  <2>5. \A i \in DOMAIN tmSpool : i = 1 \/ (i - 1 \in DOMAIN tmSpool' /\ tmSpool'[i - 1] = tmSpool[i])
    BY <2>2, <2>3
  <2>6. \A i \in DOMAIN tmSpool' : i + 1 \in DOMAIN tmSpool /\ tmSpool'[i] = tmSpool[i + 1]
    BY <2>2, <2>3
  <2>7. 1 \in DOMAIN tmSpool
    BY <2>2
  <2>8. \A e : e \in Queued <=> \E i \in DOMAIN tmSpool : e \in ToSet(tmSpool[i].events)
    BY DEF Queued
  <2>9. \A e : e \in Queued' <=> \E i \in DOMAIN tmSpool' : e \in ToSet(tmSpool'[i].events)
    BY DEF Queued
  <2>10. Queued = Queued' \cup Flown'
    <3>1. ASSUME NEW e, e \in Queued PROVE e \in Queued' \cup Flown'
      BY <2>4, <2>5, <2>8, <2>9, <3>1
    <3>2. ASSUME NEW e, e \in Queued' \cup Flown' PROVE e \in Queued
      BY <2>4, <2>6, <2>7, <2>8, <2>9, <3>2
    <3> QED
      BY <3>1, <3>2
  <2>11. Held' = Held
    BY <1>a, <1>b, <1>e, <2>1, <2>4, <2>10
  <2> QED
    BY <2>1, <2>11 DEF Sheds
<1>7. CASE Arrive
  <2>1. /\ tmFlight' = [tmFlight EXCEPT !.arrived = TRUE]
        /\ tmServer' = [last |-> tmFlight.seq, events |-> tmServer.events \cup ToSet(tmFlight.events)]
        /\ UNCHANGED <<tmOffered, tmPending, tmSealing, tmSpool, tmShed>>
    BY <1>7 DEF Arrive
  <2>2. Flown' = Flown /\ tmServer'.events = tmServer.events \cup Flown
    BY <2>1 DEF Flown, TelemetryTypes
  <2>3. Held' = Held
    BY <1>a, <1>b, <1>d, <1>e, <2>1, <2>2
  <2> QED
    BY <1>a, <2>1, <2>2, <2>3 DEF Delivers
<1>8. CASE Acked \/ MalformedAck
  <2>1. /\ tmFlight.arrived /\ tmFlight' = Idle
        /\ UNCHANGED <<tmOffered, tmPending, tmSealing, tmSpool, tmServer, tmShed>>
    BY <1>8 DEF Acked, MalformedAck
  <2>2. Held' \subseteq Held /\ Held \subseteq Held' \cup tmServer.events
    BY <1>a, <1>b, <1>d, <1>e, <1>g, <1>h, <2>1
  <2> QED
    BY <2>1, <2>2 DEF Sheds
<1>9. CASE Transient \/ TransportError
  <2> DEFINE entry == [seq |-> tmFlight.seq, events |-> tmFlight.events]
  <2>1. /\ tmFlight # Idle /\ tmFlight' = Idle /\ SpoolPushFront(entry)
        /\ UNCHANGED <<tmOffered, tmPending, tmSealing, tmServer>>
    BY <1>9 DEF Transient, TransportError, Respool, InFlight
  <2>2. entry \in Batches /\ ToSet(entry.events) = Flown
    BY <2>1 DEF Batches, TelemetryTypes, InFlight, Flown
  <2> HIDE DEF entry
  <2>3. /\ Queued' \subseteq Queued \cup Flown /\ Flown \subseteq Queued'
        /\ Queued \subseteq Queued' \cup tmShed'
        /\ tmShed \subseteq tmShed' /\ tmShed' \subseteq tmShed \cup Queued
    BY <2>1, <2>2, PushMoves
  <2>4. Held' \subseteq Held /\ Held \subseteq Held' \cup tmShed' /\ tmShed' \subseteq tmShed \cup Held
    BY <1>a, <1>b, <1>e, <1>g, <2>1, <2>3
  <2> QED
    BY <2>1, <2>3, <2>4 DEF Sheds
<1>10. CASE Rejected
  <2>1. /\ tmShed' = tmShed \cup Flown /\ tmFlight' = Idle
        /\ UNCHANGED <<tmOffered, tmPending, tmSealing, tmSpool, tmServer>>
    BY <1>10 DEF Rejected, Flown
  <2>2. Held' \subseteq Held /\ Held \subseteq Held' \cup tmShed' /\ tmShed' \subseteq tmShed \cup Held
    BY <1>a, <1>b, <1>d, <1>e, <1>g, <2>1
  <2> QED
    BY <2>1, <2>2 DEF Sheds
<1> QED
  BY <1>1, <1>2, <1>3, <1>4, <1>5, <1>6, <1>7, <1>8, <1>9, <1>10 DEF TelemetryNext, Flush

LEMMA TracedStep ==
    ASSUME TelemetryTypes, TelemetryTypes', EventsTraced, tmTracker.next # 0,
           [TelemetryNext]_telemetryVars
    PROVE  EventsTraced'
<1>1. Accepts \/ Delivers \/ Sheds
  BY FlowStep
<1>2. tmOffered \in Nat /\ TmEvents \subseteq Nat
  <2>1. tmOffered \in 0 .. Cardinality(TmEvents)
    BY DEF TelemetryTypes
  <2>2. Cardinality(TmEvents) \in Nat /\ TmEvents = 1 .. Cardinality(TmEvents)
    BY TelemetryAssumption
  <2> QED
    BY <2>1, <2>2
<1>3. Held \subseteq TmEvents /\ tmServer.events \subseteq TmEvents /\ tmShed \subseteq TmEvents
  <2>1. ToSet(tmPending) \subseteq TmEvents
    BY DEF TelemetryTypes, ToSet
  <2>2. Sealed \subseteq TmEvents
    <3>1. \A t \in TmTasks : tmSealing[t] \in Seq(TmEvents)
      BY DEF TelemetryTypes
    <3>2. \A t \in TmTasks : ToSet(tmSealing[t]) \subseteq TmEvents
      BY <3>1 DEF ToSet
    <3> QED
      BY <3>2 DEF Sealed
  <2>3. Flown \subseteq TmEvents
    BY DEF TelemetryTypes, Flown, ToSet
  <2>4. Queued \subseteq TmEvents
    <3>1. \A i \in DOMAIN tmSpool : tmSpool[i] \in Batches
      BY SeqEntries DEF TelemetryTypes
    <3>2. \A b \in Batches : ToSet(b.events) \subseteq TmEvents
      BY DEF Batches, ToSet
    <3> QED
      BY <3>1, <3>2 DEF Queued
  <2> QED
    BY <2>1, <2>2, <2>3, <2>4, HeldMeans DEF TelemetryTypes
<1>4. \A e \in Held \cup tmServer.events \cup tmShed : e <= tmOffered
  BY DEF EventsTraced
<1>5. \A e \in Held' \cup tmServer'.events \cup tmShed' : e <= tmOffered'
  <2>1. CASE Accepts
    BY <1>2, <1>3, <1>4, <2>1 DEF Accepts
  <2>2. CASE Delivers \/ Sheds
    <3>1. /\ Held' \cup tmServer'.events \cup tmShed' \subseteq Held \cup tmServer.events \cup tmShed
          /\ tmOffered' = tmOffered
      BY <2>2 DEF Delivers, Sheds
    <3> QED
      BY <1>4, <3>1
  <2> QED
    BY <1>1, <2>1, <2>2
<1>6. tmServer.events \subseteq tmServer'.events
  BY <1>1 DEF Accepts, Delivers, Sheds
<1>7. tmFlight'.arrived => ToSet(tmFlight'.events) \subseteq tmServer'.events
  <2>1. tmFlight' = tmFlight \/ ~tmFlight'.arrived \/ Arrive
    <3>1. ASSUME NEW t \in TmTasks, Submit(t) \/ TakePending(t) \/ Seal(t) \/ SealFails(t)
          PROVE  tmFlight' = tmFlight
      BY <3>1 DEF Submit, TakePending, Seal, SealFails
    <3>2. Connect \/ UNCHANGED telemetryVars => tmFlight' = tmFlight
      BY DEF Connect, telemetryVars
    <3>3. Pop => ~tmFlight'.arrived
      BY DEF Pop
    <3>4. Acked \/ MalformedAck \/ Transient \/ TransportError \/ Rejected => tmFlight' = Idle
      BY DEF Acked, MalformedAck, Transient, TransportError, Respool, Rejected
    <3>5. ~Idle.arrived
      BY DEF Idle
    <3> QED
      BY <3>1, <3>2, <3>3, <3>4, <3>5 DEF TelemetryNext, Flush
  <2>2. tmFlight.arrived => ToSet(tmFlight.events) \subseteq tmServer.events
    BY DEF EventsTraced
  <2>3. CASE Arrive
    <3>1. tmFlight'.events = tmFlight.events
      BY <2>3 DEF Arrive, TelemetryTypes
    <3> QED
      BY <2>3, <3>1 DEF Arrive
  <2> QED
    BY <1>6, <2>1, <2>2, <2>3
<1> QED
  BY <1>5, <1>7 DEF EventsTraced

-----------------------------------------------------------------------------
(* Theorems. *)

LEMMA TelemetryInitInv ==
    ASSUME TelemetryInit PROVE TelemetryInv
<1>1. TelemetryTypes
  <2>1. tmOffered = 0 /\ 0 \in 0 .. Cardinality(TmEvents)
    BY TelemetryAssumption DEF TelemetryInit
  <2>2. /\ tmPending \in Seq(TmEvents) /\ tmSpool \in Seq(Batches)
        /\ tmSealing \in [TmTasks -> Seq(TmEvents)]
        /\ tmFlight = Idle /\ tmShed = {}
    BY DEF TelemetryInit
  <2>3. tmTracker \in [next : Nat, emitted : Nat, acked : Nat]
    BY DEF TelemetryInit
  <2>4. tmFlight \in [seq : Nat, events : Seq(TmEvents), arrived : BOOLEAN]
    BY <2>2 DEF Idle
  <2>5. tmServer \in [last : Nat, events : SUBSET TmEvents]
    BY DEF TelemetryInit
  <2> QED
    BY <2>1, <2>2, <2>3, <2>4, <2>5 DEF TelemetryTypes, InFlight
<1>2. SpoolOrdered
  <2>1. DOMAIN tmSpool = {} /\ ~InFlight
    BY DEF TelemetryInit, InFlight
  <2> QED
    BY <2>1 DEF TelemetryInit, SpoolOrdered
<1>3. EventsTraced
  <2>1. ToSet(tmPending) = {} /\ Queued = {} /\ Flown = {}
    BY DEF TelemetryInit, ToSet, Queued, Flown, Idle
  <2>2. Sealed = {}
    BY DEF TelemetryInit, ToSet, Sealed
  <2>3. tmServer.events = {} /\ tmShed = {} /\ ~tmFlight.arrived
    BY DEF TelemetryInit, Idle
  <2>4. Held = {}
    BY <1>1, <2>1, <2>2, HeldMeans
  <2> QED
    BY <2>3, <2>4 DEF EventsTraced
<1> QED
  BY <1>1, <1>2, <1>3 DEF TelemetryInv

LEMMA TelemetryStepInv ==
    ASSUME TelemetryInv, [TelemetryNext]_telemetryVars PROVE TelemetryInv'
<1>1. TelemetryTypes /\ SpoolOrdered /\ EventsTraced
  BY DEF TelemetryInv
<1>2. tmTracker.next # 0
  BY <1>1 DEF SpoolOrdered, TelemetryTypes
<1>3. TelemetryTypes'
  BY <1>1, <1>2, TelemetryTypesStep
<1> QED
  BY <1>1, <1>2, <1>3, OrderStep, TracedStep DEF TelemetryInv

\* What the invariant says of the outgoing queue as a whole.
LEMMA OrderShows ==
    ASSUME TelemetryInv PROVE AcksNeverRegress
<1>1. TelemetryTypes /\ SpoolOrdered
  BY DEF TelemetryInv
<1> DEFINE S == [seq : Nat, events : Seq(TmEvents), arrived : BOOLEAN] \cup Batches
<1>2. tmSpool \in Seq(S) /\ tmFlight \in S
  BY <1>1 DEF TelemetryTypes
<1> HIDE DEF S
<1>3. /\ \A i \in DOMAIN tmSpool :
           /\ MayGoOut(tmSpool[i].seq)
           /\ InFlight => tmFlight.seq < tmSpool[i].seq
      /\ \A i, j \in DOMAIN tmSpool : i < j => tmSpool[i].seq < tmSpool[j].seq
      /\ InFlight => MayGoOut(tmFlight.seq)
  BY <1>1 DEF SpoolOrdered
<1>4. \A seq \in Nat : MayGoOut(seq) =>
        seq <= tmTracker.emitted /\ seq >= tmTracker.acked /\ seq >= tmServer.last
  BY <1>1 DEF MayGoOut, TelemetryTypes
<1>5. DOMAIN tmSpool = 1 .. Len(tmSpool) /\ Len(tmSpool) \in Nat
  BY <1>2, SeqEntries
<1>6. (\A i \in DOMAIN tmSpool : tmSpool[i].seq \in Nat) /\ tmFlight.seq \in Nat
  <2>1. \A i \in DOMAIN tmSpool : tmSpool[i] \in Batches
    BY <1>1, SeqEntries DEF TelemetryTypes
  <2>2. \A b \in Batches : b.seq \in Nat
    BY DEF Batches
  <2> QED
    BY <1>1, <2>1, <2>2 DEF TelemetryTypes
<1>7. CASE ~InFlight
  <2>1. Outgoing = tmSpool
    BY <1>2, <1>7, QueueEntries DEF Outgoing
  <2> QED
    BY <1>3, <1>4, <1>6, <2>1 DEF AcksNeverRegress
<1>8. CASE InFlight
  <2>1. Outgoing = <<tmFlight>> \o tmSpool
    BY <1>8 DEF Outgoing
  <2>2. /\ DOMAIN Outgoing = 1 .. Len(tmSpool) + 1 /\ Outgoing[1] = tmFlight
        /\ \A i \in 2 .. Len(tmSpool) + 1 : Outgoing[i] = tmSpool[i - 1]
    BY <1>2, <2>1, ConsEntries
  <2>3. \A i \in DOMAIN Outgoing :
          \/ i = 1 /\ Outgoing[i].seq = tmFlight.seq
          \/ i - 1 \in DOMAIN tmSpool /\ Outgoing[i].seq = tmSpool[i - 1].seq
    <3> SUFFICES ASSUME NEW i \in DOMAIN Outgoing, i # 1
                 PROVE  i - 1 \in DOMAIN tmSpool /\ Outgoing[i] = tmSpool[i - 1]
      BY <2>2
    <3>1. i \in 2 .. Len(tmSpool) + 1 /\ i - 1 \in 1 .. Len(tmSpool)
      BY <1>5, <2>2
    <3> QED
      BY <1>5, <2>2, <3>1
  <2>4. \A i \in DOMAIN Outgoing : Outgoing[i].seq \in Nat /\ MayGoOut(Outgoing[i].seq)
    BY <1>3, <1>6, <1>8, <2>3
  <2>5. \A i, j \in DOMAIN Outgoing : i < j => Outgoing[i].seq < Outgoing[j].seq
    <3> SUFFICES ASSUME NEW i \in DOMAIN Outgoing, NEW j \in DOMAIN Outgoing, i < j
                 PROVE  Outgoing[i].seq < Outgoing[j].seq
      OBVIOUS
    <3>1. i \in Int /\ j \in Int /\ j # 1 /\ i - 1 < j - 1
      BY <1>5, <2>2
    <3>2. j - 1 \in DOMAIN tmSpool /\ Outgoing[j].seq = tmSpool[j - 1].seq
      BY <2>3, <3>1
    <3>3. CASE i = 1 /\ Outgoing[i].seq = tmFlight.seq
      BY <1>3, <1>8, <3>2, <3>3
    <3>4. CASE i - 1 \in DOMAIN tmSpool /\ Outgoing[i].seq = tmSpool[i - 1].seq
      BY <1>3, <3>1, <3>2, <3>4
    <3> QED
      BY <2>3, <3>3, <3>4
  <2> QED
    BY <1>4, <2>4, <2>5 DEF AcksNeverRegress
<1> QED
  BY <1>7, <1>8

\* Whatever is evicted, re-queued or sealed concurrently, batches leave in
\* ascending order of their numbers and none is older than what the control
\* plane has seen or acknowledged, so an honest ack is never a regression.
THEOREM BatchesInOrder == TelemetrySpec => []AcksNeverRegress
<1>1. TelemetryInit => TelemetryInv
  BY TelemetryInitInv
<1>2. TelemetryInv /\ [TelemetryNext]_telemetryVars => TelemetryInv'
  BY TelemetryStepInv
<1>3. TelemetryInv => AcksNeverRegress
  BY OrderShows
<1> QED
  BY <1>1, <1>2, <1>3, PTL DEF TelemetrySpec

LEMMA ChannelStarts ==
    ASSUME TelemetryInit PROVE Channel!ChannelInit
<1>1. TelemetryTypes
  BY TelemetryInitInv DEF TelemetryInv
<1>2. ToSet(tmPending) = {} /\ Queued = {} /\ Flown = {}
  BY DEF TelemetryInit, ToSet, Queued, Flown, Idle
<1>3. Sealed = {}
  BY DEF TelemetryInit, ToSet, Sealed
<1>4. tmServer.events = {} /\ tmShed = {}
  BY DEF TelemetryInit
<1>5. Held = {}
  BY <1>1, <1>2, <1>3, HeldMeans
<1> QED
  BY <1>4, <1>5 DEF TmStatus, Channel!ChannelInit

LEMMA ChannelSteps ==
    ASSUME TelemetryInv, [TelemetryNext]_telemetryVars
    PROVE  [Channel!ChannelNext]_TmStatus
<1>1. TelemetryTypes /\ SpoolOrdered /\ EventsTraced
  BY DEF TelemetryInv
<1>2. TelemetryTypes' /\ tmTracker.next # 0
  <2>1. TelemetryInv'
    BY TelemetryStepInv
  <2>2. tmTracker.next = tmTracker.emitted + 1
    BY <1>1 DEF SpoolOrdered
  <2>3. tmTracker.emitted \in Nat
    BY <1>1 DEF TelemetryTypes
  <2>4. TelemetryTypes'
    BY <2>1 DEF TelemetryInv
  <2> QED
    BY <2>2, <2>3, <2>4
<1>3. Accepts \/ Delivers \/ Sheds
  BY <1>1, <1>2, FlowStep
<1>4. ASSUME NEW S \in SUBSET TmEvents, NEW s,
             \A e \in S : TmStatus[e] = "held" /\ TmStatus'[e] = s,
             \A e \in TmEvents \ S : TmStatus'[e] = TmStatus[e],
             s = "delivered" \/ s = "shed"
      PROVE  [Channel!ChannelNext]_TmStatus
  <2>1. TmStatus' = [e \in TmEvents |-> IF e \in S THEN s ELSE TmStatus[e]]
    BY <1>4 DEF TmStatus
  <2>2. CASE S = {}
    <3>1. TmStatus' = TmStatus
      BY <2>1, <2>2 DEF TmStatus
    <3> QED
      BY <3>1
  <2>3. CASE S # {}
    <3>1. Channel!Move(S, {"held"}, s)
      BY <1>4, <2>1, <2>3 DEF Channel!Move
    <3> QED
      BY <1>4, <3>1 DEF Channel!ChannelNext, Channel!Deliver, Channel!Shed
  <2> QED
    BY <2>2, <2>3
<1>5. \A e \in TmEvents : TmStatus[e] = IF e \in tmServer.events THEN "delivered"
                                      ELSE IF e \in Held THEN "held"
                                      ELSE IF e \in tmShed THEN "shed" ELSE "new"
  BY DEF TmStatus
<1>6. \A e \in TmEvents : TmStatus'[e] = IF e \in tmServer'.events THEN "delivered"
                                       ELSE IF e \in Held' THEN "held"
                                       ELSE IF e \in tmShed' THEN "shed" ELSE "new"
  BY DEF TmStatus
<1>7. CASE Accepts
  <2> DEFINE n == tmOffered + 1
  <2>1. n \in TmEvents /\ ~(n <= tmOffered)
    BY <1>1, <1>7 DEF Accepts, TelemetryTypes
  <2>2. n \notin Held /\ n \notin tmServer.events /\ n \notin tmShed
    BY <1>1, <2>1 DEF EventsTraced
  <2>3. Held' = Held \cup {n} /\ tmServer'.events = tmServer.events /\ tmShed' = tmShed
    BY <1>7 DEF Accepts
  <2> HIDE DEF n
  <2>4. TmStatus[n] = "new" /\ TmStatus'[n] = "held"
    BY <1>5, <1>6, <2>1, <2>2, <2>3
  <2>5. \A e \in TmEvents : e # n => TmStatus'[e] = TmStatus[e]
    BY <1>5, <1>6, <2>3
  <2>6. TmStatus' = [e \in TmEvents |-> IF e \in {n} THEN "held" ELSE TmStatus[e]]
    BY <2>4, <2>5 DEF TmStatus
  <2>7. Channel!Move({n}, {"new"}, "held")
    BY <2>4, <2>6 DEF Channel!Move
  <2> QED
    BY <2>1, <2>7 DEF Channel!ChannelNext, Channel!Accept
<1>8. CASE Delivers
  <2> DEFINE S == {e \in TmEvents : TmStatus[e] = "held" /\ e \in tmServer'.events}
  <2>1. S \in SUBSET TmEvents
    OBVIOUS
  <2>2. \A e \in S : TmStatus[e] = "held" /\ TmStatus'[e] = "delivered"
    BY <1>6
  <2>3. \A e \in TmEvents \ S : TmStatus'[e] = TmStatus[e]
    BY <1>5, <1>6, <1>8 DEF Delivers
  <2> HIDE DEF S
  <2> QED
    BY <1>4, <2>1, <2>2, <2>3
<1>9. CASE Sheds
  <2> DEFINE S == {e \in TmEvents : TmStatus[e] = "held" /\ e \notin Held'}
  <2>1. S \in SUBSET TmEvents
    OBVIOUS
  <2>2. \A e \in S : TmStatus[e] = "held" /\ TmStatus'[e] = "shed"
    BY <1>5, <1>6, <1>9 DEF Sheds
  <2>3. \A e \in TmEvents \ S : TmStatus'[e] = TmStatus[e]
    BY <1>5, <1>6, <1>9 DEF Sheds
  <2> HIDE DEF S
  <2> QED
    BY <1>4, <2>1, <2>2, <2>3
<1> QED
  BY <1>3, <1>7, <1>8, <1>9

\* The safety half of the refinement: under the mapping TmStatus every step
\* of the egress is one step of the event channel or changes nothing there,
\* so an accepted event is neither lost silently nor resurrected.
THEOREM EgressFollowsChannel ==
    TelemetrySpec => Channel!ChannelInit /\ [][Channel!ChannelNext]_TmStatus
<1>1. TelemetryInit => TelemetryInv /\ Channel!ChannelInit
  BY TelemetryInitInv, ChannelStarts
<1>2. TelemetryInv /\ [TelemetryNext]_telemetryVars => TelemetryInv'
  BY TelemetryStepInv
<1>3. TelemetryInv /\ [TelemetryNext]_telemetryVars => [Channel!ChannelNext]_TmStatus
  BY ChannelSteps
<1> QED
  BY <1>1, <1>2, <1>3, PTL DEF TelemetrySpec
=============================================================================
