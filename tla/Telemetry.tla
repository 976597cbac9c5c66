----------------------------- MODULE Telemetry -----------------------------
(* The telemetry egress of an edge: sng-comms'                              *)
(* TelemetryClient (batch builder, seal lock, bounded spool, sequence       *)
(* tracker) with its concurrent callers, and the flush loop that ships      *)
(* spooled batches over a connection that can fail at any point.            *)
EXTENDS Integers, Sequences, FiniteSets, SequencesExt

CONSTANTS
    TmTasks,        \* tasks that call submit, tick and force_seal
    TmEvents,       \* the events offered, 1..n, each offered once
    TmSize,         \* encoded bytes of each event
    BatchMaxEvents, BatchMaxBytes,   \* BatchConfig
    SpoolCapacity

ASSUME TelemetryAssumption ==
    /\ Cardinality(TmEvents) \in Nat /\ TmEvents = 1 .. Cardinality(TmEvents)
    /\ TmSize \in [TmEvents -> Nat \ {0}]
    /\ BatchMaxEvents \in Nat \ {0} /\ BatchMaxBytes \in Nat \ {0}
    /\ SpoolCapacity \in Nat \ {0}

VARIABLES
    tmOffered,   \* how many of the events have been submitted
    tmPending,   \* BatchBuilder.pending
    tmSealing,   \* per task: a batch taken from the builder, not yet sealed
    tmSpool,     \* BoundedSpool<EncodedBatch>, oldest first
    tmTracker,   \* SequenceTracker: next, last_emitted, acked_high_water (0: None)
    tmFlight,    \* the batch flush_one has popped, and whether it arrived
    tmLink,      \* the flush loop holds a connection
    tmServer,    \* external: the events received, the last sequence received
    tmShed       \* events given up with a counter or a log line

telemetryVars == <<tmOffered, tmPending, tmSealing, tmSpool, tmTracker,
                   tmFlight, tmLink, tmServer, tmShed>>

Idle == [seq |-> 0, events |-> <<>>, arrived |-> FALSE]

Bytes(events) == FoldSeq(LAMBDA e, sum : TmSize[e] + sum, 0, events)

TelemetryInit ==
    /\ tmOffered = 0 /\ tmPending = <<>>
    /\ tmSealing = [t \in TmTasks |-> <<>>]
    /\ tmSpool = <<>> /\ tmFlight = Idle /\ tmLink = FALSE
    /\ tmTracker = [next |-> 1, emitted |-> 0, acked |-> 0]
    /\ tmServer = [last |-> 0, events |-> {}]
    /\ tmShed = {}

-----------------------------------------------------------------------------
(* The producers. *)

\* The batch a push of e takes out of the builder, and what it leaves there.
\* A batch that e would overfill is taken without e, and then e is not
\* looked at again: a push returns at most one batch.
PushTakes(e) ==
    LET full == Len(tmPending) >= BatchMaxEvents
                \/ Bytes(tmPending) + TmSize[e] > BatchMaxBytes
        with == Append(tmPending, e)
    IN  IF tmPending # <<>> /\ full THEN [batch |-> tmPending, left |-> <<e>>]
        ELSE IF Len(with) >= BatchMaxEvents \/ Bytes(with) > BatchMaxBytes
             THEN [batch |-> with, left |-> <<>>]
             ELSE [batch |-> <<>>, left |-> with]

Submit(t) ==
    /\ tmSealing[t] = <<>> /\ tmOffered < Cardinality(TmEvents)
    /\ LET e == tmOffered + 1
       IN  /\ tmOffered' = e
           /\ tmPending' = PushTakes(e).left
           /\ tmSealing' = [tmSealing EXCEPT ![t] = PushTakes(e).batch]
    /\ UNCHANGED <<tmSpool, tmTracker, tmFlight, tmLink, tmServer, tmShed>>

\* tick with the flush interval elapsed, or force_seal: the whole builder.
TakePending(t) ==
    /\ tmSealing[t] = <<>> /\ tmPending # <<>>
    /\ tmSealing' = [tmSealing EXCEPT ![t] = tmPending]
    /\ tmPending' = <<>>
    /\ UNCHANGED <<tmOffered, tmSpool, tmTracker, tmFlight, tmLink, tmServer, tmShed>>

\* BoundedSpool::push makes room at the front, push_front at the back.
Evicted(dropped) ==
    tmShed' = tmShed \cup ToSet(dropped.events)

SpoolPush(entry) ==
    IF Len(tmSpool) >= SpoolCapacity
    THEN /\ tmSpool' = Append(Tail(tmSpool), entry)
         /\ Evicted(Head(tmSpool))
    ELSE tmSpool' = Append(tmSpool, entry) /\ UNCHANGED tmShed

SpoolPushFrontMutant(entry) ==
    IF Len(tmSpool) >= SpoolCapacity
    THEN tmSpool' = Append(Tail(tmSpool), entry) /\ Evicted(Head(tmSpool))
    ELSE tmSpool' = Append(tmSpool, entry) /\ UNCHANGED tmShed

SpoolPushFront(entry) ==
    IF Len(tmSpool) >= SpoolCapacity
    THEN /\ tmSpool' = <<entry>> \o Front(tmSpool)
         /\ Evicted(Last(tmSpool))
    ELSE tmSpool' = <<entry>> \o tmSpool /\ UNCHANGED tmShed

\* seal_batch, one critical section under seal_lock: encode, number, spool.
Seal(t) ==
    /\ tmSealing[t] # <<>>
    /\ SpoolPush([seq |-> tmTracker.next, events |-> tmSealing[t]])
    /\ tmTracker' = [tmTracker EXCEPT !.next = @ + 1, !.emitted = tmTracker.next]
    /\ tmSealing' = [tmSealing EXCEPT ![t] = <<>>]
    /\ UNCHANGED <<tmOffered, tmPending, tmFlight, tmLink, tmServer>>

\* The encoder fails: the batch is dropped, its sequence number is not used.
SealFails(t) ==
    /\ tmSealing[t] # <<>>
    /\ tmShed' = tmShed \cup ToSet(tmSealing[t])
    /\ tmSealing' = [tmSealing EXCEPT ![t] = <<>>]
    /\ UNCHANGED <<tmOffered, tmPending, tmSpool, tmTracker, tmFlight, tmLink, tmServer>>

-----------------------------------------------------------------------------
(* The flush loop. *)

InFlight == tmFlight # Idle

Connect ==
    /\ ~tmLink
    /\ tmLink' = TRUE
    /\ UNCHANGED <<tmOffered, tmPending, tmSealing, tmSpool, tmTracker, tmFlight, tmServer, tmShed>>

\* flush_one takes the oldest batch and awaits the round trip.
Pop ==
    /\ tmLink /\ ~InFlight /\ tmSpool # <<>>
    /\ tmFlight' = [seq |-> Head(tmSpool).seq, events |-> Head(tmSpool).events, arrived |-> FALSE]
    /\ tmSpool' = Tail(tmSpool)
    /\ UNCHANGED <<tmOffered, tmPending, tmSealing, tmTracker, tmLink, tmServer, tmShed>>

\* External: the control plane takes the batch in; its answer is still out.
Arrive ==
    /\ InFlight /\ ~tmFlight.arrived
    /\ tmFlight' = [tmFlight EXCEPT !.arrived = TRUE]
    /\ tmServer' = [last |-> tmFlight.seq, events |-> tmServer.events \cup ToSet(tmFlight.events)]
    /\ UNCHANGED <<tmOffered, tmPending, tmSealing, tmSpool, tmTracker, tmLink, tmShed>>

\* The two acks record_ack refuses; either drops the connection.
Regression(seq) == seq > tmTracker.emitted \/ seq < tmTracker.acked

Acked ==
    /\ tmFlight.arrived
    /\ tmFlight' = Idle
    /\ IF Regression(tmFlight.seq)
       THEN tmLink' = FALSE /\ UNCHANGED tmTracker
       ELSE tmTracker' = [tmTracker EXCEPT !.acked = tmFlight.seq] /\ UNCHANGED tmLink
    /\ UNCHANGED <<tmOffered, tmPending, tmSealing, tmSpool, tmServer, tmShed>>

\* 2xx with a body parse_ack cannot read: the batch is the server's.
MalformedAck ==
    /\ tmFlight.arrived
    /\ tmFlight' = Idle /\ tmLink' = FALSE
    /\ UNCHANGED <<tmOffered, tmPending, tmSealing, tmSpool, tmTracker, tmServer, tmShed>>

RespoolMutant ==
    /\ tmFlight' = Idle
    /\ UNCHANGED <<tmSpool, tmShed>>
    /\ UNCHANGED <<tmOffered, tmPending, tmSealing, tmTracker, tmServer>>

Respool ==
    /\ tmFlight' = Idle
    /\ SpoolPushFront([seq |-> tmFlight.seq, events |-> tmFlight.events])
    /\ UNCHANGED <<tmOffered, tmPending, tmSealing, tmTracker, tmServer>>

\* A retryable status: before or after the batch was taken in.
Transient == InFlight /\ Respool /\ UNCHANGED tmLink

\* The connection breaks before or after the batch arrived.
TransportError == InFlight /\ Respool /\ tmLink' = FALSE

\* A permanent refusal: logged, and the connection is dropped with it.
Rejected ==
    /\ InFlight /\ ~tmFlight.arrived
    /\ tmShed' = tmShed \cup ToSet(tmFlight.events)
    /\ tmFlight' = Idle /\ tmLink' = FALSE
    /\ UNCHANGED <<tmOffered, tmPending, tmSealing, tmSpool, tmTracker, tmServer>>

Flush == Pop \/ Arrive \/ Acked \/ MalformedAck \/ Transient \/ TransportError \/ Rejected

TelemetryNext ==
    \/ \E t \in TmTasks : Submit(t) \/ TakePending(t) \/ Seal(t) \/ SealFails(t)
    \/ Connect \/ Flush

\* The ticker runs, a sealing task finishes, the loop reconnects and pops; a
\* batch that is sent again and again is acknowledged in the end.
TelemetryFairness ==
    /\ \A t \in TmTasks : WF_telemetryVars(Seal(t)) /\ WF_telemetryVars(TakePending(t))
    /\ WF_telemetryVars(Connect) /\ WF_telemetryVars(Pop)
    /\ SF_telemetryVars(Arrive) /\ SF_telemetryVars(Acked)

TelemetrySpec == TelemetryInit /\ [][TelemetryNext]_telemetryVars /\ TelemetryFairness

-----------------------------------------------------------------------------
(* Properties. *)

\* Every batch on its way out, oldest first.
Outgoing == (IF InFlight THEN <<tmFlight>> ELSE <<>>) \o tmSpool

\* The ordering the sequence tracker assumes (telemetry.rs, the respool
\* comment): batches go out in ascending sequence, whatever was evicted,
\* re-queued or sealed concurrently, so that an honest control plane never
\* sees an older batch after a newer one and its ack is never a regression.
AcksNeverRegress ==
    /\ \A i, j \in DOMAIN Outgoing : i < j => Outgoing[i].seq < Outgoing[j].seq
    /\ \A i \in DOMAIN Outgoing :
        /\ Outgoing[i].seq <= tmTracker.emitted
        /\ Outgoing[i].seq >= tmTracker.acked
        /\ Outgoing[i].seq >= tmServer.last

Held == ToSet(tmPending) \cup (UNION {ToSet(tmSealing[t]) : t \in TmTasks})
        \cup (UNION {ToSet(o.events) : o \in Range(Outgoing)})

TmStatus == [e \in TmEvents |->
                IF e \in tmServer.events THEN "delivered"
                ELSE IF e \in Held THEN "held"
                ELSE IF e \in tmShed THEN "shed" ELSE "new"]

Channel == INSTANCE EventChannel WITH ChannelEvents <- TmEvents, status <- TmStatus

\* The egress implements the event channel: held events are delivered or
\* shed on the record, in whole batches, and none is held for ever.
ImplementsEventChannel == Channel!ChannelSpec

-----------------------------------------------------------------------------
(* The inductive strengthening that the proofs use. *)

Batches == [seq : Nat \ {0}, events : Seq(TmEvents)]

TelemetryTypes ==
    /\ tmOffered \in 0 .. Cardinality(TmEvents) /\ tmPending \in Seq(TmEvents)
    /\ tmSealing \in [TmTasks -> Seq(TmEvents)] /\ tmSpool \in Seq(Batches)
    /\ tmTracker \in [next : Nat, emitted : Nat, acked : Nat]
    /\ tmFlight \in [seq : Nat, events : Seq(TmEvents), arrived : BOOLEAN]
    /\ InFlight => tmFlight.seq # 0
    /\ tmServer \in [last : Nat, events : SUBSET TmEvents] /\ tmShed \subseteq TmEvents

\* What the tracker and the server have seen of a number that may still go out.
MayGoOut(seq) ==
    tmTracker.acked <= seq /\ tmServer.last <= seq /\ seq <= tmTracker.emitted

SpoolOrdered ==
    /\ tmTracker.next = tmTracker.emitted + 1
    /\ tmTracker.acked <= tmTracker.emitted /\ tmServer.last <= tmTracker.emitted
    /\ InFlight => MayGoOut(tmFlight.seq)
    /\ \A i \in DOMAIN tmSpool :
        /\ MayGoOut(tmSpool[i].seq)
        /\ InFlight => tmFlight.seq < tmSpool[i].seq
        /\ \A j \in DOMAIN tmSpool : i < j => tmSpool[i].seq < tmSpool[j].seq

\* An event that was not offered yet is nowhere, and a batch that arrived is
\* the server's.
EventsTraced ==
    /\ \A e \in Held \cup tmServer.events \cup tmShed : e <= tmOffered
    /\ tmFlight.arrived => ToSet(tmFlight.events) \subseteq tmServer.events

TelemetryInv == TelemetryTypes /\ SpoolOrdered /\ EventsTraced

=============================================================================
