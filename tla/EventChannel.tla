---------------------------- MODULE EventChannel ----------------------------
(* What telemetry promises the rest of the appliance, without a batch, a    *)
(* sequence number or a spool in sight: an event that was accepted is held  *)
(* until it is delivered to the control plane or shed on the record, and    *)
(* nothing is held for ever.  Telemetry implements this specification.      *)
CONSTANT ChannelEvents

VARIABLE status

Statuses == {"new", "held", "delivered", "shed"}

ChannelInit == status = [e \in ChannelEvents |-> "new"]

\* The events of S leave the given states together for the state s.
Move(S, from, s) ==
    /\ S # {} /\ \A e \in S : status[e] \in from
    /\ status' = [e \in ChannelEvents |-> IF e \in S THEN s ELSE status[e]]

Accept == \E e \in ChannelEvents : Move({e}, {"new"}, "held")

\* A whole batch arrives at once; a retransmission arrives again.
Deliver == \E S \in SUBSET ChannelEvents : Move(S, {"held"}, "delivered")

\* A batch is given up at once, and the loss is counted or logged.
Shed == \E S \in SUBSET ChannelEvents : Move(S, {"held"}, "shed")

ChannelNext == Accept \/ Deliver \/ Shed

Resolved(e) == status[e] \in {"delivered", "shed"}

ChannelSpec ==
    /\ ChannelInit /\ [][ChannelNext]_status
    /\ \A e \in ChannelEvents : status[e] = "held" ~> Resolved(e)
=============================================================================
