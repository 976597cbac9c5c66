----------------------------- MODULE MCServices -----------------------------
(* The services the edge runs on one model, one of which moves in each      *)
(* behaviour; they share no state.  As in MCEdge.                           *)
EXTENDS IpsManager, Collection, Failover, Steering, ZtnaSessions, FastPath

VARIABLE focus   \* the component that moves

MCMembers == <<"wan1", "wan2", "lte">>
MCWatches == << <<"wan1", "bc">>, <<"wan1", "rt">>, <<"wan2", "bc">>, <<"lte", "bc">> >>
MCWeights == [wan1 |-> 3, wan2 |-> 2, lte |-> 1]

\* A ruleset XDP holds entirely; one whose prefix ends at a rule with a
\* subject and that blocks a class; one with more rules than the map has slots.
Rule(flows, action) == [flows |-> flows, action |-> action, pure |-> TRUE]
Gated(flows, action) == [Rule(flows, action) EXCEPT !.pure = FALSE]
MCFpPolicies == <<
    [rules |-> <<Rule({"a"}, "allow"), Rule({"b"}, "deny")>>,
     default |-> "deny", classes |-> <<>>],
    [rules |-> <<Rule({"a"}, "log"), Rule({"b"}, "deny"), Gated({"a"}, "allow"), Rule({"a"}, "deny")>>,
     default |-> "inspect", classes |-> <<[flows |-> {"b"}, action |-> "block"]>>],
    [rules |-> <<Rule({}, "allow"), Rule({"a"}, "allow"), Rule({"b"}, "deny")>>,
     default |-> "deny", classes |-> <<>>] >>

Init ==
    /\ IpsInit /\ DedupInit /\ PcapInit /\ FailoverInit /\ BondInit /\ SteeringInit /\ ZtnaInit /\ FastPathInit
    /\ focus \in {"ips", "dedup", "pcap", "failover", "bond", "steering", "ztna", "xdp"}
    \* Where a component that stands still could begin in several states, one will do.
    \* One first configuration stands for the others, which are interchangeable.
    /\ imDisk.config = "a"
    /\ focus # "failover" => foMode = "delay"

Next ==
    \/ focus = "ips" /\ IpsNext
       /\ UNCHANGED <<focus, dedupVars, pcapVars, failoverVars, bondVars, steeringVars, ztnaVars, fastPathVars>>
    \/ focus = "dedup" /\ DedupNext
       /\ UNCHANGED <<focus, ipsVars, pcapVars, failoverVars, bondVars, steeringVars, ztnaVars, fastPathVars>>
    \/ focus = "pcap" /\ PcapNext
       /\ UNCHANGED <<focus, ipsVars, dedupVars, failoverVars, bondVars, steeringVars, ztnaVars, fastPathVars>>
    \/ focus = "failover" /\ FailoverNext
       /\ UNCHANGED <<focus, ipsVars, dedupVars, pcapVars, bondVars, steeringVars, ztnaVars, fastPathVars>>
    \/ focus = "bond" /\ BondNext
       /\ UNCHANGED <<focus, ipsVars, dedupVars, pcapVars, failoverVars, steeringVars, ztnaVars, fastPathVars>>
    \/ focus = "steering" /\ SteeringNext
       /\ UNCHANGED <<focus, ipsVars, dedupVars, pcapVars, failoverVars, bondVars, ztnaVars, fastPathVars>>
    \/ focus = "ztna" /\ ZtnaNext
       /\ UNCHANGED <<focus, ipsVars, dedupVars, pcapVars, failoverVars, bondVars, steeringVars, fastPathVars>>
    \/ focus = "xdp" /\ FastPathNext
       /\ UNCHANGED <<focus, ipsVars, dedupVars, pcapVars, failoverVars, bondVars, steeringVars, ztnaVars>>

vars == <<focus, ipsVars, dedupVars, pcapVars, failoverVars, bondVars, steeringVars, ztnaVars, fastPathVars>>

\* Each component's own fairness, asked of it when it is the one that moves.
Fairness ==
    /\ WF_ztnaVars(focus = "ztna" /\ Sweeping)
    /\ \A s \in ZtSessions : WF_ztnaVars(focus = "ztna" /\ OpenActs(s))
    /\ WF_fastPathVars(focus = "xdp" /\ LoaderSteps) /\ WF_fastPathVars(focus = "xdp" /\ PacketSteps)
    /\ WF_fastPathVars(focus = "xdp" /\ KtimeTicks)

Spec == Init /\ [][Next]_vars /\ Fairness
=============================================================================
