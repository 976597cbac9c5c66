------------------------------ MODULE Steering ------------------------------
(* sng-sdwan's SdwanService: concurrent evaluations of flows against the    *)
(* probe table and the hot-swapped policy, and the sticky-flow cache they   *)
(* share.                                                                   *)
EXTENDS Integers, FiniteSets, FiniteSetsExt, Functions

CONSTANTS
    Evaluators,     \* threads inside evaluate
    Flows,          \* flow keys
    StPaths,        \* candidate paths of the traffic class, ordered (1..n)
    StickyWindow,   \* sticky_window_ms when it is not 0, in ticks
    StickyCapacity, \* sticky_cache_capacity
    StTicks,        \* bound on the clock
    StReloads       \* bound on policy reloads

ASSUME SteeringAssumption ==
    /\ StPaths \subseteq Nat /\ StickyCapacity \in Nat \ {0}
    /\ StickyWindow \in Nat \ {0}

VARIABLES
    stNow,       \* request.now_ms
    stPolicy,    \* SdwanPolicyHolder: the sticky window in force, how often replaced
    stReload,    \* reload_policy between the swap and the clear of the cache
    stProbe,     \* external: each path's probe: in budget, over a floor, or unusable
    stSticky,    \* the sticky-flow cache: flow to StickyPin
    stCall       \* per evaluator: step, flow, now, policy snapshot, decision

steeringVars == <<stNow, stPolicy, stReload, stProbe, stSticky, stCall>>

NoPath == 0
CallIdle == [step |-> "idle", flow |-> NoPath, now |-> 0, window |-> 0, path |-> NoPath]

SteeringInit ==
    /\ stNow = 1 /\ stPolicy = [window |-> StickyWindow, version |-> 0] /\ stReload = FALSE
    /\ stProbe = [p \in StPaths |-> "good"]
    /\ stSticky = <<>>
    /\ stCall = [c \in Evaluators |-> CallIdle]

\* External: a probe result arrives or grows stale, time passes.
ProbePath(p, quality) ==
    /\ stProbe[p] # quality
    /\ stProbe' = [stProbe EXCEPT ![p] = quality]
    /\ UNCHANGED <<stNow, stPolicy, stReload, stSticky, stCall>>

SteeringTick ==
    /\ stNow < StTicks /\ stNow' = stNow + 1
    /\ UNCHANGED <<stPolicy, stReload, stProbe, stSticky, stCall>>

-----------------------------------------------------------------------------
(* evaluate. *)

\* now_ms and the policy are read once, before anything else.
BeginEvaluate(c, f) ==
    /\ stCall[c].step = "idle"
    /\ stCall' = [stCall EXCEPT ![c] = [CallIdle EXCEPT
                     !.step = "lookup", !.flow = f, !.now = stNow, !.window = stPolicy.window]]
    /\ UNCHANGED <<stNow, stPolicy, stReload, stProbe, stSticky>>

Drop(cache, F) == Restrict(cache, DOMAIN cache \ F)

Live(pin, now) == pin.until > now

InBudget(p) == stProbe[p] = "good"
Usable(p) == stProbe[p] # "unusable"

\* try_sticky, then the scoring loop: a pin is kept while its path is fresh
\* and in budget; else the best path in budget, else the best usable one.
\* Scores order the paths of one budget as their ids do.
Choice(pin) ==
    LET good == {p \in StPaths : InBudget(p)}
        usable == {p \in StPaths : Usable(p)}
    IN  IF pin \in good THEN pin
        ELSE IF good # {} THEN Min(good)
        ELSE IF usable # {} THEN Min(usable) ELSE NoPath

\* sticky_lookup under the cache lock, an expired pin is removed; then the
\* choice.
LookupAndChoose(c) ==
    LET call == stCall[c]
        found == call.window > 0 /\ call.flow \in DOMAIN stSticky
        live == found /\ Live(stSticky[call.flow], call.now)
    IN  /\ call.step = "lookup"
        /\ stSticky' = IF found /\ ~live THEN Drop(stSticky, {call.flow}) ELSE stSticky
        /\ stCall' = [stCall EXCEPT ![c].step = "finalise",
                         ![c].path = Choice(IF live THEN stSticky[call.flow].path ELSE NoPath)]
        /\ UNCHANGED <<stNow, stPolicy, stReload, stProbe>>

WithRoomMutant(f, now) ==
    IF f \in DOMAIN stSticky \/ Cardinality(DOMAIN stSticky) < StickyCapacity THEN {stSticky}
    ELSE {Drop(stSticky, {g}) : g \in DOMAIN stSticky}

\* A full cache sheds what has expired, and any one entry if that is nothing.
WithRoom(f, now) ==
    LET live == Restrict(stSticky, {g \in DOMAIN stSticky : Live(stSticky[g], now)})
    IN  IF f \in DOMAIN stSticky \/ Cardinality(DOMAIN stSticky) < StickyCapacity THEN {stSticky}
        ELSE IF Cardinality(DOMAIN live) < StickyCapacity THEN {live}
        ELSE {Drop(live, {g}) : g \in DOMAIN live}

\* finalise: the pin is written under the snapshot's window, whatever policy
\* is in force by now; the decision is returned.
Finalise(c) ==
    LET call == stCall[c]
        pin == [path |-> call.path, until |-> call.now + call.window]
    IN  /\ call.step = "finalise"
        /\ IF call.window > 0 /\ call.path # NoPath
           THEN \E cache \in WithRoom(call.flow, call.now) :
                   stSticky' = [f \in DOMAIN cache \cup {call.flow} |->
                                   IF f = call.flow THEN pin ELSE cache[f]]
           ELSE UNCHANGED stSticky
        /\ stCall' = [stCall EXCEPT ![c] = CallIdle]
        /\ UNCHANGED <<stNow, stPolicy, stReload, stProbe>>

-----------------------------------------------------------------------------
(* reload_policy: the swap, then the clear when stickiness is switched off. *)

ReloadPolicy(window) ==
    /\ ~stReload /\ stPolicy.version < StReloads
    /\ stPolicy' = [window |-> window, version |-> stPolicy.version + 1]
    /\ stReload' = (window = 0)
    /\ UNCHANGED <<stNow, stProbe, stSticky, stCall>>

ClearSticky ==
    /\ stReload /\ stReload' = FALSE
    /\ stSticky' = <<>>
    /\ UNCHANGED <<stNow, stPolicy, stProbe, stCall>>

SteeringNext ==
    \/ \E p \in StPaths, q \in {"good", "slow", "unusable"} : ProbePath(p, q)
    \/ SteeringTick
    \/ \E c \in Evaluators :
        (\E f \in Flows : BeginEvaluate(c, f)) \/ LookupAndChoose(c) \/ Finalise(c)
    \/ (\E w \in {0, StickyWindow} : ReloadPolicy(w)) \/ ClearSticky

SteeringSpec == SteeringInit /\ [][SteeringNext]_steeringVars

-----------------------------------------------------------------------------
(* Properties. *)

\* Pinned flows stay pinned: concurrent evaluations at capacity never push out
\* a live pin while an expired one could go, and never exceed the capacity.
LivePinsSurvive ==
    [][/\ Cardinality(DOMAIN stSticky') <= StickyCapacity
       /\ \A c \in Evaluators, f \in DOMAIN stSticky \ DOMAIN stSticky' :
            (Finalise(c) /\ Live(stSticky[f], stCall[c].now)) =>
                \A g \in DOMAIN stSticky : Live(stSticky[g], stCall[c].now)]_steeringVars

-----------------------------------------------------------------------------
(* The inductive strengthening that the proofs use. *)

WithinCapacity ==
    IsFiniteSet(DOMAIN stSticky) /\ Cardinality(DOMAIN stSticky) <= StickyCapacity

=============================================================================
