--------------------------- MODULE PolicyRollout ---------------------------
(* A signed policy bundle on its way from the control plane to packets: the *)
(* comms task pulls and publishes it, the evaluator swaps it in, the        *)
(* firewall task installs the compiled ruleset into the engine, nftables,   *)
(* the XDP rules and the XDP classification, each of which can fail.        *)
EXTENDS Naturals, FiniteSets

CONSTANTS
    GraphVersions,   \* bound on graph_version: 1..n
    BundleKinds,     \* good, unloadable, uncompilable
    ApplyFaults,     \* bound on data-path failures
    EdgeRestarts     \* bound on process restarts

ASSUME PolicyRolloutAssumption ==
    /\ GraphVersions \in Nat
    /\ BundleKinds \subseteq {"good", "unloadable", "uncompilable"}

None == 0

VARIABLES
    prPublished,  \* external: the kinds of the versions published so far
    prLinked,     \* the comms task holds a connection
    prCached,     \* BundlePuller.cached
    prEngine,     \* PolicyEngine.bundle
    prWatch,      \* the ruleset channel: value, and whether fw has seen it
    prFw,         \* the fw task: step, the version it installs, the one before
    prRuleset,    \* FirewallEngine.ruleset
    prKernel,     \* nftables
    prXdp,        \* XDP rules (None: flushed)
    prClass,      \* XDP classification table (None: flushed)
    prFaults,     \* data-path failures so far, by kind
    prRestarts

rolloutVars == <<prPublished, prLinked, prCached, prEngine, prWatch, prFw, prRuleset,
                 prKernel, prXdp, prClass, prFaults, prRestarts>>

FwIdle == [step |-> "idle", version |-> None, previous |-> None]

FaultKinds == {"kernel", "xdp", "class", "flush"}

RolloutInit ==
    /\ prPublished = <<>> /\ prLinked = FALSE
    /\ prCached = None /\ prEngine = None
    /\ prWatch = [version |-> None, changed |-> FALSE]
    /\ prFw = FwIdle /\ prRuleset = None /\ prKernel = None
    /\ prXdp = None /\ prClass = None
    /\ prFaults = [k \in FaultKinds |-> 0] /\ prRestarts = 0

Newest == Cardinality(DOMAIN prPublished)

\* External: an administrator publishes the next version.
PublishBundle(kind) ==
    /\ Newest < GraphVersions
    /\ prPublished' = [v \in 1 .. Newest + 1 |-> IF v = Newest + 1 THEN kind ELSE prPublished[v]]
    /\ UNCHANGED <<prLinked, prCached, prEngine, prWatch, prFw, prRuleset, prKernel,
                   prXdp, prClass, prFaults, prRestarts>>

-----------------------------------------------------------------------------
(* The comms task. *)

ConnectComms ==
    /\ ~prLinked /\ prLinked' = TRUE
    /\ UNCHANGED <<prPublished, prCached, prEngine, prWatch, prFw, prRuleset, prKernel,
                   prXdp, prClass, prFaults, prRestarts>>

\* Connect, Http2, Io errors: the connection is given up.
PullBreaks ==
    /\ prLinked /\ prLinked' = FALSE
    /\ UNCHANGED <<prPublished, prCached, prEngine, prWatch, prFw, prRuleset, prKernel,
                   prXdp, prClass, prFaults, prRestarts>>

NotStaleMutant(v) == TRUE

\* check_not_stale: an equal version is not stale.
NotStale(v) == v >= prCached

PublishedToMutant(v) ==
    /\ prEngine' = IF prPublished[v] = "unloadable" \/ v < prEngine THEN prEngine ELSE v
    /\ prWatch' = IF prPublished[v] = "good" /\ v >= prEngine /\ ~prWatch.changed
                  THEN [version |-> v, changed |-> TRUE] ELSE prWatch

\* make_bundle_publisher: swap, compile, send; a rejected bundle is not
\* sent on, but the puller has it cached already.
PublishedTo(v) ==
    /\ prEngine' = IF prPublished[v] = "unloadable" \/ v < prEngine THEN prEngine ELSE v
    /\ prWatch' = IF prPublished[v] = "good" /\ v >= prEngine
                  THEN [version |-> v, changed |-> TRUE] ELSE prWatch

\* A 200 with version v: the newest, the cached one again, or an older one
\* from a lagging replica.
PullUpdated(v) ==
    /\ prLinked /\ v \in DOMAIN prPublished
    /\ NotStale(v)
    /\ prCached' = v
    /\ PublishedTo(v)
    /\ UNCHANGED <<prPublished, prLinked, prFw, prRuleset, prKernel, prXdp, prClass,
                   prFaults, prRestarts>>

-----------------------------------------------------------------------------
(* The firewall task. *)

TakeRuleset ==
    /\ prFw = FwIdle /\ prWatch.changed
    /\ prWatch' = [prWatch EXCEPT !.changed = FALSE]
    /\ prFw' = [step |-> "swap", version |-> prWatch.version, previous |-> None]
    /\ UNCHANGED <<prPublished, prLinked, prCached, prEngine, prRuleset, prKernel,
                   prXdp, prClass, prFaults, prRestarts>>

\* FirewallEngine::install, memory first; the same version is done already
\* and a stale one ends the install.
SwapRuleset ==
    /\ prFw.step = "swap"
    /\ prFw' = IF prFw.version < prRuleset THEN FwIdle
               ELSE [prFw EXCEPT !.step = IF prFw.version = prRuleset THEN "xdp" ELSE "kernel",
                                 !.previous = prRuleset]
    /\ prRuleset' = IF prFw.version > prRuleset THEN prFw.version ELSE prRuleset
    /\ UNCHANGED <<prPublished, prLinked, prCached, prEngine, prWatch, prKernel,
                   prXdp, prClass, prFaults, prRestarts>>

KernelApplies ==
    /\ prFw.step = "kernel"
    /\ prKernel' = prFw.version
    /\ prFw' = [prFw EXCEPT !.step = "xdp"]
    /\ UNCHANGED <<prPublished, prLinked, prCached, prEngine, prWatch, prRuleset,
                   prXdp, prClass, prFaults, prRestarts>>

Spent == prFaults["kernel"] + prFaults["xdp"] + prFaults["class"] + prFaults["flush"]

MayFail(n) == Spent + n <= ApplyFaults

RolledBackRulesetMutant == prRuleset

RolledBackRuleset == prFw.previous

\* apply fails: the memory swap is rolled back, XDP is not touched.
KernelRefuses ==
    /\ prFw.step = "kernel" /\ MayFail(1)
    /\ prRuleset' = RolledBackRuleset
    /\ prFw' = FwIdle
    /\ prFaults' = [prFaults EXCEPT !["kernel"] = @ + 1]
    /\ UNCHANGED <<prPublished, prLinked, prCached, prEngine, prWatch, prKernel,
                   prXdp, prClass, prRestarts>>

XdpInstalls ==
    /\ prFw.step = "xdp"
    /\ prXdp' = prFw.version
    /\ prFw' = [prFw EXCEPT !.step = "class"]
    /\ UNCHANGED <<prPublished, prLinked, prCached, prEngine, prWatch, prRuleset,
                   prKernel, prClass, prFaults, prRestarts>>

Flushed(table) == None

\* The update of the rules or of the classes fails, the install ends there;
\* that table, and only that one, is flushed, and the flush can fail too.
XdpRefuses(flush) ==
    /\ prFw.step = "xdp" /\ MayFail(IF flush THEN 1 ELSE 2)
    /\ prXdp' = IF flush THEN Flushed(prXdp) ELSE prXdp
    /\ prFw' = FwIdle
    /\ prFaults' = [prFaults EXCEPT !["xdp"] = @ + 1, !["flush"] = @ + (IF flush THEN 0 ELSE 1)]
    /\ UNCHANGED <<prPublished, prLinked, prCached, prEngine, prWatch, prRuleset,
                   prKernel, prClass, prRestarts>>

ClassInstalls ==
    /\ prFw.step = "class"
    /\ prClass' = prFw.version
    /\ prFw' = FwIdle
    /\ UNCHANGED <<prPublished, prLinked, prCached, prEngine, prWatch, prRuleset,
                   prKernel, prXdp, prFaults, prRestarts>>

ClassRefuses(flush) ==
    /\ prFw.step = "class" /\ MayFail(IF flush THEN 1 ELSE 2)
    /\ prClass' = IF flush THEN Flushed(prClass) ELSE prClass
    /\ prFw' = FwIdle
    /\ prFaults' = [prFaults EXCEPT !["class"] = @ + 1, !["flush"] = @ + (IF flush THEN 0 ELSE 1)]
    /\ UNCHANGED <<prPublished, prLinked, prCached, prEngine, prWatch, prRuleset,
                   prKernel, prXdp, prRestarts>>

\* The process restarts: the kernel keeps its table, the XDP program is
\* detached with the process, all else starts empty.
RestartEdge ==
    /\ prRestarts < EdgeRestarts /\ prRestarts' = prRestarts + 1
    /\ prLinked' = FALSE /\ prCached' = None /\ prEngine' = None
    /\ prWatch' = [version |-> None, changed |-> FALSE]
    /\ prFw' = FwIdle /\ prRuleset' = None
    /\ prXdp' = None /\ prClass' = None
    /\ UNCHANGED <<prPublished, prKernel, prFaults>>

InstallSteps == SwapRuleset \/ KernelApplies \/ XdpInstalls \/ ClassInstalls

RolloutNext ==
    \/ \E kind \in BundleKinds : PublishBundle(kind)
    \/ ConnectComms \/ PullBreaks \/ \E v \in 1 .. GraphVersions : PullUpdated(v)
    \/ TakeRuleset \/ InstallSteps \/ KernelRefuses
    \/ \E flush \in BOOLEAN : XdpRefuses(flush) \/ ClassRefuses(flush)
    \/ RestartEdge

\* A pull that brings the last bundle for the first time.
PullLast == prCached # GraphVersions /\ PullUpdated(GraphVersions)

\* The firewall task is scheduled and the comms loop reconnects; polled again
\* and again, the control plane answers with its newest bundle in the end,
\* but need not send it twice.
RolloutFairness ==
    /\ WF_rolloutVars(TakeRuleset) /\ WF_rolloutVars(InstallSteps)
    /\ WF_rolloutVars(ConnectComms) /\ SF_rolloutVars(PullLast)

RolloutSpec == RolloutInit /\ [][RolloutNext]_rolloutVars /\ RolloutFairness

-----------------------------------------------------------------------------
(* Properties. *)

\* Enforcement never goes back to an older policy while the process lives,
\* whatever a lagging replica answers and whichever install fails.  The
\* guard is in memory: after a restart the kernel may be taken back once.
NoPolicyRollback ==
    [][/\ prRestarts' = prRestarts => prCached' >= prCached /\ prEngine' >= prEngine
       /\ prRestarts' = 0 \/ prFw.previous # None => prKernel' >= prKernel]_rolloutVars

\* Between installs the layers agree: the engine reports verdicts from the
\* ruleset the kernel holds, at most as new as the evaluator's bundle, and
\* the XDP rules are that ruleset's or flushed, unless the flush failed.
LayersAgree ==
    prFw = FwIdle =>
        /\ prRuleset = prKernel \/ (prRuleset = None /\ prRestarts > 0)
        /\ prRuleset <= prEngine /\ prEngine <= prCached
        /\ prFaults["flush"] = 0 => prXdp \in {None, prKernel}

\* backend.rs, on a failed rule update: the flush means the fast path "can
\* never enforce a ruleset older than nftables".  The fast path is the rules
\* and the classification that runs before them.
FastPathNeverOlder ==
    (prFw = FwIdle /\ prFaults["flush"] = 0) =>
        prXdp \in {None, prKernel} /\ prClass \in {None, prKernel}

\* The newest policy reaches the packets: once publishing stops at a good
\* bundle, a data path that never failed ends up enforcing it everywhere.
NewestEnforced ==
    (Newest = GraphVersions /\ prPublished[GraphVersions] = "good" /\ Spent = 0) ~>
        \/ Spent > 0
        \/ {prKernel, prRuleset, prEngine, prXdp, prClass} = {GraphVersions}
-----------------------------------------------------------------------------
(* The inductive strengthening that the proofs use. *)

FwSteps == {"idle", "swap", "kernel", "xdp", "class"}

RolloutTypes ==
    /\ prCached \in Nat /\ prEngine \in Nat /\ prRuleset \in Nat /\ prKernel \in Nat
    /\ prXdp \in Nat /\ prClass \in Nat /\ prRestarts \in Nat
    /\ prWatch \in [version: Nat, changed: BOOLEAN]
    /\ prFw \in [step: FwSteps, version: Nat, previous: Nat]
    /\ prFaults \in [FaultKinds -> Nat]

\* Versions never overtake the layer they come from.
VersionsDescend ==
    /\ prEngine <= prCached
    /\ prWatch.version <= prEngine /\ prFw.version <= prEngine /\ prRuleset <= prEngine
    /\ prWatch.changed => prWatch.version > None
    /\ prFw.step # "idle" => prFw.version > None
    /\ prFw.step = "idle" => prFw = FwIdle

\* The engine's ruleset is the kernel's, or not loaded since a restart.
KernelHolds(ruleset) == ruleset = prKernel \/ (ruleset = None /\ prRestarts > 0)

\* What each layer holds at each step of an install.
InstallInv ==
    /\ prFw.step \in {"idle", "swap"} => KernelHolds(prRuleset)
    /\ prFw.step = "kernel" =>
           prRuleset = prFw.version /\ prFw.previous < prRuleset /\ KernelHolds(prFw.previous)
    /\ prFw.step \in {"xdp", "class"} => prRuleset = prFw.version /\ prKernel = prFw.version
    /\ prFw.step # "xdp" /\ prFaults["flush"] = 0 => prXdp \in {None, prKernel}

RolloutInv == RolloutTypes /\ VersionsDescend /\ InstallInv
=============================================================================
