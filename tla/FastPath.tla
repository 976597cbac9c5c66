------------------------------ MODULE FastPath ------------------------------
(* The XDP fast path in front of nftables: the firewall task compiles a     *)
(* prefix of the ruleset for it and rewrites its maps slot by slot, while   *)
(* packets walk the same maps and leave their verdicts in a cache.  DDoS    *)
(* limits are off: nothing in sng-edge installs them.                       *)
EXTENDS Naturals, Sequences, FiniteSetsExt

CONSTANTS
    FpFlows,       \* flow keys
    FpPolicies,    \* the rulesets the edge will be given, in order
    FwChunk,       \* FW_CHUNK, CLASS_CHUNK: slots one stage program scans
    MaxRules,      \* MAX_FW_RULES, MAX_CLASS_RULES
    VerdictTtl,    \* VERDICT_TTL_NS, in ticks
    MapFaults      \* bound on failing map operations

RuleActions == {"allow", "deny", "inspect", "steer", "log"}
ClassActions == {"direct", "media", "lite", "inspect", "tunnel", "block"}

FwRules == [flows : SUBSET FpFlows, action : RuleActions, pure : BOOLEAN]

\* A log rule decides nothing.
Terminal(p) == SelectSeq(p.rules, LAMBDA r : r.action # "log")

ASSUME FastPathAssumption ==
    /\ FwChunk \in Nat \ {0} /\ MaxRules \in Nat \ {0} /\ VerdictTtl \in Nat
    /\ DOMAIN FpPolicies \subseteq Nat \ {0}
    /\ \A p \in DOMAIN FpPolicies :
        /\ FpPolicies[p].rules \in Seq(FwRules) /\ Terminal(FpPolicies[p]) \in Seq(FwRules)
        /\ FpPolicies[p].classes \in Seq([flows : SUBSET FpFlows, action : ClassActions])
        /\ Len(FpPolicies[p].classes) <= MaxRules

VARIABLES
    fpSlow,     \* the ruleset nftables holds, 0 before the first
    fpMaps,     \* fw rules and class rules, each with its meta entry
    fpLoader,   \* the update under way (run_update, AyaLoader)
    fpCache,    \* SNG_VERDICT_CACHE
    fpPacket,   \* the packet one CPU walks (XdpScratch)
    fpFaults,   \* map operations that failed
    fpStuck     \* a flush to pass-through failed: the tables are stale

fastPathVars == <<fpSlow, fpMaps, fpLoader, fpCache, fpPacket, fpFaults, fpStuck>>

NoPacket == [stage |-> "idle"]
NoUpdate == [step |-> "idle"]
Uncached == [action |-> "none"]

\* Array maps start zeroed: no rules, RULE_PASS, a class that is not block.
EmptyTable(default) == [slots |-> <<>>, count |-> 0, default |-> default]

FastPathInit ==
    /\ fpSlow = 0
    /\ fpMaps = [t \in {"rules", "class"} |-> EmptyTable(IF t = "rules" THEN "pass" ELSE "inspect")]
    /\ fpLoader = NoUpdate /\ fpPacket = NoPacket
    /\ fpCache = [f \in FpFlows |-> Uncached]
    /\ fpFaults = 0 /\ fpStuck = FALSE

-----------------------------------------------------------------------------
(* Verdicts. *)

FirstMatch(rules, default, f) ==
    LET hits == {i \in DOMAIN rules : f \in rules[i].flows}
    IN  IF hits = {} THEN default ELSE rules[Min(hits)].action

\* render_script: the verdict of the forward chain, for traffic the edge
\* routes.  A rule's flows are those its line matches; a log line carries no
\* verdict, inspect and steer are marked and accepted, and a chain policy
\* other than allow drops (as_nft_verdict, default_chain_policy).  The input
\* chain has its policy alone: traffic to the edge itself meets no rule.
ForwardVerdict(p, f) ==
    LET hit == FirstMatch(Terminal(p), "none", f)
    IN  IF hit = "deny" \/ (hit = "none" /\ p.default # "allow") THEN "drop" ELSE "accept"

\* hot_path_action, for the actions it can express.
HotPathAction(action) == IF action = "deny" THEN "drop" ELSE "pass"

CompileHotPathMutant(p) ==
    LET hot == SelectSeq(p.rules, LAMBDA r : r.pure /\ r.action \in {"allow", "deny"})
    IN  [rules |-> [i \in DOMAIN hot |-> [flows |-> hot[i].flows, action |-> HotPathAction(hot[i].action)]],
         default |-> HotPathAction(p.default)]

\* compile_hot_path: log rules are skipped, the first rule XDP cannot model
\* ends the prefix, and then the default is not accelerated either.
CompileHotPath(p) ==
    LET terminal == Terminal(p)
        opaque == {i \in DOMAIN terminal : ~terminal[i].pure \/ terminal[i].action \notin {"allow", "deny"}}
        n == IF opaque = {} THEN Len(terminal) ELSE Min(opaque) - 1
    IN  [rules |-> [i \in 1 .. n |->
                        [flows |-> terminal[i].flows, action |-> HotPathAction(terminal[i].action)]],
         default |-> IF opaque = {} THEN HotPathAction(p.default) ELSE "pass"]

\* The target of an update, or the state a failed one is flushed to.
Target(table, clearing) ==
    IF table = "rules"
    THEN IF clearing THEN [rules |-> <<>>, default |-> "pass"] ELSE CompileHotPath(FpPolicies[fpSlow])
    ELSE [rules |-> IF clearing THEN <<>> ELSE FpPolicies[fpSlow].classes, default |-> "inspect"]

-----------------------------------------------------------------------------
(* EbpfDataPath::install_rules, after nftables: the rules, then the classes. *)

Update(table, clearing) == [step |-> "slots", table |-> table, clearing |-> clearing, slot |-> 1, keys |-> {}, todo |-> FpFlows]

Goal == Target(fpLoader.table, fpLoader.clearing)

InstallPolicy(p) ==
    /\ fpLoader = NoUpdate /\ p > fpSlow
    /\ fpSlow' = p
    /\ fpLoader' = Update("rules", FALSE)
    /\ fpPacket' = IF fpPacket = NoPacket THEN NoPacket ELSE [fpPacket EXCEPT !.quiet = FALSE]
    /\ UNCHANGED <<fpMaps, fpCache, fpFaults, fpStuck>>

\* An update ends in error: its table is flushed, and the install is over.
UpdateFailed ==
    /\ fpLoader' = IF fpLoader.clearing THEN NoUpdate ELSE Update(fpLoader.table, TRUE)
    /\ fpStuck' = (fpStuck \/ fpLoader.clearing)

\* marshal_rules: too many rules are refused before any map is touched.
MarshalRefuses ==
    /\ fpLoader.step = "slots" /\ Len(Goal.rules) > MaxRules
    /\ UpdateFailed
    /\ UNCHANGED <<fpSlow, fpMaps, fpCache, fpPacket, fpFaults>>

Written(slots, i, rule) == IF i <= Len(slots) THEN [slots EXCEPT ![i] = rule] ELSE Append(slots, rule)

WriteSlot ==
    /\ fpLoader.step = "slots" /\ Len(Goal.rules) <= MaxRules
    /\ fpLoader.slot <= Len(Goal.rules)
    /\ fpMaps' = [fpMaps EXCEPT ![fpLoader.table].slots = Written(@, fpLoader.slot, Goal.rules[fpLoader.slot])]
    /\ fpLoader' = [fpLoader EXCEPT !.slot = @ + 1]
    /\ UNCHANGED <<fpSlow, fpCache, fpPacket, fpFaults, fpStuck>>

\* Count and default are one entry: a packet sees both or neither.
WriteMeta ==
    /\ fpLoader.step = "slots" /\ fpLoader.slot = Len(Goal.rules) + 1
    /\ fpMaps' = [fpMaps EXCEPT ![fpLoader.table].count = Len(Goal.rules),
                                ![fpLoader.table].default = Goal.default]
    /\ fpLoader' = [fpLoader EXCEPT !.step = "list"]
    /\ UNCHANGED <<fpSlow, fpCache, fpPacket, fpFaults, fpStuck>>

\* flush_verdict_cache: the keys are listed first, then removed one by one.
\* The list walks the map (BPF_MAP_GET_NEXT_KEY), in no order one can name.
ListKey(f) ==
    /\ fpLoader.step = "list" /\ f \in fpLoader.todo
    /\ fpLoader' = [fpLoader EXCEPT !.todo = @ \ {f}, !.keys = IF fpCache[f] = Uncached THEN @ ELSE @ \cup {f}]
    /\ UNCHANGED <<fpSlow, fpMaps, fpCache, fpPacket, fpFaults, fpStuck>>

ListEnds ==
    /\ fpLoader.step = "list" /\ fpLoader.todo = {}
    /\ fpLoader' = [fpLoader EXCEPT !.step = "flush"]
    /\ UNCHANGED <<fpSlow, fpMaps, fpCache, fpPacket, fpFaults, fpStuck>>

\* An error ends the walk and is filtered out: the flush is of a part of the
\* keys and returns Ok.  The verdicts it does not know of are marked.
ListFails ==
    /\ fpFaults < MapFaults /\ fpFaults' = fpFaults + 1
    /\ fpLoader.step = "list"
    /\ fpLoader' = [fpLoader EXCEPT !.step = "flush", !.todo = {}]
    /\ fpCache' = [f \in FpFlows |-> IF f \in fpLoader.keys \/ fpCache[f] = Uncached THEN fpCache[f]
                                     ELSE [fpCache[f] EXCEPT !.quiet = FALSE]]
    /\ UNCHANGED <<fpSlow, fpMaps, fpPacket, fpStuck>>

\* Removing a key the kernel evicted meanwhile is no error.
RemoveKey(f) ==
    /\ fpLoader.step = "flush" /\ f \in fpLoader.keys
    /\ fpCache' = [fpCache EXCEPT ![f] = Uncached]
    /\ fpLoader' = [fpLoader EXCEPT !.keys = @ \ {f}]
    /\ UNCHANGED <<fpSlow, fpMaps, fpPacket, fpFaults, fpStuck>>

UpdateDone ==
    /\ fpLoader.step = "flush" /\ fpLoader.keys = {}
    /\ fpLoader' = IF fpLoader.table = "rules" /\ ~fpLoader.clearing THEN Update("class", FALSE) ELSE NoUpdate
    /\ UNCHANGED <<fpSlow, fpMaps, fpCache, fpPacket, fpFaults, fpStuck>>

\* A map operation fails, at any slot, at the meta entry or at any key, or
\* the cache cannot be opened for the flush.
MapFails ==
    /\ fpFaults < MapFaults /\ fpFaults' = fpFaults + 1
    /\ \/ fpLoader.step = "slots"
       \/ fpLoader.step = "list" /\ fpLoader.todo = FpFlows
       \/ fpLoader.step = "flush" /\ fpLoader.keys # {}
    /\ UpdateFailed
    /\ UNCHANGED <<fpSlow, fpMaps, fpCache, fpPacket>>

-----------------------------------------------------------------------------
(* The programs. *)

ServedMutant(e) == e # Uncached

Served(e) == e # Uncached /\ e.age <= VerdictTtl

\* The context a stage starts a chunk with; its meta entry is still unread.
Chunk(pkt, stage, lo) ==
    [stage |-> stage, flow |-> pkt.flow, age |-> pkt.age, quiet |-> pkt.quiet, lo |-> lo, at |-> 0,
     count |-> 0, default |-> "none", action |-> "none"]

\* try_classify misses the cache; a fresh verdict is served and changes nothing.
PacketArrives(f) ==
    /\ fpPacket = NoPacket /\ ~Served(fpCache[f])
    /\ fpPacket' = Chunk([flow |-> f, age |-> 0, quiet |-> fpLoader = NoUpdate], "class", 1)
    /\ UNCHANGED <<fpSlow, fpMaps, fpLoader, fpCache, fpFaults, fpStuck>>

Scanning == fpPacket.stage \in {"class", "rules"} /\ fpPacket.at > 0

ReadMeta ==
    /\ fpPacket.stage \in {"class", "rules"} /\ fpPacket.at = 0
    /\ LET table == fpMaps[fpPacket.stage]
       IN  fpPacket' = [fpPacket EXCEPT !.at = fpPacket.lo, !.count = table.count, !.default = table.default]
    /\ UNCHANGED <<fpSlow, fpMaps, fpLoader, fpCache, fpFaults, fpStuck>>

\* resolve_class_and_advance, stash_action_and_apply: the block class ends
\* the walk, any other class goes on to the rules, a rule ends it.
Resolved(result) ==
    IF fpPacket.stage = "class" /\ result # "block" THEN Chunk(fpPacket, "rules", 1)
    ELSE [Chunk(fpPacket, "apply", 1) EXCEPT !.action = IF result = "block" THEN "drop" ELSE result]

ChunkEnd == fpPacket.lo + FwChunk

ScanSlot ==
    /\ Scanning /\ fpPacket.at < ChunkEnd /\ fpPacket.at <= fpPacket.count
    /\ LET rule == fpMaps[fpPacket.stage].slots[fpPacket.at]
       IN  fpPacket' = IF fpPacket.flow \in rule.flows THEN Resolved(rule.action)
                       ELSE [fpPacket EXCEPT !.at = @ + 1]
    /\ UNCHANGED <<fpSlow, fpMaps, fpLoader, fpCache, fpFaults, fpStuck>>

\* No match: the next chunk, which reads the meta entry again, or the default.
EndChunk ==
    /\ Scanning /\ (fpPacket.at = ChunkEnd \/ fpPacket.at > fpPacket.count)
    /\ fpPacket' = IF ChunkEnd <= fpPacket.count THEN Chunk(fpPacket, fpPacket.stage, ChunkEnd)
                   ELSE Resolved(fpPacket.default)
    /\ UNCHANGED <<fpSlow, fpMaps, fpLoader, fpCache, fpFaults, fpStuck>>

\* finish: the verdict is cached under the time the packet arrived.
ApplyVerdict ==
    /\ fpPacket.stage = "apply"
    /\ fpCache' = [fpCache EXCEPT ![fpPacket.flow] =
                       [action |-> fpPacket.action, age |-> fpPacket.age, quiet |-> fpPacket.quiet]]
    /\ fpPacket' = NoPacket
    /\ UNCHANGED <<fpSlow, fpMaps, fpLoader, fpFaults, fpStuck>>

Aged(r) == IF r \in {Uncached, NoPacket} THEN r
            ELSE [r EXCEPT !.age = IF @ > VerdictTtl THEN @ ELSE @ + 1]

\* External: the clock, and the kernel making room in the LRU map.
KtimeTicks ==
    /\ fpCache' = [f \in FpFlows |-> Aged(fpCache[f])] /\ fpPacket' = Aged(fpPacket)
    /\ UNCHANGED <<fpSlow, fpMaps, fpLoader, fpFaults, fpStuck>>

LruEvicts(f) ==
    /\ fpCache[f] # Uncached
    /\ fpCache' = [fpCache EXCEPT ![f] = Uncached]
    /\ UNCHANGED <<fpSlow, fpMaps, fpLoader, fpPacket, fpFaults, fpStuck>>

Flushing == ListEnds \/ \E f \in FpFlows : ListKey(f) \/ RemoveKey(f)
LoaderSteps == MarshalRefuses \/ WriteSlot \/ WriteMeta \/ Flushing \/ UpdateDone
PacketSteps == ReadMeta \/ ScanSlot \/ EndChunk \/ ApplyVerdict

FastPathNext ==
    \/ \E p \in DOMAIN FpPolicies : InstallPolicy(p)
    \/ LoaderSteps \/ MapFails \/ ListFails \/ PacketSteps \/ KtimeTicks
    \/ \E f \in FpFlows : PacketArrives(f) \/ LruEvicts(f)

\* A walk and an update run to their end; time passes.
FastPathFairness ==
    WF_fastPathVars(LoaderSteps) /\ WF_fastPathVars(PacketSteps) /\ WF_fastPathVars(KtimeTicks)

FastPathSpec == FastPathInit /\ [][FastPathNext]_fastPathVars /\ FastPathFairness

-----------------------------------------------------------------------------
(* Properties. *)

\* What the maps, as they are now, say of a flow (reference definition).
InForce(table, f) == FirstMatch(SubSeq(table.slots, 1, table.count), table.default, f)
MapsVerdict(f) == IF InForce(fpMaps["class"], f) = "block" THEN "drop" ELSE InForce(fpMaps["rules"], f)

\* compile_hot_path: the fast path "never drops a packet nftables would have
\* accepted", of those nftables' forward chain sees.  Between updates a
\* verdict in use, unless its packet was on its way during one or a flush cut
\* short missed it, is what the tables say, and a drop is the block class's or
\* the forward chain's own, whatever prefix was compiled and whichever map
\* write failed; only a failed flush leaves stale tables.
FastPathSound ==
    fpLoader = NoUpdate /\ ~fpStuck =>
        \A f \in FpFlows : Served(fpCache[f]) /\ fpCache[f].quiet =>
            /\ fpCache[f].action = MapsVerdict(f)
            /\ fpCache[f].action = "drop" =>
                  \/ InForce(fpMaps["class"], f) = "block"
                  \/ ForwardVerdict(FpPolicies[fpSlow], f) = "drop"

\* VERDICT_TTL_NS "bounds staleness if a flush is ever missed": the verdict of
\* a packet that read half-written maps, cached after the flush had listed its
\* key, and one a flush cut short left behind are not served for ever.
StaleVerdictsEnd ==
    <>[](\A f \in FpFlows : Served(fpCache[f]) => fpCache[f].action = MapsVerdict(f))

-----------------------------------------------------------------------------
(* The inductive strengthening that the proof uses. *)

TableNames == {"rules", "class"}
Actions(t) == IF t = "rules" THEN {"pass", "drop"} ELSE ClassActions
SlotRules(t) == [flows : SUBSET FpFlows, action : Actions(t)]

Updates == [step : {"slots", "list", "flush"}, table : TableNames,
            clearing : BOOLEAN, slot : Nat \ {0}, keys : SUBSET FpFlows, todo : SUBSET FpFlows]

PacketFields == {"stage", "flow", "age", "quiet", "lo", "at", "count", "default", "action"}

FastPathTypes ==
    /\ fpSlow \in {0} \cup DOMAIN FpPolicies /\ fpStuck \in BOOLEAN
    /\ DOMAIN fpMaps = TableNames
    /\ \A t \in TableNames :
        /\ fpMaps[t] \in [slots : Seq(SlotRules(t)), count : Nat, default : Actions(t)]
        /\ fpMaps[t].count <= Len(fpMaps[t].slots)
    /\ fpLoader = NoUpdate \/ (fpLoader \in Updates /\ fpSlow # 0)
    /\ DOMAIN fpCache = FpFlows
    /\ \A f \in FpFlows : fpCache[f] = Uncached \/ DOMAIN fpCache[f] = {"action", "age", "quiet"}
    /\ fpPacket # NoPacket => DOMAIN fpPacket = PacketFields

\* Table t holds what an update wants in it.
HoldsGoal(t, goal) ==
    /\ fpMaps[t].count = Len(goal.rules) /\ fpMaps[t].default = goal.default
    /\ \A i \in 1 .. Len(goal.rules) : fpMaps[t].slots[i] = goal.rules[i]

Quiet(f) == fpCache[f] # Uncached /\ fpCache[f].quiet

\* How far the update under way has come, and that its flush lists every
\* verdict reached before it that it has not marked.
LoaderHolds ==
    /\ fpLoader.step = "slots" =>
        /\ fpLoader.todo = FpFlows /\ fpLoader.slot <= Len(Goal.rules) + 1
        /\ fpLoader.slot <= Len(fpMaps[fpLoader.table].slots) + 1
        /\ \A i \in 1 .. fpLoader.slot - 1 : fpMaps[fpLoader.table].slots[i] = Goal.rules[i]
    /\ fpLoader.step \in {"list", "flush"} => HoldsGoal(fpLoader.table, Goal)
    /\ fpLoader.step = "list" => \A f \in FpFlows : Quiet(f) => f \in fpLoader.keys \cup fpLoader.todo
    /\ fpLoader.step = "flush" => \A f \in FpFlows : Quiet(f) => f \in fpLoader.keys

\* But while the rules are updated, their table is cleared or nftables' own.
RulesHold ==
    (fpLoader = NoUpdate \/ fpLoader.table = "class") /\ ~fpStuck =>
        \/ HoldsGoal("rules", Target("rules", TRUE))
        \/ fpSlow # 0 /\ HoldsGoal("rules", Target("rules", FALSE))

NoHit(t, n, f) == \A i \in 1 .. n : f \notin fpMaps[t].slots[i].flows

\* A packet that has met no update is on its way to what the tables say.
WalkHolds ==
    fpPacket # NoPacket /\ fpPacket.quiet =>
        /\ fpLoader = NoUpdate
        /\ fpPacket.stage \in {"class", "rules", "apply"} /\ fpPacket.flow \in FpFlows
        /\ fpPacket.stage \in {"class", "rules"} =>
            /\ fpPacket.lo \in Nat \ {0} /\ fpPacket.lo <= fpMaps[fpPacket.stage].count + 1
            /\ fpPacket.at = 0 => NoHit(fpPacket.stage, fpPacket.lo - 1, fpPacket.flow)
            /\ fpPacket.at # 0 =>
                /\ fpPacket.at \in fpPacket.lo .. fpMaps[fpPacket.stage].count + 1
                /\ fpPacket.count = fpMaps[fpPacket.stage].count
                /\ fpPacket.default = fpMaps[fpPacket.stage].default
                /\ NoHit(fpPacket.stage, fpPacket.at - 1, fpPacket.flow)
        /\ fpPacket.stage = "rules" => InForce(fpMaps["class"], fpPacket.flow) # "block"
        /\ fpPacket.stage = "apply" => fpPacket.action = MapsVerdict(fpPacket.flow)

CacheHolds ==
    fpLoader = NoUpdate /\ ~fpStuck =>
        \A f \in FpFlows : Quiet(f) => fpCache[f].action = MapsVerdict(f)

FastPathInv == FastPathTypes /\ LoaderHolds /\ RulesHold /\ WalkHolds /\ CacheHolds
=============================================================================
