----------------------------- MODULE Collection -----------------------------
(* The first stages of sng-telemetry's pipeline: the rolling deduplication  *)
(* window, which forgets under pressure, and the packet ring, which keeps   *)
(* to two limits at once.                                                   *)
EXTENDS Integers, Sequences, FiniteSets, SequencesExt, FiniteSetsExt

CONSTANTS
    Fingerprints,   \* contents of events
    DedupWindow,    \* Dedup.window, in ticks
    DedupMax,       \* Dedup.max_entries
    EvictDivisor,   \* the share evicted under pressure is max_entries / this (10)
    ClockMax,       \* bound on the clock
    FrameSizes,     \* sizes of captured frames
    MaxPackets, MaxTotalBytes, MaxPacketBytes,   \* PcapRingConfig
    FramesMax       \* bound on the frames captured

ASSUME CollectionAssumption ==
    /\ {DedupWindow, DedupMax, EvictDivisor} \subseteq Nat \ {0}
    /\ DedupMax >= EvictDivisor
    /\ FrameSizes \subseteq Nat
    /\ {MaxPackets, MaxTotalBytes, MaxPacketBytes} \subseteq Nat \ {0}

VARIABLES
    ddNow,     \* Instant::now
    ddSeen,    \* Dedup.seen: fingerprint to the time it was last observed
    ddHit,     \* history: when each fingerprint last arrived (-1: never)
    pcFrames,  \* RingState.frames, as <<number, size>>, oldest first
    pcTotal,   \* RingState.total_bytes
    pcCounts   \* frames offered, dropped_packets, rejected, drained

dedupVars == <<ddNow, ddSeen, ddHit>>
pcapVars == <<pcFrames, pcTotal, pcCounts>>

DedupInit ==
    /\ ddNow = 0 /\ ddSeen = <<>>
    /\ ddHit = [f \in Fingerprints |-> -1]

PcapInit ==
    /\ pcFrames = <<>> /\ pcTotal = 0
    /\ pcCounts = [offered |-> 0, dropped |-> 0, rejected |-> 0, drained |-> 0]

-----------------------------------------------------------------------------
(* Dedup. *)

Keep(seen, F) == [f \in F |-> seen[f]]

InWindow(time) == ddNow - time < DedupWindow

Pruned(seen) == Keep(seen, {f \in DOMAIN seen : InWindow(seen[f])})

\* The n entries observed longest ago; the order of equal times is open.
OldestSets(seen, n) ==
    {S \in SUBSET DOMAIN seen :
        /\ Cardinality(S) = n
        /\ \A f \in S, g \in DOMAIN seen \ S : seen[f] <= seen[g]}

\* What a full map may be cut down to before a new entry goes in.
MadeRoom(seen) ==
    IF Cardinality(DOMAIN seen) < DedupMax THEN {seen}
    ELSE IF Cardinality(DOMAIN Pruned(seen)) < DedupMax THEN {Pruned(seen)}
    ELSE {Keep(Pruned(seen), DOMAIN Pruned(seen) \ S) :
             S \in OldestSets(Pruned(seen), DedupMax \div EvictDivisor)}

Noted(seen, f) == [g \in DOMAIN seen \cup {f} |-> IF g = f THEN ddNow ELSE seen[g]]

Duplicate(f) == f \in DOMAIN ddSeen /\ InWindow(ddSeen[f])

ObserveMutant(f) ==
    /\ ddHit' = [ddHit EXCEPT ![f] = ddNow]
    /\ IF Duplicate(f) THEN UNCHANGED ddSeen
       ELSE \E seen \in MadeRoom(ddSeen) : ddSeen' = Noted(seen, f)
    /\ UNCHANGED ddNow

\* observe_at: a duplicate is refused and slides its window; anything else
\* passes and is noted.
Observe(f) ==
    /\ ddHit' = [ddHit EXCEPT ![f] = ddNow]
    /\ IF Duplicate(f) THEN ddSeen' = Noted(ddSeen, f)
       ELSE \E seen \in MadeRoom(ddSeen) : ddSeen' = Noted(seen, f)
    /\ UNCHANGED ddNow

\* The pipeline's housekeeping tick.
Prune ==
    /\ ddSeen' = Pruned(ddSeen)
    /\ UNCHANGED <<ddNow, ddHit>>

ClockTicks ==
    /\ ddNow < ClockMax /\ ddNow' = ddNow + 1
    /\ UNCHANGED <<ddSeen, ddHit>>

DedupNext == (\E f \in Fingerprints : Observe(f)) \/ Prune \/ ClockTicks

DedupSpec == DedupInit /\ [][DedupNext]_dedupVars

\* "No fingerprint passes inside the rolling window", and memory is bounded:
\* the map never outgrows its limit, and a fingerprint that arrived inside
\* the window is forgotten only when enough others arrived since to fill the
\* map, however duplicates, prunes and evictions interleave.
WindowRemembered ==
    /\ Cardinality(DOMAIN ddSeen) <= DedupMax
    /\ \A f \in Fingerprints :
        (ddHit[f] >= 0 /\ InWindow(ddHit[f]) /\ ~Duplicate(f)) =>
            Cardinality({g \in Fingerprints \ {f} : ddHit[g] >= ddHit[f]})
                > DedupMax - DedupMax \div EvictDivisor

\* The inductive strengthening that the proof uses: the map is right about
\* what it holds, and what it dropped inside the window was overtaken.
SinceHit(f) == {g \in Fingerprints \ {f} : ddHit[g] >= ddHit[f]}

DedupTypes ==
    /\ ddNow \in Nat /\ ddHit \in [Fingerprints -> Int]
    /\ \A f \in Fingerprints : ddHit[f] <= ddNow
    /\ IsFiniteSet({f \in Fingerprints : ddHit[f] >= 0})
    /\ DOMAIN ddSeen \subseteq Fingerprints
    /\ \A f \in DOMAIN ddSeen : ddHit[f] >= 0 /\ ddSeen[f] = ddHit[f]

ForgottenOvertaken ==
    \A f \in Fingerprints \ DOMAIN ddSeen :
        ddHit[f] >= 0 /\ InWindow(ddHit[f]) =>
            Cardinality(SinceHit(f)) > DedupMax - DedupMax \div EvictDivisor

DedupInv == DedupTypes /\ Cardinality(DOMAIN ddSeen) <= DedupMax /\ ForgottenOvertaken

-----------------------------------------------------------------------------
(* The packet ring. *)

FrameBytes(frames) ==
    LET sum[n \in 0 .. Len(frames)] == IF n = 0 THEN 0 ELSE sum[n - 1] + frames[n][2]
    IN  sum[Len(frames)]

\* How many frames push evicts from the front: the fewest that make room, or
\* all of them when none is enough.
Evictions(size) ==
    LET fits == {n \in 0 .. Len(pcFrames) :
                    /\ Len(pcFrames) - n < MaxPackets
                    /\ FrameBytes(SubSeq(pcFrames, n + 1, Len(pcFrames))) + size <= MaxTotalBytes}
    IN  IF fits = {} THEN Len(pcFrames) ELSE Min(fits)

\* push returns at once for an empty frame, and counts as rejected one over the
\* per-packet limit and, after it has emptied the ring for it, one over the
\* whole ring's limit.
CaptureFrame(size) ==
    LET number == pcCounts.offered + 1
        gone == Evictions(size)
        refusedEarly == size > MaxPacketBytes
        refused == refusedEarly \/ size > MaxTotalBytes
    IN  /\ size # 0 /\ number <= FramesMax
        /\ IF refusedEarly THEN UNCHANGED <<pcFrames, pcTotal>>
           ELSE LET left == SubSeq(pcFrames, gone + 1, Len(pcFrames))
                IN  /\ pcFrames' = IF refused THEN left ELSE Append(left, <<number, size>>)
                    /\ pcTotal' = pcTotal - FrameBytes(SubSeq(pcFrames, 1, gone))
                                  + (IF refused THEN 0 ELSE size)
        /\ pcCounts' = [pcCounts EXCEPT !.offered = number,
                            !.dropped = @ + (IF refusedEarly THEN 0 ELSE gone),
                            !.rejected = @ + (IF refused THEN 1 ELSE 0)]

DrainFramesMutant ==
    /\ pcFrames # <<>>
    /\ pcCounts' = [pcCounts EXCEPT !.drained = @ + Len(pcFrames)]
    /\ pcFrames' = <<>> /\ UNCHANGED pcTotal

DrainFrames ==
    /\ pcFrames # <<>>
    /\ pcCounts' = [pcCounts EXCEPT !.drained = @ + Len(pcFrames)]
    /\ pcFrames' = <<>> /\ pcTotal' = 0

PcapNext == (\E size \in FrameSizes : CaptureFrame(size)) \/ DrainFrames

PcapSpec == PcapInit /\ [][PcapNext]_pcapVars

\* The ring keeps to both limits with an exact byte count, holds its frames
\* in the order they were captured, and accounts for every frame with bytes.
RingAccounts ==
    /\ pcTotal = FrameBytes(pcFrames) /\ pcTotal <= MaxTotalBytes
    /\ Len(pcFrames) <= MaxPackets
    /\ \A i, j \in DOMAIN pcFrames : i < j => pcFrames[i][1] < pcFrames[j][1]
    /\ pcCounts.offered =
           pcCounts.dropped + pcCounts.rejected + pcCounts.drained + Len(pcFrames)

\* The inductive strengthening that the proof uses.
Frames == Nat \X Nat

RingTypes ==
    /\ pcFrames \in Seq(Frames)
    /\ pcCounts \in [offered : Nat, dropped : Nat, rejected : Nat, drained : Nat]
    /\ \A i \in DOMAIN pcFrames : pcFrames[i][1] <= pcCounts.offered

RingInv == RingTypes /\ RingAccounts
=============================================================================
