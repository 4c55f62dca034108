----------------------------- MODULE Reassembly -----------------------------
(***************************************************************************)
(* tp::Reassembly (src/src/reassembly.cpp), at the grain of its loops.     *)
(*                                                                         *)
(* The object's fields are rcv_nxt_, held_, advances_, dups_ and ooo_; pc  *)
(* and the variables below it are the activation record of accept().  One  *)
(* iteration of either loop is one step.  total and got are history: the   *)
(* unwrapped frontier and the positions accepted, updated when accept()    *)
(* returns; they say what the 32-bit state stands for.                     *)
(***************************************************************************)
EXTENDS Stream, Sequences

CONSTANT MaxAccepts      \* bound on calls of accept(), also the largest t_ms

ASSUME AcceptsAssumption == MaxAccepts \in Nat

VARIABLES
    rcv_nxt,    \* rcv_nxt_: next sequence number expected in order
    held,       \* held_: out-of-order ranges [start, end)
    advances,   \* advances_: frontier movements with their times
    dups,       \* dups_
    ooo,        \* ooo_
    pc,         \* where accept() is: "idle", "merge" or "drain"
    seg,        \* the arguments of the call: position and length
    cur,        \* the range being placed
    placed,     \* cur is already in merged
    merged,     \* output of the merge walk
    i,          \* index of the merge walk in held
    before,     \* frontier when the drain began
    drained,    \* ranges consumed by the drain
    out,        \* what the caller reads after the return
    calls,      \* calls made so far; the time t_ms of a call
    total,      \* history: bytes delivered in order, unwrapped
    got,        \* history: positions accepted
    when        \* history: when[p] is the time byte p-1 was delivered

object == <<rcv_nxt, held, advances, dups, ooo>>
locals == <<cur, placed, merged, i, before, drained>>
history == <<out, total, got, when>>
vars == <<object, pc, seg, locals, calls, history>>

Contract == INSTANCE ReassemblySpec WITH frontier <- total

SeqRange == [start : SeqNo, end : SeqNo]

\* sack_blocks: the held ranges from the highest down.
sack_blocks(h) ==
    [k \in 1 .. (IF Len(h) < MaxBlocks THEN Len(h) ELSE MaxBlocks) |-> h[Len(h) + 1 - k]]

\* delivered(): the 32-bit count of in-order bytes.
delivered == seq_sub(rcv_nxt, Isn)

\* Mutant of time_reached: the advance must go beyond seq.
time_reached_beyond(seq) ==
    LET Hits == {k \in 1 .. Len(advances) : seq_gt(advances[k].frontier, seq)}
    IN  IF Hits = {} THEN -1
        ELSE advances[CHOOSE k \in Hits : \A j \in Hits : k <= j].t_ms

\* time_reached(seq): the first recorded advance at or beyond seq, or -1.
time_reached(seq) ==
    LET Hits == {k \in 1 .. Len(advances) : seq_geq(advances[k].frontier, seq)}
    IN  IF Hits = {} THEN -1
        ELSE advances[CHOOSE k \in Hits : \A j \in Hits : k <= j].t_ms

Init ==
    /\ rcv_nxt = Isn /\ held = <<>> /\ advances = <<>> /\ dups = 0 /\ ooo = 0
    /\ pc = "idle" /\ seg = [pos |-> 0, len |-> 0]
    /\ cur = [start |-> Isn, end |-> Isn] /\ placed = FALSE /\ merged = <<>>
    /\ i = 1 /\ before = Isn /\ drained = 0
    /\ calls = 0 /\ total = 0 /\ got = {} /\ when = <<>>
    /\ out = [moved |-> FALSE, rcv_nxt |-> Isn, sacks |-> <<>>]

\* accept(seq, len, t) is called with the bytes pos .. pos+len-1.
Call(pos, len) ==
    /\ pc = "idle"
    /\ calls < MaxAccepts
    /\ InWindow(total, pos, len)
    /\ calls' = calls + 1
    /\ seg' = [pos |-> pos, len |-> len]

\* What every return leaves to the caller and to the history.
Returns(moved) ==
    /\ pc' = "idle"
    /\ out' = [moved |-> moved, rcv_nxt |-> rcv_nxt', sacks |-> sack_blocks(held')]
    /\ got' = got \cup Bytes(seg'.pos, seg'.len)

SegStart(pos) == SeqOf(pos)
SegEnd(pos, len) == Wrap(SegStart(pos) + len)

\* if (len == 0) return false;
AcceptEmpty(pos) ==
    /\ Call(pos, 0)
    /\ UNCHANGED <<object, locals, total, when>>
    /\ Returns(FALSE)

\* Mutant: a partial overlap counts as a pure duplicate.
AlreadyDeliveredStart(pos, len) == seq_lt(SegStart(pos), rcv_nxt)
AlreadyDelivered(pos, len) == seq_leq(SegEnd(pos, len), rcv_nxt)

\* Everything in the segment is already delivered.
AcceptDuplicate(pos, len) ==
    /\ Call(pos, len)
    /\ AlreadyDelivered(pos, len)
    /\ dups' = dups + 1
    /\ UNCHANGED <<rcv_nxt, held, advances, ooo, locals, total, when>>
    /\ Returns(FALSE)

\* Trim the delivered head and start the merge walk.
AcceptBegin(pos, len) ==
    /\ Call(pos, len)
    /\ ~ AlreadyDelivered(pos, len)
    /\ cur' = [start |-> IF seq_lt(SegStart(pos), rcv_nxt) THEN rcv_nxt ELSE SegStart(pos),
               end |-> SegEnd(pos, len)]
    /\ placed' = FALSE
    /\ merged' = <<>>
    /\ i' = 1
    /\ pc' = "merge"
    /\ UNCHANGED <<object, before, drained, history>>

\* The output of the walk with cur in its place.
WithCur == IF placed THEN merged ELSE Append(merged, cur)

AtRange == pc = "merge" /\ i <= Len(held) /\ i' = i + 1
MergeFrame == UNCHANGED <<object, pc, seg, before, drained, calls, history>>

\* Mutant: an adjacent range counts as lying below.
LiesBelowAdjacent == seq_leq(held[i].end, cur.start)
LiesBelow == seq_lt(held[i].end, cur.start)

\* held[i] ends before cur starts: copy it.
MergeBelow ==
    /\ AtRange
    /\ LiesBelow
    /\ merged' = Append(merged, held[i])
    /\ UNCHANGED <<cur, placed>>
    /\ MergeFrame

\* held[i] starts beyond cur: place cur first, once, then copy it.
\* Mutant: cur is left to the end of the walk.
MergeAboveLate ==
    /\ AtRange
    /\ ~ LiesBelow
    /\ seq_gt(held[i].start, cur.end)
    /\ merged' = Append(merged, held[i])
    /\ UNCHANGED <<cur, placed>>
    /\ MergeFrame
MergeAbove ==
    /\ AtRange
    /\ ~ LiesBelow
    /\ seq_gt(held[i].start, cur.end)
    /\ merged' = Append(WithCur, held[i])
    /\ placed' = TRUE
    /\ UNCHANGED cur
    /\ MergeFrame

\* held[i] overlaps or touches cur: cur grows over it.
\* Mutant: only at its start.
MergeAbsorbStart ==
    /\ AtRange
    /\ ~ LiesBelow
    /\ ~ seq_gt(held[i].start, cur.end)
    /\ cur' = [cur EXCEPT !.start = IF seq_lt(held[i].start, @) THEN held[i].start ELSE @]
    /\ UNCHANGED <<placed, merged>>
    /\ MergeFrame
MergeAbsorb ==
    /\ AtRange
    /\ ~ LiesBelow
    /\ ~ seq_gt(held[i].start, cur.end)
    /\ cur' = [start |-> IF seq_lt(held[i].start, cur.start) THEN held[i].start ELSE cur.start,
               end |-> IF seq_gt(held[i].end, cur.end) THEN held[i].end ELSE cur.end]
    /\ UNCHANGED <<placed, merged>>
    /\ MergeFrame

\* The walk is over: place cur if it is not, swap, and start the drain.
MergeDone ==
    /\ pc = "merge"
    /\ i > Len(held)
    /\ held' = WithCur
    /\ before' = rcv_nxt
    /\ drained' = 0
    /\ pc' = "drain"
    /\ UNCHANGED <<rcv_nxt, advances, dups, ooo, seg, cur, placed, merged, i, calls, history>>

\* The next range is contiguous with the frontier.
\* Mutant: compared as plain integers.
DrainNextPlain == drained < Len(held) /\ held[drained + 1].start <= rcv_nxt
DrainNext == drained < Len(held) /\ ~ seq_gt(held[drained + 1].start, rcv_nxt)

DrainStep ==
    /\ pc = "drain"
    /\ DrainNext
    /\ rcv_nxt' = IF seq_gt(held[drained + 1].end, rcv_nxt) THEN held[drained + 1].end ELSE rcv_nxt
    /\ drained' = drained + 1
    /\ UNCHANGED <<held, advances, dups, ooo, pc, seg, cur, placed, merged, i, before, calls, history>>

\* Erase what was drained, record the advance or the out-of-order arrival.
DrainDone ==
    /\ pc = "drain"
    /\ ~ DrainNext
    /\ held' = SubSeq(held, drained + 1, Len(held))
    /\ IF rcv_nxt # before
       THEN /\ advances' = Append(advances, [frontier |-> rcv_nxt, t_ms |-> calls])
            /\ UNCHANGED ooo
       ELSE /\ ooo' = ooo + 1
            /\ UNCHANGED advances
    /\ total' = total + seq_sub(rcv_nxt, before)
    /\ when' = [p \in 1 .. total' |-> IF p <= total THEN when[p] ELSE calls]
    /\ UNCHANGED <<rcv_nxt, dups, seg, locals, calls>>
    /\ Returns(rcv_nxt # before)

Positions == 0 .. StreamLen
Lengths == 1 .. MaxLen

Next ==
    \/ \E pos \in Positions : AcceptEmpty(pos)
    \/ \E pos \in Positions, len \in Lengths : AcceptDuplicate(pos, len)
    \/ \E pos \in Positions, len \in Lengths : AcceptBegin(pos, len)
    \/ MergeBelow
    \/ MergeAbove
    \/ MergeAbsorb
    \/ MergeDone
    \/ DrainStep
    \/ DrainDone

Spec == Init /\ [][Next]_vars

-----------------------------------------------------------------------------
(* Properties *)

\* Type invariant: sequence numbers stay within the 32-bit space, and the
\* program counter and the loop indices within their ranges.
TypeOK ==
    /\ rcv_nxt \in SeqNo
    /\ held \in Seq(SeqRange)
    /\ advances \in Seq([frontier : SeqNo, t_ms : 0 .. MaxAccepts])
    /\ dups \in Nat /\ ooo \in Nat
    /\ pc \in {"idle", "merge", "drain"}
    /\ seg \in [pos : 0 .. StreamLen, len : 0 .. MaxLen]
    /\ cur \in SeqRange
    /\ placed \in BOOLEAN
    /\ merged \in Seq(SeqRange)
    /\ i \in 1 .. Len(held) + 1 \/ pc # "merge"
    /\ i \in Nat \ {0}
    /\ before \in SeqNo
    /\ drained \in Nat
    /\ drained <= Len(held) \/ pc # "drain"
    /\ calls \in 0 .. MaxAccepts
    /\ total \in Nat
    /\ got \subseteq 0 .. StreamLen - 1
    /\ when \in [1 .. total -> 0 .. MaxAccepts]
    /\ out \in [moved : BOOLEAN, rcv_nxt : SeqNo, sacks : Seq(SeqRange)]

\* The frontier the running call started from; between calls, rcv_nxt itself.
Base == SeqOf(total)

\* Range r, seen from base b, is non-empty and within lo .. Window.
RangeOK(b, r, lo) ==
    lo <= seq_sub(r.start, b) /\ seq_sub(r.start, b) < seq_sub(r.end, b) /\ seq_sub(r.end, b) <= Window

\* Range r lies below range q with a gap between them, seen from b.
Apart(b, r, q) == seq_sub(r.end, b) < seq_sub(q.start, b)

\* The ranges of h are non-empty, within lo .. Window of b, ascending, and
\* neither overlapping nor adjacent.
Ascending(b, h, lo) ==
    /\ \A k \in 1 .. Len(h) : RangeOK(b, h[k], lo)
    /\ \A k, l \in 1 .. Len(h) : k < l => Apart(b, h[k], h[l])

\* Range r covers the byte at distance d from b.
Covers(b, r, d) == seq_sub(r.start, b) <= d /\ d < seq_sub(r.end, b)

\* held_ is "disjoint, sorted ascending, all > rcv_nxt_" (reassembly.hpp)
\* whenever accept() is not running, also across the wrap of the sequence
\* space; the merge walk and the drain depend on it.
HeldSorted == pc = "idle" => Ascending(rcv_nxt, held, 1)

\* The assertion in accept(): after the merge walk the ranges are sorted.
MergeSorted ==
    (pc = "drain" /\ drained = 0) =>
        \A k \in 1 .. Len(held) - 1 : seq_lt(held[k].start, held[k + 1].start)

\* rcv_nxt_ is exactly the first byte that has not been accepted: never an
\* acknowledgement of a missing byte, never a delivered byte left waiting.
FrontierExact ==
    pc = "idle" => rcv_nxt = SeqOf(total) /\ IsFrontier(total, got)

\* Bytes between the frontier and the window are held if and only if they
\* were accepted: no merge loses a byte or invents one.
HeldExact ==
    pc = "idle" =>
        \A d \in 1 .. Window :
            total + d \in got <=> \E k \in 1 .. Len(held) : Covers(rcv_nxt, held[k], d)

\* time_reached(seq), the raw material of the head-of-line delay, is the time
\* of the call that first made the byte before seq deliverable, and -1 for
\* a byte not yet delivered, as long as the stream is shorter than half the
\* sequence space.
TimeReachedExact ==
    (pc = "idle" /\ total < Half) =>
        \A p \in 1 .. Half - 1 :
            time_reached(SeqOf(p)) = IF p <= total THEN when[p] ELSE -1

\* accept() implements the contract its caller relies on.
ImplementsContract == Contract!ReassemblyContract

-----------------------------------------------------------------------------
(* The inductive invariant behind HeldSorted, FrontierExact and HeldExact. *)

\* What the history says: an in-order prefix, a missing byte, and nothing
\* beyond the window.
HistoryInv == IsFrontier(total, got) /\ got \subseteq 0 .. total + Window - 1

\* The running call brings at least one byte beyond the frontier.
CallInv ==
    pc # "idle" => InWindow(total, seg.pos, seg.len) /\ seg.pos + seg.len > total

\* Until the drain, the object is as the previous call left it.
HeldInv ==
    pc # "drain" =>
        /\ rcv_nxt = Base
        /\ Ascending(Base, held, 1)
        /\ \A d \in 0 .. Window :
              total + d \in got <=> \E k \in 1 .. Len(held) : Covers(Base, held[k], d)

\* The merge walk: merged, cur (until it is placed) and the ranges not yet
\* visited are apart in this order, except that cur may still meet the
\* unvisited ones, and together they cover what was held and the new bytes.
MergeInv ==
    pc = "merge" =>
        /\ RangeOK(Base, cur, 0)
        /\ Ascending(Base, merged, 0)
        /\ \A k \in 1 .. Len(merged), j \in i .. Len(held) : Apart(Base, merged[k], held[j])
        /\ ~ placed => \A k \in 1 .. Len(merged) : Apart(Base, merged[k], cur)
        /\ placed => \A j \in i .. Len(held) : Apart(Base, cur, held[j])
        /\ \A d \in 0 .. Window :
              total + d \in got \cup Bytes(seg.pos, seg.len) <=>
                 \/ \E k \in 1 .. Len(merged) : Covers(Base, merged[k], d)
                 \/ ~ placed /\ Covers(Base, cur, d)
                 \/ \E j \in i .. Len(held) : Covers(Base, held[j], d)

\* The drain takes at most the first range, and that one only if it starts
\* exactly at the frontier.
DrainInv ==
    pc = "drain" =>
        /\ before = Base
        /\ Ascending(Base, held, 0)
        /\ \A d \in 0 .. Window :
              total + d \in got \cup Bytes(seg.pos, seg.len) <=>
                 \E k \in 1 .. Len(held) : Covers(Base, held[k], d)
        /\ \/ drained = 0 /\ rcv_nxt = Base
           \/ /\ drained = 1
              /\ seq_sub(held[1].start, Base) = 0
              /\ rcv_nxt = held[1].end

\* Between two steps of accept() the receiver's 32-bit state and the half
\* merged ranges always stand for exactly the bytes accepted.
InductiveInv == TypeOK /\ HistoryInv /\ CallInv /\ HeldInv /\ MergeInv /\ DrainInv
=============================================================================
