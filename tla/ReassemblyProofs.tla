-------------------------- MODULE ReassemblyProofs --------------------------
(***************************************************************************)
(* Proofs about Reassembly for every sequence space, window, stream and    *)
(* number of calls: InductiveInv is an invariant, and with it HeldSorted,  *)
(* FrontierExact, HeldExact and MergeSorted; accept() implements the       *)
(* contract of ReassemblySpec; and the recorded times are exact.           *)
(***************************************************************************)
EXTENDS Reassembly, SeqSpaceProofs, FiniteSetTheorems

-----------------------------------------------------------------------------
(* Ranges seen from a base *)

\* The two ends of a range, seen from a base, are distances below M.
LEMMA RangeDist ==
  ASSUME NEW b \in SeqNo, NEW r \in SeqRange
  PROVE  /\ r.start \in SeqNo /\ r.end \in SeqNo
         /\ seq_sub(r.start, b) \in Nat
         /\ seq_sub(r.end, b) \in Nat
<1>1. r.start \in SeqNo /\ r.end \in SeqNo
  BY DEF SeqRange
<1>2. seq_sub(r.start, b) \in SeqNo /\ seq_sub(r.end, b) \in SeqNo
  BY <1>1, SubValue
<1> QED
  BY <1>1, <1>2, SeqNoValue

\* The comparisons of the merge walk decide how two ranges lie to each other.
LEMMA RangeCompare ==
  ASSUME NEW b \in SeqNo, NEW r \in SeqRange, NEW q \in SeqRange,
         RangeOK(b, r, 0), RangeOK(b, q, 0)
  PROVE  /\ seq_lt(r.end, q.start) <=> Apart(b, r, q)
         /\ seq_gt(r.start, q.end) <=> Apart(b, q, r)
         /\ seq_lt(r.start, q.start) <=> seq_sub(r.start, b) < seq_sub(q.start, b)
         /\ seq_gt(r.end, q.end) <=> seq_sub(r.end, b) > seq_sub(q.end, b)
<1>1. /\ r.start \in SeqNo /\ r.end \in SeqNo
      /\ q.start \in SeqNo /\ q.end \in SeqNo
      /\ seq_sub(r.start, b) \in Nat /\ seq_sub(r.end, b) \in Nat
      /\ seq_sub(q.start, b) \in Nat /\ seq_sub(q.end, b) \in Nat
  BY RangeDist
<1>2. /\ seq_sub(r.start, b) < Half /\ seq_sub(r.end, b) < Half
      /\ seq_sub(q.start, b) < Half /\ seq_sub(q.end, b) < Half
  BY <1>1, WindowAssumption, HalfAssumption DEF RangeOK
<1>3. seq_lt(r.end, q.start) <=> seq_sub(r.end, b) < seq_sub(q.start, b)
  BY <1>1, <1>2, Compare
<1>4. seq_gt(r.start, q.end) <=> seq_sub(r.start, b) > seq_sub(q.end, b)
  BY <1>1, <1>2, Compare
<1>5. seq_lt(r.start, q.start) <=> seq_sub(r.start, b) < seq_sub(q.start, b)
  BY <1>1, <1>2, Compare
<1>6. seq_gt(r.end, q.end) <=> seq_sub(r.end, b) > seq_sub(q.end, b)
  BY <1>1, <1>2, Compare
<1> QED
  BY <1>1, <1>3, <1>4, <1>5, <1>6 DEF Apart

\* A range above all of h may be appended to it.
LEMMA AppendAscending ==
  ASSUME NEW b \in SeqNo, NEW h \in Seq(SeqRange), NEW r \in SeqRange, NEW lo \in Nat,
         Ascending(b, h, lo), RangeOK(b, r, lo),
         \A k \in 1 .. Len(h) : Apart(b, h[k], r)
  PROVE  Ascending(b, Append(h, r), lo)
<1> DEFINE g == Append(h, r)
<1>1. /\ Len(g) = Len(h) + 1
      /\ g[Len(g)] = r
      /\ \A k \in 1 .. Len(h) : g[k] = h[k]
      /\ Len(h) \in Nat
  OBVIOUS
<1> HIDE DEF g
<1>2. ASSUME NEW k \in 1 .. Len(g) PROVE RangeOK(b, g[k], lo)
  <2>1. CASE k = Len(g)
    BY <1>1, <2>1
  <2>2. CASE k # Len(g)
    <3>1. k \in 1 .. Len(h)
      BY <1>1, <2>2
    <3> QED
      BY <1>1, <3>1 DEF Ascending
  <2> QED
    BY <2>1, <2>2
<1>3. ASSUME NEW k \in 1 .. Len(g), NEW l \in 1 .. Len(g), k < l
      PROVE  Apart(b, g[k], g[l])
  <2>1. k \in 1 .. Len(h)
    BY <1>1, <1>3
  <2>2. CASE l = Len(g)
    BY <1>1, <2>1, <2>2
  <2>3. CASE l # Len(g)
    <3>1. l \in 1 .. Len(h)
      BY <1>1, <2>3
    <3> QED
      BY <1>1, <1>3, <2>1, <3>1 DEF Ascending
  <2> QED
    BY <2>2, <2>3
<1>4. Ascending(b, g, lo)
  BY <1>2, <1>3 DEF Ascending
<1> QED
  BY <1>4 DEF g

\* What an appended sequence covers.
LEMMA AppendCovers ==
  ASSUME NEW b, NEW h \in Seq(SeqRange), NEW r \in SeqRange, NEW d
  PROVE  (\E k \in 1 .. Len(Append(h, r)) : Covers(b, Append(h, r)[k], d)) <=>
         (\/ \E k \in 1 .. Len(h) : Covers(b, h[k], d)
          \/ Covers(b, r, d))
<1> DEFINE g == Append(h, r)
<1>1. /\ Len(g) = Len(h) + 1
      /\ g[Len(h) + 1] = r
      /\ \A k \in 1 .. Len(h) : g[k] = h[k]
      /\ Len(h) \in Nat
  OBVIOUS
<1> HIDE DEF g
<1>2. ASSUME NEW k \in 1 .. Len(g), Covers(b, g[k], d)
      PROVE  (\E m \in 1 .. Len(h) : Covers(b, h[m], d)) \/ Covers(b, r, d)
  <2>1. k = Len(h) + 1 \/ k \in 1 .. Len(h)
    BY <1>1
  <2> QED
    BY <1>1, <1>2, <2>1
<1>3. ASSUME NEW k \in 1 .. Len(h), Covers(b, h[k], d)
      PROVE  \E m \in 1 .. Len(g) : Covers(b, g[m], d)
  <2>1. k \in 1 .. Len(g)
    BY <1>1
  <2> QED
    BY <1>1, <1>3, <2>1
<1>4. Covers(b, r, d) => \E m \in 1 .. Len(g) : Covers(b, g[m], d)
  <2>1. Len(h) + 1 \in 1 .. Len(g)
    BY <1>1
  <2> QED
    BY <1>1, <2>1
<1>5. (\E k \in 1 .. Len(g) : Covers(b, g[k], d)) <=>
         (\/ \E k \in 1 .. Len(h) : Covers(b, h[k], d)
          \/ Covers(b, r, d))
  BY <1>2, <1>3, <1>4
<1> QED
  BY <1>5 DEF g

-----------------------------------------------------------------------------
(* The merge walk *)

\* The base is a sequence number.
LEMMA BaseType == ASSUME total \in Nat PROVE Base \in SeqNo
<1>1. Isn + total \in Int
  BY IsnAssumption, SeqNoValue
<1> QED
  BY <1>1, WrapType DEF Base, SeqOf

\* A step of the walk need only be shown to keep MergeInv: the rest of the
\* invariant speaks of what the walk leaves alone.
LEMMA WalkFrame ==
  ASSUME InductiveInv, AtRange, MergeFrame,
         cur' \in SeqRange, placed' \in BOOLEAN, merged' \in Seq(SeqRange), MergeInv'
  PROVE  InductiveInv'
<1> USE DEF InductiveInv, AtRange, MergeFrame, object, history
<1>1. /\ UNCHANGED <<rcv_nxt, held, advances, dups, ooo, pc, seg, before, drained, calls>>
      /\ UNCHANGED <<out, total, got, when>>
      /\ pc = "merge" /\ i <= Len(held) /\ i' = i + 1
  OBVIOUS
<1>2. TypeOK'
  <2>1. i' \in 1 .. Len(held') + 1 /\ i' \in Nat \ {0}
    BY <1>1 DEF TypeOK
  <2> QED
    BY <1>1, <2>1 DEF TypeOK
<1>3. HistoryInv'
  BY <1>1 DEF HistoryInv, IsFrontier
<1>4. CallInv'
  BY <1>1 DEF CallInv, InWindow
<1>5. Base' = Base
  BY <1>1 DEF Base, SeqOf
<1>6. HeldInv'
  BY <1>1, <1>5 DEF HeldInv, Ascending
<1>7. DrainInv'
  BY <1>1 DEF DrainInv
<1> QED
  BY <1>2, <1>3, <1>4, <1>6, <1>7

\* Facts every step of the walk starts from.
LEMMA WalkFacts ==
  ASSUME InductiveInv, AtRange, MergeFrame
  PROVE  /\ Base \in SeqNo /\ Base' = Base
         /\ i \in 1 .. Len(held) /\ i' = i + 1
         /\ held \in Seq(SeqRange) /\ merged \in Seq(SeqRange) /\ cur \in SeqRange /\ placed \in BOOLEAN
         /\ held[i] \in SeqRange
         /\ RangeOK(Base, held[i], 1) /\ RangeOK(Base, held[i], 0) /\ RangeOK(Base, cur, 0)
         /\ \A j \in i + 1 .. Len(held) : Apart(Base, held[i], held[j]) /\ j \in i .. Len(held)
         /\ UNCHANGED <<held, pc, seg, total, got>>
         /\ pc = "merge"
         /\ MergeInv
<1> USE DEF InductiveInv, AtRange, MergeFrame, object, history
<1>1. /\ UNCHANGED <<held, pc, seg, total, got>>
      /\ pc = "merge" /\ i <= Len(held) /\ i' = i + 1
      /\ i \in Nat \ {0} /\ Len(held) \in Nat
      /\ held \in Seq(SeqRange) /\ merged \in Seq(SeqRange) /\ cur \in SeqRange /\ placed \in BOOLEAN
      /\ total \in Nat
  BY DEF TypeOK
<1>2. i \in 1 .. Len(held) /\ held[i] \in SeqRange
  BY <1>1
<1>3. Base \in SeqNo /\ Base' = Base
  BY <1>1, BaseType DEF Base, SeqOf
<1>4. RangeOK(Base, held[i], 1) /\ RangeOK(Base, cur, 0)
  BY <1>1, <1>2 DEF HeldInv, MergeInv, Ascending
<1>5. RangeOK(Base, held[i], 0)
  BY <1>2, <1>3, <1>4, RangeDist DEF RangeOK
<1>6. ASSUME NEW j \in i + 1 .. Len(held)
      PROVE  Apart(Base, held[i], held[j]) /\ j \in i .. Len(held)
  <2>1. j \in 1 .. Len(held) /\ i < j
    BY <1>1
  <2> QED
    BY <1>1, <1>2, <2>1 DEF HeldInv, Ascending
<1> QED
  BY <1>1, <1>2, <1>3, <1>4, <1>5, <1>6

\* What is left to visit after index i, with held[i] itself taken out.
LEMMA RestCovers ==
  ASSUME NEW b, NEW h \in Seq(SeqRange), NEW n \in 1 .. Len(h), NEW d
  PROVE  (\E j \in n .. Len(h) : Covers(b, h[j], d)) <=>
         (\/ Covers(b, h[n], d)
          \/ \E j \in n + 1 .. Len(h) : Covers(b, h[j], d))
<1>1. Len(h) \in Nat /\ n \in Nat
  OBVIOUS
<1>2. n .. Len(h) = {n} \cup (n + 1 .. Len(h))
  BY <1>1
<1> QED
  BY <1>2

\* A range below cur is copied: cur is not placed yet, and the copy lies
\* between what was copied before and cur.
LEMMA MergeBelowStep ==
  ASSUME InductiveInv, MergeBelow
  PROVE  InductiveInv'
<1>1. AtRange /\ MergeFrame
  BY DEF MergeBelow, LiesBelow
<1> DEFINE r == held[i]
<1>2. /\ Base \in SeqNo /\ Base' = Base
      /\ i \in 1 .. Len(held) /\ i' = i + 1
      /\ held \in Seq(SeqRange) /\ merged \in Seq(SeqRange) /\ cur \in SeqRange /\ placed \in BOOLEAN
      /\ r \in SeqRange
      /\ RangeOK(Base, r, 0) /\ RangeOK(Base, cur, 0)
      /\ \A j \in i + 1 .. Len(held) : Apart(Base, r, held[j]) /\ j \in i .. Len(held)
      /\ UNCHANGED <<held, pc, seg, total, got>>
      /\ pc = "merge"
      /\ MergeInv
  BY <1>1, WalkFacts
<1>3. /\ merged' = Append(merged, r) /\ cur' = cur /\ placed' = placed
      /\ seq_lt(r.end, cur.start)
  BY DEF MergeBelow, LiesBelow
<1>4. Apart(Base, r, cur)
  BY <1>2, <1>3, RangeCompare
<1>5. ~ placed
  <2> SUFFICES ASSUME placed PROVE FALSE
    OBVIOUS
  <2>1. Apart(Base, cur, r)
    <3>1. i \in i .. Len(held)
      BY <1>2
    <3> QED
      BY <1>2, <3>1 DEF MergeInv
  <2>2. /\ seq_sub(r.start, Base) \in Nat /\ seq_sub(r.end, Base) \in Nat
        /\ seq_sub(cur.start, Base) \in Nat /\ seq_sub(cur.end, Base) \in Nat
    BY <1>2, RangeDist
  <2> QED
    BY <1>2, <1>4, <2>1, <2>2 DEF Apart, RangeOK
<1>6. \A k \in 1 .. Len(merged) : Apart(Base, merged[k], r)
  <2>1. i \in i .. Len(held)
    BY <1>2
  <2> QED
    BY <1>2, <2>1 DEF MergeInv
<1>7. merged' \in Seq(SeqRange)
  BY <1>2, <1>3
<1>8. MergeInv'
  <2>1. RangeOK(Base, cur', 0)
    BY <1>2, <1>3
  <2>2. Ascending(Base, merged', 0)
    BY <1>2, <1>3, <1>6, AppendAscending DEF MergeInv
  <2>3. ASSUME NEW k \in 1 .. Len(merged'), NEW j \in i + 1 .. Len(held)
        PROVE  Apart(Base, merged'[k], held[j])
    <3>1. j \in i .. Len(held) /\ Apart(Base, r, held[j])
      BY <1>2
    <3>2. k = Len(merged) + 1 \/ k \in 1 .. Len(merged)
      BY <1>2, <1>3
    <3>3. CASE k = Len(merged) + 1
      BY <1>2, <1>3, <3>1, <3>3
    <3>4. CASE k \in 1 .. Len(merged)
      BY <1>2, <1>3, <3>1, <3>4 DEF MergeInv
    <3> QED
      BY <3>2, <3>3, <3>4
  <2>4. ASSUME NEW k \in 1 .. Len(merged') PROVE Apart(Base, merged'[k], cur)
    <3>1. k = Len(merged) + 1 \/ k \in 1 .. Len(merged)
      BY <1>2, <1>3
    <3>2. CASE k = Len(merged) + 1
      BY <1>2, <1>3, <1>4, <3>2
    <3>3. CASE k \in 1 .. Len(merged)
      BY <1>2, <1>3, <1>5, <3>3 DEF MergeInv
    <3> QED
      BY <3>1, <3>2, <3>3
  <2>5. ASSUME NEW d \in 0 .. Window
        PROVE  total + d \in got \cup Bytes(seg.pos, seg.len) <=>
                 \/ \E k \in 1 .. Len(merged') : Covers(Base, merged'[k], d)
                 \/ ~ placed /\ Covers(Base, cur, d)
                 \/ \E j \in i + 1 .. Len(held) : Covers(Base, held[j], d)
    <3>1. total + d \in got \cup Bytes(seg.pos, seg.len) <=>
                 \/ \E k \in 1 .. Len(merged) : Covers(Base, merged[k], d)
                 \/ ~ placed /\ Covers(Base, cur, d)
                 \/ \E j \in i .. Len(held) : Covers(Base, held[j], d)
      BY <1>2 DEF MergeInv
    <3>2. (\E k \in 1 .. Len(merged') : Covers(Base, merged'[k], d)) <=>
             ((\E k \in 1 .. Len(merged) : Covers(Base, merged[k], d)) \/ Covers(Base, r, d))
      <4>1. (\E k \in 1 .. Len(Append(merged, r)) : Covers(Base, Append(merged, r)[k], d)) <=>
               ((\E k \in 1 .. Len(merged) : Covers(Base, merged[k], d)) \/ Covers(Base, r, d))
        BY <1>2, AppendCovers
      <4> QED
        BY <1>3, <4>1
    <3>3. (\E j \in i .. Len(held) : Covers(Base, held[j], d)) <=>
             (Covers(Base, r, d) \/ \E j \in i + 1 .. Len(held) : Covers(Base, held[j], d))
      BY <1>2, RestCovers
    <3> QED
      BY <3>1, <3>2, <3>3
  <2> QED
    BY <1>2, <1>3, <1>5, <2>1, <2>2, <2>3, <2>4, <2>5 DEF MergeInv
<1> QED
  BY <1>1, <1>2, <1>3, <1>7, <1>8, WalkFrame

\* Lying apart is transitive over a range that is not empty.
LEMMA ApartTransitive ==
  ASSUME NEW b \in SeqNo, NEW p \in SeqRange, NEW q \in SeqRange, NEW r \in SeqRange,
         Apart(b, p, q), Apart(b, q, r), RangeOK(b, q, 0)
  PROVE  Apart(b, p, r)
<1>1. /\ seq_sub(p.end, b) \in Nat /\ seq_sub(q.start, b) \in Nat
      /\ seq_sub(q.end, b) \in Nat /\ seq_sub(r.start, b) \in Nat
  BY RangeDist
<1> QED
  BY <1>1 DEF Apart, RangeOK

\* With cur in its place the output of the walk is ascending, and covers what
\* merged and an unplaced cur cover.
LEMMA PlaceCur ==
  ASSUME TypeOK, MergeInv, pc = "merge"
  PROVE  /\ WithCur \in Seq(SeqRange)
         /\ Ascending(Base, WithCur, 0)
         /\ \A d : (\E k \in 1 .. Len(WithCur) : Covers(Base, WithCur[k], d)) <=>
                      \/ \E k \in 1 .. Len(merged) : Covers(Base, merged[k], d)
                      \/ ~ placed /\ Covers(Base, cur, d)
<1>1. Base \in SeqNo /\ merged \in Seq(SeqRange) /\ cur \in SeqRange
  BY BaseType DEF TypeOK
<1>2. CASE placed
  BY <1>1, <1>2 DEF WithCur, MergeInv
<1>3. CASE ~ placed
  <2>1. WithCur = Append(merged, cur)
    BY <1>3 DEF WithCur
  <2>2. WithCur \in Seq(SeqRange)
    BY <1>1, <2>1
  <2>3. Ascending(Base, Append(merged, cur), 0)
    BY <1>1, <1>3, AppendAscending DEF MergeInv
  <2>4. ASSUME NEW d
        PROVE (\E k \in 1 .. Len(Append(merged, cur)) : Covers(Base, Append(merged, cur)[k], d)) <=>
                 ((\E k \in 1 .. Len(merged) : Covers(Base, merged[k], d)) \/ Covers(Base, cur, d))
    BY <1>1, AppendCovers
  <2> QED
    BY <1>3, <2>1, <2>2, <2>3, <2>4
<1> QED
  BY <1>2, <1>3

\* A range above cur is copied; cur goes in front of it if it is not placed.
LEMMA MergeAboveStep ==
  ASSUME InductiveInv, MergeAbove
  PROVE  InductiveInv'
<1>1. AtRange /\ MergeFrame
  BY DEF MergeAbove, LiesBelow
<1> DEFINE r == held[i]
           g == WithCur
<1>2. /\ Base \in SeqNo /\ Base' = Base
      /\ i \in 1 .. Len(held) /\ i' = i + 1
      /\ held \in Seq(SeqRange) /\ merged \in Seq(SeqRange) /\ cur \in SeqRange /\ placed \in BOOLEAN
      /\ r \in SeqRange
      /\ RangeOK(Base, r, 0) /\ RangeOK(Base, cur, 0)
      /\ \A j \in i + 1 .. Len(held) : Apart(Base, r, held[j]) /\ j \in i .. Len(held)
      /\ UNCHANGED <<held, pc, seg, total, got>>
      /\ pc = "merge"
      /\ MergeInv
  BY <1>1, WalkFacts
<1>3. /\ merged' = Append(g, r) /\ cur' = cur /\ placed' = TRUE
      /\ seq_gt(r.start, cur.end)
  BY DEF MergeAbove, LiesBelow
<1>4. Apart(Base, cur, r)
  BY <1>2, <1>3, RangeCompare
<1>5. \A j \in i + 1 .. Len(held) : Apart(Base, cur, held[j])
  <2> TAKE j \in i + 1 .. Len(held)
  <2>1. held[j] \in SeqRange /\ Apart(Base, r, held[j])
    BY <1>2
  <2> QED
    BY <1>2, <1>4, <2>1, ApartTransitive
<1>6. /\ g \in Seq(SeqRange)
      /\ Ascending(Base, g, 0)
      /\ \A k \in 1 .. Len(g), j \in i .. Len(held) : Apart(Base, g[k], held[j])
  <2>1. g \in Seq(SeqRange) /\ Ascending(Base, g, 0)
    BY <1>2, PlaceCur DEF InductiveInv
  <2>2. ASSUME NEW k \in 1 .. Len(g), NEW j \in i .. Len(held)
        PROVE  Apart(Base, g[k], held[j])
    <3>1. CASE placed
      BY <1>2, <3>1 DEF MergeInv, WithCur
    <3>2. CASE ~ placed
      <4>1. g = Append(merged, cur)
        BY <3>2 DEF WithCur
      <4>2. k = Len(merged) + 1 \/ k \in 1 .. Len(merged)
        BY <1>2, <4>1
      <4>3. CASE k = Len(merged) + 1
        <5>1. g[k] = cur
          BY <1>2, <4>1, <4>3
        <5>2. j = i \/ j \in i + 1 .. Len(held)
          BY <1>2
        <5> QED
          BY <1>4, <1>5, <5>1, <5>2
      <4>4. CASE k \in 1 .. Len(merged)
        <5>1. g[k] = merged[k]
          BY <1>2, <4>1, <4>4
        <5> QED
          BY <1>2, <4>4, <5>1 DEF MergeInv
      <4> QED
        BY <4>2, <4>3, <4>4
    <3> QED
      BY <3>1, <3>2
  <2> QED
    BY <2>1, <2>2
<1>7. ASSUME NEW d
      PROVE  (\E k \in 1 .. Len(g) : Covers(Base, g[k], d)) <=>
                \/ \E k \in 1 .. Len(merged) : Covers(Base, merged[k], d)
                \/ ~ placed /\ Covers(Base, cur, d)
  BY <1>2, PlaceCur DEF InductiveInv
<1> HIDE DEF g
<1>8. merged' \in Seq(SeqRange)
  BY <1>2, <1>3, <1>6
<1>9. MergeInv'
  <2>1. Ascending(Base, merged', 0)
    <3>1. i \in i .. Len(held)
      BY <1>2
    <3>2. \A k \in 1 .. Len(g) : Apart(Base, g[k], r)
      BY <1>6, <3>1
    <3> QED
      BY <1>2, <1>3, <1>6, <3>2, AppendAscending
  <2>2. ASSUME NEW k \in 1 .. Len(merged'), NEW j \in i + 1 .. Len(held)
        PROVE  Apart(Base, merged'[k], held[j])
    <3>1. j \in i .. Len(held) /\ Apart(Base, r, held[j])
      BY <1>2
    <3>2. k = Len(g) + 1 \/ k \in 1 .. Len(g)
      BY <1>3, <1>6
    <3>3. CASE k = Len(g) + 1
      BY <1>2, <1>3, <1>6, <3>1, <3>3
    <3>4. CASE k \in 1 .. Len(g)
      BY <1>2, <1>3, <1>6, <3>1, <3>4
    <3> QED
      BY <3>2, <3>3, <3>4
  <2>3. ASSUME NEW d \in 0 .. Window
        PROVE  total + d \in got \cup Bytes(seg.pos, seg.len) <=>
                 \/ \E k \in 1 .. Len(merged') : Covers(Base, merged'[k], d)
                 \/ \E j \in i + 1 .. Len(held) : Covers(Base, held[j], d)
    <3>1. total + d \in got \cup Bytes(seg.pos, seg.len) <=>
                 \/ \E k \in 1 .. Len(merged) : Covers(Base, merged[k], d)
                 \/ ~ placed /\ Covers(Base, cur, d)
                 \/ \E j \in i .. Len(held) : Covers(Base, held[j], d)
      BY <1>2 DEF MergeInv
    <3>2. (\E k \in 1 .. Len(merged') : Covers(Base, merged'[k], d)) <=>
             ((\E k \in 1 .. Len(g) : Covers(Base, g[k], d)) \/ Covers(Base, r, d))
      <4>1. (\E k \in 1 .. Len(Append(g, r)) : Covers(Base, Append(g, r)[k], d)) <=>
               ((\E k \in 1 .. Len(g) : Covers(Base, g[k], d)) \/ Covers(Base, r, d))
        BY <1>2, <1>6, AppendCovers
      <4> QED
        BY <1>3, <4>1
    <3>3. (\E j \in i .. Len(held) : Covers(Base, held[j], d)) <=>
             (Covers(Base, r, d) \/ \E j \in i + 1 .. Len(held) : Covers(Base, held[j], d))
      BY <1>2, RestCovers
    <3> QED
      BY <1>7, <3>1, <3>2, <3>3
  <2> QED
    BY <1>2, <1>3, <1>5, <2>1, <2>2, <2>3 DEF MergeInv
<1> QED
  BY <1>1, <1>2, <1>3, <1>8, <1>9, WalkFrame

\* An overlapping or touching range is absorbed: cur becomes the union of the
\* two, which is a range because there is no gap between them.
LEMMA MergeAbsorbStep ==
  ASSUME InductiveInv, MergeAbsorb
  PROVE  InductiveInv'
<1>1. AtRange /\ MergeFrame
  BY DEF MergeAbsorb, LiesBelow
<1> DEFINE r == held[i]
<1>2. /\ Base \in SeqNo /\ Base' = Base
      /\ i \in 1 .. Len(held) /\ i' = i + 1
      /\ held \in Seq(SeqRange) /\ merged \in Seq(SeqRange) /\ cur \in SeqRange /\ placed \in BOOLEAN
      /\ r \in SeqRange
      /\ RangeOK(Base, r, 0) /\ RangeOK(Base, cur, 0)
      /\ \A j \in i + 1 .. Len(held) : Apart(Base, r, held[j]) /\ j \in i .. Len(held)
      /\ UNCHANGED <<held, pc, seg, total, got>>
      /\ pc = "merge"
      /\ MergeInv
  BY <1>1, WalkFacts
<1>3. /\ merged' = merged /\ placed' = placed
      /\ cur' = [start |-> IF seq_lt(r.start, cur.start) THEN r.start ELSE cur.start,
                 end |-> IF seq_gt(r.end, cur.end) THEN r.end ELSE cur.end]
      /\ ~ seq_lt(r.end, cur.start) /\ ~ seq_gt(r.start, cur.end)
  BY DEF MergeAbsorb, LiesBelow
<1>4. i \in i .. Len(held)
  BY <1>2
<1>5. ~ Apart(Base, r, cur) /\ ~ Apart(Base, cur, r)
  BY <1>2, <1>3, RangeCompare
<1>6. ~ placed
  BY <1>2, <1>4, <1>5 DEF MergeInv
<1>7. /\ seq_sub(r.start, Base) \in Nat /\ seq_sub(r.end, Base) \in Nat
      /\ seq_sub(cur.start, Base) \in Nat /\ seq_sub(cur.end, Base) \in Nat
      /\ r.start \in SeqNo /\ r.end \in SeqNo /\ cur.start \in SeqNo /\ cur.end \in SeqNo
  BY <1>2, RangeDist
<1>8. cur' \in SeqRange
  BY <1>3, <1>7 DEF SeqRange
<1>9. /\ seq_lt(r.start, cur.start) <=> seq_sub(r.start, Base) < seq_sub(cur.start, Base)
      /\ seq_gt(r.end, cur.end) <=> seq_sub(r.end, Base) > seq_sub(cur.end, Base)
  BY <1>2, RangeCompare
<1>10. /\ cur'.start = IF seq_lt(r.start, cur.start) THEN r.start ELSE cur.start
       /\ cur'.end = IF seq_gt(r.end, cur.end) THEN r.end ELSE cur.end
  BY <1>3
<1>11. /\ seq_sub(cur'.start, Base) =
             IF seq_sub(r.start, Base) < seq_sub(cur.start, Base)
             THEN seq_sub(r.start, Base) ELSE seq_sub(cur.start, Base)
       /\ seq_sub(cur'.end, Base) =
             IF seq_sub(r.end, Base) > seq_sub(cur.end, Base)
             THEN seq_sub(r.end, Base) ELSE seq_sub(cur.end, Base)
  BY <1>9, <1>10
<1>12. RangeOK(Base, cur', 0)
  BY <1>2, <1>7, <1>11, WindowAssumption DEF RangeOK
<1>13. \A k \in 1 .. Len(merged) : Apart(Base, merged[k], cur')
  <2> TAKE k \in 1 .. Len(merged)
  <2>1. Apart(Base, merged[k], cur) /\ Apart(Base, merged[k], r)
    BY <1>2, <1>4, <1>6 DEF MergeInv
  <2> QED
    BY <1>11, <2>1 DEF Apart
<1>14. ASSUME NEW d \in 0 .. Window
       PROVE  Covers(Base, cur', d) <=> Covers(Base, cur, d) \/ Covers(Base, r, d)
  <2>1. d \in Int
    BY WindowAssumption
  <2> QED
    BY <1>2, <1>5, <1>7, <1>11, <2>1 DEF Covers, Apart, RangeOK
<1>15. MergeInv'
  <2>1. ASSUME NEW k \in 1 .. Len(merged), NEW j \in i + 1 .. Len(held)
        PROVE  Apart(Base, merged[k], held[j])
    BY <1>2 DEF MergeInv
  <2>2. ASSUME NEW d \in 0 .. Window
        PROVE  total + d \in got \cup Bytes(seg.pos, seg.len) <=>
                 \/ \E k \in 1 .. Len(merged) : Covers(Base, merged[k], d)
                 \/ Covers(Base, cur', d)
                 \/ \E j \in i + 1 .. Len(held) : Covers(Base, held[j], d)
    <3>1. total + d \in got \cup Bytes(seg.pos, seg.len) <=>
                 \/ \E k \in 1 .. Len(merged) : Covers(Base, merged[k], d)
                 \/ ~ placed /\ Covers(Base, cur, d)
                 \/ \E j \in i .. Len(held) : Covers(Base, held[j], d)
      BY <1>2 DEF MergeInv
    <3>2. (\E j \in i .. Len(held) : Covers(Base, held[j], d)) <=>
             (Covers(Base, r, d) \/ \E j \in i + 1 .. Len(held) : Covers(Base, held[j], d))
      BY <1>2, RestCovers
    <3> QED
      BY <1>6, <1>14, <3>1, <3>2
  <2>3. Ascending(Base, merged, 0)
    BY <1>2 DEF MergeInv
  <2> QED
    BY <1>2, <1>3, <1>6, <1>12, <1>13, <2>1, <2>2, <2>3 DEF MergeInv
<1> QED
  BY <1>1, <1>2, <1>3, <1>8, <1>15, WalkFrame

\* The walk is over: what it produced is ascending and covers the held bytes
\* and the new ones.
LEMMA MergeDoneStep ==
  ASSUME InductiveInv, MergeDone
  PROVE  InductiveInv'
<1> USE DEF InductiveInv
<1>1. /\ UNCHANGED <<rcv_nxt, advances, dups, ooo, seg, cur, placed, merged, i, calls>>
      /\ UNCHANGED <<out, total, got, when>>
      /\ pc = "merge" /\ pc' = "drain" /\ i > Len(held)
      /\ held' = WithCur /\ before' = rcv_nxt /\ drained' = 0
  BY DEF MergeDone, history
<1>2. /\ WithCur \in Seq(SeqRange)
      /\ Ascending(Base, WithCur, 0)
      /\ \A d : (\E k \in 1 .. Len(WithCur) : Covers(Base, WithCur[k], d)) <=>
                   \/ \E k \in 1 .. Len(merged) : Covers(Base, merged[k], d)
                   \/ ~ placed /\ Covers(Base, cur, d)
  BY <1>1, PlaceCur
<1>3. Base' = Base /\ rcv_nxt = Base
  BY <1>1 DEF Base, SeqOf, HeldInv
<1>4. TypeOK'
  <2>1. drained' <= Len(held') /\ held' \in Seq(SeqRange) /\ drained' \in Nat /\ before' \in SeqNo
    BY <1>1, <1>2 DEF TypeOK
  <2> QED
    BY <1>1, <2>1 DEF TypeOK
<1>5. HistoryInv' /\ CallInv' /\ HeldInv' /\ MergeInv'
  BY <1>1 DEF HistoryInv, IsFrontier, CallInv, InWindow, HeldInv, MergeInv
<1>6. DrainInv'
  <2>1. ASSUME NEW d \in 0 .. Window
        PROVE  total + d \in got \cup Bytes(seg.pos, seg.len) <=>
                 \E k \in 1 .. Len(WithCur) : Covers(Base, WithCur[k], d)
    <3>1. ~ \E j \in i .. Len(held) : Covers(Base, held[j], d)
      BY <1>1 DEF TypeOK
    <3> QED
      BY <1>1, <1>2, <3>1 DEF MergeInv
  <2> QED
    BY <1>1, <1>2, <1>3, <2>1 DEF DrainInv
<1> QED
  BY <1>4, <1>5, <1>6

-----------------------------------------------------------------------------
(* The call *)

\* Within the window, the 32-bit tests at the head of accept() say where the
\* segment lies with respect to the frontier.
LEMMA CallPosition ==
  ASSUME NEW pos \in Nat, NEW len \in Nat, total \in Nat, InWindow(total, pos, len)
  PROVE  /\ SegStart(pos) \in SeqNo /\ SegEnd(pos, len) \in SeqNo
         /\ seq_leq(SegEnd(pos, len), Base) <=> pos + len <= total
         /\ seq_lt(SegStart(pos), Base) <=> pos < total
         /\ pos >= total => seq_sub(SegStart(pos), Base) = pos - total
         /\ pos + len >= total => seq_sub(SegEnd(pos, len), Base) = pos + len - total
<1>1. Isn \in Int
  BY IsnAssumption, SeqNoValue
<1>2. SegStart(pos) = Wrap(Isn + pos) /\ Base = Wrap(Isn + total)
  BY DEF SegStart, SeqOf, Base
<1>3. SegEnd(pos, len) = Wrap(Isn + (pos + len))
  <2>1. Isn + pos \in Int /\ (Isn + pos) + len = Isn + (pos + len)
    BY <1>1
  <2>2. Wrap((Isn + pos) + len) = Wrap(Wrap(Isn + pos) + len)
    BY <2>1, WrapAdd
  <2> QED
    BY <1>2, <2>1, <2>2 DEF SegEnd
<1>4. SegStart(pos) \in SeqNo /\ SegEnd(pos, len) \in SeqNo
  <2>1. Isn + pos \in Int /\ Isn + (pos + len) \in Int
    BY <1>1
  <2> QED
    BY <1>2, <1>3, <2>1, WrapType
<1>5. /\ int32(seq_sub(SegStart(pos), Base)) = pos - total
      /\ pos >= total => seq_sub(SegStart(pos), Base) = pos - total
  <2>1. -Half < pos - total /\ pos - total < Half
    BY WindowAssumption, HalfAssumption DEF InWindow
  <2>2. /\ int32(seq_sub(Wrap(Isn + pos), Wrap(Isn + total))) = pos - total
        /\ pos >= total => seq_sub(Wrap(Isn + pos), Wrap(Isn + total)) = pos - total
    BY <1>1, <2>1, Offset
  <2> QED
    BY <1>2, <2>2
<1>6. /\ int32(seq_sub(SegEnd(pos, len), Base)) = pos + len - total
      /\ pos + len >= total => seq_sub(SegEnd(pos, len), Base) = pos + len - total
  <2> DEFINE n == pos + len
  <2>1. n \in Int /\ -Half < n - total /\ n - total < Half
    BY WindowAssumption, HalfAssumption DEF InWindow
  <2> HIDE DEF n
  <2>2. /\ int32(seq_sub(Wrap(Isn + n), Wrap(Isn + total))) = n - total
        /\ n >= total => seq_sub(Wrap(Isn + n), Wrap(Isn + total)) = n - total
    BY <1>1, <2>1, Offset
  <2> QED
    BY <1>2, <1>3, <2>2 DEF n
<1> QED
  BY <1>4, <1>5, <1>6 DEF seq_leq, seq_lt

\* What a return hands to the caller is well typed.
LEMMA SackType ==
  ASSUME NEW h \in Seq(SeqRange) PROVE sack_blocks(h) \in Seq(SeqRange)
<1> DEFINE n == IF Len(h) < MaxBlocks THEN Len(h) ELSE MaxBlocks
<1>1. n \in Nat /\ n <= Len(h)
  BY StreamAssumption
<1>2. \A k \in 1 .. n : h[Len(h) + 1 - k] \in SeqRange
  BY <1>1
<1>3. sack_blocks(h) = [k \in 1 .. n |-> h[Len(h) + 1 - k]]
  BY DEF sack_blocks
<1> HIDE DEF n
<1>4. [k \in 1 .. n |-> h[Len(h) + 1 - k]] \in [1 .. n -> SeqRange]
  BY <1>2
<1>5. \A f \in [1 .. n -> SeqRange] : f \in Seq(SeqRange)
  BY <1>1
<1> QED
  BY <1>3, <1>4, <1>5

\* An early return changes neither the ranges nor the frontier, and the
\* segment held nothing new.
LEMMA EarlyReturn ==
  ASSUME InductiveInv, NEW pos \in Positions, NEW len \in 0 .. MaxLen, Call(pos, len), Returns(FALSE),
         UNCHANGED <<rcv_nxt, held, advances, ooo, locals, total, when>>,
         dups' \in Nat,
         pos + len <= total \/ len = 0
  PROVE  InductiveInv'
<1> USE DEF InductiveInv
<1>1. /\ UNCHANGED <<rcv_nxt, held, advances, ooo, total, when>>
      /\ UNCHANGED <<cur, placed, merged, i, before, drained>>
      /\ pc = "idle" /\ pc' = "idle"
      /\ calls' = calls + 1 /\ calls < MaxAccepts
      /\ seg' = [pos |-> pos, len |-> len]
      /\ out' = [moved |-> FALSE, rcv_nxt |-> rcv_nxt, sacks |-> sack_blocks(held)]
      /\ got' = got \cup Bytes(pos, len)
  BY DEF Call, Returns, locals
<1>2. pos \in Nat /\ len \in Nat /\ pos \in 0 .. StreamLen /\ total \in Nat
  BY StreamAssumption DEF Positions, TypeOK
<1>3. got' = got
  BY <1>1, <1>2 DEF Bytes, HistoryInv, IsFrontier
<1>4. Base' = Base
  BY <1>1 DEF Base, SeqOf
<1>5. TypeOK'
  <2>1. held \in Seq(SeqRange) /\ rcv_nxt \in SeqNo
    BY DEF TypeOK
  <2>2. out' \in [moved : BOOLEAN, rcv_nxt : SeqNo, sacks : Seq(SeqRange)]
    BY <1>1, <2>1, SackType
  <2>3. calls' \in 0 .. MaxAccepts /\ seg' \in [pos : 0 .. StreamLen, len : 0 .. MaxLen]
    BY <1>1, <1>2, AcceptsAssumption DEF TypeOK
  <2> QED
    BY <1>1, <1>3, <2>2, <2>3 DEF TypeOK
<1>6. HistoryInv' /\ CallInv' /\ MergeInv' /\ DrainInv'
  BY <1>1, <1>3 DEF HistoryInv, IsFrontier, CallInv, MergeInv, DrainInv
<1>7. HeldInv'
  BY <1>1, <1>3, <1>4 DEF HeldInv, Ascending
<1> QED
  BY <1>5, <1>6, <1>7

\* The early return for an empty segment leaves the object alone.
LEMMA AcceptEmptyStep ==
  ASSUME InductiveInv, NEW pos \in Positions, AcceptEmpty(pos)
  PROVE  InductiveInv'
<1>1. Call(pos, 0) /\ Returns(FALSE) /\ UNCHANGED <<rcv_nxt, held, advances, ooo, locals, total, when>>
  BY DEF AcceptEmpty, object
<1>2. dups' \in Nat /\ 0 \in 0 .. MaxLen
  BY StreamAssumption DEF AcceptEmpty, object, InductiveInv, TypeOK
<1> QED
  BY <1>1, <1>2, EarlyReturn

\* The early return for a delivered segment only counts the duplicate.
LEMMA AcceptDuplicateStep ==
  ASSUME InductiveInv, NEW pos \in Positions, NEW len \in Lengths, AcceptDuplicate(pos, len)
  PROVE  InductiveInv'
<1>1. /\ Call(pos, len) /\ Returns(FALSE)
      /\ UNCHANGED <<rcv_nxt, held, advances, ooo, locals, total, when>>
      /\ seq_leq(SegEnd(pos, len), rcv_nxt)
      /\ dups' = dups + 1
  BY DEF AcceptDuplicate, AlreadyDelivered
<1>2. len \in 0 .. MaxLen /\ len \in Nat /\ pos \in Nat /\ dups' \in Nat
  BY <1>1, StreamAssumption DEF Lengths, Positions, InductiveInv, TypeOK
<1>3. total \in Nat /\ rcv_nxt = Base /\ InWindow(total, pos, len)
  BY <1>1 DEF InductiveInv, TypeOK, HeldInv, Call
<1>4. pos + len <= total
  BY <1>1, <1>2, <1>3, CallPosition
<1> QED
  BY <1>1, <1>2, <1>4, EarlyReturn

\* The walk starts with the trimmed segment as cur and all of held to visit.
LEMMA AcceptBeginStep ==
  ASSUME InductiveInv, NEW pos \in Positions, NEW len \in Lengths, AcceptBegin(pos, len)
  PROVE  InductiveInv'
<1> USE DEF InductiveInv
<1>1. /\ UNCHANGED <<rcv_nxt, held, advances, dups, ooo, before, drained>>
      /\ UNCHANGED <<out, total, got, when>>
      /\ pc = "idle" /\ pc' = "merge"
      /\ calls' = calls + 1 /\ calls < MaxAccepts
      /\ seg' = [pos |-> pos, len |-> len]
      /\ InWindow(total, pos, len)
      /\ ~ seq_leq(SegEnd(pos, len), rcv_nxt)
      /\ cur' = [start |-> IF seq_lt(SegStart(pos), rcv_nxt) THEN rcv_nxt ELSE SegStart(pos),
                 end |-> SegEnd(pos, len)]
      /\ placed' = FALSE /\ merged' = <<>> /\ i' = 1
  BY DEF AcceptBegin, Call, object, history, AlreadyDelivered
<1>2. pos \in Nat /\ len \in Nat /\ pos \in 0 .. StreamLen /\ len \in 0 .. MaxLen /\ total \in Nat
  BY StreamAssumption DEF Positions, Lengths, TypeOK
<1>3. rcv_nxt = Base /\ Base' = Base /\ Base \in SeqNo
  BY <1>1, <1>2, BaseType DEF Base, SeqOf, HeldInv
<1>4. /\ SegStart(pos) \in SeqNo /\ SegEnd(pos, len) \in SeqNo
      /\ pos + len > total
      /\ seq_lt(SegStart(pos), Base) <=> pos < total
      /\ pos >= total => seq_sub(SegStart(pos), Base) = pos - total
      /\ seq_sub(SegEnd(pos, len), Base) = pos + len - total
  BY <1>1, <1>2, <1>3, CallPosition
<1>5. cur' \in SeqRange /\ cur'.end = SegEnd(pos, len)
      /\ cur'.start = IF pos < total THEN Base ELSE SegStart(pos)
  BY <1>1, <1>3, <1>4 DEF SeqRange
<1>6. seq_sub(Base, Base) = 0
  <2>1. Base \in Int
    BY <1>3, SeqNoValue
  <2> QED
    BY <1>3, <2>1, SubValue
<1>7. /\ seq_sub(cur'.start, Base) = IF pos < total THEN 0 ELSE pos - total
      /\ seq_sub(cur'.end, Base) = pos + len - total
  BY <1>2, <1>4, <1>5, <1>6
<1>8. TypeOK'
  <2>1. /\ calls' \in 0 .. MaxAccepts /\ seg' \in [pos : 0 .. StreamLen, len : 0 .. MaxLen]
        /\ i' \in 1 .. Len(held') + 1 /\ i' \in Nat \ {0} /\ merged' \in Seq(SeqRange)
    BY <1>1, <1>2, AcceptsAssumption DEF TypeOK
  <2> QED
    BY <1>1, <1>5, <2>1 DEF TypeOK
<1>9. HistoryInv' /\ CallInv' /\ DrainInv'
  BY <1>1, <1>4 DEF HistoryInv, IsFrontier, CallInv, InWindow, DrainInv
<1>10. HeldInv'
  BY <1>1, <1>3 DEF HeldInv, Ascending
<1>11. MergeInv'
  <2>1. RangeOK(Base, cur', 0)
    BY <1>1, <1>2, <1>4, <1>7, WindowAssumption, StreamAssumption DEF RangeOK, InWindow, Lengths
  <2>2. Len(merged') = 0
    BY <1>1
  <2>3. Ascending(Base, merged', 0)
    BY <2>2 DEF Ascending
  <2>4. ASSUME NEW d \in 0 .. Window
        PROVE  total + d \in got \cup Bytes(pos, len) <=>
                 Covers(Base, cur', d) \/ \E j \in 1 .. Len(held) : Covers(Base, held[j], d)
    <3>1. d \in Nat
      BY WindowAssumption
    <3>2. total + d \in Bytes(pos, len) <=> Covers(Base, cur', d)
      BY <1>2, <1>7, <3>1 DEF Bytes, Covers
    <3>3. total + d \in got <=> \E j \in 1 .. Len(held) : Covers(Base, held[j], d)
      BY <1>1 DEF HeldInv
    <3> QED
      BY <3>2, <3>3
  <2> QED
    BY <1>1, <1>3, <2>1, <2>2, <2>3, <2>4 DEF MergeInv
<1> QED
  BY <1>8, <1>9, <1>10, <1>11

-----------------------------------------------------------------------------
(* The drain *)

\* A sequence number is at distance 0 from itself.
LEMMA SubSelf == ASSUME NEW b \in SeqNo PROVE seq_sub(b, b) = 0
<1>1. b \in Int
  BY SeqNoValue
<1> QED
  BY <1>1, SubValue

\* During the drain, the test of the loop is whether the first range starts
\* at the frontier; there is never a second range to drain.
LEMMA DrainTest ==
  ASSUME TypeOK, DrainInv, pc = "drain"
  PROVE  /\ drained = 0 => (DrainNext <=> Len(held) > 0 /\ seq_sub(held[1].start, Base) = 0)
         /\ drained = 1 => ~ DrainNext
<1>1. /\ Base \in SeqNo /\ held \in Seq(SeqRange) /\ Ascending(Base, held, 0)
      /\ drained <= Len(held) /\ Len(held) \in Nat
      /\ \/ drained = 0 /\ rcv_nxt = Base
         \/ drained = 1 /\ rcv_nxt = held[1].end
  BY BaseType DEF TypeOK, DrainInv
<1>2. ASSUME drained = 0, Len(held) > 0
      PROVE  seq_gt(held[1].start, rcv_nxt) <=> seq_sub(held[1].start, Base) # 0
  <2>1. held[1] \in SeqRange /\ RangeOK(Base, held[1], 0)
    BY <1>1, <1>2 DEF Ascending
  <2>2. /\ held[1].start \in SeqNo /\ seq_sub(held[1].start, Base) \in Nat
        /\ seq_sub(held[1].end, Base) \in Nat
    BY <1>1, <2>1, RangeDist
  <2>3. seq_sub(held[1].start, Base) < Half /\ seq_sub(Base, Base) < Half
    BY <1>1, <2>1, <2>2, SubSelf, WindowAssumption, HalfAssumption DEF RangeOK
  <2>4. seq_gt(held[1].start, Base) <=> seq_sub(held[1].start, Base) > seq_sub(Base, Base)
    BY <1>1, <2>2, <2>3, Compare
  <2> QED
    BY <1>1, <1>2, <2>2, <2>4, SubSelf
<1>3. ASSUME drained = 1, 1 < Len(held)
      PROVE  seq_gt(held[2].start, rcv_nxt)
  <2>1. /\ held[1] \in SeqRange /\ RangeOK(Base, held[1], 0)
        /\ held[2] \in SeqRange /\ RangeOK(Base, held[2], 0)
        /\ Apart(Base, held[1], held[2])
    BY <1>1, <1>3 DEF Ascending
  <2>2. seq_gt(held[2].start, held[1].end)
    BY <1>1, <2>1, RangeCompare
  <2> QED
    BY <1>1, <1>3, <2>2
<1>4. drained = 0 => (DrainNext <=> Len(held) > 0 /\ seq_sub(held[1].start, Base) = 0)
  BY <1>1, <1>2 DEF DrainNext
<1>5. drained = 1 => ~ DrainNext
  BY <1>1, <1>3 DEF DrainNext
<1> QED
  BY <1>4, <1>5

\* The first range starts at the frontier, so the frontier moves to its end.
LEMMA DrainStepStep ==
  ASSUME InductiveInv, DrainStep
  PROVE  InductiveInv'
<1> USE DEF InductiveInv
<1>1. /\ UNCHANGED <<held, advances, dups, ooo, pc, seg, cur, placed, merged, i, before, calls>>
      /\ UNCHANGED <<out, total, got, when>>
      /\ pc = "drain" /\ DrainNext /\ drained' = drained + 1
      /\ rcv_nxt' = IF seq_gt(held[drained + 1].end, rcv_nxt) THEN held[drained + 1].end ELSE rcv_nxt
  BY DEF DrainStep, history
<1>2. /\ Base \in SeqNo /\ Base' = Base /\ held \in Seq(SeqRange) /\ Ascending(Base, held, 0)
      /\ Len(held) \in Nat
  BY <1>1, BaseType DEF TypeOK, DrainInv, Base, SeqOf
<1>3. drained = 0 /\ rcv_nxt = Base /\ Len(held) > 0 /\ seq_sub(held[1].start, Base) = 0
  BY <1>1, DrainTest DEF DrainInv
<1>4. held[1] \in SeqRange /\ RangeOK(Base, held[1], 0)
  BY <1>2, <1>3 DEF Ascending
<1>5. seq_gt(held[1].end, Base)
  <2>1. held[1].end \in SeqNo /\ seq_sub(held[1].end, Base) \in Nat /\ seq_sub(held[1].end, Base) > 0
    BY <1>2, <1>3, <1>4, RangeDist DEF RangeOK
  <2>2. seq_sub(held[1].end, Base) < Half /\ seq_sub(Base, Base) < Half
    BY <1>2, <1>4, <2>1, SubSelf, WindowAssumption, HalfAssumption DEF RangeOK
  <2> QED
    BY <1>2, <2>1, <2>2, Compare, SubSelf
<1>6. rcv_nxt' = held[1].end /\ rcv_nxt' \in SeqNo /\ drained' = 1
  BY <1>1, <1>2, <1>3, <1>4, <1>5, RangeDist
<1>7. TypeOK'
  BY <1>1, <1>2, <1>3, <1>6 DEF TypeOK
<1>8. HistoryInv' /\ CallInv' /\ HeldInv' /\ MergeInv'
  BY <1>1 DEF HistoryInv, IsFrontier, CallInv, InWindow, HeldInv, MergeInv
<1>9. DrainInv'
  BY <1>1, <1>2, <1>3, <1>6 DEF DrainInv
<1> QED
  BY <1>7, <1>8, <1>9

\* The bytes accepted once the call has returned: within the stream and the
\* window, and with the in-order prefix they had.
LEMMA GotNow ==
  ASSUME InductiveInv, pc = "drain"
  PROVE  /\ got \cup Bytes(seg.pos, seg.len) \subseteq 0 .. StreamLen - 1
         /\ got \cup Bytes(seg.pos, seg.len) \subseteq 0 .. total + Window - 1
         /\ 0 .. total - 1 \subseteq got \cup Bytes(seg.pos, seg.len)
         /\ total \in Nat
<1>1. /\ seg.pos \in Nat /\ seg.len \in Nat /\ total \in Nat
      /\ seg.pos + seg.len <= StreamLen /\ seg.pos + seg.len <= total + Window
  BY StreamAssumption DEF InductiveInv, TypeOK, CallInv, InWindow
<1>2. /\ got \subseteq 0 .. StreamLen - 1 /\ got \subseteq 0 .. total + Window - 1
      /\ 0 .. total - 1 \subseteq got
  BY DEF InductiveInv, TypeOK, HistoryInv, IsFrontier
<1>3. Bytes(seg.pos, seg.len) \subseteq 0 .. StreamLen - 1
  BY <1>1, StreamAssumption DEF Bytes
<1>4. Bytes(seg.pos, seg.len) \subseteq 0 .. total + Window - 1
  BY <1>1, WindowAssumption DEF Bytes
<1> QED
  BY <1>1, <1>2, <1>3, <1>4

\* Nothing to drain: the segment was out of order, the frontier stays, and
\* all ranges lie strictly beyond it.
LEMMA DrainNothing ==
  ASSUME InductiveInv, DrainDone, drained = 0
  PROVE  /\ total' = total /\ held' = held /\ rcv_nxt' = Base'
         /\ HistoryInv'
         /\ Ascending(Base', held', 1)
         /\ \A d \in 0 .. Window :
               total' + d \in got' <=> \E k \in 1 .. Len(held') : Covers(Base', held'[k], d)
<1> USE DEF InductiveInv
<1>1. /\ pc = "drain" /\ ~ DrainNext /\ rcv_nxt' = rcv_nxt
      /\ held' = SubSeq(held, 1, Len(held))
      /\ total' = total + seq_sub(rcv_nxt, before)
      /\ got' = got \cup Bytes(seg.pos, seg.len)
  BY DEF DrainDone, Returns
<1>2. /\ Base \in SeqNo /\ before = Base /\ rcv_nxt = Base /\ total \in Nat
      /\ held \in Seq(SeqRange) /\ Ascending(Base, held, 0) /\ Len(held) \in Nat
  BY <1>1, BaseType DEF TypeOK, DrainInv
<1>3. total' = total /\ held' = held
  BY <1>1, <1>2, SubSelf
<1>4. Base' = Base
  BY <1>3 DEF Base, SeqOf
<1>5. ASSUME NEW k \in 1 .. Len(held)
      PROVE  RangeOK(Base, held[k], 1)
  <2>1. /\ held[1] \in SeqRange /\ RangeOK(Base, held[1], 0)
        /\ held[k] \in SeqRange /\ RangeOK(Base, held[k], 0)
    BY <1>2 DEF Ascending
  <2>2. /\ seq_sub(held[1].start, Base) \in Nat /\ seq_sub(held[1].end, Base) \in Nat
        /\ seq_sub(held[k].start, Base) \in Nat
    BY <1>2, <2>1, RangeDist
  <2>3. seq_sub(held[1].start, Base) # 0
    BY <1>1, <1>2, DrainTest
  <2>4. CASE k = 1
    BY <2>1, <2>2, <2>3, <2>4 DEF RangeOK
  <2>5. CASE k # 1
    <3>1. 1 \in 1 .. Len(held) /\ 1 < k
      BY <1>2, <2>5
    <3>2. Apart(Base, held[1], held[k])
      BY <1>2, <3>1 DEF Ascending
    <3> QED
      BY <2>1, <2>2, <3>2 DEF Apart, RangeOK
  <2> QED
    BY <2>4, <2>5
<1>6. Ascending(Base, held, 1)
  BY <1>2, <1>5 DEF Ascending
<1>7. \A d \in 0 .. Window :
         total + d \in got' <=> \E k \in 1 .. Len(held) : Covers(Base, held[k], d)
  BY <1>1 DEF DrainInv
<1>8. total \notin got'
  <2>1. 0 \in 0 .. Window /\ total + 0 = total
    BY <1>2, WindowAssumption
  <2>2. ASSUME NEW k \in 1 .. Len(held) PROVE ~ Covers(Base, held[k], 0)
    <3>1. held[k] \in SeqRange
      BY <1>2
    <3>2. seq_sub(held[k].start, Base) \in Nat
      BY <1>2, <3>1, RangeDist
    <3> QED
      BY <1>5, <3>2 DEF Covers, RangeOK
  <2> QED
    BY <1>7, <2>1, <2>2
<1>9. HistoryInv'
  BY <1>1, <1>3, <1>8, GotNow DEF HistoryInv, IsFrontier
<1> QED
  BY <1>1, <1>2, <1>3, <1>4, <1>6, <1>7, <1>9

\* A range sequence without its first element.
LEMMA TailFacts ==
  ASSUME NEW h \in Seq(SeqRange), 1 <= Len(h)
  PROVE  LET t == SubSeq(h, 2, Len(h))
         IN  /\ t \in Seq(SeqRange) /\ Len(t) = Len(h) - 1
             /\ \A k \in 1 .. Len(t) : t[k] = h[k + 1] /\ k + 1 \in 2 .. Len(h)
<1> DEFINE t == SubSeq(h, 2, Len(h))
<1>1. Len(h) \in Nat
  OBVIOUS
<1>2. t \in Seq(SeqRange)
  BY <1>1
<1>3. Len(t) = Len(h) - 1
  <2>1. CASE Len(h) = 1
    BY <1>1, <2>1
  <2>2. CASE Len(h) > 1
    BY <1>1, <2>2
  <2>3. Len(h) = 1 \/ Len(h) > 1
    <3> DEFINE n == Len(h)
    <3>1. n \in Nat /\ 1 <= n
      BY <1>1
    <3> HIDE DEF n
    <3>2. n = 1 \/ n > 1
      BY <3>1
    <3> QED
      BY <3>2 DEF n
  <2> QED
    BY <2>1, <2>2, <2>3
<1>4. ASSUME NEW k \in 1 .. Len(h) - 1 PROVE t[k] = h[k + 1] /\ k + 1 \in 2 .. Len(h)
  BY <1>1
<1> QED
  BY <1>2, <1>3, <1>4

\* The first range was drained: the frontier is its end, everything up to
\* there was accepted, and the other ranges are seen from the new base.
LEMMA DrainOne ==
  ASSUME InductiveInv, DrainDone, drained = 1
  PROVE  /\ total' \in Nat /\ held' \in Seq(SeqRange) /\ rcv_nxt' = Base'
         /\ HistoryInv'
         /\ Ascending(Base', held', 1)
         /\ \A d \in 0 .. Window :
               total' + d \in got' <=> \E k \in 1 .. Len(held') : Covers(Base', held'[k], d)
<1> USE DEF InductiveInv
<1> DEFINE e == seq_sub(held[1].end, Base)
<1>1. /\ pc = "drain" /\ rcv_nxt' = rcv_nxt
      /\ held' = SubSeq(held, 2, Len(held))
      /\ total' = total + seq_sub(rcv_nxt, before)
      /\ got' = got \cup Bytes(seg.pos, seg.len)
  BY DEF DrainDone, Returns
<1>2. /\ Base \in SeqNo /\ before = Base /\ rcv_nxt = held[1].end /\ total \in Nat
      /\ held \in Seq(SeqRange) /\ Ascending(Base, held, 0) /\ Len(held) \in Nat /\ 1 <= Len(held)
      /\ seq_sub(held[1].start, Base) = 0
  BY <1>1, BaseType DEF TypeOK, DrainInv
<1>3. /\ held[1] \in SeqRange /\ RangeOK(Base, held[1], 0) /\ held[1].end \in SeqNo
      /\ e \in Nat /\ 0 < e /\ e <= Window
  <2>1. held[1] \in SeqRange /\ RangeOK(Base, held[1], 0)
    BY <1>2 DEF Ascending
  <2> QED
    BY <1>2, <2>1, RangeDist DEF RangeOK
<1>4. total' = total + e /\ total' \in Nat
  BY <1>1, <1>2, <1>3
<1>5. Base' = rcv_nxt
  <2>1. Isn + total \in Int
    BY <1>2, IsnAssumption, SeqNoValue
  <2>2. Wrap((Isn + total) + e) = Wrap(Wrap(Isn + total) + e)
    BY <1>3, <2>1, WrapAdd
  <2>3. Isn + (total + e) = (Isn + total) + e
    BY <1>2, <1>3, IsnAssumption, SeqNoValue
  <2>4. Wrap(Base + e) = held[1].end
    BY <1>2, <1>3, SubBack
  <2> QED
    BY <1>2, <1>4, <2>2, <2>3, <2>4 DEF Base, SeqOf
<1>6. /\ held' \in Seq(SeqRange) /\ Len(held') = Len(held) - 1
      /\ \A k \in 1 .. Len(held') : held'[k] = held[k + 1] /\ k + 1 \in 2 .. Len(held)
  BY <1>1, <1>2, TailFacts
<1>7. ASSUME NEW k \in 2 .. Len(held)
      PROVE  /\ held[k] \in SeqRange /\ RangeOK(Base, held[k], 0)
             /\ seq_sub(held[k].start, Base) \in Nat /\ seq_sub(held[k].end, Base) \in Nat
             /\ seq_sub(held[k].start, Base) > e
             /\ seq_sub(held[k].start, Base') = seq_sub(held[k].start, Base) - e
             /\ seq_sub(held[k].end, Base') = seq_sub(held[k].end, Base) - e
  <2>1. k \in 1 .. Len(held) /\ 1 \in 1 .. Len(held) /\ 1 < k
    BY <1>2
  <2>2. held[k] \in SeqRange /\ RangeOK(Base, held[k], 0) /\ Apart(Base, held[1], held[k])
    BY <1>2, <2>1 DEF Ascending
  <2>3. /\ held[k].start \in SeqNo /\ held[k].end \in SeqNo
        /\ seq_sub(held[k].start, Base) \in Nat /\ seq_sub(held[k].end, Base) \in Nat
    BY <1>2, <2>2, RangeDist
  <2>4. seq_sub(held[k].start, Base) > e /\ seq_sub(held[k].end, Base) > e
    BY <1>3, <2>2, <2>3 DEF Apart, RangeOK
  <2>5. seq_sub(held[k].start, held[1].end) = seq_sub(held[k].start, Base) - e
    BY <1>2, <1>3, <2>3, <2>4, Rebase
  <2>6. seq_sub(held[k].end, held[1].end) = seq_sub(held[k].end, Base) - e
    BY <1>2, <1>3, <2>3, <2>4, Rebase
  <2> QED
    BY <1>2, <1>5, <2>2, <2>3, <2>4, <2>5, <2>6
<1> HIDE DEF e
<1>8. Ascending(Base', held', 1)
  <2>1. ASSUME NEW k \in 1 .. Len(held') PROVE RangeOK(Base', held'[k], 1)
    <3>1. k + 1 \in 2 .. Len(held) /\ held'[k] = held[k + 1]
      BY <1>6
    <3>2. /\ RangeOK(Base, held[k + 1], 0)
          /\ seq_sub(held[k + 1].start, Base) \in Nat /\ seq_sub(held[k + 1].end, Base) \in Nat
          /\ seq_sub(held[k + 1].start, Base) > e
          /\ seq_sub(held[k + 1].start, Base') = seq_sub(held[k + 1].start, Base) - e
          /\ seq_sub(held[k + 1].end, Base') = seq_sub(held[k + 1].end, Base) - e
      BY <1>7, <3>1
    <3> QED
      BY <1>3, <3>1, <3>2, WindowAssumption DEF RangeOK
  <2>2. ASSUME NEW k \in 1 .. Len(held'), NEW l \in 1 .. Len(held'), k < l
        PROVE  Apart(Base', held'[k], held'[l])
    <3>1. /\ k + 1 \in 2 .. Len(held) /\ held'[k] = held[k + 1]
          /\ l + 1 \in 2 .. Len(held) /\ held'[l] = held[l + 1]
          /\ k + 1 < l + 1
      BY <1>6, <2>2
    <3>2. Apart(Base, held[k + 1], held[l + 1])
      <4>1. k + 1 \in 1 .. Len(held) /\ l + 1 \in 1 .. Len(held)
        BY <1>2, <3>1
      <4> QED
        BY <1>2, <3>1, <4>1 DEF Ascending
    <3>3. /\ seq_sub(held[k + 1].end, Base) \in Nat
          /\ seq_sub(held[k + 1].end, Base') = seq_sub(held[k + 1].end, Base) - e
      BY <1>7, <3>1
    <3>4. /\ seq_sub(held[l + 1].start, Base) \in Nat
          /\ seq_sub(held[l + 1].start, Base') = seq_sub(held[l + 1].start, Base) - e
      BY <1>7, <3>1
    <3> QED
      BY <1>3, <3>1, <3>2, <3>3, <3>4 DEF Apart
  <2> QED
    BY <2>1, <2>2 DEF Ascending
<1>9. /\ got' \subseteq 0 .. total + Window - 1
      /\ 0 .. total - 1 \subseteq got'
  BY <1>1, GotNow
<1>10. \A d \in 0 .. Window :
          total + d \in got' <=> \E k \in 1 .. Len(held) : Covers(Base, held[k], d)
  BY <1>1 DEF DrainInv
<1>11. ASSUME NEW d \in 0 .. Window
       PROVE  total' + d \in got' <=> \E k \in 1 .. Len(held') : Covers(Base', held'[k], d)
  <2>0. d \in Nat /\ total' + d = total + (e + d)
    BY <1>2, <1>3, <1>4, WindowAssumption
  <2>1. ASSUME NEW k \in 2 .. Len(held)
        PROVE  Covers(Base', held[k], d) <=> Covers(Base, held[k], e + d)
    BY <1>3, <1>7, <2>0 DEF Covers
  <2>2. (\E k \in 1 .. Len(held') : Covers(Base', held'[k], d)) <=>
           \E k \in 2 .. Len(held) : Covers(Base, held[k], e + d)
    <3>1. ASSUME NEW k \in 1 .. Len(held'), Covers(Base', held'[k], d)
          PROVE  \E m \in 2 .. Len(held) : Covers(Base, held[m], e + d)
      <4>1. k + 1 \in 2 .. Len(held) /\ held'[k] = held[k + 1]
        BY <1>6
      <4> QED
        BY <2>1, <3>1, <4>1
    <3>2. ASSUME NEW m \in 2 .. Len(held), Covers(Base, held[m], e + d)
          PROVE  \E k \in 1 .. Len(held') : Covers(Base', held'[k], d)
      <4>1. m - 1 \in 1 .. Len(held') /\ (m - 1) + 1 = m
        BY <1>2, <1>6
      <4>2. held'[m - 1] = held[m]
        BY <1>6, <4>1
      <4> QED
        BY <2>1, <3>2, <4>1, <4>2
    <3> QED
      BY <3>1, <3>2
  <2>3. CASE e + d <= Window
    <3>1. e + d \in 0 .. Window
      BY <1>3, <2>0, <2>3, WindowAssumption
    <3>2. ~ Covers(Base, held[1], e + d)
      BY <1>3, <2>0 DEF Covers, e
    <3>3. 1 .. Len(held) = {1} \cup 2 .. Len(held)
      BY <1>2
    <3> QED
      BY <1>10, <2>0, <2>2, <3>1, <3>2, <3>3
  <2>4. CASE e + d > Window
    <3>1. total' + d \notin got'
      BY <1>2, <1>3, <1>9, <2>0, <2>4, WindowAssumption
    <3>2. ASSUME NEW k \in 2 .. Len(held) PROVE ~ Covers(Base, held[k], e + d)
      BY <1>3, <1>7, <2>0, <2>4, WindowAssumption DEF Covers, RangeOK
    <3> QED
      BY <2>2, <3>1, <3>2
  <2> QED
    BY <1>3, <2>0, <2>3, <2>4, WindowAssumption
<1>12. IsFrontier(total', got')
  <2>1. total' \notin got'
    <3>1. 0 \in 0 .. Window /\ total' + 0 = total'
      BY <1>4, WindowAssumption
    <3>2. ASSUME NEW k \in 1 .. Len(held') PROVE ~ Covers(Base', held'[k], 0)
      <4>1. k + 1 \in 2 .. Len(held) /\ held'[k] = held[k + 1]
        BY <1>6
      <4>2. /\ seq_sub(held[k + 1].start, Base) \in Nat
            /\ seq_sub(held[k + 1].start, Base) > e
            /\ seq_sub(held[k + 1].start, Base') = seq_sub(held[k + 1].start, Base) - e
        BY <1>7, <4>1
      <4> QED
        BY <1>3, <4>1, <4>2 DEF Covers
    <3> QED
      BY <1>11, <3>1, <3>2
  <2>2. ASSUME NEW p \in 0 .. total' - 1 PROVE p \in got'
    <3>1. CASE p < total
      BY <1>2, <1>4, <1>9, <3>1
    <3>2. CASE p >= total
      <4>1. p - total \in 0 .. Window /\ p - total < e /\ total + (p - total) = p /\ 0 <= p - total
        BY <1>2, <1>3, <1>4, <3>2, WindowAssumption
      <4>2. Covers(Base, held[1], p - total)
        BY <1>2, <1>3, <4>1 DEF Covers, e
      <4>3. 1 \in 1 .. Len(held)
        BY <1>2
      <4> QED
        BY <1>10, <4>1, <4>2, <4>3
    <3> QED
      BY <1>2, <1>4, <3>1, <3>2
  <2> QED
    BY <2>1, <2>2 DEF IsFrontier
<1>13. got' \subseteq 0 .. total' + Window - 1
  BY <1>2, <1>3, <1>4, <1>9, WindowAssumption
<1>14. HistoryInv'
  BY <1>12, <1>13 DEF HistoryInv, IsFrontier
<1> QED
  BY <1>1, <1>4, <1>5, <1>6, <1>8, <1>11, <1>14

\* The return of accept().
LEMMA DrainDoneStep ==
  ASSUME InductiveInv, DrainDone
  PROVE  InductiveInv'
<1> USE DEF InductiveInv
<1>1. /\ pc = "drain" /\ pc' = "idle" /\ rcv_nxt' = rcv_nxt
      /\ UNCHANGED <<dups, seg, calls, cur, placed, merged, i, before, drained>>
      /\ \/ /\ advances' = Append(advances, [frontier |-> rcv_nxt, t_ms |-> calls])
            /\ ooo' = ooo
         \/ ooo' = ooo + 1 /\ advances' = advances
      /\ when' = [p \in 1 .. total' |-> IF p <= total THEN when[p] ELSE calls]
      /\ out' = [moved |-> rcv_nxt # before, rcv_nxt |-> rcv_nxt', sacks |-> sack_blocks(held')]
      /\ got' = got \cup Bytes(seg.pos, seg.len)
  BY DEF DrainDone, Returns, locals
<1>2. drained = 0 \/ drained = 1
  BY <1>1 DEF DrainInv
<1>3. /\ total' \in Nat /\ held' \in Seq(SeqRange) /\ rcv_nxt' = Base'
      /\ HistoryInv'
      /\ Ascending(Base', held', 1)
      /\ \A d \in 0 .. Window :
            total' + d \in got' <=> \E k \in 1 .. Len(held') : Covers(Base', held'[k], d)
  <2>1. total \in Nat /\ held \in Seq(SeqRange)
    BY DEF TypeOK
  <2> QED
    BY <1>2, <2>1, DrainNothing, DrainOne
<1>4. HeldInv'
  BY <1>1, <1>3 DEF HeldInv
<1>5. CallInv' /\ MergeInv' /\ DrainInv'
  BY <1>1 DEF CallInv, MergeInv, DrainInv
<1>6. TypeOK'
  <2>1. got' \subseteq 0 .. StreamLen - 1
    BY <1>1, GotNow
  <2>2. advances' \in Seq([frontier : SeqNo, t_ms : 0 .. MaxAccepts]) /\ ooo' \in Nat
    <3>1. [frontier |-> rcv_nxt, t_ms |-> calls] \in [frontier : SeqNo, t_ms : 0 .. MaxAccepts]
      BY DEF TypeOK
    <3>2. advances \in Seq([frontier : SeqNo, t_ms : 0 .. MaxAccepts]) /\ ooo \in Nat
      BY DEF TypeOK
    <3>3. CASE advances' = advances /\ ooo' = ooo + 1
      BY <3>2, <3>3
    <3>4. CASE advances' = Append(advances, [frontier |-> rcv_nxt, t_ms |-> calls]) /\ ooo' = ooo
      BY <3>1, <3>2, <3>4
    <3> QED
      BY <1>1, <3>3, <3>4
  <2>3. out' \in [moved : BOOLEAN, rcv_nxt : SeqNo, sacks : Seq(SeqRange)]
    BY <1>1, <1>3, SackType DEF TypeOK
  <2>4. when' \in [1 .. total' -> 0 .. MaxAccepts]
    BY <1>1, <1>3 DEF TypeOK
  <2> QED
    BY <1>1, <1>3, <2>1, <2>2, <2>3, <2>4 DEF TypeOK
<1> QED
  BY <1>3, <1>4, <1>5, <1>6

-----------------------------------------------------------------------------
(* The theorems *)

\* A new object stands for the empty stream.
LEMMA InitInv == ASSUME Init PROVE InductiveInv
<1> USE DEF Init
<1>1. Isn \in SeqNo /\ Isn \in Int
  BY IsnAssumption, SeqNoValue
<1>2. Base = Isn
  BY <1>1, WrapValue, SeqNoValue DEF Base, SeqOf
<1>3. TypeOK
  <2>1. /\ seg \in [pos : 0 .. StreamLen, len : 0 .. MaxLen]
        /\ cur \in SeqRange /\ calls \in 0 .. MaxAccepts /\ got \subseteq 0 .. StreamLen - 1
    BY <1>1, StreamAssumption, AcceptsAssumption DEF SeqRange
  <2>2. held \in Seq(SeqRange) /\ merged \in Seq(SeqRange) /\ Len(held) = 0
        /\ advances \in Seq([frontier : SeqNo, t_ms : 0 .. MaxAccepts])
    OBVIOUS
  <2>3. when \in [1 .. total -> 0 .. MaxAccepts]
    <3>1. 1 .. 0 = {} /\ DOMAIN << >> = {}
      OBVIOUS
    <3> QED
      BY <3>1
  <2>4. out \in [moved : BOOLEAN, rcv_nxt : SeqNo, sacks : Seq(SeqRange)]
    BY <1>1
  <2>5. /\ rcv_nxt \in SeqNo /\ before \in SeqNo /\ dups \in Nat /\ ooo \in Nat /\ pc = "idle"
        /\ i \in Nat \ {0} /\ drained \in Nat /\ total \in Nat
    BY <1>1
  <2>6. placed \in BOOLEAN
    BY Zenon
  <2> HIDE DEF Init
  <2> QED
    BY <2>1, <2>2, <2>3, <2>4, <2>5, <2>6 DEF TypeOK
<1>4. HistoryInv
  BY WindowAssumption DEF HistoryInv, IsFrontier
<1>5. HeldInv
  BY <1>2 DEF HeldInv, Ascending
<1> QED
  BY <1>3, <1>4, <1>5 DEF InductiveInv, CallInv, MergeInv, DrainInv

\* A step that changes nothing keeps the invariant.
LEMMA StutterInv == ASSUME InductiveInv, UNCHANGED vars PROVE InductiveInv'
<1>1. /\ UNCHANGED <<rcv_nxt, held, advances, dups, ooo, pc, seg, cur, placed, merged, i>>
      /\ UNCHANGED <<before, drained, out, calls, total, got, when>>
  BY DEF vars, object, locals, history
<1> QED
  BY <1>1 DEF InductiveInv, TypeOK, HistoryInv, IsFrontier, CallInv, InWindow, HeldInv, MergeInv,
              DrainInv, Ascending, Base, SeqOf

\* Every step of accept() keeps the 32-bit state and the ranges in step with
\* the bytes accepted.
THEOREM Invariance == Spec => []InductiveInv
<1>1. Init => InductiveInv
  BY InitInv
<1>2. InductiveInv /\ [Next]_vars => InductiveInv'
  BY AcceptEmptyStep, AcceptDuplicateStep, AcceptBeginStep, MergeBelowStep, MergeAboveStep,
     MergeAbsorbStep, MergeDoneStep, DrainStepStep, DrainDoneStep, StutterInv DEF Next
<1> QED
  BY <1>1, <1>2, PTL DEF Spec

\* Sequence numbers stay in the 32-bit space, indices within their vectors.
THEOREM TypeCorrect == Spec => []TypeOK
<1>1. InductiveInv => TypeOK
  BY DEF InductiveInv
<1> QED
  BY <1>1, Invariance, PTL

\* held_ stays disjoint, sorted and beyond the frontier.
THEOREM HeldStaysSorted == Spec => []HeldSorted
<1>1. InductiveInv => HeldSorted
  BY DEF InductiveInv, HeldInv, HeldSorted
<1> QED
  BY <1>1, Invariance, PTL

\* rcv_nxt_ is exactly the first missing byte after every call.
THEOREM FrontierIsExact == Spec => []FrontierExact
<1>1. InductiveInv => FrontierExact
  BY DEF InductiveInv, HeldInv, HistoryInv, FrontierExact, Base
<1> QED
  BY <1>1, Invariance, PTL

\* No accepted byte is lost and none is invented.
THEOREM HeldIsExact == Spec => []HeldExact
<1>1. InductiveInv => HeldExact
  <2> SUFFICES ASSUME InductiveInv, pc = "idle", NEW d \in 1 .. Window
               PROVE  total + d \in got <=> \E k \in 1 .. Len(held) : Covers(rcv_nxt, held[k], d)
    BY DEF HeldExact
  <2>1. d \in 0 .. Window
    BY WindowAssumption
  <2> QED
    BY <2>1 DEF InductiveInv, HeldInv
<1> QED
  BY <1>1, Invariance, PTL

\* The assertion after the merge walk never fails.
THEOREM AssertionHolds == Spec => []MergeSorted
<1>1. InductiveInv => MergeSorted
  <2> SUFFICES ASSUME InductiveInv, pc = "drain", NEW k \in 1 .. Len(held) - 1
               PROVE  seq_lt(held[k].start, held[k + 1].start)
    BY DEF MergeSorted
  <2>1. Base \in SeqNo /\ held \in Seq(SeqRange) /\ Ascending(Base, held, 0) /\ Len(held) \in Nat
    BY BaseType DEF InductiveInv, TypeOK, DrainInv
  <2>2. k \in 1 .. Len(held) /\ k + 1 \in 1 .. Len(held) /\ k < k + 1
    BY <2>1
  <2>3. /\ held[k] \in SeqRange /\ RangeOK(Base, held[k], 0)
        /\ held[k + 1] \in SeqRange /\ RangeOK(Base, held[k + 1], 0)
        /\ Apart(Base, held[k], held[k + 1])
    BY <2>1, <2>2 DEF Ascending
  <2>4. /\ seq_sub(held[k].start, Base) \in Nat /\ seq_sub(held[k].end, Base) \in Nat
        /\ seq_sub(held[k + 1].start, Base) \in Nat
    BY <2>1, <2>3, RangeDist
  <2>5. seq_sub(held[k].start, Base) < seq_sub(held[k + 1].start, Base)
    BY <2>3, <2>4 DEF Apart, RangeOK
  <2> QED
    BY <2>1, <2>3, <2>5, RangeCompare
<1> QED
  BY <1>1, Invariance, PTL

-----------------------------------------------------------------------------
(* The SACK blocks of the contract are the held ranges *)

\* The positions G beyond the frontier t are N runs, the k-th a[k] .. z[k]-1,
\* ascending and with a gap between any two.
Layout(N, a, z, t, G) ==
    /\ N \in Nat /\ t \in Nat /\ a \in [1 .. N -> Int] /\ z \in [1 .. N -> Int]
    /\ \A k \in 1 .. N : t < a[k] /\ a[k] < z[k] /\ z[k] <= t + Window
    /\ \A k, l \in 1 .. N : k < l => z[k] < a[l]
    /\ \A p \in t .. t + Window : p \in G <=> \E k \in 1 .. N : a[k] <= p /\ p < z[k]

\* What is covered and what is not, around the k-th run.
LEMMA RunEdges ==
  ASSUME NEW N, NEW a, NEW z, NEW t, NEW G, Layout(N, a, z, t, G), NEW k \in 1 .. N
  PROVE  /\ \A p \in a[k] .. z[k] - 1 : p \in G
         /\ z[k] \notin G
         /\ a[k] - 1 \notin G
<1>1. /\ t \in Nat /\ Window \in Nat /\ N \in Nat
      /\ \A l \in 1 .. N : a[l] \in Int /\ z[l] \in Int /\ t < a[l] /\ a[l] < z[l] /\ z[l] <= t + Window
  BY WindowAssumption DEF Layout
<1>2. \A l, j \in 1 .. N : l < j => z[l] < a[j]
  BY DEF Layout
<1>3. \A p \in t .. t + Window : p \in G <=> \E l \in 1 .. N : a[l] <= p /\ p < z[l]
  BY DEF Layout
<1>4. ASSUME NEW p \in a[k] .. z[k] - 1 PROVE p \in G
  <2>1. p \in t .. t + Window /\ a[k] <= p /\ p < z[k]
    BY <1>1
  <2> QED
    BY <1>3, <2>1
<1>5. ASSUME z[k] \in G PROVE FALSE
  <2>1. z[k] \in t .. t + Window
    BY <1>1
  <2>2. PICK l \in 1 .. N : a[l] <= z[k] /\ z[k] < z[l]
    BY <1>3, <1>5, <2>1
  <2>3. l = k \/ l < k \/ k < l
    BY <1>1
  <2> QED
    BY <1>1, <1>2, <2>2, <2>3
<1>6. ASSUME a[k] - 1 \in G PROVE FALSE
  <2>1. a[k] - 1 \in t .. t + Window
    BY <1>1
  <2>2. PICK l \in 1 .. N : a[l] <= a[k] - 1 /\ a[k] - 1 < z[l]
    BY <1>3, <1>6, <2>1
  <2>3. l = k \/ l < k \/ k < l
    BY <1>1
  <2> QED
    BY <1>1, <1>2, <2>2, <2>3
<1> QED
  BY <1>4, <1>5, <1>6

\* The start the contract chooses for the run that ends at z[k].
LEMMA RunStart ==
  ASSUME NEW N, NEW a, NEW z, NEW t, NEW G, Layout(N, a, z, t, G), NEW k \in 1 .. N,
         NEW x, x = z[k] - 1
  PROVE  /\ x \in t + 1 .. t + Window /\ x \in G /\ x + 1 \notin G /\ x + 1 = z[k]
         /\ (CHOOSE c \in t + 1 .. x : c .. x \subseteq G /\ c - 1 \notin G) = a[k]
<1>1. /\ t \in Nat /\ Window \in Nat /\ N \in Nat
      /\ a[k] \in Int /\ z[k] \in Int /\ t < a[k] /\ a[k] < z[k] /\ z[k] <= t + Window
  BY WindowAssumption DEF Layout
<1>2. /\ \A p \in a[k] .. z[k] - 1 : p \in G
      /\ z[k] \notin G
      /\ a[k] - 1 \notin G
  BY RunEdges
<1>3. x \in t + 1 .. t + Window /\ x \in a[k] .. z[k] - 1 /\ x + 1 = z[k] /\ a[k] \in t + 1 .. x /\ x \in Int
  BY <1>1
<1>4. a[k] .. x \subseteq G /\ a[k] - 1 \notin G
  BY <1>1, <1>2, <1>3
<1>5. ASSUME NEW c \in t + 1 .. x, c .. x \subseteq G, c - 1 \notin G PROVE c = a[k]
  <2>0. c \in Int /\ t + 1 <= c /\ c <= x
    BY <1>1, <1>3
  <2>1. ASSUME c < a[k] PROVE FALSE
    <3>1. a[k] - 1 \in c .. x
      BY <1>1, <1>3, <2>0, <2>1
    <3> QED
      BY <1>4, <1>5, <3>1
  <2>2. ASSUME c > a[k] PROVE FALSE
    <3>1. c - 1 \in a[k] .. x
      BY <1>1, <1>3, <2>0, <2>2
    <3> QED
      BY <1>4, <1>5, <3>1
  <2> QED
    BY <1>1, <2>0, <2>1, <2>2
<1>6. (CHOOSE c \in t + 1 .. x : c .. x \subseteq G /\ c - 1 \notin G) = a[k]
  BY <1>3, <1>4, <1>5, Zenon
<1> QED
  BY <1>2, <1>3, <1>6

\* The runs of the contract are the runs of the layout.
LEMMA RunsOfLayout ==
  ASSUME NEW N, NEW a, NEW z, NEW t, NEW G, Layout(N, a, z, t, G)
  PROVE  Runs(G, t) = {<<a[k], z[k]>> : k \in 1 .. N}
<1> DEFINE Ends == {p \in t + 1 .. t + Window : p \in G /\ p + 1 \notin G}
           Start(x) == CHOOSE c \in t + 1 .. x : c .. x \subseteq G /\ c - 1 \notin G
<1>1. Runs(G, t) = {<<Start(x), x + 1>> : x \in Ends}
  BY DEF Runs
<1>2. ASSUME NEW k \in 1 .. N
      PROVE  \E x \in Ends : Start(x) = a[k] /\ x + 1 = z[k]
  <2>1. PICK x : x = z[k] - 1
    OBVIOUS
  <2>2. x \in Ends /\ Start(x) = a[k] /\ x + 1 = z[k]
    BY <2>1, RunStart
  <2> QED
    BY <2>2
<1>3. ASSUME NEW x \in Ends PROVE \E k \in 1 .. N : Start(x) = a[k] /\ x + 1 = z[k]
  <2>1. /\ t \in Nat /\ Window \in Nat /\ N \in Nat
        /\ \A l \in 1 .. N : a[l] \in Int /\ z[l] \in Int /\ t < a[l] /\ a[l] < z[l] /\ z[l] <= t + Window
    BY WindowAssumption DEF Layout
  <2>2. x \in t .. t + Window /\ x \in Int /\ x \in G /\ x + 1 \notin G
    BY <2>1
  <2>3. PICK k \in 1 .. N : a[k] <= x /\ x < z[k]
    BY <2>2 DEF Layout
  <2>4. ~ (x + 1 \in a[k] .. z[k] - 1)
    BY <2>2, RunEdges
  <2>5. x = z[k] - 1
    BY <2>1, <2>2, <2>3, <2>4
  <2>6. Start(x) = a[k] /\ x + 1 = z[k]
    BY <2>5, RunStart
  <2> QED
    BY <2>6
<1> HIDE DEF Ends, Start
<1>4. ASSUME NEW k \in 1 .. N PROVE <<a[k], z[k]>> \in Runs(G, t)
  <2>1. PICK x \in Ends : Start(x) = a[k] /\ x + 1 = z[k]
    BY <1>2
  <2>2. <<Start(x), x + 1>> \in Runs(G, t)
    BY <1>1
  <2> QED
    BY <2>1, <2>2
<1>5. ASSUME NEW r \in Runs(G, t) PROVE \E k \in 1 .. N : r = <<a[k], z[k]>>
  <2>1. PICK x \in Ends : r = <<Start(x), x + 1>>
    BY <1>1
  <2>2. PICK k \in 1 .. N : Start(x) = a[k] /\ x + 1 = z[k]
    BY <1>3
  <2> QED
    BY <2>1, <2>2
<1> QED
  BY <1>4, <1>5, Zenon

\* The runs beyond the j-th are N - j.
LEMMA RunsAbove ==
  ASSUME NEW N, NEW a, NEW z, NEW t, NEW G, Layout(N, a, z, t, G), NEW j \in 0 .. N,
         NEW T, T = {<<a[k], z[k]>> : k \in j + 1 .. N}
  PROVE  Cardinality(T) = N - j
<1>1. N \in Nat /\ \A k \in 1 .. N : a[k] \in Int /\ z[k] \in Int /\ a[k] < z[k]
  BY DEF Layout
<1>2. \A k, l \in 1 .. N : k < l => z[k] < a[l]
  BY DEF Layout
<1>3. N - j \in Nat /\ j \in Int
  BY <1>1
<1> DEFINE f == [m \in 1 .. N - j |-> <<a[j + m], z[j + m]>>]
<1>4. ASSUME NEW m \in 1 .. N - j PROVE j + m \in j + 1 .. N /\ j + m \in 1 .. N /\ f[m] = <<a[j + m], z[j + m]>>
  BY <1>1, <1>3
<1>5. f \in [1 .. N - j -> T]
  BY <1>4
<1>6. ASSUME NEW q \in T PROVE \E m \in 1 .. N - j : f[m] = q
  <2>1. PICK k \in j + 1 .. N : q = <<a[k], z[k]>>
    OBVIOUS
  <2>2. k - j \in 1 .. N - j /\ j + (k - j) = k
    BY <1>1, <1>3
  <2> QED
    BY <1>4, <2>1, <2>2
<1>7. ASSUME NEW m \in 1 .. N - j, NEW n \in 1 .. N - j, f[m] = f[n] PROVE m = n
  <2>1. a[j + m] = a[j + n]
    BY <1>4, <1>7
  <2>2. PICK k \in 1 .. N : k = j + m
    BY <1>4
  <2>3. PICK l \in 1 .. N : l = j + n
    BY <1>4
  <2>4. a[k] = a[l]
    BY <2>1, <2>2, <2>3
  <2>5. ~ (k < l) /\ ~ (l < k)
    BY <1>1, <1>2, <2>4
  <2> QED
    BY <1>3, <2>2, <2>3, <2>5
<1> HIDE DEF f
<1>8. f \in Bijection(1 .. N - j, T)
  BY <1>5, <1>6, <1>7 DEF Bijection, Injection, Surjection, IsInjective
<1>9. ExistsBijection(1 .. N - j, T)
  BY <1>8 DEF ExistsBijection
<1> QED
  BY <1>3, <1>9, FS_CountingElements

\* The run of R with k - 1 runs above it.
KthOf(R, k) == CHOOSE r \in R : Cardinality({q \in R : q[1] > r[1]}) = k - 1

\* The k-th run from the top is the one the contract chooses.
LEMMA KthRun ==
  ASSUME NEW N, NEW a, NEW z, NEW t, NEW G, Layout(N, a, z, t, G), NEW k \in 1 .. N,
         NEW j \in 1 .. N, j = N + 1 - k
  PROVE  KthOf(Runs(G, t), k) = <<a[j], z[j]>>
<1>0. PICK R : R = Runs(G, t)
  OBVIOUS
<1>R. R = {<<a[l], z[l]>> : l \in 1 .. N}
  BY <1>0, RunsOfLayout
<1>1. N \in Nat /\ \A l \in 1 .. N : a[l] \in Int /\ z[l] \in Int /\ a[l] < z[l]
  BY DEF Layout
<1>2. \A l, m \in 1 .. N : l < m => z[l] < a[m]
  BY DEF Layout
<1>3. ASSUME NEW top \in 1 .. N
      PROVE  Cardinality({q \in R : q[1] > <<a[top], z[top]>>[1]}) = N - top
  <2>1. ASSUME NEW l \in 1 .. N PROVE a[l] > a[top] <=> l \in top + 1 .. N
    BY <1>1, <1>2
  <2>2. {q \in R : q[1] > <<a[top], z[top]>>[1]} = {<<a[l], z[l]>> : l \in top + 1 .. N}
    <3>1. ASSUME NEW q \in R, q[1] > <<a[top], z[top]>>[1]
          PROVE  \E l \in top + 1 .. N : q = <<a[l], z[l]>>
      <4>1. PICK l \in 1 .. N : q = <<a[l], z[l]>>
        BY <1>R
      <4> QED
        BY <2>1, <3>1, <4>1
    <3>2. ASSUME NEW l \in top + 1 .. N
          PROVE  <<a[l], z[l]>> \in R /\ <<a[l], z[l]>>[1] > <<a[top], z[top]>>[1]
      <4>1. l \in 1 .. N
        BY <1>1
      <4> QED
        BY <1>R, <2>1, <4>1
    <3> QED
      BY <3>1, <3>2, Zenon
  <2>3. top \in 0 .. N
    BY <1>1
  <2> QED
    BY <2>2, <2>3, RunsAbove
<1>5. N - j = k - 1 /\ <<a[j], z[j]>> \in R
  BY <1>1, <1>R
<1>6. ASSUME NEW r \in R, Cardinality({q \in R : q[1] > r[1]}) = k - 1 PROVE r = <<a[j], z[j]>>
  <2>1. PICK l \in 1 .. N : r = <<a[l], z[l]>>
    BY <1>R
  <2>2. Cardinality({q \in R : q[1] > r[1]}) = N - l
    BY <1>3, <2>1
  <2>3. l = j
    BY <1>1, <1>5, <1>6, <2>2
  <2> QED
    BY <2>1, <2>3
<1>7. Cardinality({q \in R : q[1] > <<a[j], z[j]>>[1]}) = k - 1
  BY <1>3, <1>5
<1> QED
  BY <1>0, <1>5, <1>6, <1>7, Zenon DEF KthOf

\* The ranges of h, seen from the frontier t, hold exactly the positions G
\* beyond it.
Holds(h, t, G) ==
    /\ h \in Seq(SeqRange) /\ t \in Nat
    /\ Ascending(SeqOf(t), h, 1)
    /\ \A d \in 0 .. Window : t + d \in G <=> \E k \in 1 .. Len(h) : Covers(SeqOf(t), h[k], d)

\* The k-th held range as positions of the stream.
LEMMA HeldLayout ==
  ASSUME NEW h, NEW t, NEW G, Holds(h, t, G)
  PROVE  \E a, z : /\ Layout(Len(h), a, z, t, G)
                   /\ \A k \in 1 .. Len(h) : h[k] = [start |-> SeqOf(a[k]), end |-> SeqOf(z[k])]
<1> DEFINE b == SeqOf(t)
           a == [k \in 1 .. Len(h) |-> t + seq_sub(h[k].start, b)]
           z == [k \in 1 .. Len(h) |-> t + seq_sub(h[k].end, b)]
<1>1. t \in Nat /\ h \in Seq(SeqRange) /\ Len(h) \in Nat /\ Ascending(b, h, 1)
  BY DEF Holds
<1>2. b \in SeqNo /\ Isn \in Int /\ t \in Int /\ b = Wrap(Isn + t)
  BY <1>1, IsnAssumption, SeqNoValue, WrapType DEF SeqOf
<1>3. \A d \in 0 .. Window : t + d \in G <=> \E k \in 1 .. Len(h) : Covers(b, h[k], d)
  BY DEF Holds
<1> HIDE DEF b
<1>4. ASSUME NEW k \in 1 .. Len(h)
      PROVE  /\ h[k] \in SeqRange /\ h[k].start \in SeqNo /\ h[k].end \in SeqNo
             /\ seq_sub(h[k].start, b) \in Nat /\ seq_sub(h[k].end, b) \in Nat
             /\ 1 <= seq_sub(h[k].start, b) /\ seq_sub(h[k].start, b) < seq_sub(h[k].end, b)
             /\ seq_sub(h[k].end, b) <= Window
             /\ a[k] = t + seq_sub(h[k].start, b) /\ z[k] = t + seq_sub(h[k].end, b)
  <2>1. h[k] \in SeqRange
    BY <1>1
  <2>2. RangeOK(b, h[k], 1)
    BY <1>1 DEF Ascending
  <2> QED
    BY <1>2, <2>1, <2>2, RangeDist DEF RangeOK
<1>5. \A k, l \in 1 .. Len(h) : k < l => seq_sub(h[k].end, b) < seq_sub(h[l].start, b)
  BY <1>1 DEF Ascending, Apart
<1>6. a \in [1 .. Len(h) -> Int] /\ z \in [1 .. Len(h) -> Int]
  BY <1>1, <1>4
<1>7. \A k \in 1 .. Len(h) : t < a[k] /\ a[k] < z[k] /\ z[k] <= t + Window
  BY <1>1, <1>4, WindowAssumption
<1>8. \A k, l \in 1 .. Len(h) : k < l => z[k] < a[l]
  BY <1>1, <1>4, <1>5
<1>9. ASSUME NEW x \in SeqNo PROVE SeqOf(t + seq_sub(x, b)) = x
  <2>1. seq_sub(x, b) \in Int
    BY <1>2, SubValue, SeqNoValue
  <2>2. Wrap((Isn + t) + seq_sub(x, b)) = Wrap(b + seq_sub(x, b))
    BY <1>2, <2>1, WrapAdd
  <2>3. Isn + (t + seq_sub(x, b)) = (Isn + t) + seq_sub(x, b)
    BY <1>2, <2>1
  <2> QED
    BY <1>2, <2>2, <2>3, SubBack DEF SeqOf
<1>10. ASSUME NEW k \in 1 .. Len(h) PROVE h[k] = [start |-> SeqOf(a[k]), end |-> SeqOf(z[k])]
  <2>1. SeqOf(a[k]) = h[k].start /\ SeqOf(z[k]) = h[k].end
    BY <1>4, <1>9
  <2>2. h[k] = [start |-> h[k].start, end |-> h[k].end]
    BY <1>4 DEF SeqRange
  <2> QED
    BY <2>1, <2>2
<1>11. ASSUME NEW p \in t .. t + Window
       PROVE  p \in G <=> \E k \in 1 .. Len(h) : a[k] <= p /\ p < z[k]
  <2>1. PICK d : d = p - t
    OBVIOUS
  <2>2. d \in 0 .. Window /\ d \in Int /\ t + d = p
    BY <1>1, <2>1, WindowAssumption
  <2>3. ASSUME NEW k \in 1 .. Len(h) PROVE Covers(b, h[k], d) <=> a[k] <= p /\ p < z[k]
    BY <1>1, <1>4, <2>2 DEF Covers
  <2> QED
    BY <1>3, <2>2, <2>3
<1> HIDE DEF a, z
<1>12. Layout(Len(h), a, z, t, G)
  BY <1>1, <1>6, <1>7, <1>8, <1>11 DEF Layout
<1> QED
  BY <1>10, <1>12

\* sack_blocks() is what the contract answers.
LEMMA SackExact ==
  ASSUME NEW h, NEW t, NEW G, Holds(h, t, G)
  PROVE  sack_blocks(h) = Sacks(G, t)
<1>1. PICK a, z : /\ Layout(Len(h), a, z, t, G)
                  /\ \A k \in 1 .. Len(h) : h[k] = [start |-> SeqOf(a[k]), end |-> SeqOf(z[k])]
  BY HeldLayout
<1>2. Len(h) \in Nat /\ MaxBlocks \in Nat
  BY StreamAssumption DEF Holds
<1> DEFINE R == Runs(G, t)
           N == IF Cardinality(R) < MaxBlocks THEN Cardinality(R) ELSE MaxBlocks
           Kth(k) == CHOOSE r \in R : Cardinality({q \in R : q[1] > r[1]}) = k - 1
<1>3. R = {<<a[k], z[k]>> : k \in 1 .. Len(h)}
  BY <1>1, RunsOfLayout
<1>4. Cardinality(R) = Len(h)
  <2>1. 0 \in 0 .. Len(h) /\ 0 + 1 = 1 /\ Len(h) - 0 = Len(h)
    BY <1>2
  <2>2. R = {<<a[k], z[k]>> : k \in 0 + 1 .. Len(h)}
    BY <1>3, <2>1
  <2>3. Cardinality(R) = Len(h) - 0
    BY <1>1, <2>1, <2>2, RunsAbove
  <2> QED
    BY <2>1, <2>3
<1>5. Sacks(G, t) = [k \in 1 .. N |-> [start |-> SeqOf(Kth(k)[1]), end |-> SeqOf(Kth(k)[2])]]
  BY DEF Sacks
<1>6. ASSUME NEW k \in 1 .. Len(h), NEW j \in 1 .. Len(h), j = Len(h) + 1 - k PROVE Kth(k) = <<a[j], z[j]>>
  <2>1. KthOf(Runs(G, t), k) = <<a[j], z[j]>>
    BY <1>1, <1>6, KthRun
  <2> QED
    BY <2>1 DEF KthOf
<1> HIDE DEF R
<1> HIDE DEF Kth
<1>7. N = (IF Len(h) < MaxBlocks THEN Len(h) ELSE MaxBlocks) /\ N \in Nat /\ N <= Len(h)
  BY <1>2, <1>4
<1> HIDE DEF N
<1>8. sack_blocks(h) = [k \in 1 .. N |-> h[Len(h) + 1 - k]]
  BY <1>7 DEF sack_blocks
<1>9. ASSUME NEW k \in 1 .. N
      PROVE  h[Len(h) + 1 - k] = [start |-> SeqOf(Kth(k)[1]), end |-> SeqOf(Kth(k)[2])]
  <2>1. k \in 1 .. Len(h) /\ Len(h) + 1 - k \in 1 .. Len(h)
    BY <1>2, <1>7
  <2>2. Kth(k) = <<a[Len(h) + 1 - k], z[Len(h) + 1 - k]>>
    BY <1>6, <2>1, Zenon
  <2> QED
    BY <1>1, <2>1, <2>2
<1> QED
  BY <1>5, <1>8, <1>9

-----------------------------------------------------------------------------
(* accept() implements the contract *)

\* The contract speaks of the same stream.
LEMMA SameStream ==
  ASSUME NEW S, NEW f, NEW p, NEW n, NEW m
  PROVE  /\ Contract!InWindow(f, p, n) <=> InWindow(f, p, n)
         /\ Contract!IsFrontier(f, S) <=> IsFrontier(f, S)
         /\ Contract!Bytes(p, n) = Bytes(p, n)
         /\ Contract!Answer(m, S, f) = Answer(m, S, f)
<1>1. Contract!Runs(S, f) = Runs(S, f)
  BY DEF Contract!Runs, Runs
<1>2. \A x : Contract!SeqOf(x) = SeqOf(x)
  BY DEF Contract!SeqOf, SeqOf, Contract!Wrap, Wrap, Contract!M, M
<1>3. Contract!Sacks(S, f) = Sacks(S, f)
  BY Zenon DEF Contract!Sacks, Sacks, Contract!Cardinality, Cardinality, Contract!Runs, Runs,
     Contract!SeqOf, SeqOf, Contract!Wrap, Wrap, Contract!M, M
<1> QED
  BY <1>2, <1>3 DEF Contract!InWindow, InWindow, Contract!IsFrontier, IsFrontier,
     Contract!Bytes, Bytes, Contract!Answer, Answer

\* A new object answers as the contract does of the empty stream.
LEMMA InitRefines == ASSUME Init PROVE Contract!SpecInit
<1>1. /\ held = <<>> /\ total = 0 /\ got = {}
      /\ out = [moved |-> FALSE, rcv_nxt |-> Isn, sacks |-> <<>>]
  BY DEF Init
<1>2. SeqOf(0) = Isn
  BY IsnAssumption, WrapValue, SeqNoValue DEF SeqOf
<1>3. Holds(<<>>, 0, {})
  BY DEF Holds, Ascending
<1>4. sack_blocks(<<>>) = Sacks({}, 0)
  BY <1>3, SackExact
<1>5. sack_blocks(<<>>) = <<>>
  BY StreamAssumption DEF sack_blocks
<1>6. out = Answer(FALSE, {}, 0)
  BY <1>1, <1>2, <1>4, <1>5 DEF Answer
<1> QED
  BY <1>1, <1>6, SameStream DEF Contract!SpecInit

\* What a return hands to the caller is the contract's answer.
LEMMA ReturnAnswers ==
  ASSUME InductiveInv', pc' = "idle", NEW mv,
         out' = [moved |-> mv, rcv_nxt |-> rcv_nxt', sacks |-> sack_blocks(held')]
  PROVE  out' = Answer(mv, got', total')
<1>1. /\ held' \in Seq(SeqRange) /\ total' \in Nat /\ rcv_nxt' = SeqOf(total')
      /\ Ascending(SeqOf(total'), held', 1)
      /\ \A d \in 0 .. Window :
            total' + d \in got' <=> \E k \in 1 .. Len(held') : Covers(SeqOf(total'), held'[k], d)
  BY DEF InductiveInv, TypeOK, HeldInv, Base
<1>2. Holds(held', total', got')
  BY <1>1 DEF Holds
<1>3. sack_blocks(held') = Sacks(got', total')
  BY <1>2, SackExact
<1> QED
  BY <1>1, <1>3 DEF Answer

\* A return is a step of the contract.
LEMMA ReturnRefines ==
  ASSUME InductiveInv, InductiveInv', pc' = "idle", NEW pos \in Positions, NEW len \in 0 .. MaxLen, NEW mv,
         InWindow(total, pos, len),
         out' = [moved |-> mv, rcv_nxt |-> rcv_nxt', sacks |-> sack_blocks(held')],
         got' = got \cup Bytes(pos, len), total' >= total, mv = (total' # total)
  PROVE  Contract!SpecNext
<1>1. total \in Nat /\ total' \in Nat /\ got' \subseteq 0 .. StreamLen - 1 /\ IsFrontier(total', got')
  BY DEF InductiveInv, TypeOK, HistoryInv
<1>2. StreamLen \in Nat
  BY StreamAssumption
<1>3. total' <= StreamLen
  <2>1. ASSUME ~ (total' <= StreamLen) PROVE FALSE
    <3>1. StreamLen \in 0 .. total' - 1
      <4>1. \A u, v \in Nat : ~ (u <= v) => v \in 0 .. u - 1
        OBVIOUS
      <4> QED
        BY <1>1, <1>2, <2>1, <4>1, Zenon
    <3>2. StreamLen \in got'
      BY <1>1, <3>1 DEF IsFrontier
    <3> QED
      BY <1>1, <1>2, <3>2
  <2> QED
    BY <2>1
<1>4. total' \in total .. StreamLen
  BY <1>1, <1>2, <1>3
<1>5. out' = Answer(total' # total, got', total')
  BY ReturnAnswers
<1>6. PICK p \in 0 .. StreamLen, n \in 0 .. MaxLen : p = pos /\ n = len
  BY DEF Positions
<1>7. Contract!SpecAccept(p, n)
  <2>1. Contract!InWindow(total, p, n)
    BY <1>6, SameStream
  <2>2. got' = got \cup Contract!Bytes(p, n)
    BY <1>6, SameStream
  <2>3. Contract!IsFrontier(total', got')
    BY <1>1, SameStream
  <2>4. out' = Contract!Answer(total' # total, got', total')
    BY <1>5, SameStream
  <2> QED
    BY <1>4, <2>1, <2>2, <2>3, <2>4 DEF Contract!SpecAccept
<1> QED
  BY <1>7 DEF Contract!SpecNext

\* Of the steps of accept(), the returns are steps of the contract and the
\* others invisible to the caller.
LEMMA StepRefines ==
  ASSUME InductiveInv, InductiveInv', [Next]_vars
  PROVE  [Contract!SpecNext]_(Contract!specVars)
<1>1. total \in Nat /\ total' \in Nat /\ rcv_nxt \in SeqNo /\ before \in SeqNo /\ seg \in [pos : 0 .. StreamLen, len : 0 .. MaxLen]
  BY DEF InductiveInv, TypeOK
<1>2. ASSUME UNCHANGED <<got, total, out>> PROVE UNCHANGED Contract!specVars
  BY <1>2 DEF Contract!specVars
<1>3. ASSUME NEW pos \in Positions, NEW len \in 0 .. MaxLen, Call(pos, len), Returns(FALSE), total' = total
      PROVE  Contract!SpecNext
  <2>1. /\ pc' = "idle" /\ InWindow(total, pos, len)
        /\ out' = [moved |-> FALSE, rcv_nxt |-> rcv_nxt', sacks |-> sack_blocks(held')]
        /\ got' = got \cup Bytes(pos, len)
    BY <1>3 DEF Call, Returns
  <2>2. FALSE = (total' # total) /\ total' >= total
    BY <1>1, <1>3
  <2> QED
    BY <2>1, <2>2, ReturnRefines
<1>4. CASE \E pos \in Positions : AcceptEmpty(pos)
  <2>1. PICK pos \in Positions : AcceptEmpty(pos)
    BY <1>4
  <2>2. 0 \in 0 .. MaxLen
    BY StreamAssumption
  <2> QED
    BY <1>3, <2>1, <2>2 DEF AcceptEmpty
<1>5. CASE \E pos \in Positions, len \in Lengths : AcceptDuplicate(pos, len)
  <2>1. PICK pos \in Positions, len \in Lengths : AcceptDuplicate(pos, len)
    BY <1>5
  <2>2. len \in 0 .. MaxLen
    BY StreamAssumption DEF Lengths
  <2> QED
    BY <1>3, <2>1, <2>2 DEF AcceptDuplicate
<1>6. CASE DrainDone
  <2>1. /\ pc = "drain" /\ pc' = "idle" /\ seg' = seg
        /\ total' = total + seq_sub(rcv_nxt, before)
        /\ out' = [moved |-> rcv_nxt # before, rcv_nxt |-> rcv_nxt', sacks |-> sack_blocks(held')]
        /\ got' = got \cup Bytes(seg.pos, seg.len)
    BY <1>6 DEF DrainDone, Returns
  <2>2. InWindow(total, seg.pos, seg.len)
    BY <2>1 DEF InductiveInv, CallInv
  <2>3. seg.pos \in Positions /\ seg.len \in 0 .. MaxLen
    BY <1>1 DEF Positions
  <2>4. seq_sub(rcv_nxt, before) \in Nat /\ (rcv_nxt # before <=> seq_sub(rcv_nxt, before) # 0)
    BY <1>1, SubValue, SeqNoValue, SpaceSize
  <2>5. (rcv_nxt # before) = (total' # total) /\ total' >= total
    BY <1>1, <2>1, <2>4
  <2> QED
    BY <2>1, <2>2, <2>3, <2>5, ReturnRefines
<1>7. CASE \E pos \in Positions, len \in Lengths : AcceptBegin(pos, len)
  BY <1>2, <1>7 DEF AcceptBegin, history
<1>8. CASE MergeBelow \/ MergeAbove \/ MergeAbsorb
  BY <1>2, <1>8 DEF MergeBelow, MergeAbove, MergeAbsorb, MergeFrame, history
<1>9. CASE MergeDone \/ DrainStep
  BY <1>2, <1>9 DEF MergeDone, DrainStep, history
<1>10. CASE UNCHANGED vars
  BY <1>2, <1>10 DEF vars, history
<1> QED
  BY <1>4, <1>5, <1>6, <1>7, <1>8, <1>9, <1>10 DEF Next

\* accept() implements its contract: between two calls the caller sees the
\* first missing byte, whether it moved, and the highest runs beyond it,
\* computed from nothing but the set of bytes accepted.
THEOREM Refinement == Spec => ImplementsContract
<1>1. Init => Contract!SpecInit
  BY InitRefines
<1>2. InductiveInv /\ InductiveInv' /\ [Next]_vars => [Contract!SpecNext]_(Contract!specVars)
  BY StepRefines
<1> QED
  BY <1>1, <1>2, Invariance, PTL DEF Spec, ImplementsContract, Contract!ReassemblyContract

-----------------------------------------------------------------------------
(* advances_ is a faithful record *)

\* The k-th recorded frontier as a distance from the first byte.
Reached(k) == seq_sub(advances[k].frontier, Isn)

\* While the stream is shorter than half the space, every byte delivered has
\* a first record at or beyond it, and that record has its time.
AdvancesInv ==
    total < Half =>
        /\ \A k \in 1 .. Len(advances) : Reached(k) \in 1 .. total
        /\ \A p \in 1 .. total : \E k \in 1 .. Len(advances) :
              /\ Reached(k) >= p
              /\ \A j \in 1 .. Len(advances) : j < k => Reached(j) < p
              /\ when[p] = advances[k].t_ms

\* A position below half the space, as a distance from the first byte.
LEMMA FromStart ==
  ASSUME NEW p \in Nat, p < Half PROVE SeqOf(p) \in SeqNo /\ seq_sub(SeqOf(p), Isn) = p
<1>1. Isn \in Int /\ p \in Int /\ 0 \in Int /\ Half \in Int /\ Half > 0 /\ Isn + 0 = Isn
  BY IsnAssumption, SeqNoValue, HalfAssumption
<1>2. Wrap(Isn) = Isn
  BY IsnAssumption, SeqNoValue, WrapValue
<1>3. seq_sub(Wrap(Isn + p), Wrap(Isn + 0)) = p - 0
  BY <1>1, Offset
<1> QED
  BY <1>1, <1>2, <1>3, WrapType DEF SeqOf

\* A return that moved the frontier records it; any other leaves the record.
LEMMA AdvancesStep ==
  ASSUME InductiveInv, InductiveInv', [Next]_vars, AdvancesInv
  PROVE  AdvancesInv'
<1>1. CASE DrainDone
  <2> SUFFICES ASSUME total' < Half PROVE AdvancesInv'
    BY DEF AdvancesInv
  <2>1. /\ total \in Nat /\ total' \in Nat /\ rcv_nxt \in SeqNo /\ before \in SeqNo /\ calls \in 0 .. MaxAccepts
        /\ advances \in Seq([frontier : SeqNo, t_ms : 0 .. MaxAccepts])
    BY DEF InductiveInv, TypeOK
  <2>2. /\ total' = total + seq_sub(rcv_nxt, before) /\ rcv_nxt' = rcv_nxt /\ pc' = "idle"
        /\ when' = [p \in 1 .. total' |-> IF p <= total THEN when[p] ELSE calls]
        /\ rcv_nxt # before => advances' = Append(advances, [frontier |-> rcv_nxt, t_ms |-> calls])
        /\ rcv_nxt = before => advances' = advances
    BY <1>1 DEF DrainDone, Returns
  <2>3. seq_sub(rcv_nxt, before) \in Nat /\ (rcv_nxt # before <=> seq_sub(rcv_nxt, before) # 0)
    BY <2>1, SubValue, SeqNoValue, SpaceSize
  <2>4. total <= total' /\ total < Half /\ Half \in Nat
    BY <2>1, <2>2, <2>3, HalfAssumption
  <2>5. /\ \A k \in 1 .. Len(advances) : Reached(k) \in 1 .. total
        /\ \A p \in 1 .. total : \E k \in 1 .. Len(advances) :
              /\ Reached(k) >= p
              /\ \A j \in 1 .. Len(advances) : j < k => Reached(j) < p
              /\ when[p] = advances[k].t_ms
    BY <2>4 DEF AdvancesInv
  <2>6. \A p \in 1 .. total : when'[p] = when[p]
    BY <2>1, <2>2, <2>4
  <2>7. CASE rcv_nxt = before
    <3>1. total' = total /\ advances' = advances
      BY <2>1, <2>2, <2>3, <2>7
    <3>2. \A k : Reached(k)' = Reached(k)
      BY <3>1 DEF Reached
    <3> QED
      BY <2>5, <2>6, <3>1, <3>2 DEF AdvancesInv
  <2>8. CASE rcv_nxt # before
    <3>1. PICK n \in Nat : n = Len(advances)
      BY <2>1
    <3>2. /\ Len(advances') = n + 1
          /\ \A k \in 1 .. n : advances'[k] = advances[k]
          /\ advances'[n + 1] = [frontier |-> rcv_nxt, t_ms |-> calls]
      <4>1. PICK S : S = [frontier : SeqNo, t_ms : 0 .. MaxAccepts]
        OBVIOUS
      <4>2. PICK x : x = [frontier |-> rcv_nxt, t_ms |-> calls]
        OBVIOUS
      <4>3. x \in S
        BY <2>1, <4>1, <4>2
      <4>4. advances \in Seq(S) /\ advances' = Append(advances, x)
        BY <2>1, <2>2, <2>8, <4>1, <4>2
      <4> QED
        BY <3>1, <4>2, <4>3, <4>4
    <3>3. \A k \in 1 .. n : Reached(k)' = Reached(k)
      BY <3>2 DEF Reached
    <3>4. rcv_nxt = SeqOf(total')
      BY <2>2 DEF InductiveInv, HeldInv, Base
    <3>5. Reached(n + 1)' = total' /\ total' > total
      <4>1. seq_sub(SeqOf(total'), Isn) = total'
        BY <2>1, FromStart
      <4> QED
        BY <2>1, <2>2, <2>3, <2>8, <3>2, <3>4, <4>1 DEF Reached
    <3>6. ASSUME NEW k \in 1 .. Len(advances') PROVE Reached(k)' \in 1 .. total'
      <4>1. k \in 1 .. n \/ k = n + 1
        BY <3>2
      <4>2. CASE k \in 1 .. n
        BY <2>1, <2>4, <2>5, <3>1, <3>3, <4>2
      <4>3. CASE k = n + 1
        BY <2>1, <3>5, <4>3
      <4> QED
        BY <4>1, <4>2, <4>3
    <3>7. ASSUME NEW p \in 1 .. total'
          PROVE  \E k \in 1 .. Len(advances') :
                    /\ Reached(k)' >= p
                    /\ \A j \in 1 .. Len(advances') : j < k => Reached(j)' < p
                    /\ when'[p] = advances'[k].t_ms
      <4>1. CASE p <= total
        <5>1. p \in 1 .. total
          BY <2>1, <4>1
        <5>2. PICK k \in 1 .. n : /\ Reached(k) >= p
                                  /\ \A j \in 1 .. n : j < k => Reached(j) < p
                                  /\ when[p] = advances[k].t_ms
          BY <2>5, <3>1, <5>1
        <5>3. k \in 1 .. n + 1 /\ \A j \in 1 .. n + 1 : j < k => j \in 1 .. n
          BY <3>1
        <5>4. Reached(k)' >= p /\ when'[p] = advances'[k].t_ms
          BY <2>6, <3>2, <3>3, <5>1, <5>2
        <5>5. \A j \in 1 .. n + 1 : j < k => Reached(j)' < p
          BY <3>3, <5>2, <5>3
        <5> QED
          BY <3>2, <5>3, <5>4, <5>5
      <4>2. CASE p > total
        <5>1. when'[p] = calls
          BY <2>1, <2>2, <4>2
        <5>2. n + 1 \in 1 .. n + 1 /\ \A j \in 1 .. n + 1 : j < n + 1 => j \in 1 .. n
          BY <3>1
        <5>3. \A j \in 1 .. n + 1 : j < n + 1 => Reached(j)' < p
          BY <2>1, <2>5, <3>1, <3>3, <4>2, <5>2
        <5>4. Reached(n + 1)' >= p
          BY <2>1, <3>5
        <5>5. advances'[n + 1].t_ms = calls
          BY <3>2
        <5> QED
          BY <3>2, <5>1, <5>2, <5>3, <5>4, <5>5
      <4> QED
        BY <2>1, <4>1, <4>2
    <3> QED
      BY <3>6, <3>7 DEF AdvancesInv
  <2> QED
    BY <2>7, <2>8
<1>2. CASE UNCHANGED <<total, advances, when>>
  BY <1>2 DEF AdvancesInv, Reached
<1> QED
  BY <1>1, <1>2 DEF Next, AcceptEmpty, AcceptDuplicate, AcceptBegin, MergeBelow, MergeAbove, MergeAbsorb,
     MergeFrame, MergeDone, DrainStep, object, history, vars

\* time_reached() of a byte's end is the time of the call that delivered the
\* byte, and -1 until it is delivered.
LEMMA TimeReached ==
  ASSUME InductiveInv, AdvancesInv, total < Half, NEW p \in 1 .. Half - 1
  PROVE  time_reached(SeqOf(p)) = IF p <= total THEN when[p] ELSE -1
<1> DEFINE Hits == {k \in 1 .. Len(advances) : seq_geq(advances[k].frontier, SeqOf(p))}
<1>1. total \in Nat /\ Half \in Nat /\ p \in Nat /\ 1 <= p /\ p < Half /\ Isn \in SeqNo
      /\ advances \in Seq([frontier : SeqNo, t_ms : 0 .. MaxAccepts]) /\ Len(advances) \in Nat
  BY HalfAssumption, IsnAssumption DEF InductiveInv, TypeOK
<1>2. \A k \in 1 .. Len(advances) : Reached(k) \in 1 .. total
  BY DEF AdvancesInv
<1>3. SeqOf(p) \in SeqNo /\ seq_sub(SeqOf(p), Isn) = p
  BY <1>1, FromStart
<1>4. ASSUME NEW k \in 1 .. Len(advances)
      PROVE  k \in Hits <=> Reached(k) >= p
  <2>1. advances[k].frontier \in SeqNo
    <3>1. PICK S : S = [frontier : SeqNo, t_ms : 0 .. MaxAccepts]
      OBVIOUS
    <3>2. advances \in Seq(S)
      BY <1>1, <3>1
    <3>3. advances[k] \in S
      BY <3>2
    <3> QED
      BY <3>1, <3>3
  <2>2. seq_sub(advances[k].frontier, Isn) < Half /\ seq_sub(SeqOf(p), Isn) < Half
    BY <1>1, <1>2, <1>3 DEF Reached
  <2>3. seq_geq(advances[k].frontier, SeqOf(p)) <=> seq_sub(advances[k].frontier, Isn) >= seq_sub(SeqOf(p), Isn)
    BY <1>1, <1>3, <2>1, <2>2, Compare
  <2> QED
    BY <1>3, <2>3 DEF Reached
<1>5. time_reached(SeqOf(p)) = IF Hits = {} THEN -1
                               ELSE advances[CHOOSE k \in Hits : \A j \in Hits : k <= j].t_ms
  BY DEF time_reached
<1>6. Hits \subseteq 1 .. Len(advances)
  OBVIOUS
<1> HIDE DEF Hits
<1>7. CASE p <= total
  <2>1. p \in 1 .. total
    BY <1>1, <1>7
  <2>2. PICK k \in 1 .. Len(advances) : /\ Reached(k) >= p
                                        /\ \A j \in 1 .. Len(advances) : j < k => Reached(j) < p
                                        /\ when[p] = advances[k].t_ms
    BY <2>1 DEF AdvancesInv
  <2>3. k \in Hits
    BY <1>4, <2>2
  <2>4. ASSUME NEW j \in Hits PROVE k <= j
    <3>1. j \in 1 .. Len(advances) /\ Reached(j) >= p /\ Reached(j) \in Int
      BY <1>2, <1>4, <1>6
    <3> QED
      BY <1>1, <2>2, <3>1
  <2>5. ASSUME NEW j \in Hits, \A l \in Hits : j <= l PROVE j = k
    BY <1>1, <1>6, <2>3, <2>4, <2>5
  <2>6. (CHOOSE j \in Hits : \A l \in Hits : j <= l) = k
    BY <2>3, <2>4, <2>5, Zenon
  <2> QED
    BY <1>5, <1>7, <2>2, <2>3, <2>6
<1>8. CASE ~ (p <= total)
  <2>1. Hits = {}
    BY <1>1, <1>2, <1>4, <1>6, <1>8
  <2> QED
    BY <1>5, <1>8, <2>1
<1> QED
  BY <1>7, <1>8

\* The head-of-line delay is measured with exact times.
THEOREM TimesAreExact == Spec => []TimeReachedExact
<1>1. Init => AdvancesInv
  BY DEF Init, AdvancesInv
<1>2. InductiveInv /\ InductiveInv' /\ AdvancesInv /\ [Next]_vars => AdvancesInv'
  BY AdvancesStep
<1>3. InductiveInv /\ AdvancesInv => TimeReachedExact
  BY TimeReached DEF TimeReachedExact
<1> QED
  BY <1>1, <1>2, <1>3, Invariance, PTL DEF Spec
=============================================================================
