----------------------------- MODULE PeerProofs -----------------------------
(***************************************************************************)
(* Peer, for every stream shorter than half the sequence space, every loss *)
(* policy, sequence of calls, delay, deadline and budget: what the kernel  *)
(* is told has arrived has arrived, acknowledgements never go back, the    *)
(* counters of the summary are what went over the wire, and the hole it    *)
(* times is a real stall that the loss policy alone has caused.            *)
(***************************************************************************)
EXTENDS Peer, SeqSpaceProofs, FiniteSetTheorems, SequenceTheorems, NaturalsInduction,
        WellFoundedInduction

Kinds == {"data", "fin", "ack", "foreign", "rst"}
Frame == {s \in [kind : Kinds, pos : Nat, len : Nat] : s.pos + s.len <= StreamLen}
Read == [s : Frame, t_ms : Int]
Block == [start : SeqNo, end : SeqNo]
Ack == [due : Int, ack : SeqNo, sacks : Seq(Block), is_dup : BOOLEAN]

\* The position an acknowledgement number stands for.
PosOf(ack) == int32(seq_sub(ack, SeqOf(0)))

\* The kernel's and the peer's idea of the stream.
StreamInv ==
    /\ wrote \in 0 .. StreamLen /\ snd_max \in 0 .. StreamLen
    /\ snd_una \in Nat /\ acked \in Nat /\ snd_una <= acked /\ acked <= frontier
    /\ got \subseteq 0 .. StreamLen - 1 /\ frontier \in 0 .. StreamLen
    /\ IsFrontier(frontier, got)
    /\ told \subseteq got
    /\ fd \in Seq(Frame) /\ batch \in Seq(Read)
    /\ call \in Nat

\* An ACK in the queue says what is true now.
Truthful(a) ==
    /\ a \in Ack
    /\ a.ack = SeqOf(PosOf(a.ack))
    /\ PosOf(a.ack) \in acked .. frontier
    /\ \A k \in 1 .. Len(a.sacks) : BlockBytes(a.sacks[k]) \subseteq got

\* The queue is truthful and in order.
QueueInv ==
    /\ pending \in Seq(Ack)
    /\ \A i \in 1 .. Len(pending) : Truthful(pending[i])
    /\ \A i, j \in 1 .. Len(pending) : i < j => PosOf(pending[i].ack) <= PosOf(pending[j].ack)

AckInv == StreamInv /\ QueueInv

\* A RST on its way has been paid for.
RstInv ==
    /\ spent \in [rexmt : Nat, control : Nat, rst : Nat, fail : Nat]
    /\ \A i \in 1 .. Len(fd) : fd[i].kind = "rst" => spent.rst # 0
    /\ \A i \in 1 .. Len(batch) : batch[i].s.kind = "rst" => spent.rst # 0
    /\ (pc = "idle" /\ spent.rst = 0) => pending = <<>>

SumType ==
    [bytes_wanted : Int, bytes_delivered : Int, completed : BOOLEAN,
     saw_rst : BOOLEAN, saw_fin : BOOLEAN,
     segments_dropped : Int, retransmits : Int,
     acks_sent : Int, dup_acks_sent : Int, ack_send_failures : Int,
     t_first_data : Int, t_last_original : Int,
     t_hole_created : Int, t_hole_filled : Int, hol_delay_ms : Int]
LogType ==
    [accepted : Int, repeats : Int, firstDrop : Int, lost : SUBSET Int, behind : BOOLEAN]
ShapeInv == sum \in SumType /\ log \in LogType /\ now \in Int

\* Every accepted segment has its ACK written, failed or in the queue.
CountInv ==
    sum.acks_sent + sum.ack_send_failures + Len(pending) = log.accepted

\* The number written or queued before the i-th ACK, and the last one.
Before(i) == IF i = 1 THEN acked ELSE PosOf(pending[i - 1].ack)
Last == IF pending = <<>> THEN acked ELSE PosOf(pending[Len(pending)].ack)

DupInv ==
    spent.fail = 0 =>
        /\ sum.dup_acks_sent = log.repeats
        /\ \A i \in 1 .. Len(pending) : pending[i].is_dup <=> PosOf(pending[i].ack) = Before(i)
        /\ Last = frontier

PeerInv == AckInv /\ RstInv /\ ShapeInv /\ CountInv /\ DupInv

-----------------------------------------------------------------------------
(* Positions and sequence numbers *)

ShortStream == StreamLen < Half

\* In a short stream, sequence numbers stand for positions and compare like them.
LEMMA Numbers ==
  ASSUME ShortStream, NEW p \in 0 .. StreamLen, NEW q \in 0 .. StreamLen
  PROVE  /\ SeqOf(p) \in SeqNo /\ PosOf(SeqOf(p)) = p
         /\ int32(seq_sub(SeqOf(p), SeqOf(q))) = p - q
         /\ seq_lt(SeqOf(p), SeqOf(q)) <=> p < q
         /\ seq_geq(SeqOf(p), SeqOf(q)) <=> p >= q
<1>1. /\ Isn \in Int /\ Half \in Nat /\ StreamLen \in Nat /\ p \in Int /\ q \in Int
      /\ 0 \in 0 .. StreamLen
  BY IsnAssumption, SeqNoValue, HalfAssumption, StreamAssumption
<1>2. ASSUME NEW x \in 0 .. StreamLen, NEW y \in 0 .. StreamLen
      PROVE  int32(seq_sub(SeqOf(x), SeqOf(y))) = x - y
  <2>1. x \in Int /\ y \in Int /\ -Half < x - y /\ x - y < Half
    BY <1>1 DEF ShortStream
  <2> QED
    BY <1>1, <2>1, Offset DEF SeqOf
<1>3. SeqOf(p) \in SeqNo
  BY <1>1, WrapType DEF SeqOf
<1>4. PosOf(SeqOf(p)) = p
  BY <1>1, <1>2 DEF PosOf
<1> QED
  BY <1>1, <1>2, <1>3, <1>4 DEF seq_lt, seq_geq

\* A nonempty set of naturals has a least member,
LEMMA LeastOf ==
  ASSUME NEW T, T \subseteq Nat, T # {}
  PROVE  \E x \in T : \A y \in T : x <= y
<1> DEFINE R == OpToRel(<, Nat)
<1>1. IsWellFoundedOn(R, Nat)
  BY NatLessThanWellFounded, Zenon
<1>2. R = {ss \in Nat \X Nat : ss[1] < ss[2]}
  BY Zenon DEF OpToRel
<1> HIDE DEF R
<1>3. PICK x \in T : \A y \in T : ~ (<<y, x>> \in R)
  BY <1>1, WFMin
<1>4. ASSUME NEW y \in T PROVE x <= y
  <2>1. x \in Nat /\ y \in Nat /\ ~ (<<y, x>> \in R)
    BY <1>3
  <2>2. ~ (y < x)
    BY <1>2, <2>1
  <2> QED
    BY <2>1, <2>2
<1> QED
  BY <1>3, <1>4

\* and a bounded one a greatest.
LEMMA GreatestOf ==
  ASSUME NEW m \in Nat, NEW S, S \subseteq 0 .. m, S # {}
  PROVE  \E k \in S : \A j \in S : j <= k
<1> DEFINE T == {x \in Nat : m - x \in S}
<1>1. T \subseteq Nat /\ T # {}
  <2>1. PICK s \in S : TRUE
    OBVIOUS
  <2>2. m - s \in Nat /\ m - (m - s) = s
    BY <2>1
  <2> QED
    BY <2>1, <2>2
<1>2. PICK x \in T : \A y \in T : x <= y
  BY <1>1, LeastOf
<1>3. m - x \in S /\ x \in Nat
  OBVIOUS
<1>4. ASSUME NEW j \in S PROVE j <= m - x
  <2>1. j \in Nat /\ m - j \in Nat /\ m - (m - j) = j
    OBVIOUS
  <2>2. x <= m - j
    BY <1>2, <2>1
  <2> QED
    BY <1>3, <2>1, <2>2
<1> QED
  BY <1>3, <1>4

-----------------------------------------------------------------------------
(* SACK blocks *)

\* A finite set of pairs, ordered by their first component, has a k-th one.
LEMMA Ranked ==
  ASSUME NEW R, IsFiniteSet(R), NEW m \in Nat, \A r \in R : r[1] \in 0 .. m,
         \A q, r \in R : q[1] = r[1] => q = r, NEW k \in 1 .. Cardinality(R)
  PROVE  \E r \in R : Cardinality({q \in R : q[1] > r[1]}) = k - 1
<1> DEFINE Above(r) == {q \in R : q[1] > r[1]}
           Bad == {j \in Nat : j < Cardinality(R) /\ \A r \in R : Cardinality(Above(r)) # j}
<1>0. Cardinality(R) \in Nat
  BY FS_CardinalityType
<1>1. ASSUME NEW Q, Q \subseteq R, Q # {}
      PROVE  \E r \in Q : \A q \in Q : q[1] <= r[1]
  <2> DEFINE Keys == {q[1] : q \in Q}
  <2>1. Keys \subseteq 0 .. m /\ Keys # {}
    BY <1>1
  <2>2. PICK g \in Keys : \A h \in Keys : h <= g
    BY <2>1, GreatestOf
  <2> QED
    BY <2>2
<1>2. ASSUME Bad # {} PROVE FALSE
  <2>1. PICK j \in Bad : \A i \in Bad : j <= i
    <3>1. Bad \subseteq Nat
      OBVIOUS
    <3> HIDE DEF Bad
    <3> QED
      BY <1>2, <3>1, LeastOf
  <2>2. j \in Nat /\ j < Cardinality(R) /\ \A r \in R : Cardinality(Above(r)) # j
    BY <2>1
  <2>3. CASE j = 0
    <3>1. R # {}
      BY <1>0, <2>2, FS_EmptySet
    <3>2. PICK r \in R : \A q \in R : q[1] <= r[1]
      BY <1>1, <3>1
    <3>3. Above(r) = {}
      BY <3>2
    <3> QED
      BY <2>2, <2>3, <3>3, FS_EmptySet
  <2>4. CASE j # 0
    <3>1. PICK r \in R : Cardinality(Above(r)) = j - 1
      <4>1. j - 1 \in Nat /\ j - 1 < Cardinality(R) /\ ~ (j <= j - 1)
        BY <1>0, <2>2, <2>4
      <4>2. j - 1 \notin Bad
        BY <2>1, <4>1
      <4> QED
        BY <4>1, <4>2
    <3> DEFINE Top == Above(r) \cup {r}
               Q == {q \in R : q[1] < r[1]}
    <3>2. IsFiniteSet(Above(r)) /\ r \notin Above(r)
      BY FS_Subset
    <3>3. Cardinality(Top) = j
      <4> HIDE DEF Above
      <4>1. Cardinality(Top) = Cardinality(Above(r)) + 1
        BY <3>2, FS_AddElement
      <4> QED
        BY <2>2, <3>1, <4>1
    <3>4. Q # {}
      <4>1. ASSUME Q = {} PROVE R = Top
        <5>1. ASSUME NEW q \in R PROVE q \in Top
          <6>1. q[1] \in Nat /\ r[1] \in Nat /\ ~ (q[1] < r[1])
            BY <4>1
          <6>2. q[1] > r[1] \/ q[1] = r[1]
            BY <6>1
          <6> QED
            BY <6>2
        <5> QED
          BY <5>1
      <4> QED
        BY <2>2, <3>3, <4>1
    <3>5. PICK t \in Q : \A q \in Q : q[1] <= t[1]
      BY <1>1, <3>4
    <3>6. Above(t) = Top
      <4>1. ASSUME NEW q \in Above(t) PROVE q \in Top
        <5>1. q \in R /\ q[1] \in Nat /\ r[1] \in Nat /\ t[1] \in Nat /\ q[1] > t[1]
          BY <3>5
        <5>2. ~ (q[1] < r[1])
          BY <3>5, <5>1
        <5>3. q[1] > r[1] \/ q[1] = r[1]
          BY <5>1, <5>2
        <5> QED
          BY <5>1, <5>3
      <4>2. ASSUME NEW q \in Top PROVE q \in Above(t)
        <5>1. q \in R /\ q[1] \in Nat /\ r[1] \in Nat /\ t[1] \in Nat /\ t[1] < r[1]
          BY <3>5
        <5>2. q[1] >= r[1]
          BY <5>1
        <5> QED
          BY <5>1, <5>2
      <4> QED
        BY <4>1, <4>2
    <3> QED
      BY <2>2, <3>3, <3>5, <3>6
  <2> QED
    BY <2>3, <2>4
<1>3. k - 1 \in Nat /\ k - 1 < Cardinality(R)
  BY <1>0
<1> QED
  BY <1>2, <1>3

\* A run is a stretch of accepted positions that ends before a missing one.
LEMMA RunFacts ==
  ASSUME NEW S, S \subseteq 0 .. StreamLen - 1, NEW f \in Nat, f \notin S, NEW r \in Runs(S, f)
  PROVE  \E a \in Nat, e \in Nat :
            /\ r = <<a, e + 1>> /\ a <= e /\ e <= f + Window /\ e + 1 <= StreamLen
            /\ a .. e \subseteq S /\ e + 1 \notin S
<1> DEFINE Start(e) == CHOOSE a \in f + 1 .. e : a .. e \subseteq S /\ a - 1 \notin S
<1>0. Window \in Nat /\ StreamLen \in Nat
  BY WindowAssumption, StreamAssumption
<1>1. PICK e \in f + 1 .. f + Window : e \in S /\ e + 1 \notin S /\ r = <<Start(e), e + 1>>
  BY DEF Runs
<1>2. e \in Nat /\ e <= f + Window /\ e + 1 <= StreamLen /\ f < e
  BY <1>0, <1>1
<1>3. \E a \in f + 1 .. e : a .. e \subseteq S /\ a - 1 \notin S
  <2> DEFINE Gaps == {x \in f .. e : x \notin S}
  <2>1. Gaps \subseteq 0 .. e /\ f \in Gaps
    BY <1>2
  <2>2. PICK x \in Gaps : \A y \in Gaps : y <= x
    <3> HIDE DEF Gaps
    <3> QED
      BY <1>2, <2>1, GreatestOf
  <2>3. x \in f .. e /\ x \notin S /\ x # e
    BY <1>1, <2>2
  <2>4. x + 1 \in f + 1 .. e /\ (x + 1) - 1 = x
    BY <1>2, <2>3
  <2>5. ASSUME NEW y \in x + 1 .. e PROVE y \in S
    BY <1>2, <2>2, <2>3
  <2> QED
    BY <2>3, <2>4, <2>5
<1>4. Start(e) \in f + 1 .. e /\ Start(e) .. e \subseteq S
  BY <1>3, Zenon
<1> HIDE DEF Start
<1>5. Start(e) \in Nat /\ Start(e) <= e
  BY <1>2, <1>4
<1> QED
  BY <1>1, <1>2, <1>4, <1>5

\* What the blocks of an ACK name has arrived.
LEMMA SackFacts ==
  ASSUME ShortStream, NEW S, S \subseteq 0 .. StreamLen - 1, NEW f \in Nat, f \notin S
  PROVE  /\ Sacks(S, f) \in Seq(Block)
         /\ \A k \in 1 .. Len(Sacks(S, f)) : BlockBytes(Sacks(S, f)[k]) \subseteq S
<1> DEFINE R == Runs(S, f)
           N == IF Cardinality(R) < MaxBlocks THEN Cardinality(R) ELSE MaxBlocks
           Kth(k) == CHOOSE r \in R : Cardinality({q \in R : q[1] > r[1]}) = k - 1
           B(k) == [start |-> SeqOf(Kth(k)[1]), end |-> SeqOf(Kth(k)[2])]
<1>0. Window \in Nat /\ StreamLen \in Nat /\ MaxBlocks \in Nat
  BY WindowAssumption, StreamAssumption
<1>1. Sacks(S, f) = [k \in 1 .. N |-> B(k)]
  BY DEF Sacks
<1>2. ASSUME NEW r \in R
      PROVE  \E a \in Nat, e \in Nat :
                /\ r = <<a, e + 1>> /\ a <= e /\ e <= f + Window /\ e + 1 <= StreamLen
                /\ a .. e \subseteq S /\ e + 1 \notin S
  BY RunFacts
<1> HIDE DEF R
<1>3. IsFiniteSet(R)
  <2>1. R \subseteq (0 .. StreamLen) \X (0 .. StreamLen)
    BY <1>0, <1>2
  <2>2. IsFiniteSet((0 .. StreamLen) \X (0 .. StreamLen))
    <3>1. IsFiniteSet(0 .. StreamLen)
      BY <1>0, FS_Interval
    <3> QED
      BY <3>1, FS_Product, Zenon
  <2> QED
    BY <2>1, <2>2, FS_Subset
<1>4. \A r \in R : r[1] \in 0 .. StreamLen
  BY <1>0, <1>2
<1>5. ASSUME NEW q \in R, NEW r \in R, q[1] = r[1] PROVE q = r
  <2>1. PICK a \in Nat, e \in Nat : q = <<a, e + 1>> /\ a <= e /\ a .. e \subseteq S /\ e + 1 \notin S
    BY <1>2
  <2>2. PICK b \in Nat, d \in Nat : r = <<b, d + 1>> /\ b <= d /\ b .. d \subseteq S /\ d + 1 \notin S
    BY <1>2
  <2>3. a = b
    BY <1>5, <2>1, <2>2
  <2>4. ~ (e < d) /\ ~ (d < e)
    BY <2>1, <2>2, <2>3
  <2>5. e = d
    BY <2>4
  <2> QED
    BY <2>1, <2>2, <2>3, <2>5
<1>6. N \in Nat /\ \A k \in 1 .. N : k \in 1 .. Cardinality(R)
  BY <1>0, <1>3, FS_CardinalityType
<1>7. ASSUME NEW k \in 1 .. N PROVE Kth(k) \in R
  <2>1. \E r \in R : Cardinality({q \in R : q[1] > r[1]}) = k - 1
    BY <1>0, <1>3, <1>4, <1>5, <1>6, Ranked
  <2> QED
    BY <2>1, Zenon
<1> HIDE DEF N, Kth
<1>8. ASSUME NEW k \in 1 .. N PROVE B(k) \in Block /\ BlockBytes(B(k)) \subseteq S
  <2>1. PICK a \in Nat, e \in Nat :
           Kth(k) = <<a, e + 1>> /\ a <= e /\ e + 1 <= StreamLen /\ a .. e \subseteq S
    BY <1>2, <1>7
  <2>2. B(k) = [start |-> SeqOf(a), end |-> SeqOf(e + 1)]
    BY <2>1
  <2>3. a \in 0 .. StreamLen /\ e + 1 \in 0 .. StreamLen
    BY <1>0, <2>1
  <2>4. SeqOf(a) \in SeqNo /\ SeqOf(e + 1) \in SeqNo
    BY <2>3, Numbers
  <2>5. ASSUME NEW p \in BlockBytes(B(k)) PROVE p \in S
    <3>1. p \in 0 .. StreamLen - 1 /\ seq_geq(SeqOf(p), SeqOf(a)) /\ seq_lt(SeqOf(p), SeqOf(e + 1))
      BY <2>2 DEF BlockBytes
    <3>2. p \in 0 .. StreamLen /\ p >= a /\ p < e + 1
      BY <1>0, <2>3, <3>1, Numbers
    <3>3. p \in a .. e
      BY <2>1, <3>2
    <3> QED
      BY <2>1, <3>3
  <2> QED
    BY <2>2, <2>4, <2>5 DEF Block
<1> HIDE DEF B
<1>9. Sacks(S, f) \in Seq(Block) /\ Len(Sacks(S, f)) = N
  BY <1>1, <1>6, <1>8
<1> QED
  BY <1>1, <1>8, <1>9

\* The contract of accept() has a result.
LEMMA FrontierFacts ==
  ASSUME NEW f \in 0 .. StreamLen, NEW G, IsFrontier(f, G), NEW H, G \subseteq H,
         H \subseteq 0 .. StreamLen - 1
  PROVE  \E x \in f .. StreamLen : IsFrontier(x, H)
<1> DEFINE T == {x \in f .. StreamLen : x \notin H}
<1>0. StreamLen \in Nat /\ f \in Nat
  BY StreamAssumption
<1>1. T \subseteq Nat /\ StreamLen \in T
  BY <1>0
<1>2. PICK x \in T : \A y \in T : x <= y
  BY <1>1, LeastOf
<1>3. x \in f .. StreamLen /\ x \notin H /\ x \in Nat
  BY <1>0, <1>2
<1>4. ASSUME NEW y \in 0 .. x - 1 PROVE y \in H
  <2>1. CASE y < f
    BY <1>0, <1>3, <2>1 DEF IsFrontier
  <2>2. CASE y >= f
    BY <1>0, <1>2, <1>3, <2>2
  <2> QED
    BY <1>0, <2>1, <2>2
<1> QED
  BY <1>3, <1>4 DEF IsFrontier

-----------------------------------------------------------------------------
(* Steps that leave the queue and the stream alone *)

\* The head and the tail of a sequence.
LEMMA TailFacts ==
  ASSUME NEW T, NEW q \in Seq(T), q # <<>>
  PROVE  /\ Len(q) \in Nat \ {0} /\ Head(q) = q[1] /\ q[1] \in T
         /\ Tail(q) \in Seq(T) /\ Len(Tail(q)) = Len(q) - 1
         /\ \A i \in 1 .. Len(q) - 1 : Tail(q)[i] = q[i + 1]
<1>1. Len(q) \in Nat \ {0}
  BY EmptySeq
<1>2. q[1] \in T
  BY <1>1, ElementOfSeq
<1> QED
  BY <1>1, <1>2

\* A queue that is not touched stays truthful,
LEMMA QueueKept ==
  ASSUME QueueInv, UNCHANGED <<got, frontier, acked, pending>>
  PROVE  QueueInv'
<1>1. got' = got /\ frontier' = frontier /\ acked' = acked /\ pending' = pending
  OBVIOUS
<1>2. ASSUME NEW i \in 1 .. Len(pending) PROVE Truthful(pending[i])'
  BY <1>1 DEF QueueInv, Truthful
<1> QED
  BY <1>1, <1>2 DEF QueueInv

\* and its duplicates stay marked.
LEMMA DupKept ==
  ASSUME DupInv, UNCHANGED <<pending, acked, frontier>>, spent'.fail = spent.fail,
         sum'.dup_acks_sent = sum.dup_acks_sent, log'.repeats = log.repeats
  PROVE  DupInv'
<1>1. Last' = Last /\ \A i : Before(i)' = Before(i)
  BY DEF Last, Before
<1> QED
  BY <1>1 DEF DupInv

\* A step that touches neither the queue nor the reassembler keeps the invariant.
LEMMA CalmStep ==
  ASSUME PeerInv, UNCHANGED <<rsmVars, toldVars, pending>>, UNCHANGED <<wrote, call>>,
         snd_max' \in 0 .. StreamLen, snd_una' \in Nat, snd_una' <= acked,
         fd' \in Seq(Frame), batch' \in Seq(Read),
         spent' \in [rexmt : Nat, control : Nat, rst : Nat, fail : Nat], spent'.fail = spent.fail,
         \A i \in 1 .. Len(fd') : fd'[i].kind = "rst" => spent'.rst # 0,
         \A i \in 1 .. Len(batch') : batch'[i].s.kind = "rst" => spent'.rst # 0,
         (pc' = "idle" /\ spent'.rst = 0) => pending = <<>>,
         sum' \in SumType, sum'.acks_sent = sum.acks_sent,
         sum'.ack_send_failures = sum.ack_send_failures, sum'.dup_acks_sent = sum.dup_acks_sent,
         log' \in LogType, log'.accepted = log.accepted, log'.repeats = log.repeats,
         now' \in Int
  PROVE  PeerInv'
<1>1. /\ got' = got /\ frontier' = frontier /\ told' = told /\ acked' = acked
      /\ pending' = pending /\ wrote' = wrote /\ call' = call
  BY DEF rsmVars, toldVars
<1>2. StreamInv'
  BY <1>1 DEF PeerInv, AckInv, StreamInv, IsFrontier
<1>3. QueueInv'
  BY <1>1, QueueKept DEF PeerInv, AckInv
<1>4. RstInv'
  BY <1>1 DEF RstInv
<1>5. ShapeInv'
  BY DEF ShapeInv
<1>6. CountInv'
  BY <1>1 DEF PeerInv, CountInv
<1>7. DupInv'
  BY <1>1, DupKept DEF PeerInv
<1> QED
  BY <1>2, <1>3, <1>4, <1>5, <1>6, <1>7 DEF PeerInv, AckInv

-----------------------------------------------------------------------------
(* The kernel *)

\* The kernel puts one frame on the fd.
LEMMA EmitStep ==
  ASSUME PeerInv, KernelFrame, NEW kind \in Kinds, NEW pos \in Nat, NEW len \in Nat,
         pos + len <= StreamLen, Emit(kind, pos, len), UNCHANGED <<wrote, snd_una>>,
         snd_max' \in 0 .. StreamLen,
         spent' \in [rexmt : Nat, control : Nat, rst : Nat, fail : Nat], spent'.fail = spent.fail,
         spent.rst # 0 => spent'.rst # 0, kind = "rst" => spent'.rst # 0,
         spent'.rst = 0 => spent.rst = 0
  PROVE  PeerInv'
<1> DEFINE s == [kind |-> kind, pos |-> pos, len |-> len]
<1>1. /\ UNCHANGED <<rsmVars, toldVars, pending>> /\ UNCHANGED <<wrote, call>>
      /\ sum' = sum /\ log' = log /\ now' = now /\ batch' = batch /\ pc' = pc /\ snd_una' = snd_una
  BY DEF KernelFrame, callVars
<1>2. s \in Frame /\ s.kind = kind
  BY DEF Frame
<1> HIDE DEF s
<1>3. fd \in Seq(Frame) /\ fd' = Append(fd, s)
  BY DEF PeerInv, AckInv, StreamInv, Emit, s
<1>4. /\ fd' \in Seq(Frame) /\ Len(fd') = Len(fd) + 1 /\ fd'[Len(fd) + 1] = s /\ Len(fd) \in Nat
      /\ \A i \in 1 .. Len(fd) : fd'[i] = fd[i]
  BY <1>2, <1>3, AppendProperties
<1>5. ASSUME NEW i \in 1 .. Len(fd'), fd'[i].kind = "rst" PROVE spent'.rst # 0
  <2>1. CASE i = Len(fd) + 1
    BY <1>2, <1>4, <1>5, <2>1
  <2>2. CASE i # Len(fd) + 1
    <3>1. i \in 1 .. Len(fd) /\ fd[i].kind = "rst"
      BY <1>4, <1>5, <2>2
    <3>2. spent.rst # 0
      BY <3>1 DEF PeerInv, RstInv
    <3> QED
      BY <3>2
  <2> QED
    BY <2>1, <2>2
<1>6. \A i \in 1 .. Len(batch') : batch'[i].s.kind = "rst" => spent'.rst # 0
  BY <1>1 DEF PeerInv, RstInv
<1>7. (pc' = "idle" /\ spent'.rst = 0) => pending = <<>>
  BY <1>1 DEF PeerInv, RstInv
<1>8. /\ snd_una' \in Nat /\ snd_una' <= acked /\ batch' \in Seq(Read)
  BY <1>1 DEF PeerInv, AckInv, StreamInv
<1>9. sum \in SumType /\ log \in LogType /\ now \in Int
  BY DEF PeerInv, ShapeInv
<1> QED
  BY <1>1, <1>4, <1>5, <1>6, <1>7, <1>8, <1>9, CalmStep

\* What spending from a budget changes.
LEMMA Spent ==
  ASSUME PeerInv
  PROVE  /\ spent \in [rexmt : Nat, control : Nat, rst : Nat, fail : Nat]
         /\ Spend("rexmt") => /\ spent' \in [rexmt : Nat, control : Nat, rst : Nat, fail : Nat]
                              /\ spent'.rst = spent.rst /\ spent'.fail = spent.fail
         /\ Spend("control") => /\ spent' \in [rexmt : Nat, control : Nat, rst : Nat, fail : Nat]
                                /\ spent'.rst = spent.rst /\ spent'.fail = spent.fail
         /\ Spend("rst") => /\ spent' \in [rexmt : Nat, control : Nat, rst : Nat, fail : Nat]
                            /\ spent'.rst # 0 /\ spent'.fail = spent.fail
         /\ Spend("fail") => /\ spent' \in [rexmt : Nat, control : Nat, rst : Nat, fail : Nat]
                             /\ spent'.rst = spent.rst /\ spent'.fail # 0
<1>1. spent \in [rexmt : Nat, control : Nat, rst : Nat, fail : Nat]
  BY DEF PeerInv, RstInv
<1>2. /\ spent.rexmt + 1 \in Nat \ {0} /\ spent.control + 1 \in Nat \ {0}
      /\ spent.rst + 1 \in Nat \ {0} /\ spent.fail + 1 \in Nat \ {0}
  BY <1>1
<1>3. ASSUME Spend("rexmt")
      PROVE  /\ spent' \in [rexmt : Nat, control : Nat, rst : Nat, fail : Nat]
             /\ spent'.rst = spent.rst /\ spent'.fail = spent.fail
  BY <1>1, <1>2, <1>3 DEF Spend
<1>4. ASSUME Spend("control")
      PROVE  /\ spent' \in [rexmt : Nat, control : Nat, rst : Nat, fail : Nat]
             /\ spent'.rst = spent.rst /\ spent'.fail = spent.fail
  BY <1>1, <1>2, <1>4 DEF Spend
<1>5. ASSUME Spend("rst")
      PROVE  /\ spent' \in [rexmt : Nat, control : Nat, rst : Nat, fail : Nat]
             /\ spent'.rst # 0 /\ spent'.fail = spent.fail
  BY <1>1, <1>2, <1>5 DEF Spend
<1>6. ASSUME Spend("fail")
      PROVE  /\ spent' \in [rexmt : Nat, control : Nat, rst : Nat, fail : Nat]
             /\ spent'.rst = spent.rst /\ spent'.fail # 0
  BY <1>1, <1>2, <1>6 DEF Spend
<1> QED
  BY <1>1, <1>3, <1>4, <1>5, <1>6

\* Every action of the kernel keeps the invariant.
LEMMA KernelStep ==
  ASSUME PeerInv, Kernel
  PROVE  PeerInv'
<1>0. /\ StreamLen \in Nat /\ MaxLen \in Nat /\ wrote \in Nat /\ wrote <= StreamLen
      /\ snd_max \in Nat /\ snd_max <= StreamLen /\ snd_una \in Nat
      /\ spent \in [rexmt : Nat, control : Nat, rst : Nat, fail : Nat]
  BY StreamAssumption, Spent DEF PeerInv, AckInv, StreamInv
<1>1. ASSUME NEW len \in 1 .. MaxLen, KSend(len) PROVE PeerInv'
  <2>1. /\ KernelFrame /\ Emit("data", snd_max, len) /\ UNCHANGED <<wrote, snd_una>>
        /\ spent' = spent /\ snd_max' = snd_max + len /\ snd_max + len <= wrote
    BY <1>1 DEF KSend
  <2>2. len \in Nat /\ snd_max + len <= StreamLen /\ snd_max' \in 0 .. StreamLen /\ "data" \in Kinds
    BY <1>0, <2>1 DEF Kinds
  <2> QED
    BY <1>0, <2>1, <2>2, EmitStep
<1>2. ASSUME NEW pos \in 0 .. StreamLen - 1, NEW len \in 1 .. MaxLen, KRexmt(pos, len) PROVE PeerInv'
  <2>1. /\ KernelFrame /\ Emit("data", pos, len) /\ UNCHANGED <<wrote, snd_una>> /\ Spend("rexmt")
        /\ snd_max' \in {pos + len, snd_max} /\ pos + len <= wrote
    BY <1>2 DEF KRexmt
  <2>2. /\ pos \in Nat /\ len \in Nat /\ pos + len <= StreamLen /\ snd_max' \in 0 .. StreamLen
        /\ "data" \in Kinds
    BY <1>0, <2>1 DEF Kinds
  <2>3. /\ spent' \in [rexmt : Nat, control : Nat, rst : Nat, fail : Nat]
        /\ spent'.rst = spent.rst /\ spent'.fail = spent.fail
    BY <2>1, Spent
  <2> QED
    BY <2>1, <2>2, <2>3, EmitStep
<1>3. ASSUME NEW len \in 1 .. MaxLen, KRto(len) PROVE PeerInv'
  <2>1. /\ KernelFrame /\ Emit("data", snd_una, len) /\ UNCHANGED <<wrote, snd_una>>
        /\ spent' = spent /\ snd_max' = snd_max /\ snd_una + len <= snd_max
    BY <1>3 DEF KRto, kernelVars
  <2>2. /\ len \in Nat /\ snd_una + len <= StreamLen /\ snd_max' \in 0 .. StreamLen
        /\ "data" \in Kinds
    BY <1>0, <2>1 DEF Kinds
  <2> QED
    BY <1>0, <2>1, <2>2, EmitStep
<1>4. ASSUME KAck PROVE PeerInv'
  <2>1. /\ UNCHANGED <<rsmVars, toldVars, pending>> /\ UNCHANGED <<wrote, call>>
        /\ sum' = sum /\ log' = log /\ now' = now /\ batch' = batch /\ pc' = pc /\ snd_una' = acked
        /\ spent' = spent /\ fd' = fd /\ snd_max' = snd_max
    BY <1>4 DEF KAck, KernelFrame, callVars
  <2>2. /\ acked \in Nat /\ acked <= acked /\ batch \in Seq(Read) /\ fd \in Seq(Frame)
        /\ snd_max \in 0 .. StreamLen
    BY DEF PeerInv, AckInv, StreamInv
  <2>3. sum \in SumType /\ log \in LogType /\ now \in Int
    BY DEF PeerInv, ShapeInv
  <2>4. /\ \A i \in 1 .. Len(fd) : fd[i].kind = "rst" => spent.rst # 0
        /\ \A i \in 1 .. Len(batch) : batch[i].s.kind = "rst" => spent.rst # 0
        /\ (pc = "idle" /\ spent.rst = 0) => pending = <<>>
    BY DEF PeerInv, RstInv
  <2> QED
    BY <1>0, <2>1, <2>2, <2>3, <2>4, CalmStep
<1>5. ASSUME NEW kind \in {"fin", "ack", "foreign"}, KControl(kind) PROVE PeerInv'
  <2>1. /\ KernelFrame /\ Emit(kind, snd_max, 0) /\ UNCHANGED <<wrote, snd_una>> /\ Spend("control")
        /\ snd_max' = snd_max
    BY <1>5 DEF KControl, kernelVars
  <2>2. snd_max + 0 <= StreamLen /\ snd_max' \in 0 .. StreamLen /\ kind \in Kinds /\ kind # "rst"
    BY <1>0, <2>1 DEF Kinds
  <2>3. /\ spent' \in [rexmt : Nat, control : Nat, rst : Nat, fail : Nat]
        /\ spent'.rst = spent.rst /\ spent'.fail = spent.fail
    BY <2>1, Spent
  <2> QED
    BY <1>0, <2>1, <2>2, <2>3, EmitStep
<1>6. ASSUME KReset PROVE PeerInv'
  <2>1. /\ KernelFrame /\ Emit("rst", snd_max, 0) /\ UNCHANGED <<wrote, snd_una>> /\ Spend("rst")
        /\ snd_max' = snd_max
    BY <1>6 DEF KReset, kernelVars
  <2>2. snd_max + 0 <= StreamLen /\ snd_max' \in 0 .. StreamLen /\ "rst" \in Kinds
    BY <1>0, <2>1 DEF Kinds
  <2>3. /\ spent' \in [rexmt : Nat, control : Nat, rst : Nat, fail : Nat]
        /\ spent'.rst # 0 /\ spent'.fail = spent.fail
    BY <2>1, Spent
  <2> QED
    BY <1>0, <2>1, <2>2, <2>3, EmitStep
<1> QED
  BY <1>1, <1>2, <1>3, <1>4, <1>5, <1>6 DEF Kernel

-----------------------------------------------------------------------------
(* receive(), but for accepted segments and the flush *)

\* The parts of the invariant that most steps need.
LEMMA Known ==
  ASSUME PeerInv
  PROVE  /\ StreamLen \in Nat /\ wrote \in 0 .. StreamLen /\ snd_max \in 0 .. StreamLen
         /\ snd_una \in Nat /\ acked \in Nat /\ snd_una <= acked /\ acked <= frontier
         /\ frontier \in 0 .. StreamLen /\ call \in Nat
         /\ fd \in Seq(Frame) /\ batch \in Seq(Read) /\ pending \in Seq(Ack)
         /\ spent \in [rexmt : Nat, control : Nat, rst : Nat, fail : Nat]
         /\ sum \in SumType /\ log \in LogType /\ now \in Int
         /\ \A i \in 1 .. Len(fd) : fd[i].kind = "rst" => spent.rst # 0
         /\ \A i \in 1 .. Len(batch) : batch[i].s.kind = "rst" => spent.rst # 0
         /\ (pc = "idle" /\ spent.rst = 0) => pending = <<>>
BY StreamAssumption DEF PeerInv, AckInv, StreamInv, QueueInv, RstInv, ShapeInv

\* A step of receive() that changes none of the counters of the ACKs.
LEMMA QuietStep ==
  ASSUME PeerInv, UNCHANGED <<rsmVars, toldVars, pending>>, UNCHANGED <<kernelVars, callVars, spent>>,
         now' \in Int, fd' \in Seq(Frame), batch' \in Seq(Read),
         \A i \in 1 .. Len(fd') : fd'[i].kind = "rst" => spent.rst # 0,
         \A i \in 1 .. Len(batch') : batch'[i].s.kind = "rst" => spent.rst # 0,
         (pc' = "idle" /\ spent.rst = 0) => pending = <<>>,
         sum' \in SumType, sum'.acks_sent = sum.acks_sent,
         sum'.ack_send_failures = sum.ack_send_failures, sum'.dup_acks_sent = sum.dup_acks_sent,
         log' \in LogType, log'.accepted = log.accepted, log'.repeats = log.repeats
  PROVE  PeerInv'
<1>1. /\ UNCHANGED <<wrote, call>> /\ snd_max' = snd_max /\ snd_una' = snd_una /\ spent' = spent
  BY DEF kernelVars, callVars
<1>2. /\ snd_max' \in 0 .. StreamLen /\ snd_una' \in Nat /\ snd_una' <= acked
      /\ spent' \in [rexmt : Nat, control : Nat, rst : Nat, fail : Nat]
  BY <1>1, Known
<1> QED
  BY <1>1, <1>2, CalmStep

\* What is left of a batch.
LEMMA RestOfBatch ==
  ASSUME PeerInv, batch # <<>>
  PROVE  /\ Head(batch) = batch[1] /\ Head(batch) \in Read
         /\ Tail(batch) \in Seq(Read)
         /\ \A i \in 1 .. Len(Tail(batch)) : Tail(batch)[i].s.kind = "rst" => spent.rst # 0
         /\ Head(batch).s.kind = "rst" => spent.rst # 0
<1>1. /\ batch \in Seq(Read)
      /\ \A i \in 1 .. Len(batch) : batch[i].s.kind = "rst" => spent.rst # 0
  BY Known
<1>2. /\ Len(batch) \in Nat \ {0} /\ Head(batch) = batch[1] /\ batch[1] \in Read
      /\ Tail(batch) \in Seq(Read) /\ Len(Tail(batch)) = Len(batch) - 1
      /\ \A i \in 1 .. Len(batch) - 1 : Tail(batch)[i] = batch[i + 1]
  BY <1>1, TailFacts
<1>3. ASSUME NEW i \in 1 .. Len(Tail(batch)), Tail(batch)[i].s.kind = "rst" PROVE spent.rst # 0
  <2>1. i + 1 \in 1 .. Len(batch) /\ batch[i + 1].s.kind = "rst"
    BY <1>2, <1>3
  <2> QED
    BY <1>1, <2>1
<1>4. 1 \in 1 .. Len(batch)
  BY <1>2
<1> QED
  BY <1>1, <1>2, <1>3, <1>4

\* The previous call has left no ACK behind, so a new summary starts with none due.
LEMMA StartStep ==
  ASSUME PeerInv, StartReceive
  PROVE  PeerInv'
<1>0. /\ pc = "idle" /\ spent.rst = 0 /\ pending = <<>> /\ call < Len(Targets)
      /\ call' = call + 1 /\ wrote' = Targets[call + 1]
      /\ sum' = EmptySummary(Targets[call + 1])
      /\ log' = [EmptyLog EXCEPT !.behind = frontier < snd_max]
      /\ pc' = "loop" /\ UNCHANGED <<snd_max, snd_una, fd, spent, pending, batch, now>>
      /\ got' = got /\ frontier' = frontier /\ told' = told /\ acked' = acked
  BY Known DEF StartReceive, Alive, rsmVars, toldVars
<1>1. call + 1 \in 1 .. Len(Targets) /\ Targets[call + 1] \in Nat /\ Targets[call + 1] <= StreamLen
  <2>1. Targets \in Seq(Nat) /\ call \in Nat /\ Len(Targets) \in Nat
    BY TargetsAssumption, Known, LenProperties
  <2>2. call + 1 \in 1 .. Len(Targets)
    BY <1>0, <2>1
  <2> QED
    BY <2>1, <2>2, TargetsAssumption, ElementOfSeq
<1>2. StreamInv'
  <2>1. wrote' \in 0 .. StreamLen /\ call' \in Nat
    BY <1>0, <1>1, Known
  <2> QED
    BY <1>0, <2>1 DEF PeerInv, AckInv, StreamInv, IsFrontier
<1>3. QueueInv'
  BY <1>0, QueueKept DEF PeerInv, AckInv
<1>4. RstInv'
  BY <1>0 DEF PeerInv, RstInv
<1>5. /\ sum' \in SumType /\ sum'.acks_sent = 0 /\ sum'.ack_send_failures = 0
      /\ sum'.dup_acks_sent = 0
  BY <1>0, <1>1 DEF EmptySummary, SumType, NoTime
<1>6. log' \in LogType /\ log'.accepted = 0 /\ log'.repeats = 0
  <2>0. (frontier < snd_max) \in BOOLEAN
    BY Known
  <2>1. PICK b \in BOOLEAN : b = (frontier < snd_max)
    BY <2>0, Zenon
  <2>2. log' = [EmptyLog EXCEPT !.behind = b]
    BY <1>0, <2>1, Zenon
  <2>3. log' = [accepted |-> 0, repeats |-> 0, firstDrop |-> -1, lost |-> {}, behind |-> b]
    BY <2>2 DEF EmptyLog, NoTime
  <2> QED
    BY <2>3 DEF LogType
<1>7. ShapeInv'
  BY <1>0, <1>5, <1>6, Known DEF ShapeInv
<1>8. Len(pending') = 0
  BY <1>0
<1>9. CountInv'
  BY <1>5, <1>6, <1>8 DEF CountInv
<1>10. DupInv'
  <2>1. Last' = Last
    BY <1>0 DEF Last
  <2>2. \A i \in 1 .. Len(pending') : FALSE
    BY <1>8
  <2> QED
    BY <1>0, <1>5, <1>6, <2>1, <2>2 DEF PeerInv, DupInv
<1> QED
  BY <1>2, <1>3, <1>4, <1>7, <1>9, <1>10 DEF PeerInv, AckInv

\* Updates of the summary that leave the counters of the ACKs alone.
LEMMA CountedRexmt ==
  ASSUME NEW sm \in SumType, NEW s, s = sm \/ s = [sm EXCEPT !.retransmits = @ + 1]
  PROVE  /\ s \in SumType /\ s.acks_sent = sm.acks_sent
         /\ s.ack_send_failures = sm.ack_send_failures /\ s.dup_acks_sent = sm.dup_acks_sent
<1>1. sm.retransmits + 1 \in Int
  BY DEF SumType
<1> QED
  BY <1>1 DEF SumType

\* A drop in the summary.
LEMMA DropCounted ==
  ASSUME NEW sm \in SumType, NEW t \in Int,
         NEW s, s = [sm EXCEPT !.segments_dropped = @ + 1, !.t_hole_created = t]
  PROVE  /\ s \in SumType /\ s.acks_sent = sm.acks_sent
         /\ s.ack_send_failures = sm.ack_send_failures /\ s.dup_acks_sent = sm.dup_acks_sent
<1>1. sm.segments_dropped + 1 \in Int
  BY DEF SumType
<1> QED
  BY <1>1 DEF SumType

\* The control flow of the loop.
LEMMA LoopStep ==
  ASSUME PeerInv, EnterDrain \/ LeaveLoop \/ DrainReturn \/ EndBatch \/ FlushDone
  PROVE  PeerInv'
<1>1. /\ UNCHANGED <<rsmVars, toldVars, pending>> /\ UNCHANGED <<kernelVars, callVars, spent>>
      /\ fd' = fd /\ batch' = batch /\ sum' = sum /\ log' = log /\ now' = now /\ pc' # "idle"
  <2>1. CASE EnterDrain
    BY <2>1 DEF EnterDrain, PeerFrame
  <2>2. CASE LeaveLoop
    BY <2>2 DEF LeaveLoop, PeerFrame
  <2>3. CASE DrainReturn
    BY <2>3 DEF DrainReturn, PeerFrame
  <2>4. CASE EndBatch
    BY <2>4 DEF EndBatch, BatchFrame, PeerFrame
  <2>5. CASE FlushDone
    BY <2>5 DEF FlushDone, FlushFrame, PeerFrame
  <2> QED
    BY <2>1, <2>2, <2>3, <2>4, <2>5
<1> QED
  BY <1>1, Known, QuietStep

\* One frame moves from the fd to the batch.
LEMMA DrainReadStep ==
  ASSUME PeerInv, DrainRead
  PROVE  PeerInv'
<1> DEFINE r == [s |-> Head(fd), t_ms |-> now]
<1>1. /\ UNCHANGED <<rsmVars, toldVars, pending>> /\ UNCHANGED <<kernelVars, callVars, spent>>
      /\ fd # <<>> /\ fd' = Tail(fd) /\ batch' = Append(batch, r)
      /\ sum' = sum /\ log' = log /\ now' = now /\ pc' # "idle"
  BY DEF DrainRead, PeerFrame
<1>2. /\ fd \in Seq(Frame) /\ batch \in Seq(Read) /\ now \in Int
      /\ \A i \in 1 .. Len(fd) : fd[i].kind = "rst" => spent.rst # 0
      /\ \A i \in 1 .. Len(batch) : batch[i].s.kind = "rst" => spent.rst # 0
  BY Known
<1>3. /\ Len(fd) \in Nat \ {0} /\ Head(fd) = fd[1] /\ fd[1] \in Frame
      /\ Tail(fd) \in Seq(Frame) /\ Len(Tail(fd)) = Len(fd) - 1
      /\ \A i \in 1 .. Len(fd) - 1 : Tail(fd)[i] = fd[i + 1]
  BY <1>1, <1>2, TailFacts
<1>4. r \in Read /\ r.s = fd[1]
  BY <1>2, <1>3 DEF Read
<1> HIDE DEF r
<1>5. /\ batch' \in Seq(Read) /\ Len(batch') = Len(batch) + 1 /\ batch'[Len(batch) + 1] = r
      /\ Len(batch) \in Nat /\ \A i \in 1 .. Len(batch) : batch'[i] = batch[i]
  BY <1>1, <1>2, <1>4, AppendProperties
<1>6. ASSUME NEW i \in 1 .. Len(fd'), fd'[i].kind = "rst" PROVE spent.rst # 0
  <2>1. i + 1 \in 1 .. Len(fd) /\ fd[i + 1].kind = "rst"
    BY <1>1, <1>3, <1>6
  <2> QED
    BY <1>2, <2>1
<1>7. ASSUME NEW i \in 1 .. Len(batch'), batch'[i].s.kind = "rst" PROVE spent.rst # 0
  <2>1. CASE i = Len(batch) + 1
    <3>1. 1 \in 1 .. Len(fd) /\ fd[1].kind = "rst"
      BY <1>3, <1>4, <1>5, <1>7, <2>1
    <3> QED
      BY <1>2, <3>1
  <2>2. CASE i # Len(batch) + 1
    <3>1. i \in 1 .. Len(batch) /\ batch[i].s.kind = "rst"
      BY <1>5, <1>7, <2>2
    <3> QED
      BY <1>2, <3>1
  <2> QED
    BY <2>1, <2>2
<1>8. fd' \in Seq(Frame)
  BY <1>1, <1>3
<1> QED
  BY <1>1, <1>5, <1>6, <1>7, <1>8, Known, QuietStep

\* The early return at a RST.
LEMMA HandleRstStep ==
  ASSUME PeerInv, HandleRst
  PROVE  PeerInv'
<1>1. /\ UNCHANGED <<rsmVars, toldVars, pending>> /\ UNCHANGED <<kernelVars, callVars, spent>>
      /\ batch # <<>> /\ Head(batch).s.kind = "rst" /\ batch' = <<>>
      /\ sum' = [sum EXCEPT !.saw_rst = TRUE] /\ fd' = fd /\ log' = log /\ now' = now
  BY DEF HandleRst, Taking, BatchFrame, PeerFrame
<1>2. spent.rst # 0
  BY <1>1, RestOfBatch
<1>3. batch' \in Seq(Read) /\ \A i \in 1 .. Len(batch') : FALSE
  BY <1>1
<1>4. /\ sum' \in SumType /\ sum'.acks_sent = sum.acks_sent
      /\ sum'.ack_send_failures = sum.ack_send_failures /\ sum'.dup_acks_sent = sum.dup_acks_sent
  BY <1>1, Known DEF SumType
<1> QED
  BY <1>1, <1>2, <1>3, <1>4, Known, QuietStep

\* A segment without data.
LEMMA HandleControlStep ==
  ASSUME PeerInv, HandleControl
  PROVE  PeerInv'
<1>1. /\ UNCHANGED <<rsmVars, toldVars, pending>> /\ UNCHANGED <<kernelVars, callVars, spent>>
      /\ batch # <<>> /\ batch' = Tail(batch) /\ pc' # "idle"
      /\ sum' = sum \/ sum' = [sum EXCEPT !.saw_fin = TRUE]
      /\ fd' = fd /\ log' = log /\ now' = now
  BY DEF HandleControl, Taking, BatchFrame, PeerFrame
<1>2. /\ batch' \in Seq(Read)
      /\ \A i \in 1 .. Len(batch') : batch'[i].s.kind = "rst" => spent.rst # 0
  BY <1>1, RestOfBatch
<1>3. /\ sum' \in SumType /\ sum'.acks_sent = sum.acks_sent
      /\ sum'.ack_send_failures = sum.ack_send_failures /\ sum'.dup_acks_sent = sum.dup_acks_sent
  BY <1>1, Known DEF SumType
<1> QED
  BY <1>1, <1>2, <1>3, Known, QuietStep

\* The policy takes a segment.
LEMMA HandleDropStep ==
  ASSUME PeerInv, HandleDrop
  PROVE  PeerInv'
<1>1. PICK t : t = IF OpensHole THEN HoleTime ELSE sum.t_hole_created
  OBVIOUS
<1>2. PICK d : d = IF log.firstDrop = NoTime THEN Head(batch).t_ms ELSE log.firstDrop
  OBVIOUS
<1>3. PICK B : B = log.lost \cup Bytes(seg.pos, seg.len)
  OBVIOUS
<1>4. PICK sm : sm = [sum EXCEPT !.segments_dropped = @ + 1, !.t_hole_created = t]
  OBVIOUS
<1>5. /\ UNCHANGED <<rsmVars, toldVars, pending>> /\ UNCHANGED <<kernelVars, callVars, spent>>
      /\ batch # <<>> /\ batch' = Tail(batch) /\ pc' # "idle"
      /\ sum' = sm \/ sum' = [sm EXCEPT !.retransmits = @ + 1]
      /\ fd' = fd /\ now' = now
      /\ log' = [log EXCEPT !.firstDrop = d, !.lost = B]
  BY <1>1, <1>2, <1>3, <1>4 DEF HandleDrop, SeeData, Taking, BatchFrame, PeerFrame
<1>6. /\ Head(batch) \in Read /\ batch' \in Seq(Read)
      /\ \A i \in 1 .. Len(batch') : batch'[i].s.kind = "rst" => spent.rst # 0
  BY <1>5, RestOfBatch
<1>7. t \in Int /\ d \in Int /\ B \subseteq Int
  <2>1. sum \in SumType /\ log \in LogType
    BY Known
  <2>2. Head(batch).t_ms \in Int
    BY <1>6 DEF Read
  <2>3. sum.t_hole_created \in Int /\ log.firstDrop \in Int /\ log.lost \subseteq Int
    BY <2>1 DEF SumType, LogType
  <2> QED
    BY <1>1, <1>2, <1>3, <2>2, <2>3 DEF HoleTime, Bytes
<1>8. /\ sm \in SumType /\ sm.acks_sent = sum.acks_sent
      /\ sm.ack_send_failures = sum.ack_send_failures /\ sm.dup_acks_sent = sum.dup_acks_sent
  BY <1>4, <1>7, DropCounted, Known
<1>9. /\ sum' \in SumType /\ sum'.acks_sent = sm.acks_sent
      /\ sum'.ack_send_failures = sm.ack_send_failures /\ sum'.dup_acks_sent = sm.dup_acks_sent
  BY <1>5, <1>8, CountedRexmt
<1>10. log' \in LogType /\ log'.accepted = log.accepted /\ log'.repeats = log.repeats
  <2>1. log \in LogType /\ B \in SUBSET Int /\ log' = [log EXCEPT !.firstDrop = d, !.lost = B]
    BY <1>5, <1>7, Known
  <2> QED
    BY <1>7, <2>1 DEF LogType
<1> QED
  BY <1>5, <1>6, <1>8, <1>9, <1>10, Known, QuietStep

\* The return after the forced flush.
LEMMA ReturnStep ==
  ASSUME PeerInv, Return
  PROVE  PeerInv'
<1>1. /\ UNCHANGED <<rsmVars, toldVars, pending>> /\ UNCHANGED <<kernelVars, callVars, spent>>
      /\ pending = <<>> /\ fd' = fd /\ batch' = batch /\ log' = log /\ now' = now
      /\ sum' = [sum EXCEPT !.bytes_delivered = delivered,
                            !.completed = delivered >= sum.bytes_wanted]
  BY DEF Return, FlushFrame, PeerFrame
<1>2. /\ sum' \in SumType /\ sum'.acks_sent = sum.acks_sent
      /\ sum'.ack_send_failures = sum.ack_send_failures /\ sum'.dup_acks_sent = sum.dup_acks_sent
  <2>1. sum \in SumType /\ delivered \in Int
    BY Known, WrapType, SeqNoValue DEF delivered
  <2>2. (delivered >= sum.bytes_wanted) \in BOOLEAN
    BY <2>1 DEF SumType
  <2>3. PICK b \in BOOLEAN : b = (delivered >= sum.bytes_wanted)
    BY <2>2, Zenon
  <2>4. sum' = [sum EXCEPT !.bytes_delivered = delivered, !.completed = b]
    BY <1>1, <2>3, Zenon
  <2> QED
    BY <2>1, <2>4 DEF SumType
<1> QED
  BY <1>1, <1>2, Known, QuietStep

\* Time passes.
LEMMA TickStep ==
  ASSUME PeerInv, Tick
  PROVE  PeerInv'
<1>1. /\ UNCHANGED <<rsmVars, toldVars, pending>> /\ UNCHANGED <<kernelVars, callVars, spent>>
      /\ fd' = fd /\ batch' = batch /\ sum' = sum /\ log' = log /\ now' = now + 1 /\ pc' = pc
  BY DEF Tick
<1>2. now' \in Int
  BY <1>1, Known
<1> QED
  BY <1>1, <1>2, Known, QuietStep

-----------------------------------------------------------------------------
(* A segment is accepted *)

\* What the reassembler holds afterwards.
LEMMA AcceptFacts ==
  ASSUME PeerInv, batch # <<>>
  PROVE  /\ Accepted \subseteq 0 .. StreamLen - 1 /\ got \subseteq Accepted
         /\ NewFrontier \in frontier .. StreamLen /\ IsFrontier(NewFrontier, Accepted)
<1>1. Head(batch) \in Read /\ StreamLen \in Nat
  BY Known, RestOfBatch
<1>2. seg.pos \in Nat /\ seg.len \in Nat /\ seg.pos + seg.len <= StreamLen
  <2>1. seg \in Frame
    BY <1>1 DEF seg, Read
  <2> QED
    BY <2>1 DEF Frame
<1>3. Bytes(seg.pos, seg.len) \subseteq 0 .. StreamLen - 1
  BY <1>1, <1>2 DEF Bytes
<1>4. /\ got \subseteq 0 .. StreamLen - 1 /\ frontier \in 0 .. StreamLen
      /\ IsFrontier(frontier, got)
  BY DEF PeerInv, AckInv, StreamInv
<1>5. Accepted \subseteq 0 .. StreamLen - 1 /\ got \subseteq Accepted
  BY <1>3, <1>4 DEF Accepted
<1>6. \E x \in frontier .. StreamLen : IsFrontier(x, Accepted)
  BY <1>4, <1>5, FrontierFacts
<1>7. NewFrontier \in frontier .. StreamLen /\ IsFrontier(NewFrontier, Accepted)
  BY <1>6, Zenon DEF NewFrontier
<1> QED
  BY <1>5, <1>7

\* The ACK that is queued, H and f being what is then held and delivered.
LEMMA NewAck ==
  ASSUME PeerInv, ShortStream, NEW H, H \subseteq 0 .. StreamLen - 1, NEW f \in frontier .. StreamLen,
         IsFrontier(f, H)
  PROVE  /\ now + AckDelay \in Int /\ SeqOf(f) \in SeqNo /\ PosOf(SeqOf(f)) = f
         /\ Sacks(H, f) \in Seq(Block)
         /\ \A k \in 1 .. Len(Sacks(H, f)) : BlockBytes(Sacks(H, f)[k]) \subseteq H
<1>1. f \in 0 .. StreamLen /\ f \in Nat /\ f \notin H
  BY Known DEF IsFrontier
<1>2. /\ Sacks(H, f) \in Seq(Block)
      /\ \A k \in 1 .. Len(Sacks(H, f)) : BlockBytes(Sacks(H, f)[k]) \subseteq H
  BY <1>1, SackFacts
<1>3. SeqOf(f) \in SeqNo /\ PosOf(SeqOf(f)) = f
  BY <1>1, Numbers
<1>4. AckDelay \in Nat /\ now \in Int
  BY BoundsAssumption, Known
<1>5. now + AckDelay \in Int
  BY <1>4
<1> QED
  BY <1>2, <1>3, <1>5

\* accept() and queue_ack(): the new ACK is true, last in order, and rightly marked.
LEMMA HandleDataStep ==
  ASSUME PeerInv, ShortStream, HandleData
  PROVE  PeerInv'
<1>1. PICK H : H = Accepted
  OBVIOUS
<1>2. PICK f : f = NewFrontier
  OBVIOUS
<1>3. PICK b \in BOOLEAN : b = (f = frontier)
  <2>1. (f = frontier) \in BOOLEAN
    OBVIOUS
  <2> QED
    BY <2>1, Zenon
<1>4. PICK a : a = [due |-> now + AckDelay, ack |-> SeqOf(f), sacks |-> Sacks(H, f), is_dup |-> b]
  OBVIOUS
<1>5. PICK t : t = IF sum.t_first_data = NoTime THEN Head(batch).t_ms ELSE sum.t_first_data
  OBVIOUS
<1>6. PICK u : u = IF is_rexmt THEN sum.t_last_original ELSE Head(batch).t_ms
  OBVIOUS
<1>7. PICK v : v = IF FillsHole THEN Head(batch).t_ms ELSE sum.t_hole_filled
  OBVIOUS
<1>8. PICK w : w = IF FillsHole THEN Head(batch).t_ms - sum.t_hole_created ELSE sum.hol_delay_ms
  OBVIOUS
<1>9. PICK sm : sm = [sum EXCEPT !.t_first_data = t, !.t_last_original = u,
                                 !.t_hole_filled = v, !.hol_delay_ms = w]
  OBVIOUS
<1>10. /\ got' = H /\ frontier' = f /\ batch # <<>> /\ batch' = Tail(batch) /\ pc' # "idle"
       /\ told' = told /\ acked' = acked /\ fd' = fd /\ spent' = spent /\ now' = now
       /\ wrote' = wrote /\ snd_max' = snd_max /\ snd_una' = snd_una /\ call' = call
       /\ log' = [log EXCEPT !.accepted = @ + 1]
  BY <1>1, <1>2 DEF HandleData, SeeData, Taking, BatchFrame, PeerFrame, toldVars, kernelVars, callVars
<1>11. pending' = Append(pending, a)
  <2>1. pending' = queue_ack(SeqOf(NewFrontier), Sacks(Accepted, NewFrontier), NewFrontier = frontier)
    BY DEF HandleData
  <2>2. pending' = queue_ack(SeqOf(f), Sacks(H, f), b)
    BY <1>1, <1>2, <1>3, <2>1
  <2> QED
    BY <1>4, <2>2 DEF queue_ack
<1>12. sum' = sm \/ sum' = [sm EXCEPT !.retransmits = @ + 1]
  BY <1>5, <1>6, <1>7, <1>8, <1>9 DEF HandleData, SeeData
<1>13. /\ Head(batch) \in Read /\ batch' \in Seq(Read)
       /\ \A i \in 1 .. Len(batch') : batch'[i].s.kind = "rst" => spent.rst # 0
  BY <1>10, RestOfBatch
<1>14. /\ H \subseteq 0 .. StreamLen - 1 /\ got \subseteq H /\ f \in frontier .. StreamLen
       /\ IsFrontier(f, H)
  BY <1>1, <1>2, <1>10, AcceptFacts
<1>15. /\ a \in Ack /\ a.ack = SeqOf(f) /\ PosOf(a.ack) = f /\ a.is_dup = b
       /\ \A k \in 1 .. Len(a.sacks) : BlockBytes(a.sacks[k]) \subseteq H
  <2>1. /\ now + AckDelay \in Int /\ SeqOf(f) \in SeqNo /\ PosOf(SeqOf(f)) = f
        /\ Sacks(H, f) \in Seq(Block)
        /\ \A k \in 1 .. Len(Sacks(H, f)) : BlockBytes(Sacks(H, f)[k]) \subseteq H
    BY <1>14, NewAck
  <2>2. a.ack = SeqOf(f) /\ a.sacks = Sacks(H, f) /\ a.is_dup = b
    BY <1>4
  <2>3. a \in Ack
    BY <1>4, <2>1 DEF Ack
  <2> QED
    BY <2>1, <2>2, <2>3
<1>16. /\ pending \in Seq(Ack) /\ Len(pending) \in Nat /\ pending' \in Seq(Ack)
       /\ Len(pending') = Len(pending) + 1 /\ pending'[Len(pending) + 1] = a
       /\ \A i \in 1 .. Len(pending) : pending'[i] = pending[i]
  BY <1>11, <1>15, Known, AppendProperties
<1>17. StreamInv'
  <2>1. f \in 0 .. StreamLen /\ acked <= f
    BY <1>14, Known
  <2>2. told \subseteq H
    BY <1>14 DEF PeerInv, AckInv, StreamInv
  <2>3. IsFrontier(frontier, got)'
    BY <1>10, <1>14 DEF IsFrontier
  <2> QED
    BY <1>10, <1>13, <1>14, <2>1, <2>2, <2>3, Known DEF StreamInv
<1>18. QueueInv'
  <2>0. /\ \A i \in 1 .. Len(pending) : Truthful(pending[i])
        /\ \A i, j \in 1 .. Len(pending) :
              i < j => PosOf(pending[i].ack) <= PosOf(pending[j].ack)
    BY DEF PeerInv, AckInv, QueueInv
  <2>1. ASSUME NEW x, Truthful(x) PROVE Truthful(x)'
    <3>1. x \in Ack /\ x.ack = SeqOf(PosOf(x.ack)) /\ PosOf(x.ack) \in acked .. frontier
      BY <2>1 DEF Truthful
    <3>2. PosOf(x.ack) \in acked .. f
      BY <1>14, <3>1, Known
    <3>3. \A k \in 1 .. Len(x.sacks) : BlockBytes(x.sacks[k]) \subseteq H
      BY <1>14, <2>1 DEF Truthful
    <3> QED
      BY <1>10, <3>1, <3>2, <3>3 DEF Truthful
  <2>2. Truthful(a)'
    <3>1. PosOf(a.ack) \in acked .. f
      BY <1>14, <1>15, Known
    <3> QED
      BY <1>10, <1>15, <3>1 DEF Truthful
  <2>3. ASSUME NEW i \in 1 .. Len(pending') PROVE Truthful(pending[i])'
    <3>1. PICK x : x = pending'[i]
      OBVIOUS
    <3>2. x = a \/ (i \in 1 .. Len(pending) /\ x = pending[i])
      BY <1>16, <3>1
    <3>3. Truthful(x)'
      BY <2>0, <2>1, <2>2, <3>2
    <3> QED
      BY <3>1, <3>3 DEF Truthful
  <2>4. ASSUME NEW i \in 1 .. Len(pending'), NEW j \in 1 .. Len(pending'), i < j
        PROVE  PosOf(pending'[i].ack) <= PosOf(pending'[j].ack)
    <3>1. i \in 1 .. Len(pending) /\ pending'[i] = pending[i]
      BY <1>16, <2>4
    <3>2. CASE j \in 1 .. Len(pending)
      BY <1>16, <2>0, <2>4, <3>1, <3>2
    <3>3. CASE j = Len(pending) + 1
      <4>1. Truthful(pending[i])
        BY <2>0, <3>1
      <4>2. PosOf(pending[i].ack) \in acked .. frontier
        BY <4>1 DEF Truthful
      <4>3. PosOf(pending'[j].ack) = f
        BY <1>15, <1>16, <3>3
      <4> QED
        <5>1. PICK x : x = PosOf(pending[i].ack)
          OBVIOUS
        <5>2. x <= f
          <6>1. /\ x \in acked .. frontier /\ frontier <= f
                /\ acked \in Int /\ frontier \in Int /\ f \in Int
            BY <1>14, <4>2, <5>1, Known
          <6> QED
            BY <6>1
        <5> QED
          BY <3>1, <4>3, <5>1, <5>2
    <3> QED
      BY <1>16, <3>2, <3>3
  <2> QED
    BY <1>16, <2>3, <2>4 DEF QueueInv
<1>19. RstInv'
  BY <1>10, <1>13, Known DEF RstInv
<1>20. log' \in LogType /\ log'.accepted = log.accepted + 1 /\ log'.repeats = log.repeats
  <2>1. log \in LogType /\ log.accepted + 1 \in Int
    BY Known DEF LogType
  <2> QED
    BY <1>10, <2>1 DEF LogType
<1>21. /\ sum' \in SumType /\ sum'.acks_sent = sum.acks_sent
       /\ sum'.ack_send_failures = sum.ack_send_failures /\ sum'.dup_acks_sent = sum.dup_acks_sent
  <2>1. sum \in SumType /\ Head(batch).t_ms \in Int
    BY <1>13, Known DEF Read
  <2>2. t \in Int /\ u \in Int /\ v \in Int /\ w \in Int
    <3>1. /\ sum.t_first_data \in Int /\ sum.t_last_original \in Int /\ sum.t_hole_filled \in Int
          /\ sum.hol_delay_ms \in Int /\ sum.t_hole_created \in Int
      BY <2>1 DEF SumType
    <3> QED
      BY <1>5, <1>6, <1>7, <1>8, <2>1, <3>1
  <2>3. /\ sm \in SumType /\ sm.acks_sent = sum.acks_sent
        /\ sm.ack_send_failures = sum.ack_send_failures /\ sm.dup_acks_sent = sum.dup_acks_sent
    BY <1>9, <2>1, <2>2 DEF SumType
  <2>4. /\ sum' \in SumType /\ sum'.acks_sent = sm.acks_sent
        /\ sum'.ack_send_failures = sm.ack_send_failures /\ sum'.dup_acks_sent = sm.dup_acks_sent
    BY <1>12, <2>3, CountedRexmt
  <2> QED
    BY <2>3, <2>4
<1>22. ShapeInv'
  BY <1>10, <1>20, <1>21, Known DEF ShapeInv
<1>23. CountInv'
  <2>1. sum.acks_sent + sum.ack_send_failures + Len(pending) = log.accepted
    BY DEF PeerInv, CountInv
  <2>2. sum.acks_sent \in Int /\ sum.ack_send_failures \in Int
    BY Known DEF SumType
  <2> QED
    BY <1>16, <1>20, <1>21, <2>1, <2>2 DEF CountInv
<1>24. DupInv'
  <2> SUFFICES ASSUME spent.fail = 0
               PROVE  /\ sum'.dup_acks_sent = log'.repeats
                      /\ \A i \in 1 .. Len(pending') :
                            pending'[i].is_dup <=> PosOf(pending'[i].ack) = Before(i)'
                      /\ Last' = frontier'
    BY <1>10 DEF DupInv
  <2>1. /\ sum.dup_acks_sent = log.repeats
        /\ \A i \in 1 .. Len(pending) : pending[i].is_dup <=> PosOf(pending[i].ack) = Before(i)
        /\ Last = frontier
    BY DEF PeerInv, DupInv
  <2>2. \A i \in 1 .. Len(pending) : Before(i)' = Before(i)
    BY <1>10, <1>16 DEF Before
  <2>3. PICK n : n = Len(pending)
    OBVIOUS
  <2>4. Before(n + 1)' = Last
    <3>1. CASE pending = <<>>
      <4>1. n + 1 = 1
        BY <2>3, <3>1
      <4> QED
        BY <1>10, <3>1, <4>1 DEF Before, Last
    <3>2. CASE pending # <<>>
      <4>1. n \in 1 .. Len(pending) /\ (n + 1) - 1 = n /\ n + 1 # 1
        BY <1>16, <2>3, <3>2, EmptySeq
      <4>2. pending'[n] = pending[n]
        BY <1>16, <4>1
      <4> QED
        BY <2>3, <3>2, <4>1, <4>2 DEF Before, Last
    <3> QED
      BY <3>1, <3>2
  <2>5. ASSUME NEW i \in 1 .. Len(pending')
        PROVE  pending'[i].is_dup <=> PosOf(pending'[i].ack) = Before(i)'
    <3>1. CASE i \in 1 .. Len(pending)
      BY <1>16, <2>1, <2>2, <3>1
    <3>2. CASE i = n + 1
      <4>1. pending'[i] = a /\ Before(i)' = frontier
        BY <1>16, <2>1, <2>3, <2>4, <3>2
      <4> QED
        BY <1>3, <1>15, <4>1
    <3> QED
      BY <1>16, <2>3, <3>1, <3>2
  <2>6. Last' = frontier'
    <3>1. pending' # <<>>
      BY <1>16, EmptySeq
    <3> QED
      BY <1>10, <1>15, <1>16, <3>1 DEF Last
  <2> QED
    BY <1>20, <1>21, <2>1, <2>5, <2>6
<1> QED
  BY <1>17, <1>18, <1>19, <1>22, <1>23, <1>24 DEF PeerInv, AckInv

-----------------------------------------------------------------------------
(* flush_acks() *)

\* The first ACK of the queue and the rest of it.
LEMMA QueueFacts ==
  ASSUME PeerInv, pending # <<>>
  PROVE  /\ pending \in Seq(Ack) /\ Len(pending) \in Nat \ {0} /\ Head(pending) = pending[1]
         /\ Tail(pending) \in Seq(Ack) /\ Len(Tail(pending)) = Len(pending) - 1
         /\ \A i \in 1 .. Len(pending) - 1 : Tail(pending)[i] = pending[i + 1]
         /\ \A i \in 1 .. Len(pending) : Truthful(pending[i])
         /\ \A i, j \in 1 .. Len(pending) :
               i < j => PosOf(pending[i].ack) <= PosOf(pending[j].ack)
<1>1. pending \in Seq(Ack)
  BY Known
<1>2. /\ \A i \in 1 .. Len(pending) : Truthful(pending[i])
      /\ \A i, j \in 1 .. Len(pending) : i < j => PosOf(pending[i].ack) <= PosOf(pending[j].ack)
  BY DEF PeerInv, AckInv, QueueInv
<1> QED
  BY <1>1, <1>2, TailFacts

\* The kernel takes the first ACK for the position it stands for.
LEMMA FirstAck ==
  ASSUME PeerInv, ShortStream, pending # <<>>
  PROVE  /\ PosOf(Head(pending).ack) \in acked .. frontier
         /\ AckPos(Head(pending).ack) = PosOf(Head(pending).ack)
         /\ ToldBy(Head(pending)) \subseteq got
<1>1. PICK h : h = Head(pending)
  OBVIOUS
<1>2. Truthful(h)
  <2>1. 1 \in 1 .. Len(pending) /\ h = pending[1]
    BY <1>1, QueueFacts
  <2> QED
    BY <2>1, QueueFacts
<1>3. /\ h.ack = SeqOf(PosOf(h.ack)) /\ PosOf(h.ack) \in acked .. frontier
      /\ \A k \in 1 .. Len(h.sacks) : BlockBytes(h.sacks[k]) \subseteq got
  BY <1>2 DEF Truthful
<1>4. PICK p : p = PosOf(h.ack)
  OBVIOUS
<1>5. /\ acked \in Nat /\ p \in acked .. frontier /\ p \in 0 .. StreamLen /\ acked \in 0 .. StreamLen
      /\ h.ack = SeqOf(p)
  BY <1>3, <1>4, Known
<1>6. AckPos(h.ack) = p
  <2>1. int32(seq_sub(SeqOf(p), SeqOf(acked))) = p - acked
    BY <1>5, Numbers
  <2> QED
    BY <1>5, <2>1 DEF AckPos
<1>7. ToldBy(h) \subseteq got
  <2>1. IsFrontier(frontier, got) /\ frontier \in Nat
    BY Known DEF PeerInv, AckInv, StreamInv
  <2>2. 0 .. p - 1 \subseteq got
    BY <1>5, <2>1 DEF IsFrontier
  <2> QED
    BY <1>3, <1>6, <2>2 DEF ToldBy
<1> QED
  BY <1>1, <1>4, <1>5, <1>6, <1>7

\* What is left of the queue is still true and in order, seen from acked or
\* from the ACK that has just gone out.
LEMMA RestOfQueue ==
  ASSUME PeerInv, pending # <<>>, pending' = Tail(pending), UNCHANGED <<got, frontier>>,
         acked' = acked \/ acked' = PosOf(Head(pending).ack)
  PROVE  QueueInv'
<1>1. PICK n : n = Len(pending)
  OBVIOUS
<1>2. /\ n \in Nat \ {0} /\ pending' \in Seq(Ack) /\ Len(pending') = n - 1
      /\ \A i \in 1 .. n - 1 : pending'[i] = pending[i + 1]
      /\ \A i \in 1 .. n : Truthful(pending[i])
      /\ \A i, j \in 1 .. n : i < j => PosOf(pending[i].ack) <= PosOf(pending[j].ack)
      /\ Head(pending) = pending[1]
  BY <1>1, QueueFacts
<1>3. ASSUME NEW i \in 1 .. Len(pending') PROVE Truthful(pending[i])'
  <2>1. PICK x : x = pending[i + 1]
    OBVIOUS
  <2>2. i + 1 \in 1 .. n /\ 1 \in 1 .. n /\ 1 < i + 1 /\ pending'[i] = x
    BY <1>2, <2>1
  <2>3. Truthful(x) /\ PosOf(pending[1].ack) <= PosOf(x.ack)
    BY <1>2, <2>1, <2>2
  <2>4. /\ x \in Ack /\ x.ack = SeqOf(PosOf(x.ack)) /\ PosOf(x.ack) \in acked .. frontier
        /\ \A k \in 1 .. Len(x.sacks) : BlockBytes(x.sacks[k]) \subseteq got
    BY <2>3 DEF Truthful
  <2>5. PosOf(x.ack) \in acked' .. frontier
    <3>1. CASE acked' = acked
      BY <2>4, <3>1
    <3>2. CASE acked' = PosOf(Head(pending).ack)
      <4>1. acked' = PosOf(pending[1].ack)
        BY <1>2, <3>2
      <4>2. PosOf(pending[1].ack) \in acked .. frontier
        BY <1>2, <2>2 DEF Truthful
      <4>3. PICK y : y = PosOf(x.ack)
        OBVIOUS
      <4>4. acked \in Int /\ frontier \in Int
        BY Known
      <4>5. y \in acked .. frontier /\ acked' <= y /\ acked' \in acked .. frontier
        BY <2>3, <2>4, <4>1, <4>2, <4>3
      <4>6. y \in acked' .. frontier
        BY <4>4, <4>5
      <4> QED
        BY <4>3, <4>6
    <3> QED
      BY <3>1, <3>2
  <2>6. Truthful(x)'
    BY <2>4, <2>5 DEF Truthful
  <2> QED
    BY <2>2, <2>6 DEF Truthful
<1>4. ASSUME NEW i \in 1 .. Len(pending'), NEW j \in 1 .. Len(pending'), i < j
      PROVE  PosOf(pending'[i].ack) <= PosOf(pending'[j].ack)
  <2>1. i + 1 \in 1 .. n /\ j + 1 \in 1 .. n /\ i + 1 < j + 1
    BY <1>2, <1>4
  <2>2. pending'[i] = pending[i + 1] /\ pending'[j] = pending[j + 1]
    BY <1>2
  <2> QED
    BY <1>2, <2>1, <2>2
<1> QED
  BY <1>2, <1>3, <1>4 DEF QueueInv

\* A failed write takes the ACK out of the queue and counts it.
LEMMA FlushFailStep ==
  ASSUME PeerInv, FlushFail
  PROVE  PeerInv'
<1>1. /\ pending # <<>> /\ pending' = Tail(pending) /\ Spend("fail")
      /\ sum' = [sum EXCEPT !.ack_send_failures = @ + 1]
      /\ pc' = pc /\ log' = log /\ fd' = fd /\ batch' = batch /\ now' = now
      /\ got' = got /\ frontier' = frontier /\ told' = told /\ acked' = acked
      /\ wrote' = wrote /\ snd_max' = snd_max /\ snd_una' = snd_una /\ call' = call
      /\ pc # "idle"
  BY DEF FlushFail, AckReady, CountFailure, FlushFrame, PeerFrame, rsmVars, toldVars, kernelVars,
         callVars
<1>2. /\ spent' \in [rexmt : Nat, control : Nat, rst : Nat, fail : Nat]
      /\ spent'.rst = spent.rst /\ spent'.fail # 0
  BY <1>1, Spent
<1>3. StreamInv'
  BY <1>1 DEF PeerInv, AckInv, StreamInv, IsFrontier
<1>4. QueueInv'
  BY <1>1, RestOfQueue
<1>5. RstInv'
  BY <1>1, <1>2, Known DEF RstInv
<1>6. sum.acks_sent \in Int /\ sum.ack_send_failures \in Int /\ sum.ack_send_failures + 1 \in Int
  <2>1. sum \in SumType
    BY Known
  <2>2. sum.acks_sent \in Int /\ sum.ack_send_failures \in Int
    BY <2>1 DEF SumType
  <2> QED
    BY <2>2
<1>7. /\ sum' \in SumType /\ sum'.acks_sent = sum.acks_sent
      /\ sum'.ack_send_failures = sum.ack_send_failures + 1
  BY <1>1, <1>6, Known DEF SumType
<1>8. ShapeInv'
  BY <1>1, <1>7, Known DEF ShapeInv
<1>9. CountInv'
  <2>1. sum.acks_sent + sum.ack_send_failures + Len(pending) = log.accepted
    BY DEF PeerInv, CountInv
  <2>2. Len(pending) \in Nat /\ Len(pending') = Len(pending) - 1
    BY <1>1, QueueFacts
  <2> QED
    BY <1>1, <1>6, <1>7, <2>1, <2>2 DEF CountInv
<1>10. DupInv'
  BY <1>2 DEF DupInv
<1> QED
  BY <1>3, <1>4, <1>5, <1>8, <1>9, <1>10 DEF PeerInv, AckInv

\* A written ACK is true, does not go back, and repeats its predecessor if marked so.
LEMMA FlushSendStep ==
  ASSUME PeerInv, ShortStream, FlushSend
  PROVE  PeerInv' /\ acked' >= acked
<1>1. PICK h : h = Head(pending)
  OBVIOUS
<1>2. PICK p : p = PosOf(h.ack)
  OBVIOUS
<1>3. /\ pending # <<>> /\ pending' = Tail(pending)
      /\ told' = told \cup ToldBy(h) /\ acked' = AckPos(h.ack)
      /\ sum' = [sum EXCEPT !.acks_sent = @ + 1,
                            !.dup_acks_sent = IF h.is_dup THEN @ + 1 ELSE @]
      /\ log' = [log EXCEPT !.repeats = IF AckPos(h.ack) = acked THEN @ + 1 ELSE @]
      /\ pc' = pc /\ fd' = fd /\ batch' = batch /\ now' = now /\ spent' = spent
      /\ got' = got /\ frontier' = frontier
      /\ wrote' = wrote /\ snd_max' = snd_max /\ snd_una' = snd_una /\ call' = call
      /\ pc # "idle"
  BY <1>1 DEF FlushSend, AckReady, FlushFrame, PeerFrame, rsmVars, kernelVars, callVars
<1>4. p \in acked .. frontier /\ AckPos(h.ack) = p /\ ToldBy(h) \subseteq got
  BY <1>1, <1>2, <1>3, FirstAck
<1>5. acked' = p /\ p \in Nat /\ acked <= p /\ p <= frontier
  BY <1>3, <1>4, Known
<1>6. StreamInv'
  <2>1. told' \subseteq got
    BY <1>3, <1>4 DEF PeerInv, AckInv, StreamInv
  <2>2. snd_una <= p
    BY <1>5, Known
  <2> QED
    BY <1>3, <1>5, <2>1, <2>2 DEF PeerInv, AckInv, StreamInv, IsFrontier
<1>7. QueueInv'
  BY <1>1, <1>2, <1>3, <1>5, RestOfQueue
<1>8. RstInv'
  BY <1>3, Known DEF RstInv
<1>9. PICK d : d = IF h.is_dup THEN sum.dup_acks_sent + 1 ELSE sum.dup_acks_sent
  OBVIOUS
<1>10. PICK r : r = IF p = acked THEN log.repeats + 1 ELSE log.repeats
  OBVIOUS
<1>11. /\ sum.acks_sent \in Int /\ sum.ack_send_failures \in Int /\ sum.acks_sent + 1 \in Int
       /\ sum.dup_acks_sent \in Int /\ d \in Int
  <2>1. sum.acks_sent \in Int /\ sum.ack_send_failures \in Int /\ sum.dup_acks_sent \in Int
    BY Known DEF SumType
  <2> QED
    BY <1>9, <2>1
<1>12. log.accepted \in Int /\ log.repeats \in Int /\ r \in Int
  <2>1. log.accepted \in Int /\ log.repeats \in Int
    BY Known DEF LogType
  <2> QED
    BY <1>10, <2>1
<1>13. /\ sum' \in SumType /\ sum'.acks_sent = sum.acks_sent + 1
       /\ sum'.ack_send_failures = sum.ack_send_failures /\ sum'.dup_acks_sent = d
  <2>1. sum \in SumType /\ sum' = [sum EXCEPT !.acks_sent = @ + 1, !.dup_acks_sent = d]
    BY <1>3, <1>9, Known
  <2> QED
    BY <1>11, <2>1 DEF SumType
<1>14. log' \in LogType /\ log'.accepted = log.accepted /\ log'.repeats = r
  <2>1. log \in LogType /\ log' = [log EXCEPT !.repeats = r]
    BY <1>3, <1>4, <1>10, Known
  <2> QED
    BY <1>12, <2>1 DEF LogType
<1>15. ShapeInv'
  BY <1>3, <1>13, <1>14, Known DEF ShapeInv
<1>16. PICK n : n = Len(pending)
  OBVIOUS
<1>17. /\ n \in Nat \ {0} /\ Len(pending') = n - 1 /\ h = pending[1] /\ pending' \in Seq(Ack)
       /\ \A i \in 1 .. n - 1 : pending'[i] = pending[i + 1]
  BY <1>1, <1>3, <1>16, QueueFacts
<1>18. CountInv'
  <2>1. sum.acks_sent + sum.ack_send_failures + n = log.accepted
    BY <1>16 DEF PeerInv, CountInv
  <2>2. sum'.acks_sent + sum'.ack_send_failures + Len(pending')
           = (sum.acks_sent + 1) + sum.ack_send_failures + (n - 1)
    BY <1>13, <1>17
  <2>3. (sum.acks_sent + 1) + sum.ack_send_failures + (n - 1) = log.accepted
    BY <1>11, <1>17, <2>1
  <2> QED
    BY <1>14, <2>2, <2>3 DEF CountInv
<1>19. DupInv'
  <2> SUFFICES ASSUME spent.fail = 0
               PROVE  /\ sum'.dup_acks_sent = log'.repeats
                      /\ \A i \in 1 .. Len(pending') :
                            pending'[i].is_dup <=> PosOf(pending'[i].ack) = Before(i)'
                      /\ Last' = frontier'
    BY <1>3 DEF DupInv
  <2>1. /\ sum.dup_acks_sent = log.repeats
        /\ \A i \in 1 .. n : pending[i].is_dup <=> PosOf(pending[i].ack) = Before(i)
        /\ Last = frontier
    BY <1>16 DEF PeerInv, DupInv
  <2>2. sum'.dup_acks_sent = log'.repeats
    <3>1. 1 \in 1 .. n /\ Before(1) = acked
      BY <1>17 DEF Before
    <3>2. h.is_dup <=> p = acked
      BY <1>2, <1>17, <2>1, <3>1
    <3> QED
      BY <1>9, <1>10, <1>13, <1>14, <2>1, <3>2
  <2>3. ASSUME NEW i \in 1 .. Len(pending')
        PROVE  pending'[i].is_dup <=> PosOf(pending'[i].ack) = Before(i)'
    <3>1. i + 1 \in 1 .. n /\ i \in 1 .. n - 1 /\ (i + 1) - 1 = i /\ i + 1 # 1
      BY <1>17
    <3>2. pending'[i] = pending[i + 1]
      BY <1>17, <3>1
    <3>3. pending[i + 1].is_dup <=> PosOf(pending[i + 1].ack) = Before(i + 1)
      BY <2>1, <3>1
    <3>4. Before(i)' = Before(i + 1)
      <4>1. Before(i + 1) = PosOf(pending[i].ack)
        BY <3>1 DEF Before
      <4>2. CASE i = 1
        <5>1. Before(i)' = p
          BY <1>5, <4>2 DEF Before
        <5> QED
          BY <1>2, <1>17, <4>1, <4>2, <5>1
      <4>3. CASE i # 1
        <5>1. i - 1 \in 1 .. n - 1 /\ (i - 1) + 1 = i
          BY <1>17, <3>1, <4>3
        <5>2. pending'[i - 1] = pending[i]
          BY <1>17, <5>1
        <5>3. Before(i)' = PosOf(pending'[i - 1].ack)
          BY <4>3 DEF Before
        <5> QED
          BY <4>1, <5>2, <5>3
      <4> QED
        BY <4>2, <4>3
    <3> QED
      BY <3>2, <3>3, <3>4
  <2>4. Last' = frontier'
    <3>1. Last = PosOf(pending[n].ack)
      BY <1>3, <1>16 DEF Last
    <3>2. CASE n = 1
      <4>1. pending' = <<>>
        BY <1>17, <3>2, EmptySeq
      <4>2. Last' = p
        BY <1>5, <4>1 DEF Last
      <4> QED
        BY <1>2, <1>3, <1>17, <2>1, <3>1, <3>2, <4>2
    <3>3. CASE n # 1
      <4>1. pending' # <<>> /\ n - 1 \in 1 .. n - 1 /\ (n - 1) + 1 = n
        BY <1>17, <3>3, EmptySeq
      <4>2. pending'[n - 1] = pending[n]
        BY <1>17, <4>1
      <4>3. Last' = PosOf(pending'[n - 1].ack)
        BY <1>17, <4>1 DEF Last
      <4> QED
        BY <1>3, <2>1, <3>1, <4>2, <4>3
    <3> QED
      BY <3>2, <3>3
  <2> QED
    BY <2>2, <2>3, <2>4
<1>20. acked' >= acked
  BY <1>5, Known
<1> QED
  BY <1>6, <1>7, <1>8, <1>15, <1>18, <1>19, <1>20 DEF PeerInv, AckInv

-----------------------------------------------------------------------------
(* The theorems *)

\* After establish().
LEMMA InitInv ==
  ASSUME Init
  PROVE  PeerInv
<1>0. StreamLen \in Nat /\ 0 \in 0 .. StreamLen
  BY StreamAssumption
<1>1. StreamInv
  BY <1>0 DEF Init, StreamInv, IsFrontier
<1>2. pending = <<>> /\ Len(pending) = 0 /\ \A i \in 1 .. Len(pending) : FALSE
  BY DEF Init
<1>3. QueueInv
  BY <1>2 DEF QueueInv
<1>4. spent \in [rexmt : Nat, control : Nat, rst : Nat, fail : Nat]
  BY DEF Init, Budget
<1>5. RstInv
  BY <1>2, <1>4 DEF Init, RstInv
<1>6. ShapeInv
  BY DEF Init, ShapeInv, EmptySummary, EmptyLog, SumType, LogType, NoTime
<1>7. CountInv
  BY <1>2 DEF Init, CountInv, EmptySummary, EmptyLog
<1>8. DupInv
  BY <1>2 DEF Init, DupInv, Last, EmptySummary, EmptyLog
<1> QED
  BY <1>1, <1>3, <1>5, <1>6, <1>7, <1>8 DEF PeerInv, AckInv

\* Every step keeps the invariant, and none takes an acknowledgement back.
LEMMA StepInv ==
  ASSUME ShortStream, PeerInv, [Next]_vars
  PROVE  PeerInv' /\ acked' >= acked
<1>1. ASSUME acked' = acked PROVE acked' >= acked
  BY <1>1, Known
<1>2. CASE Kernel
  <2>1. acked' = acked
    BY <1>2 DEF Kernel, KSend, KRexmt, KRto, KAck, KControl, KReset, KernelFrame, toldVars
  <2> QED
    BY <1>1, <1>2, <2>1, KernelStep
<1>3. CASE StartReceive
  <2>1. acked' = acked
    BY <1>3 DEF StartReceive, toldVars
  <2> QED
    BY <1>1, <1>3, <2>1, StartStep
<1>4. CASE EnterDrain \/ LeaveLoop \/ DrainReturn \/ EndBatch \/ FlushDone
  <2>1. acked' = acked
    BY <1>4 DEF EnterDrain, LeaveLoop, DrainReturn, EndBatch, FlushDone, BatchFrame, toldVars
  <2> QED
    BY <1>1, <1>4, <2>1, LoopStep
<1>5. CASE DrainRead
  <2>1. acked' = acked
    BY <1>5 DEF DrainRead, toldVars
  <2> QED
    BY <1>1, <1>5, <2>1, DrainReadStep
<1>6. CASE HandleRst
  <2>1. acked' = acked
    BY <1>6 DEF HandleRst, BatchFrame, toldVars
  <2> QED
    BY <1>1, <1>6, <2>1, HandleRstStep
<1>7. CASE HandleControl
  <2>1. acked' = acked
    BY <1>7 DEF HandleControl, BatchFrame, toldVars
  <2> QED
    BY <1>1, <1>7, <2>1, HandleControlStep
<1>8. CASE HandleDrop
  <2>1. acked' = acked
    BY <1>8 DEF HandleDrop, SeeData, BatchFrame, toldVars
  <2> QED
    BY <1>1, <1>8, <2>1, HandleDropStep
<1>9. CASE HandleData
  <2>1. acked' = acked
    BY <1>9 DEF HandleData, SeeData, BatchFrame, toldVars
  <2> QED
    BY <1>1, <1>9, <2>1, HandleDataStep
<1>10. CASE FlushSend
  BY <1>10, FlushSendStep
<1>11. CASE FlushFail
  <2>1. acked' = acked
    BY <1>11 DEF FlushFail, toldVars
  <2> QED
    BY <1>1, <1>11, <2>1, FlushFailStep
<1>12. CASE Return
  <2>1. acked' = acked
    BY <1>12 DEF Return, toldVars
  <2> QED
    BY <1>1, <1>12, <2>1, ReturnStep
<1>13. CASE Tick
  <2>1. acked' = acked
    BY <1>13 DEF Tick, toldVars
  <2> QED
    BY <1>1, <1>13, <2>1, TickStep
<1>14. CASE UNCHANGED vars
  <2>1. /\ UNCHANGED <<rsmVars, toldVars, pending>> /\ UNCHANGED <<kernelVars, callVars, spent>>
        /\ fd' = fd /\ batch' = batch /\ sum' = sum /\ log' = log /\ now' = now /\ pc' = pc
        /\ acked' = acked
    BY <1>14 DEF vars, toldVars
  <2>2. PeerInv'
    BY <2>1, Known, QuietStep
  <2> QED
    BY <1>1, <2>1, <2>2
<1> QED
  BY <1>2, <1>3, <1>4, <1>5, <1>6, <1>7, <1>8, <1>9, <1>10, <1>11, <1>12, <1>13, <1>14
     DEF Next, Receive

\* The inductive invariant of receive(), whatever the kernel sends, drops,
\* repeats or resets and whichever writes fail.
THEOREM PeerInvariant ==
  ASSUME ShortStream
  PROVE  Spec => []PeerInv
<1>1. Init => PeerInv
  BY InitInv
<1>2. PeerInv /\ [Next]_vars => PeerInv'
  BY StepInv
<1> QED
  BY <1>1, <1>2, PTL DEF Spec

\* flush_acks() and build_sacks() tell the kernel of nothing that has not been
\* accepted: every number in the queue is at or below the frontier, and every
\* block names accepted bytes, from the time it is queued to the time it is
\* written.
THEOREM ToldTruth ==
  ASSUME ShortStream
  PROVE  Spec => []KernelToldTruth
<1>1. PeerInv => KernelToldTruth
  <2> SUFFICES ASSUME PeerInv PROVE KernelToldTruth
    OBVIOUS
  <2>1. told \subseteq got /\ IsFrontier(frontier, got)
    BY DEF PeerInv, AckInv, StreamInv
  <2>2. 0 .. snd_una - 1 \subseteq got
    <3>1. 0 .. frontier - 1 \subseteq got
      BY <2>1 DEF IsFrontier
    <3>2. snd_una \in Nat /\ frontier \in Nat /\ snd_una <= frontier
      BY Known
    <3>3. \A p \in 0 .. snd_una - 1 : p \in 0 .. frontier - 1
      BY <3>2
    <3> QED
      BY <3>1, <3>3
  <2> QED
    BY <2>1, <2>2 DEF KernelToldTruth
<1> QED
  BY <1>1, PeerInvariant, PTL

\* The cumulative ACKs flush_acks() writes never go back.
THEOREM NeverRegress ==
  ASSUME ShortStream
  PROVE  Spec => AcksNeverRegress
<1>1. PeerInv /\ [Next]_vars => [acked' >= acked]_vars
  BY StepInv
<1> QED
  BY <1>1, PeerInvariant, PTL DEF Spec, AcksNeverRegress

\* Every segment receive() accepts has its ACK written or counted as failed by
\* the time it returns, but for those a RST leaves in the queue.
THEOREM AckAccounted ==
  ASSUME ShortStream
  PROVE  Spec => []EveryAckAccounted
<1>1. PeerInv => EveryAckAccounted
  BY DEF PeerInv, RstInv, CountInv, EveryAckAccounted
<1> QED
  BY <1>1, PeerInvariant, PTL

\* dup_acks_sent is the number of ACKs that repeated the one before them on the
\* wire, although is_dup is decided when an ACK is queued and not when it is
\* written.
THEOREM DupExact ==
  ASSUME ShortStream
  PROVE  Spec => []DupCountExact
<1>1. PeerInv => DupCountExact
  BY DEF PeerInv, DupInv, DupCountExact
<1> QED
  BY <1>1, PeerInvariant, PTL

-----------------------------------------------------------------------------
(* The hole receive() times: the inductive invariant *)

\* A frame the kernel has sent: data only with bytes, anything else without.
Sent(s) == s.pos + s.len <= snd_max /\ IF s.kind = "data" THEN s.len >= 1 ELSE s.len = 0

\* What is on its way was sent, what has arrived was sent, and what was sent
\* had been written for this call or an earlier one.
WireInv ==
    /\ call \in 0 .. Len(Targets) /\ wrote = (IF call = 0 THEN 0 ELSE Targets[call])
    /\ snd_max <= wrote
    /\ got \subseteq 0 .. snd_max - 1
    /\ \A i \in 1 .. Len(fd) : Sent(fd[i])
    /\ \A i \in 1 .. Len(batch) : Sent(batch[i].s)

\* A rule that has not finished has had none of its bytes accepted.
RuleInv ==
    /\ rules \in Seq(DropRule)
    /\ \A k \in 1 .. Len(rules) :
          /\ rules[k].lo < rules[k].hi
          /\ rules[k].fired < rules[k].times => \A p \in got : p < rules[k].lo \/ rules[k].hi <= p

\* The stamps of the batch ascend and none is ahead of the clock.
TimeInv ==
    /\ now \in Nat
    /\ \A i \in 1 .. Len(batch) : batch[i].t_ms \in 0 .. now
    /\ \A i, j \in 1 .. Len(batch) : i < j => batch[i].t_ms <= batch[j].t_ms

\* The end of the hole as a position.
Edge == PosOf(hole_end_seq)

\* An open hole ends beyond the frontier, and is older than what is still to
\* be processed; a rule that has fired has left an open hole or a delay.
HoleInv ==
    /\ hole_open \in BOOLEAN
    /\ hole_open => /\ Edge \in 1 .. snd_max /\ hole_end_seq = SeqOf(Edge) /\ frontier < Edge
                    /\ sum.t_hole_created \in 0 .. now
                    /\ \A i \in 1 .. Len(batch) : sum.t_hole_created <= batch[i].t_ms
    /\ (\E k \in 1 .. Len(rules) : rules[k].fired # 0) => (hole_open \/ sum.hol_delay_ms # NoTime)

\* The frames on their way, the batch first and then the fd.
OnWay == [i \in 1 .. Len(batch) + Len(fd) |->
             IF i <= Len(batch) THEN batch[i].s ELSE fd[i - Len(batch)]]

\* Byte p is in G or in one of the first n frames of W.
Traced(W, G, p, n) == p \in G \/ \E j \in 1 .. n : p \in Bytes(W[j].pos, W[j].len)

\* The fd keeps the order of the kernel's sends: with G accounted for, what
\* lies below the end of a frame of W is not behind it, and everything below
\* m is somewhere.
InOrder(W, G, m) ==
    /\ \A i \in 1 .. Len(W) : \A p \in 0 .. W[i].pos + W[i].len - 1 : Traced(W, G, p, i)
    /\ \A p \in 0 .. m - 1 : Traced(W, G, p, Len(W))
OrderInv == InOrder(OnWay, got \cup log.lost, snd_max)

\* Unless the call began with data outstanding, no byte is unaccounted for
\* until a RST throws the rest of the batch away, and everything below the end
\* of the hole has arrived or was taken.
LossInv ==
    ~ log.behind =>
        /\ (pc = "idle" /\ spent.rst # 0) \/ OrderInv
        /\ hole_open => \A x \in 0 .. Edge - 1 : x \in got \/ x \in log.lost

\* The verdict of a call.
DoneInv ==
    /\ call > 0 => sum.bytes_wanted = wrote
    /\ sum.completed => call > 0 /\ frontier >= sum.bytes_wanted

HoleFacts == WireInv /\ RuleInv /\ TimeInv /\ HoleInv /\ LossInv /\ DoneInv

-----------------------------------------------------------------------------
(* Steps that leave the hole alone *)

\* The invariant reads only these variables and fields.
LEMMA KeepStep ==
  ASSUME PeerInv, HoleFacts,
         UNCHANGED <<rules, got, frontier, hole_open, hole_end_seq, wrote, snd_max, fd, batch, call>>,
         sum'.t_hole_created = sum.t_hole_created, sum'.hol_delay_ms = sum.hol_delay_ms,
         sum'.bytes_wanted = sum.bytes_wanted,
         sum'.completed => call > 0 /\ frontier >= sum.bytes_wanted,
         log'.lost = log.lost, log'.behind = log.behind, now' \in Nat, now' >= now,
         (pc = "idle" /\ spent.rst # 0) => (pc' = "idle" /\ spent'.rst # 0)
  PROVE  HoleFacts'
<1>1. WireInv'
  BY DEF HoleFacts, WireInv, Sent
<1>2. RuleInv'
  BY DEF HoleFacts, RuleInv
<1>3. \A t \in 0 .. now : t \in 0 .. now'
  BY DEF HoleFacts, TimeInv
<1>4. TimeInv'
  BY <1>3 DEF HoleFacts, TimeInv
<1>5. Edge' = Edge
  BY DEF Edge
<1>6. HoleInv'
  BY <1>3, <1>5 DEF HoleFacts, HoleInv
<1>9. OrderInv => OrderInv'
  BY DEF OrderInv, OnWay
<1>10. LossInv'
  BY <1>5, <1>9 DEF HoleFacts, LossInv
<1>11. DoneInv'
  BY DEF HoleFacts, DoneInv
<1> QED
  BY <1>1, <1>2, <1>4, <1>6, <1>10, <1>11 DEF HoleFacts

\* Sequence facts of an Append.
LEMMA AppendFacts ==
  ASSUME NEW T, NEW q \in Seq(T), NEW x \in T
  PROVE  /\ Append(q, x) \in Seq(T) /\ Len(q) \in Nat /\ Len(Append(q, x)) = Len(q) + 1
         /\ \A i \in 1 .. Len(q) : Append(q, x)[i] = q[i]
         /\ Append(q, x)[Len(q) + 1] = x
         /\ Append(q, x) = [i \in 1 .. Len(q) + 1 |-> IF i <= Len(q) THEN q[i] ELSE x]
<1>1. /\ Append(q, x) \in Seq(T) /\ Len(q) \in Nat /\ Len(Append(q, x)) = Len(q) + 1
      /\ \A i \in 1 .. Len(q) : Append(q, x)[i] = q[i]
      /\ Append(q, x)[Len(q) + 1] = x
  OBVIOUS
<1>2. PICK a : a = Append(q, x)
  OBVIOUS
<1>3. PICK n \in Nat : n = Len(q)
  BY <1>1
<1>4. a = [i \in 1 .. n + 1 |-> a[i]]
  <2>1. a \in [1 .. Len(a) -> T] /\ Len(a) = n + 1
    BY <1>1, <1>2, <1>3, LenProperties
  <2> QED
    BY <2>1
<1>5. \A i \in 1 .. n + 1 : a[i] = IF i <= n THEN q[i] ELSE x
  BY <1>1, <1>2, <1>3
<1>6. a = [i \in 1 .. n + 1 |-> IF i <= n THEN q[i] ELSE x]
  BY <1>4, <1>5
<1> QED
  BY <1>1, <1>2, <1>3, <1>6

\* The kernel takes in an ACK.
LEMMA KAckHole == ASSUME PeerInv, HoleFacts, KAck PROVE HoleFacts'
<1>1. /\ UNCHANGED <<rules, got, frontier, hole_open, hole_end_seq, wrote, snd_max, fd, batch, call>>
      /\ UNCHANGED <<sum, log, now, pc, spent>>
  BY DEF KAck, KernelFrame, rsmVars, holeVars, callVars
<1>2. now \in Nat /\ (sum.completed => call > 0 /\ frontier >= sum.bytes_wanted)
  BY DEF HoleFacts, TimeInv, DoneInv
<1> QED
  BY <1>1, <1>2, KeepStep

\* The control flow of the loop, and steps that change nothing.
LEMMA LoopHole ==
  ASSUME PeerInv, HoleFacts,
         EnterDrain \/ LeaveLoop \/ DrainReturn \/ EndBatch \/ FlushDone \/ UNCHANGED vars
  PROVE  HoleFacts'
<1>1. /\ UNCHANGED <<rules, got, frontier, hole_open, hole_end_seq, wrote, snd_max, fd, batch, call>>
      /\ UNCHANGED <<sum, log, now, spent>> /\ (pc = "idle" => pc' = "idle")
  BY DEF EnterDrain, LeaveLoop, DrainReturn, EndBatch, FlushDone, PeerFrame, BatchFrame, FlushFrame,
     rsmVars, holeVars, callVars, kernelVars, vars
<1>2. now \in Nat /\ (sum.completed => call > 0 /\ frontier >= sum.bytes_wanted)
  BY DEF HoleFacts, TimeInv, DoneInv
<1> QED
  BY <1>1, <1>2, KeepStep

\* Time passes.
LEMMA TickHole == ASSUME PeerInv, HoleFacts, Tick PROVE HoleFacts'
<1>1. /\ UNCHANGED <<rules, got, frontier, hole_open, hole_end_seq, wrote, snd_max, fd, batch, call>>
      /\ UNCHANGED <<sum, log, pc, spent>> /\ now' = now + 1
  BY DEF Tick, rsmVars, holeVars, callVars, kernelVars
<1>2. now \in Nat /\ now' \in Nat /\ now' >= now /\ (sum.completed => call > 0 /\ frontier >= sum.bytes_wanted)
  BY <1>1 DEF HoleFacts, TimeInv, DoneInv
<1> QED
  BY <1>1, <1>2, KeepStep

\* An ACK leaves the queue.
LEMMA FlushHole == ASSUME PeerInv, HoleFacts, FlushSend \/ FlushFail PROVE HoleFacts'
<1>1. /\ UNCHANGED <<rules, got, frontier, hole_open, hole_end_seq, wrote, snd_max, fd, batch, call>>
      /\ UNCHANGED <<now, pc>> /\ pc # "idle"
  BY DEF FlushSend, FlushFail, FlushFrame, PeerFrame, AckReady, rsmVars, holeVars, callVars, kernelVars
<1>2. sum \in SumType /\ log \in LogType
  BY Known
<1>3. /\ sum'.t_hole_created = sum.t_hole_created /\ sum'.hol_delay_ms = sum.hol_delay_ms
      /\ sum'.bytes_wanted = sum.bytes_wanted /\ sum'.completed = sum.completed
  BY <1>2 DEF FlushSend, FlushFail, CountFailure, SumType
<1>4. log'.lost = log.lost /\ log'.behind = log.behind
  BY <1>2 DEF FlushSend, FlushFail, LogType
<1>5. now \in Nat /\ (sum.completed => call > 0 /\ frontier >= sum.bytes_wanted)
  BY DEF HoleFacts, TimeInv, DoneInv
<1> QED
  BY <1>1, <1>3, <1>4, <1>5, KeepStep

\* The return: completed says that everything written has been delivered.
LEMMA ReturnHole == ASSUME PeerInv, ShortStream, HoleFacts, pc # "idle" => call > 0, Return PROVE HoleFacts'
<1>1. /\ UNCHANGED <<rules, got, frontier, hole_open, hole_end_seq, wrote, snd_max, fd, batch, call>>
      /\ UNCHANGED <<now, log, spent>> /\ pc # "idle"
      /\ sum' = [sum EXCEPT !.bytes_delivered = delivered, !.completed = delivered >= sum.bytes_wanted]
  BY DEF Return, FlushFrame, PeerFrame, rsmVars, holeVars, callVars, kernelVars
<1>2. sum \in SumType /\ frontier \in 0 .. StreamLen
  BY Known
<1>3. /\ sum'.t_hole_created = sum.t_hole_created /\ sum'.hol_delay_ms = sum.hol_delay_ms
      /\ sum'.bytes_wanted = sum.bytes_wanted /\ sum'.completed = (delivered >= sum.bytes_wanted)
  BY <1>1, <1>2 DEF SumType
<1>4. delivered = frontier
  BY <1>2, ShortStream, WrapValue, SpaceSize, HalfAssumption, StreamAssumption DEF delivered, ShortStream
<1>5. now \in Nat /\ now' = now
  BY <1>1 DEF HoleFacts, TimeInv
<1>6. sum'.completed => call > 0 /\ frontier >= sum.bytes_wanted
  BY <1>1, <1>3, <1>4
<1>7. log'.lost = log.lost /\ log'.behind = log.behind /\ now' \in Nat /\ now' >= now
  BY <1>1, <1>5
<1> QED
  BY <1>1, <1>3, <1>6, <1>7, KeepStep

-----------------------------------------------------------------------------
(* Frames on their way *)

\* The frames on their way are a sequence of frames.
LEMMA WayFacts ==
  ASSUME PeerInv
  PROVE  /\ Len(batch) \in Nat /\ Len(fd) \in Nat
         /\ OnWay \in Seq(Frame) /\ Len(OnWay) = Len(batch) + Len(fd)
<1>1. fd \in Seq(Frame) /\ batch \in Seq(Read) /\ Len(batch) \in Nat /\ Len(fd) \in Nat
  BY Known
<1>2. PICK n \in Nat : n = Len(batch) + Len(fd)
  BY <1>1
<1>3. ASSUME NEW i \in 1 .. n PROVE (IF i <= Len(batch) THEN batch[i].s ELSE fd[i - Len(batch)]) \in Frame
  <2>1. CASE i <= Len(batch)
    <3>1. i \in 1 .. Len(batch)
      BY <1>1, <2>1
    <3>2. batch[i] \in Read
      BY <1>1, <3>1
    <3> QED
      BY <2>1, <3>2 DEF Read
  <2>2. CASE ~ (i <= Len(batch))
    <3>1. i - Len(batch) \in 1 .. Len(fd)
      BY <1>1, <1>2, <2>2
    <3> QED
      BY <1>1, <2>2, <3>1
  <2> QED
    BY <2>1, <2>2
<1>4. OnWay \in [1 .. n -> Frame]
  BY <1>2, <1>3 DEF OnWay
<1>5. \A q \in [1 .. n -> Frame] : q \in Seq(Frame) /\ Len(q) = n
  OBVIOUS
<1> QED
  BY <1>1, <1>2, <1>4, <1>5

\* A frame behind the others that starts no further than what has been sent.
LEMMA OrderAppend ==
  ASSUME NEW W \in Seq(Frame), NEW G, NEW m \in Nat, InOrder(W, G, m),
         NEW f \in Frame, f.pos <= m, NEW n \in Nat, n <= m \/ n <= f.pos + f.len,
         f.pos + f.len <= n
  PROVE  InOrder(Append(W, f), G, n)
<1>1. PICK V \in Seq(Frame) : V = Append(W, f)
  BY AppendFacts
<1>2. /\ Len(W) \in Nat /\ Len(V) = Len(W) + 1
      /\ \A i \in 1 .. Len(W) : V[i] = W[i]
      /\ V[Len(W) + 1] = f
  BY <1>1, AppendFacts
<1>3. f.pos \in Nat /\ f.len \in Nat
  BY DEF Frame
<1>4. ASSUME NEW i \in 0 .. Len(W), NEW p, Traced(W, G, p, i) PROVE Traced(V, G, p, i) /\ Traced(V, G, p, Len(V))
  <2>1. CASE p \in G
    BY <2>1 DEF Traced
  <2>2. CASE \E j \in 1 .. i : p \in Bytes(W[j].pos, W[j].len)
    <3>1. PICK j \in 1 .. i : p \in Bytes(W[j].pos, W[j].len)
      BY <2>2
    <3>2. j \in 1 .. Len(W) /\ j \in 1 .. Len(V) /\ V[j] = W[j]
      BY <1>2
    <3> QED
      BY <3>1, <3>2 DEF Traced
  <2> QED
    BY <1>4, <2>1, <2>2 DEF Traced
<1>5. ASSUME NEW p \in 0 .. n - 1 PROVE Traced(V, G, p, Len(V))
  <2>1. CASE p < m
    <3>1. p \in 0 .. m - 1 /\ Len(W) \in 0 .. Len(W)
      BY <1>2, <2>1
    <3>2. Traced(W, G, p, Len(W))
      BY <3>1 DEF InOrder
    <3> QED
      BY <1>4, <3>1, <3>2
  <2>2. CASE ~ (p < m)
    <3>1. p \in Bytes(V[Len(V)].pos, V[Len(V)].len) /\ Len(V) \in 1 .. Len(V)
      BY <1>2, <1>3, <2>2 DEF Bytes
    <3> QED
      BY <3>1 DEF Traced
  <2> QED
    BY <2>1, <2>2
<1>6. ASSUME NEW i \in 1 .. Len(V), NEW p \in 0 .. V[i].pos + V[i].len - 1 PROVE Traced(V, G, p, i)
  <2>1. CASE i \in 1 .. Len(W)
    <3>1. Traced(W, G, p, i) /\ i \in 0 .. Len(W)
      BY <1>2, <1>6, <2>1 DEF InOrder
    <3> QED
      BY <1>4, <3>1
  <2>2. CASE i = Len(V)
    <3>1. p \in 0 .. n - 1
      BY <1>2, <1>3, <1>6, <2>2
    <3> QED
      BY <1>5, <2>2, <3>1
  <2> QED
    BY <1>2, <2>1, <2>2
<1>7. InOrder(V, G, n)
  BY <1>5, <1>6 DEF InOrder
<1> QED
  BY <1>1, <1>7

\* The first frame is taken and its bytes accounted for.
LEMMA OrderPop ==
  ASSUME NEW W \in Seq(Frame), W # <<>>, NEW G, NEW m \in Nat, InOrder(W, G, m),
         NEW H, G \subseteq H, Bytes(W[1].pos, W[1].len) \subseteq H
  PROVE  InOrder(Tail(W), H, m)
<1>1. PICK V \in Seq(Frame) : V = Tail(W)
  BY TailFacts
<1>2. /\ Len(W) \in Nat \ {0} /\ Len(V) = Len(W) - 1
      /\ \A i \in 1 .. Len(W) - 1 : V[i] = W[i + 1]
  BY <1>1, TailFacts
<1>3. ASSUME NEW i \in 1 .. Len(W), NEW p, Traced(W, G, p, i) PROVE Traced(V, H, p, i - 1)
  <2>1. CASE p \in G
    BY <2>1 DEF Traced
  <2>2. CASE \E j \in 1 .. i : p \in Bytes(W[j].pos, W[j].len)
    <3>1. PICK j \in 1 .. i : p \in Bytes(W[j].pos, W[j].len)
      BY <2>2
    <3>2. CASE j = 1
      BY <3>1, <3>2 DEF Traced
    <3>3. CASE j # 1
      <4>1. j - 1 \in 1 .. i - 1 /\ j - 1 \in 1 .. Len(W) - 1 /\ (j - 1) + 1 = j
        BY <1>2, <3>3
      <4>2. V[j - 1] = W[j]
        BY <1>2, <4>1
      <4> QED
        BY <3>1, <4>1, <4>2 DEF Traced
    <3> QED
      BY <3>2, <3>3
  <2> QED
    BY <1>3, <2>1, <2>2 DEF Traced
<1>4. ASSUME NEW p \in 0 .. m - 1 PROVE Traced(V, H, p, Len(V))
  <2>1. Traced(W, G, p, Len(W)) /\ Len(W) \in 1 .. Len(W)
    BY <1>2 DEF InOrder
  <2> QED
    BY <1>2, <1>3, <2>1
<1>5. ASSUME NEW i \in 1 .. Len(V), NEW p \in 0 .. V[i].pos + V[i].len - 1 PROVE Traced(V, H, p, i)
  <2>1. i + 1 \in 1 .. Len(W) /\ V[i] = W[i + 1] /\ (i + 1) - 1 = i
    BY <1>2
  <2>2. Traced(W, G, p, i + 1)
    BY <1>5, <2>1 DEF InOrder
  <2> QED
    BY <1>3, <2>1, <2>2
<1>6. InOrder(V, H, m)
  BY <1>4, <1>5 DEF InOrder
<1> QED
  BY <1>1, <1>6

\* The kernel puts one frame behind the others.
LEMMA EmitHole ==
  ASSUME PeerInv, HoleFacts, KernelFrame, wrote' = wrote,
         NEW kind \in Kinds, NEW pos \in Nat, NEW len \in Nat, Emit(kind, pos, len),
         pos + len <= StreamLen, pos <= snd_max, IF kind = "data" THEN len >= 1 ELSE len = 0,
         snd_max' = (IF pos + len > snd_max THEN pos + len ELSE snd_max), snd_max' <= wrote,
         spent.rst # 0 => spent'.rst # 0
  PROVE  HoleFacts'
<1>1. UNCHANGED <<rules, got, frontier, hole_open, hole_end_seq, batch, call, sum, log, now, pc>>
  BY DEF KernelFrame, rsmVars, holeVars, callVars
<1>2. PICK f : f = [kind |-> kind, pos |-> pos, len |-> len]
  OBVIOUS
<1>3. f \in Frame /\ f.pos = pos /\ f.len = len /\ f.kind = kind
  BY <1>2 DEF Frame
<1>4. /\ fd \in Seq(Frame) /\ fd' = Append(fd, f) /\ snd_max \in Nat /\ snd_max' \in Nat
      /\ snd_max <= snd_max' /\ pos + len <= snd_max'
  <2>1. fd \in Seq(Frame) /\ snd_max \in Nat
    BY Known
  <2>2. fd' = Append(fd, f)
    BY <1>2 DEF Emit
  <2>3. PICK m \in Nat : m = snd_max
    BY <2>1
  <2>4. snd_max' \in Nat /\ m <= snd_max' /\ pos + len <= snd_max'
    BY <2>3
  <2> QED
    BY <2>1, <2>2, <2>3, <2>4
<1>5. /\ Len(fd) \in Nat /\ Len(fd') = Len(fd) + 1
      /\ \A i \in 1 .. Len(fd) : fd'[i] = fd[i]
      /\ fd'[Len(fd) + 1] = f
  BY <1>3, <1>4, AppendFacts
<1>6. \A s \in Frame : Sent(s) => Sent(s)'
  BY <1>4 DEF Sent, Frame
<1>7. WireInv'
  <2>1. \A i \in 1 .. Len(fd) : Sent(fd[i]) /\ fd[i] \in Frame
    BY <1>4 DEF HoleFacts, WireInv
  <2>2. Sent(f)'
    BY <1>3, <1>4 DEF Sent
  <2>3. ASSUME NEW i \in 1 .. Len(fd') PROVE Sent(fd[i])'
    <3>1. i \in 1 .. Len(fd) \/ i = Len(fd) + 1
      BY <1>5
    <3>2. CASE i \in 1 .. Len(fd)
      <4>1. PICK s \in Frame : s = fd[i]
        BY <2>1, <3>2
      <4>2. Sent(s)' /\ s = fd'[i]
        BY <1>5, <1>6, <2>1, <3>2, <4>1
      <4> QED
        BY <4>2 DEF Sent
    <3>3. CASE i = Len(fd) + 1
      BY <1>5, <2>2, <3>3 DEF Sent
    <3> QED
      BY <3>1, <3>2, <3>3
  <2>4. ASSUME NEW i \in 1 .. Len(batch') PROVE Sent(batch[i].s)'
    <3>0. i \in 1 .. Len(batch)
      BY <1>1
    <3>1. batch[i] \in Read /\ Sent(batch[i].s)
      <4>1. batch \in Seq(Read)
        BY Known
      <4>2. batch[i] \in Read
        BY <3>0, <4>1
      <4>3. Sent(batch[i].s)
        BY <3>0 DEF HoleFacts, WireInv
      <4> QED
        BY <4>2, <4>3
    <3>2. PICK s \in Frame : s = batch[i].s
      BY <3>1 DEF Read
    <3> QED
      BY <1>1, <1>6, <3>1, <3>2 DEF Sent
  <2>5. got' \subseteq 0 .. snd_max' - 1
    BY <1>1, <1>4 DEF HoleFacts, WireInv
  <2> QED
    BY <1>1, <2>3, <2>4, <2>5 DEF HoleFacts, WireInv
<1>8. RuleInv' /\ TimeInv' /\ DoneInv'
  BY <1>1 DEF HoleFacts, RuleInv, TimeInv, DoneInv
<1>9. Edge' = Edge
  BY <1>1 DEF Edge
<1>10. HoleInv'
  BY <1>1, <1>4, <1>9 DEF HoleFacts, HoleInv
<1>11. OnWay' = Append(OnWay, f)
  <2>1. PICK b0 \in Nat, n \in Nat : b0 = Len(batch) /\ n = Len(fd)
    BY WayFacts
  <2>2. OnWay \in Seq(Frame) /\ Len(OnWay) = b0 + n
    BY <2>1, WayFacts
  <2>3. OnWay' = [i \in 1 .. b0 + (n + 1) |-> IF i <= b0 THEN batch[i].s ELSE fd'[i - b0]]
    BY <1>1, <1>5, <2>1 DEF OnWay
  <2>4. OnWay = [i \in 1 .. b0 + n |-> IF i <= b0 THEN batch[i].s ELSE fd[i - b0]]
    BY <2>1 DEF OnWay
  <2>5. Append(OnWay, f) = [i \in 1 .. (b0 + n) + 1 |-> IF i <= b0 + n THEN OnWay[i] ELSE f]
    BY <1>3, <2>2, AppendFacts
  <2>6. ASSUME NEW i \in 1 .. (b0 + n) + 1
        PROVE  (IF i <= b0 + n THEN OnWay[i] ELSE f) = (IF i <= b0 THEN batch[i].s ELSE fd'[i - b0])
    <3>1. CASE i <= b0
      <4>1. i \in 1 .. b0 + n /\ i <= b0 + n
        BY <3>1
      <4> QED
        BY <2>4, <3>1, <4>1
    <3>2. CASE ~ (i <= b0) /\ i <= b0 + n
      <4>1. i \in 1 .. b0 + n /\ i - b0 \in 1 .. n
        BY <3>2
      <4>2. fd'[i - b0] = fd[i - b0]
        BY <1>5, <2>1, <4>1
      <4> QED
        BY <2>4, <3>2, <4>1, <4>2
    <3>3. CASE ~ (i <= b0 + n)
      <4>1. i - b0 = n + 1 /\ ~ (i <= b0)
        BY <3>3
      <4> QED
        BY <1>5, <2>1, <3>3, <4>1
    <3> QED
      BY <3>1, <3>2, <3>3
  <2>7. (b0 + n) + 1 = b0 + (n + 1)
    OBVIOUS
  <2> QED
    BY <2>3, <2>5, <2>6, <2>7
<1>13. ASSUME OrderInv PROVE OrderInv'
  <2>1. InOrder(Append(OnWay, f), got \cup log.lost, snd_max')
    BY <1>3, <1>4, <1>13, WayFacts, OrderAppend DEF OrderInv
  <2> QED
    BY <1>1, <1>11, <2>1 DEF OrderInv
<1>14. LossInv'
  BY <1>1, <1>9, <1>13 DEF HoleFacts, LossInv
<1> QED
  BY <1>7, <1>8, <1>10, <1>14 DEF HoleFacts

\* Every action of the kernel.
LEMMA KernelHole == ASSUME PeerInv, HoleFacts, Kernel PROVE HoleFacts'
<1>1. /\ StreamLen \in Nat /\ wrote \in 0 .. StreamLen /\ snd_max \in 0 .. StreamLen /\ snd_una \in Nat
      /\ snd_max <= wrote /\ MaxLen \in Nat
  BY Known, StreamAssumption DEF HoleFacts, WireInv
<1>2. CASE \E len \in 1 .. MaxLen : KSend(len)
  <2>1. PICK len \in 1 .. MaxLen : KSend(len)
    BY <1>2
  <2>2. /\ snd_max + len <= wrote /\ Emit("data", snd_max, len) /\ snd_max' = snd_max + len
        /\ UNCHANGED <<wrote, snd_una, spent>> /\ KernelFrame
    BY <2>1 DEF KSend
  <2>3. PICK m \in Nat : m = snd_max
    BY <1>1
  <2>4. /\ "data" \in Kinds /\ len \in Nat /\ len >= 1 /\ m + len <= StreamLen /\ m <= snd_max
        /\ snd_max' = (IF m + len > snd_max THEN m + len ELSE snd_max) /\ snd_max' <= wrote
    BY <1>1, <2>2, <2>3 DEF Kinds
  <2>5. Emit("data", m, len)
    BY <2>2, <2>3
  <2> QED
    BY <2>2, <2>4, <2>5, EmitHole
<1>3. CASE \E pos \in 0 .. StreamLen - 1, len \in 1 .. MaxLen : KRexmt(pos, len)
  <2>1. PICK pos \in 0 .. StreamLen - 1, len \in 1 .. MaxLen : KRexmt(pos, len)
    BY <1>3
  <2>2. /\ pos < snd_max /\ pos + len <= wrote /\ Emit("data", pos, len)
        /\ snd_max' = (IF pos + len > snd_max THEN pos + len ELSE snd_max)
        /\ UNCHANGED <<wrote, snd_una>> /\ KernelFrame /\ Spend("rexmt")
    BY <2>1 DEF KRexmt
  <2>3. spent'.rst = spent.rst
    BY <2>2, Spent
  <2>4. /\ "data" \in Kinds /\ pos \in Nat /\ len \in Nat /\ len >= 1 /\ pos + len <= StreamLen
        /\ pos <= snd_max /\ snd_max' <= wrote
    BY <1>1, <2>2 DEF Kinds
  <2> QED
    BY <2>2, <2>3, <2>4, EmitHole
<1>4. CASE \E len \in 1 .. MaxLen : KRto(len)
  <2>1. PICK len \in 1 .. MaxLen : KRto(len)
    BY <1>4
  <2>2. /\ snd_una + len <= snd_max /\ Emit("data", snd_una, len)
        /\ UNCHANGED <<wrote, snd_una, snd_max, spent>> /\ KernelFrame
    BY <2>1 DEF KRto, kernelVars
  <2>3. PICK u \in Nat : u = snd_una
    BY <1>1
  <2>4. /\ "data" \in Kinds /\ len \in Nat /\ len >= 1 /\ u + len <= StreamLen /\ u <= snd_max
        /\ snd_max' = (IF u + len > snd_max THEN u + len ELSE snd_max) /\ snd_max' <= wrote
    BY <1>1, <2>2, <2>3 DEF Kinds
  <2>5. Emit("data", u, len)
    BY <2>2, <2>3
  <2> QED
    BY <2>2, <2>4, <2>5, EmitHole
<1>5. ASSUME NEW kind \in Kinds, kind # "data", Emit(kind, snd_max, 0), KernelFrame, UNCHANGED kernelVars,
             spent.rst # 0 => spent'.rst # 0
      PROVE  HoleFacts'
  <2>1. UNCHANGED <<wrote, snd_max>>
    BY <1>5 DEF kernelVars
  <2>2. PICK m \in Nat : m = snd_max
    BY <1>1
  <2>3. /\ 0 \in Nat /\ m + 0 <= StreamLen /\ m <= snd_max
        /\ snd_max' = (IF m + 0 > snd_max THEN m + 0 ELSE snd_max) /\ snd_max' <= wrote
    BY <1>1, <2>1, <2>2
  <2>4. Emit(kind, m, 0)
    BY <1>5, <2>2
  <2> QED
    BY <1>5, <2>1, <2>3, <2>4, EmitHole
<1>6. CASE \E kind \in {"fin", "ack", "foreign"} : KControl(kind)
  <2>1. PICK kind \in {"fin", "ack", "foreign"} : KControl(kind)
    BY <1>6
  <2>2. kind \in Kinds /\ kind # "data"
    BY DEF Kinds
  <2>3. spent'.rst = spent.rst
    BY <2>1, Spent DEF KControl
  <2> QED
    BY <1>5, <2>1, <2>2, <2>3 DEF KControl
<1>7. CASE KReset
  <2>1. "rst" \in Kinds /\ "rst" # "data"
    BY DEF Kinds
  <2>2. spent'.rst # 0
    BY <1>7, Spent DEF KReset
  <2> QED
    BY <1>5, <1>7, <2>1, <2>2 DEF KReset
<1> QED
  BY <1>2, <1>3, <1>4, <1>6, <1>7, KAckHole DEF Kernel

\* One frame moves from the fd to the batch.
LEMMA DrainReadHole == ASSUME PeerInv, HoleFacts, DrainRead PROVE HoleFacts'
<1>1. /\ UNCHANGED <<rules, got, frontier, hole_open, hole_end_seq, wrote, snd_max, call>>
      /\ UNCHANGED <<sum, log, now, pc, spent>> /\ fd # <<>>
      /\ batch' = Append(batch, [s |-> Head(fd), t_ms |-> now]) /\ fd' = Tail(fd)
  BY DEF DrainRead, PeerFrame, rsmVars, holeVars, callVars, kernelVars
<1>2. fd \in Seq(Frame) /\ batch \in Seq(Read) /\ now \in Nat
  BY Known DEF HoleFacts, TimeInv
<1>3. PICK n \in Nat, b0 \in Nat : n = Len(fd) /\ b0 = Len(batch)
  BY <1>2
<1>4. /\ n # 0 /\ Head(fd) = fd[1] /\ fd[1] \in Frame
      /\ fd' \in Seq(Frame) /\ Len(fd') = n - 1
      /\ \A i \in 1 .. n - 1 : fd'[i] = fd[i + 1]
  BY <1>1, <1>2, <1>3, TailFacts
<1>5. PICK r : r = [s |-> fd[1], t_ms |-> now]
  OBVIOUS
<1>6. r \in Read /\ r.s = fd[1] /\ r.t_ms = now
  BY <1>2, <1>4, <1>5 DEF Read
<1>7. /\ Len(batch') = b0 + 1
      /\ \A i \in 1 .. b0 : batch'[i] = batch[i]
      /\ batch'[b0 + 1] = r
  BY <1>1, <1>2, <1>3, <1>4, <1>5, <1>6, AppendFacts
<1>8. 1 \in 1 .. n
  BY <1>3, <1>4
<1>9. WireInv'
  <2>1. /\ \A i \in 1 .. n : Sent(fd[i])
        /\ \A i \in 1 .. b0 : Sent(batch[i].s)
    BY <1>3 DEF HoleFacts, WireInv
  <2>2. \A i \in 1 .. Len(fd') : Sent(fd[i])'
    <3>1. ASSUME NEW i \in 1 .. n - 1 PROVE Sent(fd[i])'
      <4>1. i + 1 \in 1 .. n
        BY <1>3
      <4> QED
        BY <1>1, <1>4, <2>1, <4>1 DEF Sent
    <3> QED
      BY <1>4, <3>1
  <2>3. \A i \in 1 .. Len(batch') : Sent(batch[i].s)'
    <3>1. ASSUME NEW i \in 1 .. b0 + 1 PROVE Sent(batch[i].s)'
      <4>1. CASE i \in 1 .. b0
        BY <1>1, <1>7, <2>1, <4>1 DEF Sent
      <4>2. CASE i = b0 + 1
        BY <1>1, <1>6, <1>7, <1>8, <2>1, <4>2 DEF Sent
      <4> QED
        BY <4>1, <4>2
    <3> QED
      BY <1>7, <3>1
  <2> QED
    BY <1>1, <2>2, <2>3 DEF HoleFacts, WireInv
<1>10. RuleInv' /\ DoneInv'
  BY <1>1 DEF HoleFacts, RuleInv, DoneInv
<1>11. TimeInv'
  <2>1. /\ \A i \in 1 .. b0 : batch[i].t_ms \in 0 .. now
        /\ \A i, j \in 1 .. b0 : i < j => batch[i].t_ms <= batch[j].t_ms
    BY <1>3 DEF HoleFacts, TimeInv
  <2>2. ASSUME NEW i \in 1 .. b0 + 1 PROVE batch'[i].t_ms \in 0 .. now
    <3>1. CASE i \in 1 .. b0
      BY <1>7, <2>1, <3>1
    <3>2. CASE i = b0 + 1
      BY <1>2, <1>6, <1>7, <3>2
    <3> QED
      BY <3>1, <3>2
  <2>3. ASSUME NEW i \in 1 .. b0 + 1, NEW j \in 1 .. b0 + 1, i < j PROVE batch'[i].t_ms <= batch'[j].t_ms
    <3>1. i \in 1 .. b0
      BY <2>3
    <3>2. CASE j \in 1 .. b0
      BY <1>7, <2>1, <2>3, <3>1, <3>2
    <3>3. CASE j = b0 + 1
      BY <1>2, <1>6, <1>7, <2>1, <3>1, <3>3
    <3> QED
      BY <3>2, <3>3
  <2> QED
    BY <1>1, <1>2, <1>7, <2>2, <2>3 DEF TimeInv
<1>12. Edge' = Edge
  BY <1>1 DEF Edge
<1>13. HoleInv'
  <2>1. ASSUME hole_open, NEW i \in 1 .. b0 + 1 PROVE sum.t_hole_created <= batch'[i].t_ms
    <3>1. /\ sum.t_hole_created \in 0 .. now
          /\ \A j \in 1 .. b0 : sum.t_hole_created <= batch[j].t_ms
      BY <1>3, <2>1 DEF HoleFacts, HoleInv
    <3>2. CASE i \in 1 .. b0
      BY <1>7, <3>1, <3>2
    <3>3. CASE i = b0 + 1
      BY <1>2, <1>6, <1>7, <3>1, <3>3
    <3> QED
      BY <3>2, <3>3
  <2> QED
    BY <1>1, <1>7, <1>12, <2>1 DEF HoleFacts, HoleInv
<1>14. OnWay' = OnWay
  <2>1. OnWay = [i \in 1 .. b0 + n |-> IF i <= b0 THEN batch[i].s ELSE fd[i - b0]]
    BY <1>3 DEF OnWay
  <2>2. OnWay' = [i \in 1 .. (b0 + 1) + (n - 1) |-> IF i <= b0 + 1 THEN batch'[i].s ELSE fd'[i - (b0 + 1)]]
    BY <1>4, <1>7 DEF OnWay
  <2>3. (b0 + 1) + (n - 1) = b0 + n
    OBVIOUS
  <2>4. ASSUME NEW i \in 1 .. b0 + n
        PROVE  (IF i <= b0 + 1 THEN batch'[i].s ELSE fd'[i - (b0 + 1)])
                 = (IF i <= b0 THEN batch[i].s ELSE fd[i - b0])
    <3>1. CASE i <= b0
      <4>1. i \in 1 .. b0 /\ i <= b0 + 1
        BY <3>1
      <4> QED
        BY <1>7, <3>1, <4>1
    <3>2. CASE i = b0 + 1
      <4>1. i - b0 = 1 /\ ~ (i <= b0) /\ i <= b0 + 1
        BY <3>2
      <4> QED
        BY <1>6, <1>7, <3>2, <4>1
    <3>3. CASE ~ (i <= b0 + 1)
      <4>1. /\ i - (b0 + 1) \in 1 .. n - 1 /\ (i - (b0 + 1)) + 1 = i - b0 /\ ~ (i <= b0)
        BY <3>3
      <4> QED
        BY <1>4, <3>3, <4>1
    <3> QED
      BY <3>1, <3>2, <3>3
  <2> QED
    BY <2>1, <2>2, <2>3, <2>4
<1>15. LossInv'
  BY <1>1, <1>12, <1>14 DEF HoleFacts, LossInv, OrderInv
<1> QED
  BY <1>9, <1>10, <1>11, <1>13, <1>15 DEF HoleFacts

-----------------------------------------------------------------------------
(* The loop over the batch *)

\* The segment the loop takes, and the rest.
LEMMA HeadFacts ==
  ASSUME PeerInv, HoleFacts, batch # <<>>
  PROVE  /\ Head(batch) = batch[1] /\ seg = batch[1].s /\ seg \in Frame /\ Sent(seg)
         /\ seg.pos \in Nat /\ seg.len \in Nat /\ seg.pos + seg.len \in 0 .. StreamLen
         /\ seg.pos \in 0 .. StreamLen /\ Head(batch).t_ms \in 0 .. now
         /\ Len(batch) \in Nat \ {0} /\ Len(Tail(batch)) = Len(batch) - 1
         /\ \A i \in 1 .. Len(batch) - 1 : Tail(batch)[i] = batch[i + 1]
<1>1. batch \in Seq(Read) /\ StreamLen \in Nat
  BY Known
<1>2. /\ Len(batch) \in Nat \ {0} /\ Head(batch) = batch[1] /\ batch[1] \in Read
      /\ Len(Tail(batch)) = Len(batch) - 1
      /\ \A i \in 1 .. Len(batch) - 1 : Tail(batch)[i] = batch[i + 1]
  BY <1>1, TailFacts
<1>3. 1 \in 1 .. Len(batch)
  BY <1>2
<1>4. seg = batch[1].s /\ seg \in Frame
  BY <1>2 DEF seg, Read
<1>5. Sent(seg) /\ Head(batch).t_ms \in 0 .. now
  BY <1>2, <1>3, <1>4 DEF HoleFacts, WireInv, TimeInv
<1>6. seg.pos \in Nat /\ seg.len \in Nat /\ seg.pos + seg.len <= StreamLen
  BY <1>4 DEF Frame
<1>7. seg.pos + seg.len \in 0 .. StreamLen /\ seg.pos \in 0 .. StreamLen
  BY <1>1, <1>6
<1> QED
  BY <1>2, <1>4, <1>5, <1>6, <1>7

\* The first frame on its way is taken.
LEMMA WayPop ==
  ASSUME PeerInv, HoleFacts, batch # <<>>, batch' = Tail(batch), fd' = fd
  PROVE  OnWay # <<>> /\ OnWay[1] = seg /\ OnWay' = Tail(OnWay)
<1>1. PICK n \in Nat, b0 \in Nat : n = Len(fd) /\ b0 = Len(batch)
  BY WayFacts
<1>2. /\ b0 # 0 /\ Len(batch') = b0 - 1 /\ seg = batch[1].s
      /\ \A i \in 1 .. b0 - 1 : batch'[i] = batch[i + 1]
  BY <1>1, HeadFacts
<1>3. OnWay = [i \in 1 .. b0 + n |-> IF i <= b0 THEN batch[i].s ELSE fd[i - b0]]
  BY <1>1 DEF OnWay
<1>4. OnWay \in Seq(Frame) /\ Len(OnWay) = b0 + n
  BY <1>1, WayFacts
<1>5. 1 \in 1 .. b0 + n /\ 1 <= b0
  BY <1>2
<1>6. OnWay[1] = seg
  BY <1>2, <1>3, <1>5
<1>7. OnWay # <<>>
  BY <1>2, <1>4
<1>8. OnWay' = [i \in 1 .. (b0 - 1) + n |-> IF i <= b0 - 1 THEN batch'[i].s ELSE fd[i - (b0 - 1)]]
  BY <1>1, <1>2 DEF OnWay
<1>9. PICK V : V = Tail(OnWay)
  OBVIOUS
<1>10. /\ V \in Seq(Frame) /\ Len(V) = (b0 - 1) + n
       /\ \A i \in 1 .. (b0 + n) - 1 : V[i] = OnWay[i + 1]
  <2>1. /\ V \in Seq(Frame) /\ Len(V) = (b0 + n) - 1
        /\ \A i \in 1 .. (b0 + n) - 1 : V[i] = OnWay[i + 1]
    BY <1>4, <1>7, <1>9, TailFacts
  <2> QED
    BY <2>1
<1>11. V = [i \in 1 .. (b0 - 1) + n |-> V[i]]
  <2>1. V \in [1 .. Len(V) -> Frame]
    BY <1>10, LenProperties
  <2> QED
    BY <1>10, <2>1
<1>12. ASSUME NEW i \in 1 .. (b0 - 1) + n
       PROVE  V[i] = (IF i <= b0 - 1 THEN batch'[i].s ELSE fd[i - (b0 - 1)])
  <2>1. i \in 1 .. (b0 + n) - 1 /\ i + 1 \in 1 .. b0 + n
    BY <1>2
  <2>2. V[i] = (IF i + 1 <= b0 THEN batch[i + 1].s ELSE fd[(i + 1) - b0])
    BY <1>3, <1>10, <2>1
  <2>3. CASE i <= b0 - 1
    <3>1. i \in 1 .. b0 - 1 /\ i + 1 <= b0
      BY <2>3
    <3> QED
      BY <1>2, <2>2, <2>3, <3>1
  <2>4. CASE ~ (i <= b0 - 1)
    <3>1. ~ (i + 1 <= b0) /\ (i + 1) - b0 = i - (b0 - 1)
      BY <2>4
    <3> QED
      BY <2>2, <2>4, <3>1
  <2> QED
    BY <2>3, <2>4
<1>13. V = OnWay'
  BY <1>8, <1>11, <1>12
<1> QED
  BY <1>6, <1>7, <1>9, <1>13

\* What taking a segment keeps, whose bytes are now accounted for.
LEMMA PopHole ==
  ASSUME PeerInv, HoleFacts, batch # <<>>, pc = "batch", batch' = Tail(batch),
         UNCHANGED <<fd, wrote, snd_max, call, now>>, got' \subseteq 0 .. snd_max - 1,
         got \subseteq got', log.lost \subseteq log'.lost,
         Bytes(seg.pos, seg.len) \subseteq got' \cup log'.lost
  PROVE  /\ WireInv' /\ TimeInv' /\ (~ log.behind => OrderInv')
         /\ \A i \in 1 .. Len(batch') : Head(batch).t_ms <= batch'[i].t_ms
         /\ hole_open => \A i \in 1 .. Len(batch') : sum.t_hole_created <= batch'[i].t_ms
<1>1. PICK n \in Nat : n = Len(batch)
  BY HeadFacts
<1>2. /\ n # 0 /\ Len(batch') = n - 1 /\ Head(batch) = batch[1]
      /\ \A i \in 1 .. n - 1 : batch'[i] = batch[i + 1]
  BY <1>1, HeadFacts
<1>3. \A i \in 1 .. n - 1 : i + 1 \in 1 .. n /\ 1 \in 1 .. n /\ 1 < i + 1
  OBVIOUS
<1>4. WireInv'
  <2>1. ASSUME NEW i \in 1 .. Len(batch') PROVE Sent(batch[i].s)'
    <3>1. i \in 1 .. n - 1 /\ Sent(batch[i + 1].s)
      BY <1>1, <1>2, <1>3 DEF HoleFacts, WireInv
    <3> QED
      BY <1>2, <3>1 DEF Sent
  <2>2. \A i \in 1 .. Len(fd') : Sent(fd[i])'
    BY DEF HoleFacts, WireInv, Sent
  <2> QED
    BY <2>1, <2>2 DEF HoleFacts, WireInv
<1>5. /\ \A i \in 1 .. n : batch[i].t_ms \in 0 .. now
      /\ \A i, j \in 1 .. n : i < j => batch[i].t_ms <= batch[j].t_ms
      /\ now \in Nat
  BY <1>1 DEF HoleFacts, TimeInv
<1>6. TimeInv'
  <2>1. \A i \in 1 .. n - 1 : batch'[i].t_ms \in 0 .. now
    BY <1>2, <1>3, <1>5
  <2>2. ASSUME NEW i \in 1 .. n - 1, NEW j \in 1 .. n - 1, i < j PROVE batch'[i].t_ms <= batch'[j].t_ms
    <3>1. i + 1 < j + 1
      BY <2>2
    <3> QED
      BY <1>2, <1>3, <1>5, <3>1
  <2> QED
    BY <1>2, <1>5, <2>1, <2>2 DEF TimeInv
<1>7. \A i \in 1 .. Len(batch') : Head(batch).t_ms <= batch'[i].t_ms
  BY <1>2, <1>3, <1>5
<1>8. hole_open => \A i \in 1 .. Len(batch') : sum.t_hole_created <= batch'[i].t_ms
  BY <1>1, <1>2, <1>3 DEF HoleFacts, HoleInv
<1>9. ASSUME ~ log.behind PROVE OrderInv'
  <2>1. OrderInv
    BY <1>9 DEF HoleFacts, LossInv
  <2>2. OnWay \in Seq(Frame) /\ snd_max \in Nat
    BY WayFacts, Known
  <2>3. OnWay # <<>> /\ OnWay[1] = seg /\ OnWay' = Tail(OnWay)
    BY WayPop
  <2>4. PICK G, H : G = got \cup log.lost /\ H = got' \cup log'.lost
    OBVIOUS
  <2>5. G \subseteq H /\ Bytes(OnWay[1].pos, OnWay[1].len) \subseteq H /\ InOrder(OnWay, G, snd_max)
    BY <2>1, <2>3, <2>4 DEF OrderInv
  <2>6. InOrder(Tail(OnWay), H, snd_max)
    BY <2>2, <2>3, <2>5, OrderPop
  <2> QED
    BY <2>3, <2>4, <2>6 DEF OrderInv
<1> QED
  BY <1>4, <1>6, <1>7, <1>8, <1>9

\* A segment without data.
LEMMA ControlHole == ASSUME PeerInv, HoleFacts, HandleControl PROVE HoleFacts'
<1>1. /\ UNCHANGED <<rules, got, frontier, hole_open, hole_end_seq, wrote, snd_max, fd, call>>
      /\ UNCHANGED <<log, now, pc, spent>> /\ pc = "batch" /\ batch # <<>> /\ batch' = Tail(batch)
      /\ seg.kind \in {"fin", "ack", "foreign"}
      /\ sum' = (IF Head(batch).s.kind = "fin" THEN [sum EXCEPT !.saw_fin = TRUE] ELSE sum)
  BY DEF HandleControl, Taking, BatchFrame, PeerFrame, rsmVars, holeVars, callVars, kernelVars, seg
<1>2. sum \in SumType
  BY Known
<1>3. /\ sum'.t_hole_created = sum.t_hole_created /\ sum'.hol_delay_ms = sum.hol_delay_ms
      /\ sum'.bytes_wanted = sum.bytes_wanted /\ sum'.completed = sum.completed
  BY <1>1, <1>2 DEF SumType
<1>4. seg.pos \in Nat /\ seg.len = 0
  BY <1>1, HeadFacts DEF Sent
<1>5. Bytes(seg.pos, seg.len) = {}
  BY <1>4 DEF Bytes
<1>6. got \subseteq 0 .. snd_max - 1
  BY DEF HoleFacts, WireInv
<1>7. /\ WireInv' /\ TimeInv' /\ (~ log.behind => OrderInv')
      /\ hole_open => \A i \in 1 .. Len(batch') : sum.t_hole_created <= batch'[i].t_ms
  BY <1>1, <1>5, <1>6, PopHole
<1>8. Edge' = Edge
  BY <1>1 DEF Edge
<1>9. RuleInv' /\ DoneInv'
  BY <1>1, <1>3 DEF HoleFacts, RuleInv, DoneInv
<1>10. HoleInv'
  BY <1>1, <1>3, <1>7, <1>8 DEF HoleFacts, HoleInv
<1>11. LossInv'
  BY <1>1, <1>7, <1>8 DEF HoleFacts, LossInv
<1> QED
  BY <1>7, <1>9, <1>10, <1>11 DEF HoleFacts

\* The early return at a RST.
LEMMA RstHole == ASSUME PeerInv, HoleFacts, HandleRst PROVE HoleFacts'
<1>1. /\ UNCHANGED <<rules, got, frontier, hole_open, hole_end_seq, wrote, snd_max, fd, call>>
      /\ UNCHANGED <<log, now, spent>> /\ batch # <<>> /\ batch' = <<>> /\ pc' = "idle"
      /\ Head(batch).s.kind = "rst"
      /\ sum' = [sum EXCEPT !.saw_rst = TRUE]
  BY DEF HandleRst, Taking, BatchFrame, PeerFrame, rsmVars, holeVars, callVars, kernelVars
<1>2. sum \in SumType
  BY Known
<1>3. /\ sum'.t_hole_created = sum.t_hole_created /\ sum'.hol_delay_ms = sum.hol_delay_ms
      /\ sum'.bytes_wanted = sum.bytes_wanted /\ sum'.completed = sum.completed
  BY <1>1, <1>2 DEF SumType
<1>4. spent.rst # 0
  BY <1>1, RestOfBatch
<1>5. Len(batch') = 0
  BY <1>1
<1>6. Edge' = Edge
  BY <1>1 DEF Edge
<1>7. RuleInv' /\ DoneInv'
  BY <1>1, <1>3 DEF HoleFacts, RuleInv, DoneInv
<1>8. \A i \in 1 .. Len(batch') : FALSE
  BY <1>5
<1>9. WireInv' /\ TimeInv'
  BY <1>1, <1>8 DEF HoleFacts, WireInv, Sent, TimeInv
<1>10. HoleInv'
  BY <1>1, <1>3, <1>6, <1>8 DEF HoleFacts, HoleInv
<1>11. LossInv'
  BY <1>1, <1>4, <1>6 DEF HoleFacts, LossInv
<1> QED
  BY <1>7, <1>9, <1>10, <1>11 DEF HoleFacts

\* The offsets and the sequence numbers of the segment the loop takes.
LEMMA SegNumbers ==
  ASSUME PeerInv, HoleFacts, ShortStream, batch # <<>>
  PROVE  rel = seg.pos /\ seg_end = SeqOf(seg.pos + seg.len) /\ PosOf(seg_end) = seg.pos + seg.len
<1>1. /\ seg.pos \in Nat /\ seg.len \in Nat /\ seg.pos \in 0 .. StreamLen /\ seg.pos + seg.len \in 0 .. StreamLen
      /\ 0 \in 0 .. StreamLen /\ Isn \in Int
  BY HeadFacts, StreamAssumption, IsnAssumption, SeqNoValue
<1>2. rel = seg.pos
  <2>1. int32(seq_sub(SeqOf(seg.pos), SeqOf(0))) = seg.pos - 0
    BY <1>1, Numbers
  <2> QED
    BY <1>1, <2>1 DEF rel
<1>3. seg_end = SeqOf(seg.pos + seg.len)
  <2>1. PICK a \in Int, k \in Int : a = Isn + seg.pos /\ k = seg.len
    BY <1>1
  <2>2. Wrap(a + k) = Wrap(Wrap(a) + k)
    BY WrapAdd
  <2>3. a + k = Isn + (seg.pos + seg.len)
    BY <1>1, <2>1
  <2> QED
    BY <2>1, <2>2, <2>3 DEF seg_end, SeqOf
<1>4. PosOf(SeqOf(seg.pos + seg.len)) = seg.pos + seg.len
  BY <1>1, Numbers
<1> QED
  BY <1>2, <1>3, <1>4

\* drop() charges the segment to a rule that matches it.
LEMMA ChargedFacts ==
  ASSUME NEW rs \in Seq(DropRule), NEW r, NEW l, Drops(rs, r, l)
  PROVE  /\ Charged(rs, r, l) \in Seq(DropRule) /\ Len(Charged(rs, r, l)) = Len(rs)
         /\ \E f \in 1 .. Len(rs) :
               /\ Matches(rs[f], r, l)
               /\ \A k \in 1 .. Len(rs) :
                     /\ Charged(rs, r, l)[k].lo = rs[k].lo /\ Charged(rs, r, l)[k].hi = rs[k].hi
                     /\ Charged(rs, r, l)[k].times = rs[k].times
                     /\ Charged(rs, r, l)[k].fired = IF k = f THEN rs[k].fired + 1 ELSE rs[k].fired
<1> DEFINE S == Matching(rs, r, l)
<1>1. S # {} /\ S \subseteq 1 .. Len(rs) /\ S \subseteq Nat
  BY DEF Drops, Matching
<1>2. \E x \in S : \A y \in S : x <= y
  BY <1>1, LeastOf
<1>3. PICK f : f = CHOOSE k \in S : \A j \in S : k <= j
  OBVIOUS
<1>4. f \in S
  BY <1>2, <1>3, Zenon
<1>5. f \in 1 .. Len(rs) /\ Matches(rs[f], r, l)
  BY <1>4 DEF Matching
<1>6. Charged(rs, r, l) = [rs EXCEPT ![f].fired = @ + 1]
  BY <1>3 DEF Charged
<1> HIDE DEF S
<1>7. PICK c : c = [rs EXCEPT ![f].fired = @ + 1]
  OBVIOUS
<1>8. rs \in [1 .. Len(rs) -> DropRule] /\ Len(rs) \in Nat
  BY LenProperties
<1>9. rs[f] \in DropRule
  BY <1>5, <1>8
<1>10. [rs[f] EXCEPT !.fired = @ + 1] \in DropRule
  <2>1. rs[f].fired + 1 \in Nat
    BY <1>9 DEF DropRule
  <2> QED
    BY <1>9, <2>1 DEF DropRule
<1>11. c = [rs EXCEPT ![f] = [rs[f] EXCEPT !.fired = @ + 1]]
  BY <1>7
<1>12. c \in [1 .. Len(rs) -> DropRule]
  BY <1>8, <1>10, <1>11
<1>13. c \in Seq(DropRule) /\ Len(c) = Len(rs)
  BY <1>8, <1>12
<1>14. ASSUME NEW k \in 1 .. Len(rs)
       PROVE  /\ c[k].lo = rs[k].lo /\ c[k].hi = rs[k].hi /\ c[k].times = rs[k].times
              /\ c[k].fired = IF k = f THEN rs[k].fired + 1 ELSE rs[k].fired
  <2>1. CASE k = f
    BY <1>8, <1>9, <1>11, <2>1 DEF DropRule
  <2>2. CASE k # f
    BY <1>8, <1>11, <2>2
  <2> QED
    BY <2>1, <2>2
<1> QED
  BY <1>5, <1>6, <1>7, <1>13, <1>14

\* The summary after a drop.
LEMMA DropSummary ==
  ASSUME PeerInv, HandleDrop
  PROVE  /\ sum'.t_hole_created = (IF hole_open THEN sum.t_hole_created ELSE Head(batch).t_ms)
         /\ sum'.t_hole_filled = sum.t_hole_filled /\ sum'.hol_delay_ms = sum.hol_delay_ms
         /\ sum'.bytes_wanted = sum.bytes_wanted /\ sum'.completed = sum.completed
         /\ sum'.t_first_data = sum.t_first_data /\ sum'.t_last_original = sum.t_last_original
<1>1. PICK t : t = IF OpensHole THEN HoleTime ELSE sum.t_hole_created
  OBVIOUS
<1>2. PICK sm : sm = [sum EXCEPT !.segments_dropped = @ + 1, !.t_hole_created = t]
  OBVIOUS
<1>3. sum' = sm \/ sum' = [sm EXCEPT !.retransmits = @ + 1]
  BY <1>1, <1>2 DEF HandleDrop, SeeData
<1>4. sum \in SumType
  BY Known
<1>5. /\ sm.t_hole_created = t
      /\ sm.t_hole_filled = sum.t_hole_filled /\ sm.hol_delay_ms = sum.hol_delay_ms
      /\ sm.bytes_wanted = sum.bytes_wanted /\ sm.completed = sum.completed
      /\ sm.t_first_data = sum.t_first_data /\ sm.t_last_original = sum.t_last_original
  BY <1>2, <1>4 DEF SumType
<1>6. DOMAIN sm = DOMAIN sum
  BY <1>2
<1>7. /\ sum'.t_hole_created = sm.t_hole_created
      /\ sum'.t_hole_filled = sm.t_hole_filled /\ sum'.hol_delay_ms = sm.hol_delay_ms
      /\ sum'.bytes_wanted = sm.bytes_wanted /\ sum'.completed = sm.completed
      /\ sum'.t_first_data = sm.t_first_data /\ sum'.t_last_original = sm.t_last_original
  BY <1>2, <1>3, <1>4 DEF SumType
<1>8. t = IF hole_open THEN sum.t_hole_created ELSE Head(batch).t_ms
  BY <1>1 DEF OpensHole, HoleTime
<1> QED
  BY <1>5, <1>7, <1>8

\* The log after a drop.
LEMMA DropLog ==
  ASSUME PeerInv, HandleDrop
  PROVE  /\ log'.lost = log.lost \cup Bytes(seg.pos, seg.len) /\ log'.behind = log.behind
         /\ log'.firstDrop = (IF log.firstDrop = NoTime THEN Head(batch).t_ms ELSE log.firstDrop)
<1>1. log \in LogType
  BY Known
<1>2. log' = [log EXCEPT !.firstDrop = IF @ = NoTime THEN Head(batch).t_ms ELSE @,
                         !.lost = @ \cup Bytes(seg.pos, seg.len)]
  BY DEF HandleDrop
<1> QED
  BY <1>1, <1>2 DEF LogType

\* A rule that takes a segment finds a byte of its range there that has not
\* been accepted.
LEMMA DropTakes ==
  ASSUME PeerInv, HoleFacts, ShortStream, HandleDrop
  PROVE  /\ rules' \in Seq(DropRule) /\ Len(rules') = Len(rules)
         /\ \E f \in 1 .. Len(rules), x \in Bytes(seg.pos, seg.len) :
               /\ rules[f].fired < rules[f].times /\ rules[f].lo <= x /\ x < rules[f].hi
               /\ x \notin got /\ frontier <= x /\ x \in Nat
               /\ \A k \in 1 .. Len(rules) :
                     /\ rules'[k].lo = rules[k].lo /\ rules'[k].hi = rules[k].hi
                     /\ rules'[k].times = rules[k].times
                     /\ rules'[k].fired = IF k = f THEN rules[k].fired + 1 ELSE rules[k].fired
<1>1. batch # <<>> /\ rules' = Charged(rules, rel, seg.len) /\ Drops(rules, rel, seg.len)
  BY DEF HandleDrop, Taking, Dropped
<1>2. /\ rel = seg.pos /\ seg.pos \in Nat /\ seg.len \in Nat /\ rules \in Seq(DropRule)
  BY <1>1, SegNumbers, HeadFacts DEF HoleFacts, RuleInv
<1>3. PICK c : c = Charged(rules, rel, seg.len)
  OBVIOUS
<1>4. /\ c \in Seq(DropRule) /\ Len(c) = Len(rules)
      /\ \E f \in 1 .. Len(rules) :
            /\ Matches(rules[f], rel, seg.len)
            /\ \A k \in 1 .. Len(rules) :
                  /\ c[k].lo = rules[k].lo /\ c[k].hi = rules[k].hi
                  /\ c[k].times = rules[k].times
                  /\ c[k].fired = IF k = f THEN rules[k].fired + 1 ELSE rules[k].fired
  BY <1>1, <1>2, <1>3, ChargedFacts
<1>5. PICK f \in 1 .. Len(rules) :
            /\ Matches(rules[f], rel, seg.len)
            /\ \A k \in 1 .. Len(rules) :
                  /\ c[k].lo = rules[k].lo /\ c[k].hi = rules[k].hi
                  /\ c[k].times = rules[k].times
                  /\ c[k].fired = IF k = f THEN rules[k].fired + 1 ELSE rules[k].fired
  BY <1>4
<1>6. /\ rules[f].lo \in Nat /\ rules[f].hi \in Nat /\ rules[f].fired < rules[f].times
      /\ seg.pos < rules[f].hi /\ rules[f].lo < seg.pos + seg.len /\ rules[f].lo < rules[f].hi
  <2>1. rules[f] \in DropRule
    BY <1>2
  <2>2. rules[f].lo < rules[f].hi
    BY DEF HoleFacts, RuleInv
  <2> QED
    BY <1>2, <1>5, <2>1, <2>2 DEF DropRule, Matches
<1>7. Drops(rules, rel, seg.len) => seg.len > 0
  BY DEF Drops
<1>8. PICK x \in Nat : /\ x \in Bytes(seg.pos, seg.len) /\ rules[f].lo <= x /\ x < rules[f].hi
  <2>1. CASE seg.pos >= rules[f].lo
    <3>1. seg.pos \in Bytes(seg.pos, seg.len)
      BY <1>1, <1>2, <1>7 DEF Bytes
    <3> QED
      BY <1>2, <1>6, <2>1, <3>1
  <2>2. CASE seg.pos < rules[f].lo
    <3>1. rules[f].lo \in Bytes(seg.pos, seg.len)
      BY <1>2, <1>6, <2>2 DEF Bytes
    <3> QED
      BY <1>6, <3>1
  <2> QED
    BY <1>2, <1>6, <2>1, <2>2
<1>9. x \notin got
  <2>1. \A p \in got : p < rules[f].lo \/ rules[f].hi <= p
    BY <1>6 DEF HoleFacts, RuleInv
  <2> QED
    BY <1>6, <1>8, <2>1
<1>10. frontier <= x
  <2>1. frontier \in Nat /\ 0 .. frontier - 1 \subseteq got
    BY Known DEF PeerInv, AckInv, StreamInv, IsFrontier
  <2>2. x < frontier => x \in 0 .. frontier - 1
    BY <1>8, <2>1
  <2> QED
    BY <1>8, <1>9, <2>1, <2>2
<1> QED
  BY <1>1, <1>3, <1>4, <1>5, <1>6, <1>8, <1>9, <1>10

\* The policy takes a segment.
LEMMA DropHole == ASSUME PeerInv, HoleFacts, ShortStream, HandleDrop PROVE HoleFacts'
<1>1. /\ UNCHANGED <<got, frontier, wrote, snd_max, fd, call, now, pc, spent>>
      /\ pc = "batch" /\ batch # <<>> /\ batch' = Tail(batch)
      /\ hole_open' = (hole_open \/ OpensHole)
      /\ hole_end_seq' = IF OpensHole THEN HoleEnd ELSE hole_end_seq
  BY DEF HandleDrop, SeeData, Taking, BatchFrame, PeerFrame, rsmVars, callVars, kernelVars
<1>2. hole_open' = TRUE
  BY <1>1 DEF OpensHole
<1>3. /\ log'.lost = log.lost \cup Bytes(seg.pos, seg.len) /\ log'.behind = log.behind
  BY DropLog
<1>4. /\ sum'.t_hole_created = (IF hole_open THEN sum.t_hole_created ELSE Head(batch).t_ms)
      /\ sum'.hol_delay_ms = sum.hol_delay_ms
      /\ sum'.bytes_wanted = sum.bytes_wanted /\ sum'.completed = sum.completed
  BY DropSummary
<1>5. got \subseteq 0 .. snd_max - 1
  BY DEF HoleFacts, WireInv
<1>6. /\ WireInv' /\ TimeInv' /\ (~ log.behind => OrderInv')
      /\ \A i \in 1 .. Len(batch') : Head(batch).t_ms <= batch'[i].t_ms
      /\ hole_open => \A i \in 1 .. Len(batch') : sum.t_hole_created <= batch'[i].t_ms
  BY <1>1, <1>3, <1>5, PopHole
<1>7. DoneInv'
  BY <1>1, <1>4 DEF HoleFacts, DoneInv
<1>8. /\ rules' \in Seq(DropRule) /\ Len(rules') = Len(rules)
  BY DropTakes
<1>9. PICK f \in 1 .. Len(rules), x \in Bytes(seg.pos, seg.len) :
               /\ rules[f].fired < rules[f].times /\ rules[f].lo <= x /\ x < rules[f].hi
               /\ x \notin got /\ frontier <= x /\ x \in Nat
               /\ \A k \in 1 .. Len(rules) :
                     /\ rules'[k].lo = rules[k].lo /\ rules'[k].hi = rules[k].hi
                     /\ rules'[k].times = rules[k].times
                     /\ rules'[k].fired = IF k = f THEN rules[k].fired + 1 ELSE rules[k].fired
  BY DropTakes
<1>10. RuleInv'
  <2>1. ASSUME NEW k \in 1 .. Len(rules') PROVE rules'[k].lo < rules'[k].hi
    BY <1>8, <1>9 DEF HoleFacts, RuleInv
  <2>2. ASSUME NEW k \in 1 .. Len(rules'), rules'[k].fired < rules'[k].times, NEW p \in got'
        PROVE  p < rules'[k].lo \/ rules'[k].hi <= p
    <3>1. rules[k] \in DropRule
      BY <1>8 DEF HoleFacts, RuleInv
    <3>2. rules[k].fired < rules[k].times
      BY <1>8, <1>9, <2>2, <3>1 DEF DropRule
    <3> QED
      BY <1>1, <1>8, <1>9, <3>2 DEF HoleFacts, RuleInv
  <2> QED
    BY <1>8, <2>1, <2>2 DEF RuleInv
<1>11. /\ seg.pos \in Nat /\ seg.len \in Nat /\ seg.pos + seg.len <= snd_max /\ snd_max \in Nat
       /\ Head(batch).t_ms \in 0 .. now /\ frontier \in Nat
       /\ seg_end = SeqOf(seg.pos + seg.len) /\ PosOf(seg_end) = seg.pos + seg.len
  BY <1>1, HeadFacts, SegNumbers, Known DEF Sent
<1>12. CASE hole_open
  <2>1. Edge' = Edge /\ hole_end_seq' = hole_end_seq /\ sum'.t_hole_created = sum.t_hole_created
    BY <1>1, <1>4, <1>12 DEF Edge, OpensHole
  <2>2. HoleInv'
    BY <1>1, <1>2, <1>4, <1>6, <1>12, <2>1 DEF HoleFacts, HoleInv
  <2>3. LossInv'
    BY <1>1, <1>3, <1>6, <1>12, <2>1 DEF HoleFacts, LossInv
  <2> QED
    BY <1>6, <1>7, <1>10, <2>2, <2>3 DEF HoleFacts
<1>13. CASE ~ hole_open
  <2>1. hole_end_seq' = seg_end /\ sum'.t_hole_created = Head(batch).t_ms
    BY <1>1, <1>4, <1>13 DEF OpensHole, HoleEnd
  <2>2. PICK e \in Nat : e = seg.pos + seg.len
    BY <1>11
  <2>3. Edge' = e /\ hole_end_seq' = SeqOf(e)
    BY <1>11, <2>1, <2>2 DEF Edge, PosOf
  <2>4. e \in 1 .. snd_max /\ frontier < e
    BY <1>9, <1>11, <2>2 DEF Bytes
  <2>5. HoleInv'
    <3>1. hole_end_seq' = SeqOf(Edge')
      BY <2>3
    <3>2. Edge' \in 1 .. snd_max' /\ frontier' < Edge'
      BY <1>1, <2>3, <2>4
    <3>3. sum'.t_hole_created \in 0 .. now'
      BY <1>1, <1>11, <2>1
    <3>4. \A i \in 1 .. Len(batch') : sum'.t_hole_created <= batch'[i].t_ms
      BY <1>6, <2>1
    <3> QED
      BY <1>2, <3>1, <3>2, <3>3, <3>4 DEF HoleInv
  <2>6. ASSUME ~ log.behind, NEW y \in 0 .. Edge' - 1 PROVE y \in got' \/ y \in log'.lost
    <3>1. OrderInv /\ OnWay \in Seq(Frame)
      BY <1>1, <2>6, WayFacts DEF HoleFacts, LossInv
    <3>2. OnWay # <<>> /\ OnWay[1] = seg
      BY <1>1, WayPop
    <3>3. 1 \in 1 .. Len(OnWay)
      BY <3>1, <3>2
    <3>4. y \in 0 .. OnWay[1].pos + OnWay[1].len - 1
      <4>1. y \in 0 .. e - 1
        BY <2>3, <2>6
      <4>2. OnWay[1].pos \in Nat /\ OnWay[1].len \in Nat /\ OnWay[1].pos + OnWay[1].len = e
        BY <1>11, <2>2, <3>2
      <4> QED
        BY <4>1, <4>2
    <3>5. Traced(OnWay, got \cup log.lost, y, 1)
      BY <3>1, <3>3, <3>4 DEF OrderInv, InOrder
    <3>6. y \in got \cup log.lost \/ y \in Bytes(OnWay[1].pos, OnWay[1].len)
      BY <3>5 DEF Traced
    <3> QED
      BY <1>1, <1>3, <3>2, <3>6
  <2>7. LossInv'
    BY <1>1, <1>3, <1>6, <2>6 DEF LossInv
  <2> QED
    BY <1>6, <1>7, <1>10, <2>5, <2>7 DEF HoleFacts
<1> QED
  BY <1>12, <1>13

\* The summary after an accepted segment.
LEMMA DataSummary ==
  ASSUME PeerInv, HandleData
  PROVE  /\ sum'.t_hole_created = sum.t_hole_created
         /\ sum'.t_hole_filled = (IF FillsHole THEN Head(batch).t_ms ELSE sum.t_hole_filled)
         /\ sum'.hol_delay_ms = (IF FillsHole THEN Head(batch).t_ms - sum.t_hole_created ELSE sum.hol_delay_ms)
         /\ sum'.bytes_wanted = sum.bytes_wanted /\ sum'.completed = sum.completed
         /\ sum'.t_first_data \in {sum.t_first_data, Head(batch).t_ms}
         /\ sum'.t_last_original \in {sum.t_last_original, Head(batch).t_ms}
<1>1. PICK a, b, c, d :
         /\ a = IF sum.t_first_data = NoTime THEN Head(batch).t_ms ELSE sum.t_first_data
         /\ b = IF is_rexmt THEN sum.t_last_original ELSE Head(batch).t_ms
         /\ c = IF FillsHole THEN Head(batch).t_ms ELSE sum.t_hole_filled
         /\ d = IF FillsHole THEN Head(batch).t_ms - sum.t_hole_created ELSE sum.hol_delay_ms
  OBVIOUS
<1>2. PICK sm : sm = [sum EXCEPT !.t_first_data = a, !.t_last_original = b, !.t_hole_filled = c,
                                 !.hol_delay_ms = d]
  OBVIOUS
<1>3. sum' = sm \/ sum' = [sm EXCEPT !.retransmits = @ + 1]
  BY <1>1, <1>2 DEF HandleData, SeeData
<1>4. sum \in SumType
  BY Known
<1>5. /\ sm.t_hole_created = sum.t_hole_created
      /\ sm.t_hole_filled = c /\ sm.hol_delay_ms = d
      /\ sm.bytes_wanted = sum.bytes_wanted /\ sm.completed = sum.completed
      /\ sm.t_first_data = a /\ sm.t_last_original = b
  BY <1>2, <1>4 DEF SumType
<1>6. /\ sum'.t_hole_created = sm.t_hole_created
      /\ sum'.t_hole_filled = sm.t_hole_filled /\ sum'.hol_delay_ms = sm.hol_delay_ms
      /\ sum'.bytes_wanted = sm.bytes_wanted /\ sum'.completed = sm.completed
      /\ sum'.t_first_data = sm.t_first_data /\ sum'.t_last_original = sm.t_last_original
  BY <1>2, <1>3, <1>4 DEF SumType
<1>7. a \in {sum.t_first_data, Head(batch).t_ms} /\ b \in {sum.t_last_original, Head(batch).t_ms}
  BY <1>1
<1> QED
  BY <1>1, <1>5, <1>6, <1>7

\* The log after an accepted segment.
LEMMA DataLog ==
  ASSUME PeerInv, HandleData
  PROVE  log'.lost = log.lost /\ log'.behind = log.behind /\ log'.firstDrop = log.firstDrop
<1>1. log \in LogType /\ log' = [log EXCEPT !.accepted = @ + 1]
  BY Known DEF HandleData
<1> QED
  BY <1>1 DEF LogType

\* A segment that gets through touches no rule that could still take it.
LEMMA DataSpared ==
  ASSUME PeerInv, HoleFacts, ShortStream, HandleData,
         NEW k \in 1 .. Len(rules), rules[k].fired < rules[k].times, NEW p \in got'
  PROVE  p < rules[k].lo \/ rules[k].hi <= p
<1>1. batch # <<>> /\ ~ Dropped /\ got' = got \cup Bytes(seg.pos, seg.len) /\ Head(batch).s.kind = "data"
  BY DEF HandleData, Taking, Accepted
<1>2. rel = seg.pos /\ seg.pos \in Nat /\ seg.len \in Nat /\ seg.len >= 1 /\ rules \in Seq(DropRule)
  BY <1>1, SegNumbers, HeadFacts DEF HoleFacts, RuleInv, Sent, seg
<1>3. Matching(rules, rel, seg.len) = {}
  BY <1>1, <1>2 DEF Dropped, Drops
<1>4. ~ (rel < rules[k].hi /\ rules[k].lo < rel + seg.len)
  BY <1>3 DEF Matching, Matches
<1>5. rules[k].lo \in Nat /\ rules[k].hi \in Nat
  <2>1. rules[k] \in DropRule
    BY <1>2
  <2> QED
    BY <2>1 DEF DropRule
<1>6. CASE p \in got
  BY <1>6 DEF HoleFacts, RuleInv
<1>7. CASE p \in Bytes(seg.pos, seg.len)
  BY <1>2, <1>4, <1>5, <1>7 DEF Bytes
<1> QED
  BY <1>1, <1>6, <1>7

\* The segment is accepted.
LEMMA DataHole == ASSUME PeerInv, HoleFacts, ShortStream, HandleData PROVE HoleFacts'
<1>1. /\ UNCHANGED <<rules, hole_end_seq, wrote, snd_max, fd, call, now, pc, spent>>
      /\ pc = "batch" /\ batch # <<>> /\ batch' = Tail(batch)
      /\ got' = got \cup Bytes(seg.pos, seg.len) /\ frontier' = NewFrontier
      /\ hole_open' = (hole_open /\ ~ FillsHole)
  BY DEF HandleData, SeeData, Taking, BatchFrame, PeerFrame, callVars, kernelVars, Accepted
<1>2. log'.lost = log.lost /\ log'.behind = log.behind
  BY DataLog
<1>3. /\ sum'.t_hole_created = sum.t_hole_created
      /\ sum'.hol_delay_ms = (IF FillsHole THEN Head(batch).t_ms - sum.t_hole_created ELSE sum.hol_delay_ms)
      /\ sum'.bytes_wanted = sum.bytes_wanted /\ sum'.completed = sum.completed
  BY DataSummary
<1>4. PICK m \in Nat, w \in Nat : m = snd_max /\ w = NewFrontier
  BY <1>1, Known, AcceptFacts
<1>5. w \in 0 .. StreamLen /\ frontier <= w /\ frontier \in Nat /\ StreamLen \in Nat
  BY <1>1, <1>4, Known, AcceptFacts
<1>6. got' \subseteq 0 .. snd_max - 1
  <2>1. seg.pos \in Nat /\ seg.len \in Nat /\ seg.pos + seg.len <= m
    BY <1>1, <1>4, HeadFacts DEF Sent
  <2>2. Bytes(seg.pos, seg.len) \subseteq 0 .. m - 1
    BY <2>1 DEF Bytes
  <2>3. got \subseteq 0 .. m - 1
    BY <1>4 DEF HoleFacts, WireInv
  <2> QED
    BY <1>1, <1>4, <2>2, <2>3
<1>7. /\ WireInv' /\ TimeInv' /\ (~ log.behind => OrderInv')
      /\ hole_open => \A i \in 1 .. Len(batch') : sum.t_hole_created <= batch'[i].t_ms
  BY <1>1, <1>2, <1>6, PopHole
<1>8. RuleInv'
  <2>1. \A k \in 1 .. Len(rules') : rules'[k].lo < rules'[k].hi
    BY <1>1 DEF HoleFacts, RuleInv
  <2>2. ASSUME NEW k \in 1 .. Len(rules'), rules'[k].fired < rules'[k].times, NEW p \in got'
        PROVE  p < rules'[k].lo \/ rules'[k].hi <= p
    BY <1>1, <2>2, DataSpared
  <2> QED
    BY <1>1, <2>1, <2>2 DEF HoleFacts, RuleInv
<1>9. Edge' = Edge
  BY <1>1 DEF Edge
<1>10. FillsHole => /\ Head(batch).t_ms - sum.t_hole_created # NoTime
                    /\ Head(batch).t_ms - sum.t_hole_created >= 0
  <2>1. SUFFICES ASSUME hole_open PROVE /\ Head(batch).t_ms - sum.t_hole_created # NoTime
                                        /\ Head(batch).t_ms - sum.t_hole_created >= 0
    BY DEF FillsHole
  <2>2. Head(batch) = batch[1] /\ 1 \in 1 .. Len(batch) /\ Head(batch).t_ms \in 0 .. now /\ now \in Nat
    BY <1>1, HeadFacts DEF HoleFacts, TimeInv
  <2>3. sum.t_hole_created \in 0 .. now /\ sum.t_hole_created <= Head(batch).t_ms
    BY <2>1, <2>2 DEF HoleFacts, HoleInv
  <2> QED
    BY <2>2, <2>3 DEF NoTime
<1>11. ASSUME hole_open' PROVE w < Edge /\ hole_open /\ ~ FillsHole
  <2>1. hole_open /\ ~ FillsHole
    BY <1>1, <1>11
  <2>2. Edge \in 1 .. m /\ hole_end_seq = SeqOf(Edge) /\ m <= StreamLen
    BY <1>4, <2>1, Known DEF HoleFacts, HoleInv
  <2>3. PICK e \in 0 .. StreamLen : e = Edge
    BY <1>5, <2>2
  <2>4. ~ seq_geq(SeqOf(w), SeqOf(e))
    BY <1>4, <2>1, <2>2, <2>3 DEF FillsHole
  <2>5. seq_geq(SeqOf(w), SeqOf(e)) <=> w >= e
    BY <1>5, Numbers
  <2> QED
    BY <2>1, <2>3, <2>4, <2>5
<1>12. hole_open' \in BOOLEAN
  <2>1. CASE FillsHole
    BY <1>1, <2>1
  <2>2. CASE ~ FillsHole
    BY <1>1, <2>2 DEF HoleFacts, HoleInv
  <2> QED
    BY <2>1, <2>2
<1>13. ASSUME \E k \in 1 .. Len(rules') : rules'[k].fired # 0 PROVE hole_open' \/ sum'.hol_delay_ms # NoTime
  <2>1. hole_open \/ sum.hol_delay_ms # NoTime
    BY <1>1, <1>13 DEF HoleFacts, HoleInv
  <2>2. CASE FillsHole
    BY <1>3, <1>10, <2>2
  <2>3. CASE ~ FillsHole
    BY <1>1, <1>3, <2>1, <2>3
  <2> QED
    BY <2>2, <2>3
<1>14. HoleInv'
  <2>1. ASSUME hole_open'
        PROVE  /\ Edge' \in 1 .. snd_max' /\ hole_end_seq' = SeqOf(Edge') /\ frontier' < Edge'
               /\ sum'.t_hole_created \in 0 .. now'
               /\ \A i \in 1 .. Len(batch') : sum'.t_hole_created <= batch'[i].t_ms
    <3>1. hole_open /\ w < Edge
      BY <1>11, <2>1
    <3>2. Edge \in 1 .. snd_max /\ hole_end_seq = SeqOf(Edge) /\ sum.t_hole_created \in 0 .. now
      BY <3>1 DEF HoleFacts, HoleInv
    <3> QED
      BY <1>1, <1>3, <1>4, <1>7, <1>9, <3>1, <3>2
  <2> QED
    BY <1>12, <1>13, <2>1 DEF HoleInv
<1>15. LossInv'
  BY <1>1, <1>2, <1>7, <1>9, <1>11 DEF HoleFacts, LossInv
<1>16. DoneInv'
  <2>1. ASSUME sum'.completed PROVE call > 0 /\ w >= sum.bytes_wanted
    <3>1. sum.completed /\ sum \in SumType
      BY <1>3, <2>1, Known
    <3>2. call > 0 /\ frontier >= sum.bytes_wanted /\ sum.bytes_wanted \in Int
      BY <3>1 DEF HoleFacts, DoneInv, SumType
    <3> QED
      BY <1>5, <3>2
  <2>2. call > 0 => sum.bytes_wanted = wrote
    BY DEF HoleFacts, DoneInv
  <2> QED
    BY <1>1, <1>3, <1>4, <2>1, <2>2 DEF DoneInv
<1> QED
  BY <1>7, <1>8, <1>14, <1>15, <1>16 DEF HoleFacts

\* Everything sent has arrived: the frames on their way carry nothing new.
LEMMA OrderArrived ==
  ASSUME PeerInv, HoleFacts, frontier >= snd_max, NEW G, got \subseteq G
  PROVE  InOrder(OnWay, G, snd_max)
<1>1. PICK n \in Nat, b0 \in Nat, m \in Nat : n = Len(fd) /\ b0 = Len(batch) /\ m = snd_max
  BY WayFacts, Known
<1>2. \A p \in 0 .. m - 1 : p \in G
  <2>1. frontier \in Nat /\ 0 .. frontier - 1 \subseteq got
    BY Known DEF PeerInv, AckInv, StreamInv, IsFrontier
  <2>2. \A p \in 0 .. m - 1 : p \in 0 .. frontier - 1
    BY <1>1, <2>1
  <2> QED
    BY <2>1, <2>2
<1>3. ASSUME NEW i \in 1 .. b0 + n PROVE OnWay[i].pos + OnWay[i].len <= m
  <2>1. OnWay[i] = (IF i <= b0 THEN batch[i].s ELSE fd[i - b0])
    BY <1>1 DEF OnWay
  <2>2. CASE i <= b0
    <3>1. i \in 1 .. b0
      BY <2>2
    <3> QED
      BY <1>1, <2>1, <2>2, <3>1 DEF HoleFacts, WireInv, Sent
  <2>3. CASE ~ (i <= b0)
    <3>1. i - b0 \in 1 .. n
      BY <2>3
    <3> QED
      BY <1>1, <2>1, <2>3, <3>1 DEF HoleFacts, WireInv, Sent
  <2> QED
    BY <2>2, <2>3
<1>4. OnWay \in Seq(Frame) /\ Len(OnWay) = b0 + n
  BY <1>1, WayFacts
<1>5. ASSUME NEW i \in 1 .. Len(OnWay), NEW p \in 0 .. OnWay[i].pos + OnWay[i].len - 1 PROVE p \in G
  <2>1. OnWay[i] \in Frame /\ OnWay[i].pos + OnWay[i].len <= m
    BY <1>3, <1>4
  <2>2. OnWay[i].pos \in Nat /\ OnWay[i].len \in Nat
    BY <2>1 DEF Frame
  <2>3. p \in 0 .. m - 1
    BY <2>1, <2>2
  <2> QED
    BY <1>2, <2>3
<1> QED
  BY <1>1, <1>2, <1>5 DEF InOrder, Traced

\* A call begins: its policy names bytes beyond everything sent so far.
LEMMA StartHole == ASSUME PeerInv, HoleFacts, StartReceive PROVE HoleFacts'
<1>1. /\ UNCHANGED <<got, frontier, snd_max, fd, batch, now, spent>> /\ call' = call + 1
      /\ call < Len(Targets) /\ wrote' = Targets[call + 1] /\ rules' = Policies[call + 1]
      /\ sum' = EmptySummary(Targets[call + 1]) /\ hole_open' = FALSE
      /\ log' = [EmptyLog EXCEPT !.behind = frontier < snd_max] /\ pc' = "loop"
  BY DEF StartReceive, rsmVars
<1>2. PICK c \in Nat : c = call
  BY Known
<1>3. /\ Targets \in Seq(Nat) /\ Len(Targets) \in Nat /\ Len(Policies) = Len(Targets)
      /\ c + 1 \in 1 .. Len(Targets)
  BY <1>1, <1>2, TargetsAssumption
<1>4. log'.lost = {} /\ log'.behind = (frontier < snd_max)
  BY <1>1 DEF EmptyLog
<1>5. sum'.bytes_wanted = Targets[c + 1] /\ sum'.completed = FALSE
  BY <1>1, <1>2 DEF EmptySummary
<1>6. Targets[c + 1] \in Nat /\ (c # 0 => Targets[c] \in Nat /\ Targets[c] <= Targets[c + 1])
  <2>1. CASE c # 0
    <3>1. c \in 1 .. Len(Targets) /\ c < c + 1
      BY <1>3, <2>1
    <3> QED
      BY <1>3, <3>1, ForwardAssumption
  <2>2. CASE c = 0
    BY <1>3, <2>2
  <2> QED
    BY <2>1, <2>2
<1>7. wrote = (IF c = 0 THEN 0 ELSE Targets[c]) /\ snd_max <= wrote /\ wrote \in Nat /\ snd_max \in Nat
  BY <1>2, Known DEF HoleFacts, WireInv
<1>8. WireInv'
  <2>1. snd_max' <= wrote'
    BY <1>1, <1>2, <1>6, <1>7
  <2>2. call' \in 0 .. Len(Targets) /\ call' # 0 /\ wrote' = Targets[call']
    BY <1>1, <1>2, <1>3
  <2>3. /\ \A i \in 1 .. Len(fd') : Sent(fd[i])'
        /\ \A i \in 1 .. Len(batch') : Sent(batch[i].s)'
        /\ got' \subseteq 0 .. snd_max' - 1
    BY <1>1 DEF HoleFacts, WireInv, Sent
  <2> QED
    BY <2>1, <2>2, <2>3 DEF WireInv
<1>9. PICK R \in Seq(DropRule) : R = Policies[c + 1]
  BY <1>3, TargetsAssumption
<1>10. ASSUME NEW k \in 1 .. Len(R)
       PROVE  /\ R[k].lo \in Nat /\ R[k].lo < R[k].hi /\ R[k].fired = 0 /\ wrote <= R[k].lo
  <2>1. R[k] \in DropRule
    OBVIOUS
  <2>2. R[k].lo < R[k].hi /\ R[k].fired = 0 /\ (c + 1 > 1 => Targets[(c + 1) - 1] <= R[k].lo)
    BY <1>3, <1>9, ForwardAssumption
  <2>3. c # 0 => Targets[c] <= R[k].lo
    <3>1. c # 0 => c + 1 > 1 /\ (c + 1) - 1 = c
      OBVIOUS
    <3> QED
      BY <2>2, <3>1
  <2>4. R[k].lo \in Nat
    BY <2>1 DEF DropRule
  <2> QED
    BY <1>7, <2>2, <2>3, <2>4
<1>11. RuleInv'
  <2>1. rules' = R
    BY <1>1, <1>2, <1>9
  <2>2. ASSUME NEW k \in 1 .. Len(R), NEW p \in got PROVE p < R[k].lo
    <3>1. p \in 0 .. snd_max - 1
      BY DEF HoleFacts, WireInv
    <3> QED
      BY <1>7, <1>10, <3>1
  <2> QED
    BY <1>1, <1>10, <2>1, <2>2 DEF RuleInv
<1>12. TimeInv'
  BY <1>1 DEF HoleFacts, TimeInv
<1>13. HoleInv'
  BY <1>1, <1>2, <1>9, <1>10 DEF HoleInv
<1>14. LossInv'
  <2>1. ASSUME ~ log'.behind PROVE OrderInv'
    <3>0. ~ (frontier < snd_max)
      BY <1>4, <2>1, Zenon
    <3>1. frontier \in Nat /\ frontier >= snd_max
      BY <1>7, <3>0, Known
    <3>2. InOrder(OnWay, got \cup {}, snd_max)
      BY <3>1, OrderArrived
    <3>3. OnWay' = OnWay
      BY <1>1 DEF OnWay
    <3> QED
      BY <1>1, <1>4, <3>2, <3>3 DEF OrderInv
  <2> QED
    BY <1>1, <2>1 DEF LossInv
<1>15. DoneInv'
  BY <1>1, <1>2, <1>5 DEF DoneInv
<1> QED
  BY <1>8, <1>11, <1>12, <1>13, <1>14, <1>15 DEF HoleFacts

-----------------------------------------------------------------------------
(* The invariant *)

\* A call is running or none has been made.
Called == pc # "idle" => call > 0

\* The initial state.
LEMMA InitHole == ASSUME Init PROVE HoleFacts /\ Called
<1>1. /\ call = 0 /\ wrote = 0 /\ snd_max = 0 /\ got = {} /\ fd = <<>> /\ batch = <<>> /\ rules = <<>>
      /\ now = 0 /\ hole_open = FALSE /\ pc = "idle" /\ sum = EmptySummary(0) /\ log = EmptyLog
  BY DEF Init
<1>2. Len(Targets) \in Nat /\ Len(fd) = 0 /\ Len(batch) = 0 /\ Len(rules) = 0
  BY <1>1, TargetsAssumption
<1>3. \A i \in 1 .. 0 : FALSE
  OBVIOUS
<1>4. WireInv
  BY <1>1, <1>2, <1>3 DEF WireInv
<1>5. RuleInv
  BY <1>1, <1>2, <1>3 DEF RuleInv
<1>6. TimeInv
  BY <1>1, <1>2, <1>3 DEF TimeInv
<1>7. HoleInv
  BY <1>1, <1>2, <1>3 DEF HoleInv
<1>8. LossInv
  <2>1. Len(OnWay) = 0
    <3>1. OnWay = [i \in 1 .. 0 |-> IF i <= 0 THEN batch[i].s ELSE fd[i - 0]]
      BY <1>2 DEF OnWay
    <3> QED
      BY <3>1
  <2>2. InOrder(OnWay, got \cup log.lost, snd_max)
    BY <1>1, <2>1 DEF InOrder
  <2> QED
    BY <1>1, <2>2 DEF LossInv, OrderInv
<1>9. DoneInv
  BY <1>1 DEF DoneInv, EmptySummary
<1> QED
  BY <1>1, <1>4, <1>5, <1>6, <1>7, <1>8, <1>9 DEF HoleFacts, Called

\* Only a call leaves the idle state.
LEMMA CalledStep == ASSUME PeerInv, Called, [Next]_vars PROVE Called'
<1>1. CASE Kernel
  BY <1>1 DEF Kernel, KSend, KRexmt, KRto, KAck, KControl, KReset, KernelFrame, callVars, Called
<1>2. CASE StartReceive
  BY <1>2, Known DEF StartReceive, Called
<1>3. CASE Receive
  <2>1. pc # "idle" /\ call' = call
    BY <1>3 DEF Receive, EnterDrain, LeaveLoop, DrainRead, DrainReturn, HandleRst, HandleControl,
       HandleDrop, HandleData, SeeData, Taking, EndBatch, FlushSend, FlushFail, FlushDone, Return, AckReady,
       BatchFrame, FlushFrame, PeerFrame, callVars
  <2> QED
    BY <2>1 DEF Called
<1>4. CASE Tick \/ UNCHANGED vars
  BY <1>4 DEF Tick, callVars, vars, Called
<1> QED
  BY <1>1, <1>2, <1>3, <1>4 DEF Next

\* Every step keeps the invariant.
LEMMA StepHole == ASSUME ShortStream, PeerInv, HoleFacts, Called, [Next]_vars PROVE HoleFacts'
<1>1. CASE Kernel
  BY <1>1, KernelHole
<1>2. CASE StartReceive
  BY <1>2, StartHole
<1>3. CASE Receive
  BY <1>3, LoopHole, DrainReadHole, RstHole, ControlHole, DropHole, DataHole, FlushHole, ReturnHole
     DEF Receive, Called
<1>4. CASE Tick
  BY <1>4, TickHole
<1>5. CASE UNCHANGED vars
  BY <1>5, LoopHole
<1> QED
  BY <1>1, <1>2, <1>3, <1>4, <1>5 DEF Next

\* The inductive invariant of the hole: what is on its way, the rules, the
\* stamps, the hole and the verdict of receive() agree in every reachable state.
THEOREM HoleInvariant ==
  ASSUME ShortStream
  PROVE  Spec => [](HoleFacts /\ Called)
<1>1. Init => HoleFacts /\ Called
  BY InitHole
<1>2. PeerInv /\ HoleFacts /\ Called /\ [Next]_vars => (HoleFacts /\ Called)'
  BY StepHole, CalledStep
<1>3. Spec => []PeerInv
  BY PeerInvariant
<1> QED
  BY <1>1, <1>2, <1>3, PTL DEF Spec

-----------------------------------------------------------------------------
(* The hole is real and the policy's *)

\* While the hole is open, the frontier is short of its end.
THEOREM RealHole ==
  ASSUME ShortStream
  PROVE  Spec => []HoleIsReal
<1>1. ASSUME PeerInv, HoleFacts PROVE HoleIsReal
  <2>1. SUFFICES ASSUME hole_open PROVE seq_lt(SeqOf(frontier), hole_end_seq)
    BY DEF HoleIsReal
  <2>2. /\ Edge \in 1 .. snd_max /\ hole_end_seq = SeqOf(Edge) /\ frontier < Edge
        /\ snd_max \in 0 .. StreamLen /\ frontier \in 0 .. StreamLen
    BY <1>1, <2>1, Known DEF HoleFacts, HoleInv
  <2>3. PICK e \in 0 .. StreamLen, f \in 0 .. StreamLen : e = Edge /\ f = frontier
    BY <2>2, StreamAssumption
  <2>4. seq_lt(SeqOf(f), SeqOf(e)) <=> f < e
    BY Numbers
  <2> QED
    BY <2>2, <2>3, <2>4
<1> QED
  BY <1>1, PeerInvariant, HoleInvariant, PTL

\* On a connection with nothing outstanding when the call began, every byte
\* missing below the end of the hole was in a segment the policy took.
THEOREM PolicyStall ==
  ASSUME ShortStream
  PROVE  Spec => []StallIsPolicy
<1>1. ASSUME PeerInv, HoleFacts PROVE StallIsPolicy
  <2>1. SUFFICES ASSUME hole_open, ~ log.behind, NEW p \in 0 .. StreamLen - 1,
                        seq_lt(SeqOf(p), hole_end_seq), p \notin got
                 PROVE  p \in log.lost
    BY DEF StallIsPolicy
  <2>2. /\ Edge \in 1 .. snd_max /\ hole_end_seq = SeqOf(Edge) /\ snd_max \in 0 .. StreamLen
        /\ StreamLen \in Nat
    BY <1>1, <2>1, Known DEF HoleFacts, HoleInv
  <2>3. PICK e \in 0 .. StreamLen : e = Edge
    BY <2>2
  <2>4. p \in 0 .. StreamLen
    BY <2>2
  <2>5. seq_lt(SeqOf(p), SeqOf(e)) <=> p < e
    BY <2>4, Numbers
  <2>6. p \in 0 .. Edge - 1
    BY <2>1, <2>2, <2>3, <2>5
  <2> QED
    BY <1>1, <2>1, <2>6 DEF HoleFacts, LossInv
<1> QED
  BY <1>1, PeerInvariant, HoleInvariant, PTL

\* A completed run whose rules have all fired has a head-of-line delay.
THEOREM ValidHol ==
  ASSUME ShortStream
  PROVE  Spec => []ValidRunHasHol
<1>1. ASSUME PeerInv, HoleFacts PROVE ValidRunHasHol
  <2>1. SUFFICES ASSUME call > 0, sum.completed, rules # <<>>, unfired(rules) = {}
                 PROVE  sum.hol_delay_ms # NoTime
    BY DEF ValidRunHasHol
  <2>2. rules \in Seq(DropRule)
    BY <1>1 DEF HoleFacts, RuleInv
  <2>3. 1 \in 1 .. Len(rules)
    BY <2>1, <2>2
  <2>4. rules[1].fired # 0
    BY <2>1, <2>3 DEF unfired
  <2>5. hole_open \/ sum.hol_delay_ms # NoTime
    BY <1>1, <2>3, <2>4 DEF HoleFacts, HoleInv
  <2>6. frontier >= wrote /\ wrote \in Nat /\ snd_max <= wrote /\ snd_max \in Nat /\ frontier \in Nat
    BY <1>1, <2>1, Known DEF HoleFacts, WireInv, DoneInv
  <2>7. hole_open => Edge \in 1 .. snd_max /\ frontier < Edge
    BY <1>1 DEF HoleFacts, HoleInv
  <2> QED
    BY <2>5, <2>6, <2>7
<1> QED
  BY <1>1, PeerInvariant, HoleInvariant, PTL

-----------------------------------------------------------------------------
(* One rule per call: the delay is measured from the first drop *)

\* Every experiment that prints hol_delay_ms adds at most one rule per call.
OneRule == \A k \in 1 .. Len(Policies) : Len(Policies[k]) <= 1

\* The open hole is that of the first drop and holds a byte of the rule; once
\* it is closed the rule is spent.
OneHoleInv ==
    /\ Len(rules) <= 1
    /\ hole_open => /\ log.firstDrop # NoTime /\ sum.t_hole_created = log.firstDrop
                    /\ Len(rules) = 1
                    /\ \E x \in Nat : x < Edge /\ rules[1].lo <= x /\ x < rules[1].hi
    /\ ~ hole_open /\ log.firstDrop # NoTime =>
          \A k \in 1 .. Len(rules) : ~ (rules[k].fired < rules[k].times)
    /\ sum.t_hole_filled # NoTime =>
          /\ log.firstDrop # NoTime /\ sum.t_hole_created = log.firstDrop
          /\ sum.hol_delay_ms = sum.t_hole_filled - log.firstDrop

\* Steps that touch neither the rule nor the hole nor its times.
LEMMA OneKept ==
  ASSUME OneHoleInv, UNCHANGED <<rules, hole_open, hole_end_seq>>, log'.firstDrop = log.firstDrop,
         sum'.t_hole_created = sum.t_hole_created, sum'.t_hole_filled = sum.t_hole_filled,
         sum'.hol_delay_ms = sum.hol_delay_ms
  PROVE  OneHoleInv'
<1>1. Edge' = Edge
  BY DEF Edge
<1> QED
  BY <1>1 DEF OneHoleInv

\* A drop with the hole open belongs to it; with the hole closed it is the first.
LEMMA OneDrop ==
  ASSUME PeerInv, HoleFacts, ShortStream, OneHoleInv, HandleDrop
  PROVE  OneHoleInv'
<1>1. /\ batch # <<>> /\ hole_open' = TRUE
      /\ hole_end_seq' = IF OpensHole THEN HoleEnd ELSE hole_end_seq
  BY DEF HandleDrop, Taking, OpensHole
<1>2. /\ log'.firstDrop = (IF log.firstDrop = NoTime THEN Head(batch).t_ms ELSE log.firstDrop)
      /\ sum'.t_hole_created = (IF hole_open THEN sum.t_hole_created ELSE Head(batch).t_ms)
      /\ sum'.t_hole_filled = sum.t_hole_filled /\ sum'.hol_delay_ms = sum.hol_delay_ms
  BY DropLog, DropSummary
<1>3. PICK f \in 1 .. Len(rules), x \in Bytes(seg.pos, seg.len) :
               /\ rules[f].fired < rules[f].times /\ rules[f].lo <= x /\ x < rules[f].hi
               /\ x \notin got /\ frontier <= x /\ x \in Nat
               /\ \A k \in 1 .. Len(rules) :
                     /\ rules'[k].lo = rules[k].lo /\ rules'[k].hi = rules[k].hi
                     /\ rules'[k].times = rules[k].times
                     /\ rules'[k].fired = IF k = f THEN rules[k].fired + 1 ELSE rules[k].fired
  BY DropTakes
<1>4. rules \in Seq(DropRule) /\ Len(rules) \in Nat /\ Len(rules') = Len(rules)
  BY DropTakes DEF HoleFacts, RuleInv
<1>5. f = 1 /\ Len(rules) = 1
  BY <1>4 DEF OneHoleInv
<1>6. rules'[1].lo = rules[1].lo /\ rules'[1].hi = rules[1].hi
  BY <1>3, <1>5
<1>7. CASE hole_open
  <2>1. Edge' = Edge
    BY <1>1, <1>7 DEF Edge, OpensHole
  <2>2. log.firstDrop # NoTime /\ log'.firstDrop = log.firstDrop /\ sum'.t_hole_created = sum.t_hole_created
    BY <1>2, <1>7 DEF OneHoleInv
  <2> QED
    BY <1>1, <1>2, <1>4, <1>5, <1>6, <1>7, <2>1, <2>2 DEF OneHoleInv
<1>8. CASE ~ hole_open
  <2>1. log.firstDrop = NoTime
    BY <1>3, <1>8 DEF OneHoleInv
  <2>2. sum.t_hole_filled = NoTime
    BY <2>1 DEF OneHoleInv
  <2>3. Head(batch).t_ms \in 0 .. now /\ now \in Nat
    BY <1>1, HeadFacts DEF HoleFacts, TimeInv
  <2>4. log'.firstDrop = Head(batch).t_ms /\ sum'.t_hole_created = Head(batch).t_ms /\ Head(batch).t_ms # NoTime
    BY <1>2, <1>8, <2>1, <2>3 DEF NoTime
  <2>5. hole_end_seq' = seg_end /\ PosOf(seg_end) = seg.pos + seg.len
    BY <1>1, <1>8, SegNumbers DEF OpensHole, HoleEnd
  <2>6. PICK e \in Nat : e = seg.pos + seg.len
    BY <1>1, HeadFacts
  <2>7. Edge' = e
    BY <2>5, <2>6 DEF Edge, PosOf
  <2>8. x < e
    BY <1>1, <1>3, <2>6, HeadFacts DEF Bytes
  <2>9. \E y \in Nat : y < Edge' /\ rules'[1].lo <= y /\ y < rules'[1].hi
    BY <1>3, <1>5, <1>6, <2>7, <2>8
  <2> QED
    BY <1>1, <1>2, <1>4, <1>5, <2>2, <2>4, <2>9 DEF OneHoleInv
<1> QED
  BY <1>7, <1>8

\* When the frontier passes the hole, a byte of the rule has been accepted:
\* the rule is spent.
LEMMA OneData ==
  ASSUME PeerInv, PeerInv', HoleFacts, HoleFacts', ShortStream, OneHoleInv, HandleData
  PROVE  OneHoleInv'
<1>1. /\ batch # <<>> /\ UNCHANGED <<rules, hole_end_seq>> /\ hole_open' = (hole_open /\ ~ FillsHole)
      /\ frontier' = NewFrontier
  BY DEF HandleData, Taking
<1>2. /\ sum'.t_hole_created = sum.t_hole_created
      /\ sum'.t_hole_filled = (IF FillsHole THEN Head(batch).t_ms ELSE sum.t_hole_filled)
      /\ sum'.hol_delay_ms = (IF FillsHole THEN Head(batch).t_ms - sum.t_hole_created ELSE sum.hol_delay_ms)
      /\ log'.firstDrop = log.firstDrop
  BY DataSummary, DataLog
<1>3. Edge' = Edge
  BY <1>1 DEF Edge
<1>4. CASE ~ FillsHole
  <2>1. UNCHANGED <<rules, hole_open, hole_end_seq>>
    <3>1. hole_open' = hole_open
      BY <1>1, <1>4 DEF HoleFacts, HoleInv
    <3> QED
      BY <1>1, <3>1
  <2> QED
    BY <1>2, <1>4, <2>1, OneKept
<1>5. CASE FillsHole
  <2>1. hole_open /\ seq_geq(SeqOf(NewFrontier), hole_end_seq) /\ hole_open' = FALSE
    BY <1>1, <1>5 DEF FillsHole
  <2>2. PICK x \in Nat : x < Edge /\ rules[1].lo <= x /\ x < rules[1].hi
    BY <2>1 DEF OneHoleInv
  <2>3. log.firstDrop # NoTime /\ sum.t_hole_created = log.firstDrop /\ Len(rules) = 1
    BY <2>1 DEF OneHoleInv
  <2>4. /\ Edge \in 1 .. snd_max /\ hole_end_seq = SeqOf(Edge) /\ snd_max \in 0 .. StreamLen
        /\ NewFrontier \in 0 .. StreamLen /\ StreamLen \in Nat
    BY <1>1, <2>1, Known, AcceptFacts DEF HoleFacts, HoleInv
  <2>5. PICK e \in 0 .. StreamLen, w \in 0 .. StreamLen : e = Edge /\ w = NewFrontier
    BY <2>4
  <2>6. seq_geq(SeqOf(w), SeqOf(e)) <=> w >= e
    BY Numbers
  <2>7. w >= e
    BY <2>1, <2>4, <2>5, <2>6
  <2>8. x \in 0 .. w - 1
    BY <2>2, <2>5, <2>7
  <2>9. 0 .. w - 1 \subseteq got'
    BY <1>1, <2>5 DEF PeerInv, AckInv, StreamInv, IsFrontier
  <2>10. x \in got'
    BY <2>8, <2>9
  <2>11. rules \in Seq(DropRule) /\ rules[1] \in DropRule /\ 1 \in 1 .. Len(rules)
    <3>1. rules \in Seq(DropRule) /\ 1 \in 1 .. Len(rules)
      BY <2>3 DEF HoleFacts, RuleInv
    <3> QED
      BY <3>1
  <2>12. rules[1].lo \in Nat /\ rules[1].hi \in Nat
    BY <2>11 DEF DropRule
  <2>13. ~ (x < rules[1].lo \/ rules[1].hi <= x)
    BY <2>2, <2>12
  <2>14. ~ (rules[1].fired < rules[1].times)
    BY <1>1, <2>10, <2>11, <2>13 DEF HoleFacts, RuleInv
  <2>15. \A k \in 1 .. Len(rules) : k = 1
    BY <2>3
  <2>16. sum'.hol_delay_ms = sum'.t_hole_filled - log'.firstDrop
    BY <1>2, <1>5, <2>3
  <2> QED
    BY <1>1, <1>2, <2>1, <2>3, <2>14, <2>15, <2>16 DEF OneHoleInv
<1> QED
  BY <1>4, <1>5

\* Every step keeps it.
LEMMA OneStep ==
  ASSUME ShortStream, OneRule, PeerInv, PeerInv', HoleFacts, HoleFacts', OneHoleInv, [Next]_vars
  PROVE  OneHoleInv'
<1>1. CASE Kernel
  <2>1. UNCHANGED <<rules, hole_open, hole_end_seq, sum, log>>
    BY <1>1 DEF Kernel, KSend, KRexmt, KRto, KAck, KControl, KReset, KernelFrame, holeVars
  <2> QED
    BY <2>1, OneKept
<1>2. CASE StartReceive
  <2>1. /\ hole_open' = FALSE /\ rules' = Policies[call + 1] /\ call < Len(Targets)
        /\ sum' = EmptySummary(Targets[call + 1])
        /\ log' = [EmptyLog EXCEPT !.behind = frontier < snd_max]
    BY <1>2 DEF StartReceive
  <2>2. call \in Nat /\ Len(Targets) \in Nat /\ Len(Policies) = Len(Targets)
    BY Known, TargetsAssumption
  <2>3. call + 1 \in 1 .. Len(Policies)
    BY <2>1, <2>2
  <2>4. Len(rules') <= 1
    BY <2>1, <2>3 DEF OneRule
  <2>5. log'.firstDrop = NoTime /\ sum'.t_hole_filled = NoTime
    BY <2>1 DEF EmptyLog, EmptySummary
  <2> QED
    BY <2>1, <2>4, <2>5 DEF OneHoleInv
<1>3. CASE EnterDrain \/ LeaveLoop \/ DrainRead \/ DrainReturn \/ EndBatch \/ FlushDone \/ Tick \/ UNCHANGED vars
  <2>1. UNCHANGED <<rules, hole_open, hole_end_seq, sum, log>>
    BY <1>3 DEF EnterDrain, LeaveLoop, DrainRead, DrainReturn, EndBatch, FlushDone, Tick, vars, holeVars, FlushFrame
  <2> QED
    BY <2>1, OneKept
<1>4. CASE HandleRst \/ HandleControl \/ FlushSend \/ FlushFail \/ Return
  <2>1. UNCHANGED <<rules, hole_open, hole_end_seq>>
    BY <1>4 DEF HandleRst, HandleControl, FlushSend, FlushFail, Return, holeVars, FlushFrame
  <2>2. sum \in SumType /\ log \in LogType
    BY Known
  <2>3. log'.firstDrop = log.firstDrop
    BY <1>4, <2>2 DEF HandleRst, HandleControl, FlushSend, FlushFail, Return, LogType
  <2>4. /\ sum'.t_hole_created = sum.t_hole_created /\ sum'.t_hole_filled = sum.t_hole_filled
        /\ sum'.hol_delay_ms = sum.hol_delay_ms
    <3>1. CASE HandleRst
      BY <2>2, <3>1 DEF HandleRst, SumType
    <3>2. CASE HandleControl
      BY <2>2, <3>2 DEF HandleControl, SumType
    <3>3. CASE FlushSend
      BY <2>2, <3>3 DEF FlushSend, SumType
    <3>4. CASE FlushFail
      BY <2>2, <3>4 DEF FlushFail, CountFailure, SumType
    <3>5. CASE Return
      BY <2>2, <3>5 DEF Return, SumType
    <3> QED
      BY <1>4, <3>1, <3>2, <3>3, <3>4, <3>5
  <2> QED
    BY <2>1, <2>3, <2>4, OneKept
<1> QED
  BY <1>1, <1>2, <1>3, <1>4, OneDrop, OneData DEF Next, Receive

\* With one rule per call, t_hole_created is the stamp of the first segment
\* dropped and hol_delay_ms is measured from it.
THEOREM HolOfFirstDrop ==
  ASSUME ShortStream, OneRule
  PROVE  Spec => []HolFromFirstDrop
<1>1. Init => OneHoleInv
  <2>1. SUFFICES ASSUME Init PROVE OneHoleInv
    OBVIOUS
  <2>2. rules = <<>> /\ hole_open = FALSE /\ sum = EmptySummary(0) /\ log = EmptyLog
    BY <2>1 DEF Init
  <2>3. Len(rules) = 0 /\ log.firstDrop = NoTime /\ sum.t_hole_filled = NoTime
    BY <2>2 DEF EmptyLog, EmptySummary
  <2> QED
    BY <2>2, <2>3 DEF OneHoleInv
<1>2. PeerInv /\ PeerInv' /\ HoleFacts /\ HoleFacts' /\ OneHoleInv /\ [Next]_vars => OneHoleInv'
  BY OneStep
<1>3. OneHoleInv => HolFromFirstDrop
  BY DEF OneHoleInv, HolFromFirstDrop
<1>4. Spec => []PeerInv /\ [](HoleFacts /\ Called)
  BY PeerInvariant, HoleInvariant
<1> QED
  BY <1>1, <1>2, <1>3, <1>4, PTL DEF Spec

-----------------------------------------------------------------------------
(* Types *)

\* What the type invariant needs beyond the invariants above.
SpentInv == \A b \in DOMAIN Budget : spent[b] \in 0 .. Budget[b]
NumberInv == max_seq_end_seen \in SeqNo /\ hole_end_seq \in SeqNo
ClockInv ==
    /\ now \in 0 .. MaxTime /\ t_end \in Nat /\ mark \in Nat
    /\ \A i \in 1 .. Len(pending) : pending[i].due \in Nat
StampInv ==
    /\ sum.t_first_data \in Times /\ sum.t_last_original \in Times
    /\ sum.t_hole_created \in Times /\ sum.t_hole_filled \in Times /\ sum.hol_delay_ms \in Times
PcInv == pc \in {"idle", "loop", "drain", "batch", "flush", "final"}

\* One more of a budget that is not used up.
LEMMA SpendBound ==
  ASSUME PeerInv, SpentInv, NEW b \in {"rexmt", "control", "rst", "fail"}, Spend(b)
  PROVE  SpentInv'
<1>1. /\ DOMAIN Budget = {"rexmt", "control", "rst", "fail"}
      /\ \A c \in {"rexmt", "control", "rst", "fail"} : Budget[c] \in Nat
  BY BoundsAssumption DEF Budget
<1>2. DOMAIN spent = {"rexmt", "control", "rst", "fail"}
  BY Known
<1>3. spent[b] < Budget[b] /\ spent' = [spent EXCEPT ![b] = @ + 1]
  BY DEF Spend
<1>4. \A c \in {"rexmt", "control", "rst", "fail"} : spent'[c] = IF c = b THEN spent[c] + 1 ELSE spent[c]
  BY <1>2, <1>3
<1>5. ASSUME NEW c \in {"rexmt", "control", "rst", "fail"} PROVE spent'[c] \in 0 .. Budget[c]
  BY <1>1, <1>3, <1>4 DEF SpentInv
<1> QED
  BY <1>1, <1>5 DEF SpentInv

\* The budgets.
LEMMA SpentStep == ASSUME PeerInv, SpentInv, [Next]_vars PROVE SpentInv'
<1>1. CASE spent' = spent
  BY <1>1 DEF SpentInv
<1>2. CASE \E b \in {"rexmt", "control", "rst", "fail"} : Spend(b)
  BY <1>2, SpendBound
<1>3. CASE Kernel
  BY <1>1, <1>2, <1>3 DEF Kernel, KSend, KRexmt, KRto, KAck, KControl, KReset
<1>4. CASE Receive
  BY <1>1, <1>2, <1>4 DEF Receive, EnterDrain, LeaveLoop, DrainRead, DrainReturn, HandleRst, HandleControl,
     HandleDrop, HandleData, SeeData, EndBatch, FlushSend, FlushFail, FlushDone, Return, BatchFrame
<1>5. CASE StartReceive \/ Tick \/ UNCHANGED vars
  BY <1>1, <1>5 DEF StartReceive, Tick, vars
<1> QED
  BY <1>3, <1>4, <1>5 DEF Next

\* The sequence numbers.
LEMMA NumberStep == ASSUME ShortStream, PeerInv, HoleFacts, NumberInv, [Next]_vars PROVE NumberInv'
<1>1. 0 \in SeqNo
  BY SpaceSize DEF SeqNo
<1>2. CASE UNCHANGED <<max_seq_end_seen, hole_end_seq>>
  BY <1>2 DEF NumberInv
<1>3. CASE Kernel
  BY <1>2, <1>3 DEF Kernel, KSend, KRexmt, KRto, KAck, KControl, KReset, KernelFrame, holeVars
<1>4. CASE HandleDrop \/ HandleData
  <2>1. batch # <<>>
    BY <1>4 DEF HandleDrop, HandleData, Taking
  <2>2. PICK e \in 0 .. StreamLen : e = seg.pos + seg.len
    BY <2>1, HeadFacts
  <2>3. seg_end \in SeqNo
    BY <2>1, <2>2, SegNumbers, Numbers
  <2>4. max_seq_end_seen' \in {seg_end, max_seq_end_seen} /\ hole_end_seq' \in {seg_end, hole_end_seq}
    BY <1>4 DEF HandleDrop, HandleData, SeeData, HoleEnd
  <2> QED
    BY <2>3, <2>4 DEF NumberInv
<1>5. CASE EnterDrain \/ LeaveLoop \/ DrainRead \/ DrainReturn \/ HandleRst \/ HandleControl
           \/ EndBatch \/ FlushSend \/ FlushFail \/ FlushDone \/ Return
  BY <1>2, <1>5 DEF EnterDrain, LeaveLoop, DrainRead, DrainReturn, HandleRst, HandleControl,
     EndBatch, FlushSend, FlushFail, FlushDone, Return, FlushFrame, holeVars
<1>6. CASE StartReceive
  BY <1>1, <1>6 DEF StartReceive, NumberInv
<1>7. CASE Tick \/ UNCHANGED vars
  BY <1>2, <1>7 DEF Tick, vars, holeVars
<1> QED
  BY <1>3, <1>4, <1>5, <1>6, <1>7 DEF Next, Receive

\* The clock, the deadlines and the due times.
LEMMA ClockStep == ASSUME PeerInv, HoleFacts, ClockInv, [Next]_vars PROVE ClockInv'
<1>1. AckDelay \in Nat /\ Slice \in Nat /\ MaxTime \in Nat /\ Timeouts \subseteq Nat
  BY BoundsAssumption
<1>2. now \in Nat /\ pending \in Seq(Ack)
  BY <1>1, Known DEF ClockInv
<1>3. CASE UNCHANGED <<now, t_end, pending>> /\ mark' \in Nat
  BY <1>3 DEF ClockInv
<1>4. CASE Kernel
  <2>1. UNCHANGED <<now, t_end, pending, mark>>
    BY <1>4 DEF Kernel, KSend, KRexmt, KRto, KAck, KControl, KReset, KernelFrame, callVars
  <2> QED
    BY <1>3, <2>1 DEF ClockInv
<1>5. CASE StartReceive
  <2>1. UNCHANGED <<now, pending, mark>> /\ t_end' \in Nat
    BY <1>1, <1>2, <1>5 DEF StartReceive
  <2> QED
    BY <2>1 DEF ClockInv
<1>6. CASE EnterDrain
  <2>1. Deadline \in Nat
    <3>1. CASE pending # <<>>
      <4>1. Head(pending) = pending[1] /\ 1 \in 1 .. Len(pending)
        BY <1>2, <3>1
      <4>2. Head(pending).due \in Nat
        BY <4>1 DEF ClockInv
      <4> QED
        BY <1>1, <1>2, <4>2 DEF Deadline
    <3>2. CASE pending = <<>>
      BY <1>1, <1>2, <3>2 DEF Deadline
    <3> QED
      BY <3>1, <3>2
  <2>2. UNCHANGED <<now, t_end, pending>> /\ mark' \in {mark, Deadline}
    BY <1>6 DEF EnterDrain, PeerFrame, callVars
  <2> QED
    BY <1>3, <2>1, <2>2 DEF ClockInv
<1>7. CASE LeaveLoop \/ DrainRead \/ DrainReturn \/ HandleRst \/ HandleControl \/ HandleDrop
           \/ EndBatch \/ FlushDone \/ Return \/ UNCHANGED vars
  <2>1. UNCHANGED <<now, t_end, pending>> /\ mark' \in {mark, 0, now}
    BY <1>7 DEF LeaveLoop, DrainRead, DrainReturn, HandleRst, HandleControl, HandleDrop, SeeData, EndBatch,
       FlushDone, Return, BatchFrame, FlushFrame, PeerFrame, callVars, vars
  <2> QED
    BY <1>2, <1>3, <2>1 DEF ClockInv
<1>8. CASE HandleData
  <2>1. PICK a : a = [due |-> now + AckDelay, ack |-> SeqOf(NewFrontier),
                      sacks |-> Sacks(Accepted, NewFrontier), is_dup |-> NewFrontier = frontier]
    OBVIOUS
  <2>2. UNCHANGED <<now, t_end, mark>> /\ pending' = Append(pending, a) /\ a.due \in Nat
    BY <1>1, <1>2, <1>8, <2>1 DEF HandleData, queue_ack, SeeData, BatchFrame, PeerFrame, callVars
  <2>3. PICK n \in Nat : n = Len(pending)
    BY <1>2
  <2>4. PICK T : pending \in Seq(T) /\ a \in T
    <3>1. \A i \in 1 .. Len(pending) : pending[i] \in Ack
      BY <1>2
    <3>2. pending \in Seq(Ack \cup {a})
      BY <1>2
    <3> QED
      BY <3>2
  <2>5. Len(pending') = n + 1 /\ pending'[n + 1] = a /\ \A i \in 1 .. n : pending'[i] = pending[i]
    BY <2>2, <2>3, <2>4, AppendFacts
  <2>6. ASSUME NEW i \in 1 .. n + 1 PROVE pending'[i].due \in Nat
    <3>1. CASE i = n + 1
      BY <2>2, <2>5, <3>1
    <3>2. CASE i \in 1 .. n
      BY <2>3, <2>5, <3>2 DEF ClockInv
    <3> QED
      BY <3>1, <3>2
  <2> QED
    BY <2>2, <2>5, <2>6 DEF ClockInv
<1>9. CASE FlushSend \/ FlushFail
  <2>1. UNCHANGED <<now, t_end, mark>> /\ pending # <<>> /\ pending' = Tail(pending)
    BY <1>9 DEF FlushSend, FlushFail, AckReady, FlushFrame, PeerFrame, callVars
  <2>2. PICK n \in Nat : n = Len(pending)
    BY <1>2
  <2>3. Len(pending') = n - 1 /\ \A i \in 1 .. n - 1 : pending'[i] = pending[i + 1]
    BY <2>1, <2>2, QueueFacts
  <2>4. \A i \in 1 .. n - 1 : i + 1 \in 1 .. n
    OBVIOUS
  <2> QED
    BY <2>1, <2>2, <2>3, <2>4 DEF ClockInv
<1>10. CASE Tick
  <2>1. UNCHANGED <<t_end, mark, pending>> /\ now < MaxTime /\ now' = now + 1
    BY <1>10 DEF Tick, callVars
  <2>2. now' \in 0 .. MaxTime
    BY <1>1, <1>2, <2>1
  <2> QED
    BY <2>1, <2>2 DEF ClockInv
<1> QED
  BY <1>4, <1>5, <1>6, <1>7, <1>8, <1>9, <1>10 DEF Next, Receive

\* The times of the summary.
LEMMA StampStep == ASSUME ShortStream, PeerInv, HoleFacts, ClockInv, StampInv, [Next]_vars PROVE StampInv'
<1>1. MaxTime \in Nat /\ now \in 0 .. MaxTime /\ NoTime \in Times /\ sum \in SumType
  BY BoundsAssumption, Known DEF ClockInv, Times
<1>2. \A t \in 0 .. now : t \in Times
  BY <1>1 DEF Times
<1>3. CASE sum' = sum
  BY <1>3 DEF StampInv
<1>4. CASE Kernel
  BY <1>3, <1>4 DEF Kernel, KSend, KRexmt, KRto, KAck, KControl, KReset, KernelFrame
<1>5. CASE StartReceive
  BY <1>1, <1>5 DEF StartReceive, EmptySummary, StampInv
<1>6. CASE EnterDrain \/ LeaveLoop \/ DrainRead \/ DrainReturn \/ EndBatch \/ FlushDone \/ Tick \/ UNCHANGED vars
  BY <1>3, <1>6 DEF EnterDrain, LeaveLoop, DrainRead, DrainReturn, EndBatch, FlushDone, Tick, vars
<1>7. CASE HandleRst
  BY <1>1, <1>7 DEF HandleRst, StampInv, SumType
<1>8. CASE HandleControl
  BY <1>1, <1>8 DEF HandleControl, StampInv, SumType
<1>9. CASE FlushSend
  BY <1>1, <1>9 DEF FlushSend, StampInv, SumType
<1>10. CASE FlushFail
  BY <1>1, <1>10 DEF FlushFail, CountFailure, StampInv, SumType
<1>11. CASE Return
  BY <1>1, <1>11 DEF Return, StampInv, SumType
<1>12. CASE HandleDrop
  <2>1. batch # <<>>
    BY <1>12 DEF HandleDrop, Taking
  <2>2. Head(batch).t_ms \in Times
    BY <1>2, <2>1, HeadFacts
  <2> QED
    BY <1>12, <2>2, DropSummary DEF StampInv
<1>13. CASE HandleData
  <2>1. batch # <<>>
    BY <1>13 DEF HandleData, Taking
  <2>2. Head(batch).t_ms \in 0 .. now /\ Head(batch) = batch[1] /\ 1 \in 1 .. Len(batch)
    BY <2>1, HeadFacts
  <2>3. Head(batch).t_ms \in Times
    BY <1>2, <2>2
  <2>4. FillsHole => Head(batch).t_ms - sum.t_hole_created \in Times
    <3>1. SUFFICES ASSUME hole_open PROVE Head(batch).t_ms - sum.t_hole_created \in 0 .. now
      BY <1>2 DEF FillsHole
    <3>2. sum.t_hole_created \in 0 .. now /\ sum.t_hole_created <= Head(batch).t_ms
      BY <2>2, <3>1 DEF HoleFacts, HoleInv
    <3> QED
      BY <1>1, <2>2, <3>2
  <2>5. sum'.hol_delay_ms \in Times /\ sum'.t_hole_filled \in Times /\ sum'.t_hole_created \in Times
    BY <1>13, <2>3, <2>4, DataSummary DEF StampInv
  <2>6. sum'.t_first_data \in Times /\ sum'.t_last_original \in Times
    BY <1>13, <2>3, DataSummary DEF StampInv
  <2> QED
    BY <2>5, <2>6 DEF StampInv
<1> QED
  BY <1>4, <1>5, <1>6, <1>7, <1>8, <1>9, <1>10, <1>11, <1>12, <1>13 DEF Next, Receive

\* The control points.
LEMMA PcStep == ASSUME PcInv, [Next]_vars PROVE PcInv'
<1>1. CASE Kernel
  BY <1>1 DEF Kernel, KSend, KRexmt, KRto, KAck, KControl, KReset, KernelFrame, PcInv
<1>2. CASE Receive
  BY <1>2 DEF Receive, EnterDrain, LeaveLoop, DrainRead, DrainReturn, HandleRst, HandleControl,
     HandleDrop, HandleData, SeeData, EndBatch, FlushSend, FlushFail, FlushDone, Return, PcInv
<1>3. CASE StartReceive \/ Tick \/ UNCHANGED vars
  BY <1>3 DEF StartReceive, Tick, vars, PcInv
<1> QED
  BY <1>1, <1>2, <1>3 DEF Next

\* Together with the invariants above they give the type invariant.
LEMMA TypesOf ==
  ASSUME PeerInv, HoleFacts, SpentInv, NumberInv, ClockInv, StampInv, PcInv
  PROVE  TypeOK
<1>1. /\ StreamLen \in Nat /\ wrote \in 0 .. StreamLen /\ snd_max \in Nat /\ snd_max <= wrote
      /\ snd_una \in Nat /\ snd_una <= acked /\ acked \in Nat /\ acked <= frontier /\ frontier \in 0 .. StreamLen
      /\ fd \in Seq(Frame) /\ batch \in Seq(Read) /\ pending \in Seq(Ack)
  BY Known DEF HoleFacts, WireInv
<1>2. frontier <= snd_max
  <2>1. CASE frontier = 0
    BY <1>1, <2>1
  <2>2. CASE frontier # 0
    <3>1. frontier - 1 \in 0 .. frontier - 1 /\ 0 .. frontier - 1 \subseteq got
      BY <1>1, <2>2 DEF PeerInv, AckInv, StreamInv, IsFrontier
    <3>2. frontier - 1 \in 0 .. snd_max - 1
      BY <3>1 DEF HoleFacts, WireInv
    <3> QED
      BY <1>1, <3>2
  <2> QED
    BY <2>1, <2>2
<1>3. wrote \in 0 .. StreamLen /\ snd_max \in 0 .. wrote /\ snd_una \in 0 .. snd_max
  BY <1>1, <1>2
<1>4. fd \in Seq(Segment)
  <2>1. Frame \subseteq Segment
    BY DEF Frame, Segment, Kinds
  <2>2. PICK S : S = Segment
    OBVIOUS
  <2>3. \A i \in 1 .. Len(fd) : fd[i] \in S
    BY <1>1, <2>1, <2>2
  <2>4. fd \in Seq(S)
    BY <1>1, <2>3
  <2> QED
    BY <2>2, <2>4
<1>5. batch \in Seq([s : Segment, t_ms : 0 .. MaxTime])
  <2>1. PICK S : S = [s : Segment, t_ms : 0 .. MaxTime]
    OBVIOUS
  <2>2. ASSUME NEW i \in 1 .. Len(batch) PROVE batch[i] \in S
    <3>1. batch[i] \in Read /\ batch[i].t_ms \in 0 .. now
      BY <1>1 DEF HoleFacts, TimeInv
    <3>2. batch[i].t_ms \in 0 .. MaxTime
      BY <3>1, BoundsAssumption DEF ClockInv
    <3>3. batch[i].s \in Segment /\ batch[i] = [s |-> batch[i].s, t_ms |-> batch[i].t_ms]
      BY <3>1 DEF Read, Frame, Segment, Kinds
    <3> QED
      BY <2>1, <3>2, <3>3
  <2>3. batch \in Seq(S)
    BY <1>1, <2>2
  <2> QED
    BY <2>1, <2>3
<1>6. pending \in Seq([due : Nat, ack : SeqNo, sacks : Seq([start : SeqNo, end : SeqNo]), is_dup : BOOLEAN])
  <2>1. PICK S : S = [due : Nat, ack : SeqNo, sacks : Seq([start : SeqNo, end : SeqNo]), is_dup : BOOLEAN]
    OBVIOUS
  <2>2. PICK B : B = Seq([start : SeqNo, end : SeqNo])
    OBVIOUS
  <2>3. Ack = [due : Int, ack : SeqNo, sacks : B, is_dup : BOOLEAN]
    BY <2>2 DEF Ack, Block
  <2>4. ASSUME NEW i \in 1 .. Len(pending) PROVE pending[i] \in S
    <3>1. pending[i] \in Ack /\ pending[i].due \in Nat
      BY <1>1 DEF ClockInv
    <3> QED
      BY <2>1, <2>2, <2>3, <3>1
  <2>5. pending \in Seq(S)
    BY <1>1, <2>4
  <2> QED
    BY <2>1, <2>5
<1>7. got \subseteq 0 .. StreamLen - 1 /\ told \subseteq 0 .. StreamLen - 1
  BY DEF PeerInv, AckInv, StreamInv
<1>8. call \in 0 .. Len(Targets) /\ rules \in Seq(DropRule) /\ hole_open \in BOOLEAN
  BY DEF HoleFacts, WireInv, RuleInv, HoleInv
<1>9. {sum.t_first_data, sum.t_last_original, sum.t_hole_created, sum.t_hole_filled, sum.hol_delay_ms}
        \subseteq Times
  BY DEF StampInv
<1> QED
  BY <1>1, <1>3, <1>4, <1>5, <1>6, <1>7, <1>8, <1>9 DEF TypeOK, SpentInv, NumberInv, ClockInv, PcInv

\* The type invariant of Peer; among it, the kernel's window edges are in
\* order, every budget holds, and no time of the summary lies beyond the clock.
THEOREM PeerTypes ==
  ASSUME ShortStream
  PROVE  Spec => []TypeOK
<1> DEFINE TypeInv == SpentInv /\ NumberInv /\ ClockInv /\ StampInv /\ PcInv
<1>1. Init => TypeInv
  <2>1. SUFFICES ASSUME Init PROVE TypeInv
    OBVIOUS
  <2>2. MaxTime \in Nat /\ 0 \in SeqNo /\ 0 \in 0 .. StreamLen
    BY BoundsAssumption, SpaceSize, StreamAssumption DEF SeqNo
  <2>3. SpentInv
    <3>1. \A b \in DOMAIN Budget : Budget[b] \in Nat
      BY BoundsAssumption DEF Budget
    <3> QED
      BY <2>1, <3>1 DEF Init, SpentInv
  <2>4. NumberInv
    BY <2>1, <2>2, Numbers DEF Init, NumberInv
  <2>5. ClockInv
    <3>1. pending = <<>> /\ now = 0 /\ t_end = 0 /\ mark = 0
      BY <2>1 DEF Init
    <3>2. Len(pending) = 0
      BY <3>1
    <3> QED
      BY <2>2, <3>1, <3>2 DEF ClockInv
  <2>6. StampInv
    BY <2>1 DEF Init, EmptySummary, StampInv, Times
  <2>7. PcInv
    BY <2>1 DEF Init, PcInv
  <2> QED
    BY <2>3, <2>4, <2>5, <2>6, <2>7
<1>2. PeerInv /\ HoleFacts /\ TypeInv /\ [Next]_vars => TypeInv'
  BY SpentStep, NumberStep, ClockStep, StampStep, PcStep
<1>3. PeerInv /\ HoleFacts /\ TypeInv => TypeOK
  BY TypesOf
<1>4. Spec => []PeerInv /\ [](HoleFacts /\ Called)
  BY PeerInvariant, HoleInvariant
<1> QED
  BY <1>1, <1>2, <1>3, <1>4, PTL DEF Spec

=============================================================================
