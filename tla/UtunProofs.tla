----------------------------- MODULE UtunProofs -----------------------------
(***************************************************************************)
(* Utun, for every traffic, queue capacity, sequence of calls, timeouts,   *)
(* interruptions and errors: drain() and drain_for() hand the caller every *)
(* segment taken from the fd, once, in order and with stamps that never    *)
(* run backwards.  The hypothesis is the parser's part, that parse() reads *)
(* each frame as the segment it stands for; the second half of the module  *)
(* proves that part for the frames of this encoder: parse() reads whatever *)
(* build() makes as the segment it was made of.                            *)
(***************************************************************************)
EXTENDS Utun, TLAPS, SequenceTheorems, NaturalsInduction, WellFoundedInduction

\* The parser reads every frame of the traffic as the segment it stands for.
ParsesBack == \A x \in Traffic : x.frame.n \in Nat /\ parse(x.frame) = x.seg

Arrival == [frame : {x.frame : x \in Traffic}, seg : {x.seg : x \in Traffic}, t : Nat]
Handed == [frame : Nat, seg : {x.seg : x \in Traffic}, t_ms : Nat]

\* The queue holds the arrival numbers of the frames not yet taken, in order,
\* and nothing on it or behind it is from the future.
FdInv ==
    /\ now \in Nat
    /\ arrived \in Seq(Arrival) /\ queue \in Seq(Nat) /\ Len(queue) <= Len(arrived)
    /\ \A i \in 1 .. Len(queue) : queue[i] = Len(arrived) - Len(queue) + i
    /\ \A f \in 1 .. Len(arrived) : arrived[f].t <= now /\ arrived[f].seg = parse(arrived[f].frame)
    /\ \A f \in 1 .. Len(arrived) : arrived[f].frame.n \in Nat

OutInv == out \in Seq(Handed) /\ OutFaithful

\* The frames drain() hands out are those parse() accepts: the tests before it
\* turn away nothing else.
LEMMA KindTcp ==
  ASSUME NEW f, f.n \in Nat
  PROVE  Kind(f) = "tcp" <=> parse(f) # NoSeg
<1>1. CASE f.n < 4
  <2>1. ~ (f.n >= 4 + IpLen)
    BY <1>1 DEF IpLen
  <2>2. parse(f) = NoSeg
    BY <2>1, Zenon DEF parse
  <2> QED
    BY <1>1, <2>2 DEF Kind
<1>2. CASE ~ (f.n < 4) /\ f.af # "inet"
  <2>1. parse(f) = NoSeg
    BY <1>2, Zenon DEF parse
  <2> QED
    BY <1>2, <2>1 DEF Kind
<1>3. CASE ~ (f.n < 4) /\ f.af = "inet"
  BY <1>3 DEF Kind
<1> QED
  BY <1>1, <1>2, <1>3

\* The elements of a sequence with one more at its end.
LEMMA AppendElements ==
  ASSUME NEW T, NEW q \in Seq(T), NEW x \in T
  PROVE  /\ Append(q, x) \in Seq(T) /\ Len(q) \in Nat /\ Len(Append(q, x)) = Len(q) + 1
         /\ \A i \in 1 .. Len(q) : Append(q, x)[i] = q[i]
         /\ Append(q, x)[Len(q) + 1] = x
  OBVIOUS

\* The same for the rest of a sequence.
LEMMA TailElements ==
  ASSUME NEW T, NEW q \in Seq(T), q # <<>>
  PROVE  /\ Len(q) \in Nat \ {0} /\ Head(q) = q[1] /\ q[1] \in T
         /\ Tail(q) \in Seq(T) /\ Len(Tail(q)) = Len(q) - 1
         /\ \A i \in 1 .. Len(q) - 1 : Tail(q)[i] = q[i + 1]
<1>1. Len(q) \in Nat \ {0}
  OBVIOUS
<1> QED
  BY <1>1, HeadTailProperties

\* Steps that leave the fd, the output and the clock alone.
LEMMA StillStep ==
  ASSUME FdInv, OutInv, UNCHANGED <<queue, out, now, arrived>>
  PROVE  FdInv' /\ OutInv'
BY DEF FdInv, OutInv, OutFaithful, TakenTcp

\* Time passes.
LEMMA TickStep == ASSUME FdInv, OutInv, Tick PROVE FdInv' /\ OutInv'
<1>1. UNCHANGED <<queue, out, arrived>> /\ now' = now + 1 /\ now \in Nat
  BY DEF Tick, FdInv
<1>2. \A t \in Nat : t <= now => t <= now'
  BY <1>1
<1>3. ASSUME NEW f \in 1 .. Len(arrived) PROVE arrived[f].t <= now'
  <2>1. arrived[f] \in Arrival /\ arrived[f].t <= now
    BY DEF FdInv
  <2> QED
    BY <1>2, <2>1 DEF Arrival
<1>4. ASSUME NEW k \in 1 .. Len(out) PROVE out[k].t_ms <= now'
  <2>1. out[k] \in Handed /\ out[k].t_ms <= now
    BY DEF OutInv, OutFaithful
  <2> QED
    BY <1>2, <2>1 DEF Handed
<1>5. FdInv'
  BY <1>1, <1>3 DEF FdInv
<1>6. OutInv'
  BY <1>1, <1>4 DEF OutInv, OutFaithful, TakenTcp
<1> QED
  BY <1>5, <1>6

\* A frame reaches the queue.
LEMMA ArriveStep ==
  ASSUME ParsesBack, FdInv, OutInv, NEW x \in Traffic, Arrive(x)
  PROVE  FdInv' /\ OutInv'
<1>1. PICK a : a = [frame |-> x.frame, seg |-> x.seg, t |-> now]
  OBVIOUS
<1>2. PICK L \in Nat, Q \in Nat : L = Len(arrived) /\ Q = Len(queue)
  BY DEF FdInv
<1>3. /\ UNCHANGED <<out, now>> /\ queue' = Append(queue, L + 1) /\ arrived' = Append(arrived, a)
  BY <1>1, <1>2 DEF Arrive
<1>4. /\ a \in Arrival /\ a.frame = x.frame /\ a.seg = x.seg /\ a.t = now
  BY <1>1 DEF Arrival, FdInv
<1>5. /\ arrived \in Seq(Arrival) /\ queue \in Seq(Nat) /\ L + 1 \in Nat /\ Q <= L /\ now \in Nat
  BY <1>2 DEF FdInv
<1>6. /\ arrived' \in Seq(Arrival) /\ Len(arrived') = L + 1 /\ arrived'[L + 1] = a
      /\ \A f \in 1 .. L : arrived'[f] = arrived[f]
  BY <1>2, <1>3, <1>4, <1>5, AppendElements
<1>7. /\ queue' \in Seq(Nat) /\ Len(queue') = Q + 1 /\ queue'[Q + 1] = L + 1
      /\ \A i \in 1 .. Q : queue'[i] = queue[i]
  BY <1>2, <1>3, <1>5, AppendElements
<1>8. ASSUME NEW i \in 1 .. Q + 1 PROVE queue'[i] = (L + 1) - (Q + 1) + i
  <2>1. CASE i \in 1 .. Q
    BY <1>2, <1>7, <2>1 DEF FdInv
  <2>2. CASE i = Q + 1
    BY <1>7, <2>2
  <2> QED
    BY <2>1, <2>2
<1>9. ASSUME NEW f \in 1 .. L + 1
      PROVE  /\ arrived'[f].t <= now /\ arrived'[f].seg = parse(arrived'[f].frame)
             /\ arrived'[f].frame.n \in Nat
  <2>1. CASE f \in 1 .. L
    BY <1>2, <1>6, <2>1 DEF FdInv
  <2>2. CASE f = L + 1
    BY <1>4, <1>5, <1>6, <2>2 DEF ParsesBack
  <2> QED
    BY <2>1, <2>2
<1>10. FdInv'
  <2>1. now' \in Nat /\ Len(queue') <= Len(arrived')
    BY <1>3, <1>5, <1>6, <1>7
  <2>2. \A i \in 1 .. Len(queue') : queue'[i] = Len(arrived') - Len(queue') + i
    BY <1>6, <1>7, <1>8
  <2>3. \A f \in 1 .. Len(arrived') : /\ arrived'[f].t <= now' /\ arrived'[f].seg = parse(arrived'[f].frame)
                                     /\ arrived'[f].frame.n \in Nat
    BY <1>3, <1>6, <1>9
  <2> QED
    BY <1>6, <1>7, <2>1, <2>2, <2>3 DEF FdInv
<1>11. PICK n \in Nat : n = L - Q
  BY <1>5
<1>12. (L + 1) - (Q + 1) = n /\ \A f \in 1 .. n : f \in 1 .. L
  BY <1>11
<1>13. TakenTcp = {f \in 1 .. n : arrived[f].seg # NoSeg}
  BY <1>2, <1>11 DEF TakenTcp
<1>14. TakenTcp' = {f \in 1 .. n : arrived'[f].seg # NoSeg}
  BY <1>6, <1>7, <1>12 DEF TakenTcp
<1>15. TakenTcp' = TakenTcp
  BY <1>6, <1>12, <1>13, <1>14
<1>16. \A k \in 1 .. Len(out) : out[k].frame \in 1 .. L
  <2>1. \A k \in 1 .. Len(out) : out[k].frame \in TakenTcp
    BY DEF OutInv, OutFaithful
  <2> QED
    BY <1>12, <1>13, <2>1
<1>17. OutInv'
  BY <1>3, <1>6, <1>15, <1>16 DEF OutInv, OutFaithful
<1> QED
  BY <1>10, <1>17

\* A frame is read.
LEMMA ReadStep ==
  ASSUME FdInv, OutInv, ReadFrame
  PROVE  FdInv' /\ OutInv'
<1>1. PICK L \in Nat, Q \in Nat : L = Len(arrived) /\ Q = Len(queue)
  BY DEF FdInv
<1>2. UNCHANGED <<now, arrived>> /\ queue # <<>> /\ queue' = Tail(queue)
  BY DEF ReadFrame, TakeFrame
<1>3. arrived \in Seq(Arrival) /\ queue \in Seq(Nat) /\ Q <= L /\ now \in Nat /\ out \in Seq(Handed)
  BY <1>1 DEF FdInv, OutInv
<1>4. /\ Q # 0 /\ Head(queue) = queue[1] /\ queue' \in Seq(Nat) /\ Len(queue') = Q - 1
      /\ \A i \in 1 .. Q - 1 : queue'[i] = queue[i + 1]
  BY <1>1, <1>2, <1>3, TailElements
<1>5. PICK h \in 1 .. L : h = Head(queue) /\ h = (L - Q) + 1
  <2>1. 1 \in 1 .. Q
    BY <1>4
  <2>2. queue[1] = L - Q + 1
    BY <1>1, <2>1 DEF FdInv
  <2> QED
    BY <1>3, <1>4, <2>2
<1>6. FdInv'
  <2>1. ASSUME NEW i \in 1 .. Q - 1 PROVE queue'[i] = L - (Q - 1) + i
    <3>1. i + 1 \in 1 .. Q
      OBVIOUS
    <3>2. queue[i + 1] = L - Q + (i + 1)
      BY <1>1, <3>1 DEF FdInv
    <3> QED
      BY <1>4, <3>2
  <2> QED
    BY <1>1, <1>2, <1>3, <1>4, <2>1 DEF FdInv
<1>7. PICK n \in Nat : n = L - Q
  BY <1>3
<1>8. h = n + 1 /\ L - (Q - 1) = n + 1
  BY <1>5, <1>7
<1>9. TakenTcp = {f \in 1 .. n : arrived[f].seg # NoSeg}
  BY <1>1, <1>7 DEF TakenTcp
<1>10. TakenTcp' = {f \in 1 .. n + 1 : arrived[f].seg # NoSeg}
  BY <1>1, <1>2, <1>4, <1>8 DEF TakenTcp
<1>11. PICK a : a = arrived[h]
  OBVIOUS
<1>12. /\ a \in Arrival /\ a.t \in Nat /\ a.t <= now /\ a.seg = parse(a.frame) /\ a.frame.n \in Nat
       /\ a.seg \in {x.seg : x \in Traffic}
  <2>1. a \in Arrival
    BY <1>1, <1>3, <1>5, <1>11
  <2>2. a.t \in Nat /\ a.seg \in {x.seg : x \in Traffic}
    BY <2>1 DEF Arrival
  <2> QED
    BY <1>1, <1>11, <2>1, <2>2 DEF FdInv
<1>13. out' = IF Kind(a.frame) = "tcp"
              THEN Append(out, [frame |-> h, seg |-> parse(a.frame), t_ms |-> now]) ELSE out
  BY <1>5, <1>11 DEF ReadFrame, Stamp
<1>14. Kind(a.frame) = "tcp" <=> a.seg # NoSeg
  BY <1>12, KindTcp
<1>15. CASE a.seg = NoSeg
  <2>1. out' = out
    BY <1>13, <1>14, <1>15
  <2>2. TakenTcp' \subseteq TakenTcp
    BY <1>8, <1>9, <1>10, <1>11, <1>15
  <2>3. TakenTcp \subseteq TakenTcp'
    BY <1>9, <1>10
  <2>4. TakenTcp' = TakenTcp
    BY <2>2, <2>3
  <2>5. OutInv'
    BY <1>2, <2>1, <2>4 DEF OutInv, OutFaithful
  <2> QED
    BY <1>6, <2>5
<1>16. CASE a.seg # NoSeg
  <2>1. PICK o : o = [frame |-> h, seg |-> a.seg, t_ms |-> now]
    OBVIOUS
  <2>2. o \in Handed /\ o.frame = h /\ o.seg = a.seg /\ o.t_ms = now
    BY <1>3, <1>12, <2>1 DEF Handed
  <2>3. out' = Append(out, o)
    BY <1>12, <1>13, <1>14, <1>16, <2>1
  <2>4. PICK m \in Nat : m = Len(out)
    BY <1>3
  <2>5. /\ out' \in Seq(Handed) /\ Len(out') = m + 1 /\ out'[m + 1] = o
        /\ \A k \in 1 .. m : out'[k] = out[k]
    BY <1>3, <2>2, <2>3, <2>4, AppendElements
  <2>6. {out[k].frame : k \in 1 .. m} = TakenTcp
    BY <2>4 DEF OutInv, OutFaithful
  <2>7. TakenTcp' = TakenTcp \cup {h}
    <3>1. TakenTcp' \subseteq TakenTcp \cup {h}
      BY <1>8, <1>9, <1>10
    <3>2. TakenTcp \cup {h} \subseteq TakenTcp'
      BY <1>8, <1>9, <1>10, <1>11, <1>16
    <3> QED
      BY <3>1, <3>2
  <2>8. {out'[k].frame : k \in 1 .. m + 1} = TakenTcp'
    <3>1. ASSUME NEW k \in 1 .. m + 1 PROVE out'[k].frame \in TakenTcp'
      <4>1. CASE k = m + 1
        BY <2>2, <2>5, <2>7, <4>1
      <4>2. CASE k \in 1 .. m
        BY <2>5, <2>6, <2>7, <4>2
      <4> QED
        BY <4>1, <4>2
    <3>2. ASSUME NEW f \in TakenTcp' PROVE \E k \in 1 .. m + 1 : f = out'[k].frame
      <4>1. CASE f = h
        BY <2>2, <2>5, <4>1
      <4>2. CASE f \in TakenTcp
        <5>1. PICK k \in 1 .. m : f = out[k].frame
          BY <2>6, <4>2
        <5> QED
          BY <2>5, <5>1
      <4> QED
        BY <2>7, <4>1, <4>2
    <3> QED
      BY <3>1, <3>2
  <2>9. ASSUME NEW k \in 1 .. m
        PROVE  /\ out[k].seg = arrived[out[k].frame].seg /\ out[k].frame \in Nat /\ out[k].frame < h
               /\ arrived[out[k].frame].t <= out[k].t_ms /\ out[k].t_ms <= now
    <3>1. out[k].frame \in 1 .. n
      BY <1>9, <2>6
    <3> QED
      BY <1>8, <2>4, <3>1 DEF OutInv, OutFaithful
  <2>10. ASSUME NEW k \in 1 .. m + 1
         PROVE  /\ out'[k].seg = arrived[out'[k].frame].seg
                /\ arrived[out'[k].frame].t <= out'[k].t_ms /\ out'[k].t_ms <= now
    <3>1. CASE k \in 1 .. m
      BY <2>5, <2>9, <3>1
    <3>2. CASE k = m + 1
      BY <1>3, <1>11, <1>12, <2>2, <2>5, <3>2
    <3> QED
      BY <3>1, <3>2
  <2>11. ASSUME NEW k \in 1 .. m + 1, NEW l \in 1 .. m + 1, k < l
         PROVE  out'[k].frame < out'[l].frame /\ out'[k].t_ms <= out'[l].t_ms
    <3>1. k \in 1 .. m
      BY <2>11
    <3>2. CASE l \in 1 .. m
      BY <2>4, <2>5, <2>11, <3>1, <3>2 DEF OutInv, OutFaithful
    <3>3. CASE l = m + 1
      BY <2>2, <2>5, <2>9, <3>1, <3>3
    <3> QED
      BY <3>2, <3>3
  <2>12. OutInv'
    BY <1>2, <2>5, <2>8, <2>10, <2>11 DEF OutInv, OutFaithful
  <2> QED
    BY <1>6, <2>12
<1> QED
  BY <1>15, <1>16

\* drain() and drain_for() are faithful: the caller gets every whole TCP
\* segment taken from the fd and nothing else, once, in arrival order, each
\* stamped no earlier than it arrived and no later than the next.
THEOREM Faithful ==
  ASSUME ParsesBack
  PROVE  Spec => []OutFaithful
<1>1. Init => FdInv /\ OutInv
  <2>1. SUFFICES ASSUME Init PROVE FdInv /\ OutInv
    OBVIOUS
  <2>2. queue = <<>> /\ out = <<>> /\ now = 0 /\ arrived = <<>>
    BY <2>1 DEF Init
  <2>3. Len(queue) = 0 /\ Len(out) = 0 /\ Len(arrived) = 0
    BY <2>2
  <2>4. FdInv
    BY <2>2, <2>3 DEF FdInv
  <2>5. TakenTcp = {}
    BY <2>3 DEF TakenTcp
  <2>6. OutInv
    BY <2>2, <2>3, <2>5 DEF OutInv, OutFaithful
  <2> QED
    BY <2>4, <2>6
<1>2. FdInv /\ OutInv /\ [Next]_vars => (FdInv /\ OutInv)'
  <2>1. SUFFICES ASSUME FdInv, OutInv, [Next]_vars PROVE FdInv' /\ OutInv'
    OBVIOUS
  <2>2. CASE \E x \in Traffic : Arrive(x)
    BY <2>1, <2>2, ArriveStep
  <2>3. CASE ReadFrame
    BY <2>1, <2>3, ReadStep
  <2>4. CASE Tick
    BY <2>1, <2>4, TickStep
  <2>5. CASE UNCHANGED <<queue, out, now, arrived>>
    BY <2>1, <2>5, StillStep
  <2>6. CASE \E s \in Segs, ok \in BOOLEAN : Send(s, ok)
    BY <2>5, <2>6 DEF Send, Quiet
  <2>7. CASE Calls
    BY <2>5, <2>7 DEF Calls, Drain, DrainFor, Quiet
  <2>8. CASE Again \/ TopExpired \/ TopPoll \/ PollEmpty \/ Disturbances
    BY <2>5, <2>8 DEF Again, TopExpired, TopPoll, PollEmpty, Disturbances, PollInterrupted, PollError, Leave, Quiet
  <2>9. CASE UNCHANGED vars
    BY <2>5, <2>9 DEF vars
  <2> QED
    BY <2>1, <2>2, <2>3, <2>4, <2>6, <2>7, <2>8, <2>9 DEF Next, Reads
<1>3. OutInv => OutFaithful
  BY DEF OutInv
<1> QED
  BY <1>1, <1>2, <1>3, PTL DEF Spec

-----------------------------------------------------------------------------
(* The bytes of a number *)

U8 == {n \in Nat : n < 256}
U16 == {n \in Nat : n < 65536}
U32 == {n \in Nat : n < 4294967296}

\* The entries of two sequences joined.
LEMMA Join ==
  ASSUME NEW S, NEW s \in Seq(S), NEW t \in Seq(S)
  PROVE  /\ s \o t \in Seq(S) /\ Len(s) \in Nat /\ Len(t) \in Nat
         /\ Len(s \o t) = Len(s) + Len(t)
         /\ \A i \in 1 .. Len(s) : (s \o t)[i] = s[i]
         /\ \A i \in 1 .. Len(t) : (s \o t)[Len(s) + i] = t[i]
<1>1. PICK m \in Nat, n \in Nat : m = Len(s) /\ n = Len(t)
  BY LenProperties
<1>2. /\ s \o t \in Seq(S) /\ Len(s \o t) = m + n
      /\ \A i \in 1 .. m + n : (s \o t)[i] = IF i <= m THEN s[i] ELSE t[i - m]
  BY <1>1, ConcatProperties
<1>3. ASSUME NEW i \in 1 .. n PROVE (s \o t)[m + i] = t[i]
  <2>1. m + i \in 1 .. m + n /\ ~ (m + i <= m) /\ (m + i) - m = i
    OBVIOUS
  <2> QED  BY <1>2, <2>1
<1> QED  BY <1>1, <1>2, <1>3

\* Quotient and remainder.
LEMMA Split ==
  ASSUME NEW a \in Nat, NEW K \in Nat \ {0}
  PROVE  /\ a = (a \div K) * K + (a % K) /\ a \div K \in Nat
         /\ a % K \in Nat /\ a % K < K
  BY SMT

\* A 16-bit number read back from its two bytes.
LEMMA Put16 ==
  ASSUME NEW v \in U16
  PROVE  /\ put16(v) \in Seq(U8) /\ Len(put16(v)) = 2
         /\ put16(v)[1] * 256 + put16(v)[2] = v
<1> DEFINE q == v \div 256
           r == v % 256
<1>1. v \in Nat /\ v < 65536
  BY SMT DEF U16
<1>2. v = q * 256 + r /\ q \in Nat /\ r \in Nat /\ r < 256
  BY <1>1, Split, SMT
<1>3. put16(v) = <<q, r>>
  BY SMT DEF put16
<1> HIDE DEF q, r
<1>4. q < 256
  BY <1>1, <1>2, SMT
<1>5. q \in U8 /\ r \in U8
  BY <1>2, <1>4, SMT DEF U8
<1>6. <<q, r>> \in Seq(U8) /\ Len(<<q, r>>) = 2
  BY <1>5
<1>7. <<q, r>>[1] = q /\ <<q, r>>[2] = r
  OBVIOUS
<1>8. put16(v) \in Seq(U8) /\ Len(put16(v)) = 2 /\ put16(v)[1] = q /\ put16(v)[2] = r
  BY <1>3, <1>6, <1>7
<1> QED  BY <1>2, <1>8, SMT

\* A 32-bit number read back from its four bytes.
LEMMA Put32 ==
  ASSUME NEW v \in U32
  PROVE  /\ put32(v) \in Seq(U8) /\ Len(put32(v)) = 4
         /\ (put32(v)[1] * 256 + put32(v)[2]) * 65536 + (put32(v)[3] * 256 + put32(v)[4]) = v
<1> DEFINE h == v \div 65536
           l == v % 65536
<1>1. v \in Nat /\ v < 4294967296
  BY SMT DEF U32
<1>2. v = h * 65536 + l /\ h \in Nat /\ l \in Nat /\ l < 65536
  BY <1>1, Split, SMT
<1>3. put32(v) = put16(h) \o put16(l)
  BY SMT DEF put32
<1> HIDE DEF h, l
<1>4. h < 65536
  BY <1>1, <1>2, SMT
<1>5. h \in U16 /\ l \in U16
  BY <1>2, <1>4, SMT DEF U16
<1>6. PICK s \in Seq(U8), t \in Seq(U8) : s = put16(h) /\ t = put16(l)
  BY <1>5, Put16, SMT
<1>7. /\ Len(s) = 2 /\ Len(t) = 2 /\ s[1] * 256 + s[2] = h /\ t[1] * 256 + t[2] = l
  BY <1>5, <1>6, Put16, SMT
<1>8. /\ s \o t \in Seq(U8) /\ Len(s \o t) = 2 + 2
      /\ \A i \in 1 .. 2 : (s \o t)[i] = s[i]
      /\ \A i \in 1 .. 2 : (s \o t)[2 + i] = t[i]
  <2>1. /\ s \o t \in Seq(U8) /\ Len(s \o t) = Len(s) + Len(t)
        /\ \A i \in 1 .. Len(s) : (s \o t)[i] = s[i]
        /\ \A i \in 1 .. Len(t) : (s \o t)[Len(s) + i] = t[i]
    BY Join
  <2> QED  BY <1>7, <2>1
<1>9. (s \o t)[1] = s[1] /\ (s \o t)[2] = s[2] /\ (s \o t)[3] = t[1] /\ (s \o t)[4] = t[2]
  <2>1. 1 \in 1 .. 2 /\ 2 \in 1 .. 2 /\ 2 + 1 = 3 /\ 2 + 2 = 4
    OBVIOUS
  <2> QED  BY <1>8, <2>1
<1>10. (s[1] * 256 + s[2]) * 65536 + (t[1] * 256 + t[2]) = v
  BY <1>2, <1>7, SMT
<1> QED  BY <1>3, <1>6, <1>8, <1>9, <1>10, SMT

\* A non-empty set of naturals has a least member.
LEMMA LeastOf ==
  ASSUME NEW T, T \subseteq Nat, T # {}
  PROVE  \E x \in T : \A y \in T : x <= y
<1> DEFINE R == OpToRel(<, Nat)
<1>1. IsWellFoundedOn(R, Nat)
  BY NatLessThanWellFounded, Zenon
<1>2. R = {ss \in Nat \X Nat : ss[1] < ss[2]}
  BY Zenon DEF OpToRel
<1> HIDE DEF R
<1>3. PICK x \in T : \A y \in T : ~ (<<y, x>> \in R)
  BY <1>1, WFMin
<1>4. ASSUME NEW y \in T PROVE x <= y
  <2>1. x \in Nat /\ y \in Nat /\ ~ (<<y, x>> \in R)
    BY <1>3
  <2>2. ~ (y < x)
    BY <1>2, <2>1
  <2> QED  BY <2>1, <2>2
<1> QED  BY <1>3, <1>4

\* A sequence of blocks joined, as FlattenSeq() computes it.
Joined(f, q) == f = [i \in 1 .. Len(q) |-> IF i = 1 THEN q[i] ELSE f[i - 1] \o q[i]]
JoinedTo(f, q, n) ==
    /\ f = [i \in 1 .. n |-> f[i]]
    /\ \A i \in 1 .. n : f[i] = IF i = 1 THEN q[i] ELSE f[i - 1] \o q[i]

\* The recursive function of FlattenSeq() exists.
LEMMA JoinedExists ==
  ASSUME NEW q, Len(q) \in Nat
  PROVE  \E f : Joined(f, q)
<1> DEFINE Bad == {n \in Nat : ~ \E f : JoinedTo(f, q, n)}
<1>1. Bad = {}
  <2>1. SUFFICES ASSUME Bad # {} PROVE FALSE
    OBVIOUS
  <2>2. PICK n \in Bad : \A m \in Bad : n <= m
    BY <2>1, LeastOf
  <2>3. n # 0
    <3>1. PICK f : f = [i \in 1 .. 0 |-> 0]
      OBVIOUS
    <3>2. f = [i \in 1 .. 0 |-> f[i]]
      BY <3>1
    <3>3. JoinedTo(f, q, 0)
      BY <3>2 DEF JoinedTo
    <3> QED  BY <3>3
  <2>4. PICK m \in Nat : n = m + 1
    <3>1. n \in Nat /\ n - 1 \in Nat /\ n = (n - 1) + 1
      BY <2>3
    <3> QED  BY <3>1
  <2>5. m \notin Bad
    BY <2>2, <2>4
  <2>6. PICK f : JoinedTo(f, q, m)
    BY <2>5
  <2>7. PICK g : g = [i \in 1 .. m + 1 |-> IF i <= m THEN f[i] ELSE IF i = 1 THEN q[i] ELSE f[i - 1] \o q[i]]
    OBVIOUS
  <2>8. g = [i \in 1 .. m + 1 |-> g[i]]
    BY <2>7
  <2>9. \A i \in 1 .. m + 1 : g[i] = IF i = 1 THEN q[i] ELSE g[i - 1] \o q[i]
    <3>1. SUFFICES ASSUME NEW i \in 1 .. m + 1
                   PROVE  g[i] = IF i = 1 THEN q[i] ELSE g[i - 1] \o q[i]
      OBVIOUS
    <3>2. CASE i = 1
      <4>1. g[i] = q[i]
        <5>1. CASE 1 <= m
          <6>0. 1 \in 1 .. m
            BY <5>1
          <6>1. f[1] = q[1]
            BY <2>6, <6>0 DEF JoinedTo
          <6> QED  BY <2>7, <3>2, <5>1, <6>1
        <5>2. CASE ~ (1 <= m)
          BY <2>7, <3>2, <5>2
        <5> QED  BY <5>1, <5>2
      <4> QED  BY <3>2, <4>1
    <3>3. CASE i # 1
      <4>1. i - 1 \in 1 .. m /\ i - 1 \in 1 .. m + 1 /\ i - 1 <= m
        BY <3>3
      <4>2. g[i - 1] = f[i - 1]
        BY <2>7, <4>1
      <4>3. g[i] = f[i - 1] \o q[i]
        <5>1. CASE i <= m
          <6>1. i \in 1 .. m
            BY <5>1
          <6>2. f[i] = f[i - 1] \o q[i]
            BY <2>6, <3>3, <6>1 DEF JoinedTo
          <6> QED  BY <2>7, <5>1, <6>2
        <5>2. CASE ~ (i <= m)
          BY <2>7, <3>3, <5>2
        <5> QED  BY <5>1, <5>2
      <4> QED  BY <3>3, <4>2, <4>3
    <3> QED  BY <3>2, <3>3
  <2>10. JoinedTo(g, q, m + 1)
    BY <2>8, <2>9 DEF JoinedTo
  <2> QED  BY <2>2, <2>4, <2>10
<1>2. PICK f : JoinedTo(f, q, Len(q))
  BY <1>1
<1>3. Joined(f, q)
  BY <1>2 DEF Joined, JoinedTo
<1> QED  BY <1>3

\* Blocks of eight bytes are joined one after the other.
LEMMA FlattenEights ==
  ASSUME NEW q \in Seq(Seq(U8)), \A k \in 1 .. Len(q) : Len(q[k]) = 8
  PROVE  /\ FlattenSeq(q) \in Seq(U8) /\ Len(FlattenSeq(q)) = 8 * Len(q)
         /\ \A k \in 1 .. Len(q), j \in 1 .. 8 : FlattenSeq(q)[8 * k - 8 + j] = q[k][j]
<1>0. Len(q) \in Nat
  OBVIOUS
<1>1. CASE Len(q) = 0
  <2>1. q = <<>> /\ FlattenSeq(q) = q
    BY <1>1 DEF FlattenSeq
  <2>2. \A k \in 1 .. Len(q) : FALSE
    BY <1>1
  <2>3. <<>> \in Seq(U8) /\ Len(<<>>) = 8 * 0
    BY EmptySeq
  <2> QED  BY <1>1, <2>1, <2>2, <2>3
<1>2. CASE Len(q) # 0
  <2>1. PICK f : f = CHOOSE g : g = [i \in 1 .. Len(q) |-> IF i = 1 THEN q[i] ELSE g[i - 1] \o q[i]]
    OBVIOUS
  <2>2. FlattenSeq(q) = f[Len(q)]
    BY <1>2, <2>1 DEF FlattenSeq
  <2>3. \E g : g = [i \in 1 .. Len(q) |-> IF i = 1 THEN q[i] ELSE g[i - 1] \o q[i]]
    BY <1>0, JoinedExists DEF Joined
  <2>4. f = [i \in 1 .. Len(q) |-> IF i = 1 THEN q[i] ELSE f[i - 1] \o q[i]]
    BY <2>1, <2>3, Zenon
  <2>5. \A i \in 1 .. Len(q) : f[i] = IF i = 1 THEN q[i] ELSE f[i - 1] \o q[i]
    BY <2>4
  <2> DEFINE Good(n) == /\ f[n] \in Seq(U8) /\ Len(f[n]) = 8 * n
                        /\ \A k \in 1 .. n, j \in 1 .. 8 : f[n][8 * k - 8 + j] = q[k][j]
             Bad == {n \in Nat : n \in 1 .. Len(q) /\ ~ Good(n)}
  <2>6. Bad = {}
    <3>1. SUFFICES ASSUME Bad # {} PROVE FALSE
      OBVIOUS
    <3>2. PICK n \in Bad : \A m \in Bad : n <= m
      BY <3>1, LeastOf
    <3>3. n \in 1 .. Len(q) /\ ~ Good(n)
      BY <3>2
    <3>4. CASE n = 1
      <4>1. f[n] = q[1] /\ 1 \in 1 .. Len(q)
        BY <2>5, <3>3, <3>4
      <4>2. f[n] \in Seq(U8) /\ Len(f[n]) = 8 * n
        BY <3>4, <4>1
      <4>3. \A k \in 1 .. n, j \in 1 .. 8 : f[n][8 * k - 8 + j] = q[k][j]
        BY <3>4, <4>1
      <4> QED  BY <3>3, <4>2, <4>3
    <3>5. CASE n # 1
      <4>1. PICK m \in 1 .. Len(q) : n = m + 1
        <5>1. n - 1 \in 1 .. Len(q) /\ n = (n - 1) + 1
          BY <3>3, <3>5
        <5> QED  BY <5>1
      <4>2. Good(m)
        BY <3>2, <4>1
      <4>3. f[n] = f[m] \o q[n]
        <5>1. f[n] = f[n - 1] \o q[n]
          BY <2>5, <3>3, <3>5
        <5>2. n - 1 = m
          BY <4>1
        <5> QED  BY <5>1, <5>2
      <4>4. PICK s \in Seq(U8), t \in Seq(U8) : s = f[m] /\ t = q[n]
        <5>1. q[n] \in Seq(U8)
          BY <3>3, ElementOfSeq
        <5> QED  BY <4>2, <5>1
      <4>5. Len(s) = 8 * m /\ Len(t) = 8 /\ f[n] = s \o t
        BY <3>3, <4>2, <4>3, <4>4
      <4>6. /\ s \o t \in Seq(U8) /\ Len(s \o t) = 8 * m + 8
            /\ \A i \in 1 .. 8 * m : (s \o t)[i] = s[i]
            /\ \A i \in 1 .. 8 : (s \o t)[8 * m + i] = t[i]
        <5>1. /\ s \o t \in Seq(U8) /\ Len(s \o t) = Len(s) + Len(t)
              /\ \A i \in 1 .. Len(s) : (s \o t)[i] = s[i]
              /\ \A i \in 1 .. Len(t) : (s \o t)[Len(s) + i] = t[i]
          BY Join
        <5> QED  BY <4>5, <5>1
      <4>7. ASSUME NEW k \in 1 .. n, NEW j \in 1 .. 8 PROVE f[n][8 * k - 8 + j] = q[k][j]
        <5>1. CASE k \in 1 .. m
          <6>1. 8 * k - 8 + j \in 1 .. 8 * m
            BY <5>1
          <6>2. s[8 * k - 8 + j] = q[k][j]
            BY <4>2, <4>4, <5>1
          <6> QED  BY <4>5, <4>6, <6>1, <6>2
        <5>2. CASE k = n
          <6>1. 8 * k - 8 + j = 8 * m + j
            BY <4>1, <5>2
          <6> QED  BY <4>4, <4>5, <4>6, <5>2, <6>1
        <5> QED  BY <4>1, <5>1, <5>2
      <4>8. Good(n)
        <5>1. 8 * m + 8 = 8 * n
          BY <4>1
        <5>2. Len(f[n]) = 8 * n /\ f[n] \in Seq(U8)
          BY <4>5, <4>6, <5>1
        <5> QED  BY <4>7, <5>2
      <4> QED  BY <3>3, <4>8
    <3> QED  BY <3>4, <3>5
  <2>7. Good(Len(q))
    <3>1. PICK n \in Nat : n = Len(q) /\ n \in 1 .. Len(q)
      BY <1>0, <1>2
    <3>2. n \notin Bad
      BY <2>6
    <3> QED  BY <3>1, <3>2
  <2> QED  BY <2>2, <2>7
<1> QED  BY <1>1, <1>2

-----------------------------------------------------------------------------
(* The bytes of an option field *)

SackBlock == [start : U32, end : U32]
Options ==
    [mss : U16 \cup {None}, sack_permitted : BOOLEAN, sack_blocks : Seq(SackBlock), wscale : U8 \cup {None}]

\* The sequence s stands in o from byte p on.
At(o, p, s) == p - 1 + Len(s) <= Len(o) /\ \A i \in 1 .. Len(s) : o[p - 1 + i] = s[i]

\* The number that four bytes of a field stand for.
LEMMA Get32 ==
  ASSUME NEW o \in Seq(U8), NEW p \in Nat \ {0}, NEW v \in U32, At(o, p, put32(v))
  PROVE  get32(SubSeq(o, p, p + 3)) = v
<1>1. PICK n \in Nat : n = Len(o)
  BY LenProperties
<1>2. p + 3 <= n /\ \A i \in 1 .. 4 : o[p - 1 + i] = put32(v)[i]
  BY <1>1, Put32, SMT DEF At
<1>3. PICK s \in Seq(U8) : /\ s = SubSeq(o, p, p + 3) /\ Len(s) = 4
                           /\ \A i \in 1 .. 4 : s[i] = o[p + i - 1]
  <2>1. \A i \in p .. p + 3 : o[i] \in U8
    BY <1>1, <1>2, ElementOfSeq
  <2>2. p \in Int /\ p + 3 \in Int /\ p <= p + 3 /\ (p + 3) - p + 1 = 4
    OBVIOUS
  <2>3. /\ SubSeq(o, p, p + 3) \in Seq(U8)
        /\ Len(SubSeq(o, p, p + 3)) = IF p <= p + 3 THEN (p + 3) - p + 1 ELSE 0
        /\ \A i \in 1 .. (p + 3) - p + 1 : SubSeq(o, p, p + 3)[i] = o[p + i - 1]
    BY <2>1, <2>2, SubSeqProperties
  <2> QED  BY <2>2, <2>3
<1>4. s[1] = put32(v)[1] /\ s[2] = put32(v)[2] /\ s[3] = put32(v)[3] /\ s[4] = put32(v)[4]
  <2>1. \A i \in 1 .. 4 : s[i] = put32(v)[i]
    <3> SUFFICES ASSUME NEW i \in 1 .. 4 PROVE s[i] = put32(v)[i]
      OBVIOUS
    <3>1. p - 1 + i = p + i - 1
      OBVIOUS
    <3> QED  BY <1>2, <1>3, <3>1
  <2>2. 1 \in 1 .. 4 /\ 2 \in 1 .. 4 /\ 3 \in 1 .. 4 /\ 4 \in 1 .. 4
    OBVIOUS
  <2> QED  BY <2>1, <2>2
<1>5. \A i \in 1 .. 4 : s[i] \in U8
  BY <1>3, ElementOfSeq
<1>6. /\ SubSeq(s, 1, 2)[1] = s[1] /\ SubSeq(s, 1, 2)[2] = s[2]
      /\ SubSeq(s, 3, 4)[1] = s[3] /\ SubSeq(s, 3, 4)[2] = s[4]
  <2>1. /\ \A i \in 1 .. 2 - 1 + 1 : SubSeq(s, 1, 2)[i] = s[1 + i - 1]
        /\ \A i \in 1 .. 4 - 3 + 1 : SubSeq(s, 3, 4)[i] = s[3 + i - 1]
    <3>1. \A i \in 1 .. 2 : s[i] \in U8
      BY <1>5
    <3>2. \A i \in 3 .. 4 : s[i] \in U8
      BY <1>5
    <3> QED  BY <3>1, <3>2, SubSeqProperties
  <2> QED  BY <2>1
<1>7. get32(s) = (s[1] * 256 + s[2]) * 65536 + (s[3] * 256 + s[4])
  BY <1>6, SMT DEF get32, get16
<1>8. get32(s) = v
  BY <1>4, <1>7, Put32, SMT
<1> QED  BY <1>3, <1>8

\* Where the parts of a joined sequence stand.
LEMMA AtJoin ==
  ASSUME NEW s \in Seq(U8), NEW t \in Seq(U8)
  PROVE  /\ At(s \o t, 1, s) /\ At(s \o t, 1 + Len(s), t)
         /\ \A p \in Nat \ {0}, u \in Seq(U8) : At(s, p, u) => At(s \o t, p, u)
<1>1. PICK m \in Nat, n \in Nat : m = Len(s) /\ n = Len(t)
  BY LenProperties
<1>2. /\ Len(s \o t) = m + n
      /\ \A i \in 1 .. m : (s \o t)[i] = s[i]
      /\ \A i \in 1 .. n : (s \o t)[m + i] = t[i]
  BY <1>1, Join
<1>3. At(s \o t, 1, s)
  <2>1. \A i \in 1 .. m : (s \o t)[1 - 1 + i] = s[i]
    BY <1>2
  <2> QED  BY <1>1, <1>2, <2>1 DEF At
<1>4. At(s \o t, 1 + Len(s), t)
  <2>1. \A i \in 1 .. n : (s \o t)[(1 + m) - 1 + i] = t[i]
    BY <1>2
  <2> QED  BY <1>1, <1>2, <2>1 DEF At
<1>5. ASSUME NEW p \in Nat \ {0}, NEW u \in Seq(U8), At(s, p, u) PROVE At(s \o t, p, u)
  <2>1. PICK l \in Nat : l = Len(u)
    BY LenProperties
  <2>2. p - 1 + l <= m /\ \A i \in 1 .. l : s[p - 1 + i] = u[i]
    BY <1>1, <1>5, <2>1 DEF At
  <2>3. \A i \in 1 .. l : (s \o t)[p - 1 + i] = u[i]
    <3> SUFFICES ASSUME NEW i \in 1 .. l PROVE (s \o t)[p - 1 + i] = u[i]
      OBVIOUS
    <3>1. p - 1 + i \in 1 .. m
      BY <2>2
    <3> QED  BY <1>2, <2>2, <3>1
  <2>4. p - 1 + l <= m + n
    BY <2>2
  <2> QED  BY <1>2, <2>1, <2>3, <2>4 DEF At
<1> QED  BY <1>3, <1>4, <1>5

\* The same with the joined sequence and the lengths named.
LEMMA Glue ==
  ASSUME NEW s \in Seq(U8), NEW t \in Seq(U8), NEW m \in Nat, NEW n \in Nat, Len(s) = m, Len(t) = n
  PROVE  \E j \in Seq(U8) :
            /\ j = s \o t /\ Len(j) = m + n /\ At(j, 1, s) /\ At(j, 1 + m, t)
            /\ \A p \in Nat \ {0}, u \in Seq(U8) : At(s, p, u) => At(j, p, u)
<1>1. s \o t \in Seq(U8) /\ Len(s \o t) = Len(s) + Len(t)
  BY Join
<1>2. /\ At(s \o t, 1, s) /\ At(s \o t, 1 + Len(s), t)
      /\ \A p \in Nat \ {0}, u \in Seq(U8) : At(s, p, u) => At(s \o t, p, u)
  BY AtJoin
<1> QED  BY <1>1, <1>2

\* The eight bytes of a SACK block.
LEMMA BlockFacts ==
  ASSUME NEW b \in SackBlock
  PROVE  /\ BlockBytes(b) \in Seq(U8) /\ Len(BlockBytes(b)) = 8
         /\ \A i \in 1 .. 4 : BlockBytes(b)[i] = put32(b.start)[i] /\ BlockBytes(b)[4 + i] = put32(b.end)[i]
<1>1. b.start \in U32 /\ b.end \in U32
  BY DEF SackBlock
<1>2. PICK s \in Seq(U8), t \in Seq(U8) : s = put32(b.start) /\ t = put32(b.end)
  BY <1>1, Put32, SMT
<1>3. Len(s) = 4 /\ Len(t) = 4
  BY <1>1, <1>2, Put32, SMT
<1>4. BlockBytes(b) = s \o t
  BY <1>2 DEF BlockBytes
<1>5. /\ s \o t \in Seq(U8) /\ Len(s \o t) = Len(s) + Len(t)
      /\ \A i \in 1 .. Len(s) : (s \o t)[i] = s[i]
      /\ \A i \in 1 .. Len(t) : (s \o t)[Len(s) + i] = t[i]
  BY Join
<1> QED  BY <1>2, <1>3, <1>4, <1>5

\* The bytes of the SACK blocks, one block after the other.
Blocks(o) == FlattenSeq([k \in 1 .. Len(o.sack_blocks) |-> BlockBytes(o.sack_blocks[k])])

\* They are what BlockBytes() gives for each block in turn.
LEMMA BlocksFacts ==
  ASSUME NEW o \in Options
  PROVE  /\ Len(o.sack_blocks) \in Nat
         /\ Blocks(o) \in Seq(U8) /\ Len(Blocks(o)) = 8 * Len(o.sack_blocks)
         /\ \A k \in 1 .. Len(o.sack_blocks), j \in 1 .. 8 :
               Blocks(o)[8 * k - 8 + j] = BlockBytes(o.sack_blocks[k])[j]
<1>1. PICK sb \in Seq(SackBlock) : sb = o.sack_blocks
  BY DEF Options
<1>2. PICK n \in Nat : n = Len(sb)
  BY LenProperties
<1>3. \A k \in 1 .. n : sb[k] \in SackBlock
  BY <1>2, ElementOfSeq
<1>4. PICK q : q = [k \in 1 .. n |-> BlockBytes(sb[k])]
  OBVIOUS
<1>5. \A k \in 1 .. n : q[k] = BlockBytes(sb[k]) /\ q[k] \in Seq(U8) /\ Len(q[k]) = 8
  BY <1>3, <1>4, BlockFacts
<1>6. q \in Seq(Seq(U8)) /\ Len(q) = n
  BY <1>4, <1>5
<1>7. Blocks(o) = FlattenSeq(q)
  BY <1>1, <1>2, <1>4 DEF Blocks
<1>8. /\ FlattenSeq(q) \in Seq(U8) /\ Len(FlattenSeq(q)) = 8 * Len(q)
      /\ \A k \in 1 .. Len(q), j \in 1 .. 8 : FlattenSeq(q)[8 * k - 8 + j] = q[k][j]
  BY <1>5, <1>6, FlattenEights
<1>9. \A k \in 1 .. n, j \in 1 .. 8 : FlattenSeq(q)[8 * k - 8 + j] = BlockBytes(sb[k])[j]
  BY <1>5, <1>6, <1>8
<1>10. FlattenSeq(q) \in Seq(U8) /\ Len(FlattenSeq(q)) = 8 * n
  BY <1>6, <1>8
<1> QED  BY <1>1, <1>2, <1>7, <1>9, <1>10

\* The four parts of the field are bytes, as many as wire_len() counts.
LEMMA PartFacts ==
  ASSUME NEW o \in Options
  PROVE  /\ MssBytes(o) \in Seq(U8) /\ Len(MssBytes(o)) = (IF o.mss = None THEN 0 ELSE 4)
         /\ PermittedBytes(o) \in Seq(U8) /\ Len(PermittedBytes(o)) = (IF o.sack_permitted THEN 2 ELSE 0)
         /\ WscaleBytes(o) \in Seq(U8) /\ Len(WscaleBytes(o)) = (IF o.wscale = None THEN 0 ELSE 3)
         /\ SackBytes(o) \in Seq(U8) /\ Len(SackBytes(o)) = SackLen(Len(o.sack_blocks))
<1>0. <<>> \in Seq(U8) /\ Len(<<>>) = 0 /\ 0 \in U8 /\ 1 \in U8 /\ 2 \in U8 /\ 3 \in U8 /\ 4 \in U8 /\ 5 \in U8
  BY EmptySeq DEF U8
<1>1. MssBytes(o) \in Seq(U8) /\ Len(MssBytes(o)) = (IF o.mss = None THEN 0 ELSE 4)
  <2>1. CASE o.mss = None
    BY <1>0, <2>1 DEF MssBytes
  <2>2. CASE o.mss # None
    <3>1. o.mss \in U16
      BY <2>2 DEF Options
    <3>2. <<OptMss, 4>> \in Seq(U8) /\ Len(<<OptMss, 4>>) = 2
      BY <1>0 DEF OptMss
    <3>20. PICK s \in Seq(U8) : s = <<OptMss, 4>> /\ Len(s) = 2
      BY <3>2
    <3>21. PICK t \in Seq(U8) : t = put16(o.mss) /\ Len(t) = 2
      BY <3>1, Put16, SMT
    <3>3. Len(s) = 2 /\ Len(t) = 2 /\ MssBytes(o) = s \o t
      BY <2>2, <3>20, <3>21 DEF MssBytes
    <3>4. s \o t \in Seq(U8) /\ Len(s \o t) = Len(s) + Len(t)
      BY Join
    <3> QED  BY <2>2, <3>3, <3>4
  <2> QED  BY <2>1, <2>2
<1>2. PermittedBytes(o) \in Seq(U8) /\ Len(PermittedBytes(o)) = (IF o.sack_permitted THEN 2 ELSE 0)
  <2>1. <<OptSackPermitted, 2>> \in Seq(U8) /\ Len(<<OptSackPermitted, 2>>) = 2
    BY <1>0 DEF OptSackPermitted
  <2> QED  BY <1>0, <2>1 DEF PermittedBytes
<1>3. WscaleBytes(o) \in Seq(U8) /\ Len(WscaleBytes(o)) = (IF o.wscale = None THEN 0 ELSE 3)
  <2>1. CASE o.wscale = None
    BY <1>0, <2>1 DEF WscaleBytes
  <2>2. CASE o.wscale # None
    <3>1. o.wscale \in U8
      BY <2>2 DEF Options
    <3>2. <<OptWscale, 3, o.wscale>> \in Seq(U8) /\ Len(<<OptWscale, 3, o.wscale>>) = 3
      BY <1>0, <3>1 DEF OptWscale
    <3> QED  BY <2>2, <3>2 DEF WscaleBytes
  <2> QED  BY <2>1, <2>2
<1>4. SackBytes(o) \in Seq(U8) /\ Len(SackBytes(o)) = SackLen(Len(o.sack_blocks))
  <2>0. PICK n \in Nat : n = Len(o.sack_blocks)
    BY BlocksFacts
  <2>1. o.sack_blocks = <<>> <=> n = 0
    <3>1. o.sack_blocks \in Seq(SackBlock)
      BY DEF Options
    <3> QED  BY <2>0, <3>1, EmptySeq
  <2>2. CASE n = 0
    BY <1>0, <2>0, <2>1, <2>2 DEF SackBytes, SackLen
  <2>3. CASE n # 0
    <3>1. (2 + 8 * n) % 256 \in U8
      BY SMT DEF U8
    <3>2. PICK e \in U8 : e = (2 + 8 * n) % 256
      BY <3>1
    <3>20. <<OptNop, OptNop, OptSack, e>> \in Seq(U8) /\ Len(<<OptNop, OptNop, OptSack, e>>) = 4
      BY <1>0 DEF OptNop, OptSack
    <3>21. PICK s \in Seq(U8) : s = <<OptNop, OptNop, OptSack, e>> /\ Len(s) = 4
      BY <3>20
    <3>22. PICK t \in Seq(U8) : t = Blocks(o) /\ Len(t) = 8 * n
      BY <2>0, BlocksFacts
    <3>3. Len(s) = 4 /\ Len(t) = 8 * n /\ SackBytes(o) = s \o t
      BY <2>0, <2>1, <2>3, <3>2, <3>21, <3>22 DEF SackBytes, Blocks
    <3>4. s \o t \in Seq(U8) /\ Len(s \o t) = Len(s) + Len(t)
      BY Join
    <3> QED  BY <2>0, <2>3, <3>3, <3>4 DEF SackLen
  <2> QED  BY <2>2, <2>3
<1> QED  BY <1>1, <1>2, <1>3, <1>4

\* Rounding up to a whole number of words.
LEMMA RoundUp ==
  ASSUME NEW n \in Nat
  PROVE  RoundUp4(n) \in Nat /\ n <= RoundUp4(n) /\ \E w \in Nat : RoundUp4(n) = 4 * w
<1>1. PICK w \in Int : w = (n + 3) \div 4
  BY SMT
<1>2. n <= 4 * w /\ 0 <= w
  BY <1>1, SMT
<1> QED  BY <1>1, <1>2, SMT DEF RoundUp4

\* Where the four parts begin.
PermittedStart(o) == 1 + Len(MssBytes(o))
WscaleStart(o) == PermittedStart(o) + Len(PermittedBytes(o))
SackStart(o) == WscaleStart(o) + Len(WscaleBytes(o))
PadStart(o) == SackStart(o) + Len(SackBytes(o))

\* What encode() writes: the parts one after the other, then end marks; as many
\* bytes as wire_len() says.
LEMMA EncodeFacts ==
  ASSUME NEW o \in Options
  PROVE  /\ encode(o) \in Seq(U8) /\ Len(encode(o)) = wire_len(o)
         /\ wire_len(o) \in Nat /\ \E w \in Nat : wire_len(o) = 4 * w
         /\ At(encode(o), 1, MssBytes(o)) /\ At(encode(o), PermittedStart(o), PermittedBytes(o))
         /\ At(encode(o), WscaleStart(o), WscaleBytes(o)) /\ At(encode(o), SackStart(o), SackBytes(o))
         /\ PadStart(o) <= Len(encode(o)) + 1
         /\ \A i \in PadStart(o) .. Len(encode(o)) : encode(o)[i] = OptEol
<1>1. PICK A \in Seq(U8), B \in Seq(U8), C \in Seq(U8), D \in Seq(U8) :
         A = MssBytes(o) /\ B = PermittedBytes(o) /\ C = WscaleBytes(o) /\ D = SackBytes(o)
  BY PartFacts
<1>2. PICK a \in Nat, b \in Nat, c \in Nat, d \in Nat : a = Len(A) /\ b = Len(B) /\ c = Len(C) /\ d = Len(D)
  BY LenProperties
<1>3. PICK AB \in Seq(U8) :
         /\ AB = A \o B /\ Len(AB) = (a) + b /\ At(AB, 1, A) /\ At(AB, 1 + (a), B)
         /\ \A p \in Nat \ {0}, u \in Seq(U8) : At(A, p, u) => At(AB, p, u)
  BY <1>2, Glue
<1>4. PICK ABC \in Seq(U8) :
         /\ ABC = AB \o C /\ Len(ABC) = (a + b) + c /\ At(ABC, 1, AB) /\ At(ABC, 1 + (a + b), C)
         /\ \A p \in Nat \ {0}, u \in Seq(U8) : At(AB, p, u) => At(ABC, p, u)
  <2>1. a + b \in Nat /\ Len(AB) = a + b
    BY <1>3
  <2> QED  BY <1>2, <2>1, Glue
<1>5. PICK bytes \in Seq(U8) :
         /\ bytes = ABC \o D /\ Len(bytes) = (a + b + c) + d /\ At(bytes, 1, ABC) /\ At(bytes, 1 + (a + b + c), D)
         /\ \A p \in Nat \ {0}, u \in Seq(U8) : At(ABC, p, u) => At(bytes, p, u)
  <2>1. a + b + c \in Nat /\ Len(ABC) = a + b + c
    BY <1>4
  <2> QED  BY <1>2, <2>1, Glue
<1>6. PICK n \in Nat : n = Len(bytes) /\ n = a + b + c + d
  BY <1>2, <1>5
<1>7. PICK r \in Nat : r = RoundUp4(n) /\ n <= r /\ \E w \in Nat : r = 4 * w
  BY RoundUp
<1>8. PICK z : z = [k \in 1 .. r - n |-> OptEol]
  OBVIOUS
<1>9. z \in Seq(U8) /\ Len(z) = r - n /\ \A k \in 1 .. r - n : z[k] = OptEol
  <2>1. OptEol \in U8 /\ r - n \in Nat
    BY <1>7 DEF OptEol, U8
  <2> QED  BY <1>8, <2>1
<1>10. encode(o) = bytes \o z
  BY <1>1, <1>3, <1>4, <1>5, <1>6, <1>7, <1>8 DEF encode
<1>11. PICK E \in Seq(U8) :
         /\ E = bytes \o z /\ Len(E) = (n) + (r - n) /\ At(E, 1, bytes) /\ At(E, 1 + (n), z)
         /\ \A p \in Nat \ {0}, u \in Seq(U8) : At(bytes, p, u) => At(E, p, u)
  <2>1. z \in Seq(U8) /\ Len(bytes) = n /\ Len(z) = r - n /\ r - n \in Nat
    BY <1>6, <1>7, <1>9
  <2> QED  BY <2>1, Glue
<1>12. Len(E) = r
  <2>1. Len(E) = (n) + (r - n)
    BY <1>11
  <2>2. (n) + (r - n) = r
    OBVIOUS
  <2> QED  BY <2>1, <2>2
<1>13. wire_len(o) = r
  <2>1. /\ a = (IF o.mss = None THEN 0 ELSE 4) /\ b = (IF o.sack_permitted THEN 2 ELSE 0)
        /\ c = (IF o.wscale = None THEN 0 ELSE 3) /\ d = SackLen(Len(o.sack_blocks))
    BY <1>1, <1>2, PartFacts
  <2>2. wire_len(o) = RoundUp4(a + c + b + d)
    BY <2>1 DEF wire_len
  <2>3. a + c + b + d = n
    BY <1>6
  <2> QED  BY <1>7, <2>2, <2>3
<1>14. /\ At(E, 1, A) /\ At(E, 1 + a, B) /\ At(E, 1 + (a + b), C) /\ At(E, 1 + (a + b + c), D)
  <2>0. /\ 1 \in Nat \ {0} /\ 1 + a \in Nat \ {0} /\ 1 + (a + b) \in Nat \ {0}
        /\ 1 + (a + b + c) \in Nat \ {0}
    OBVIOUS
  <2>1. At(AB, 1, A) /\ At(AB, 1 + a, B)
    BY <1>3
  <2>2. At(ABC, 1, A) /\ At(ABC, 1 + a, B) /\ At(ABC, 1 + (a + b), C)
    BY <1>4, <2>0, <2>1
  <2>3. At(bytes, 1, A) /\ At(bytes, 1 + a, B) /\ At(bytes, 1 + (a + b), C) /\ At(bytes, 1 + (a + b + c), D)
    BY <1>5, <2>0, <2>2
  <2> QED  BY <1>11, <2>0, <2>3
<1>15. /\ PermittedStart(o) = 1 + a /\ WscaleStart(o) = 1 + (a + b) /\ SackStart(o) = 1 + (a + b + c)
       /\ PadStart(o) = 1 + n
  BY <1>1, <1>2, <1>6 DEF PermittedStart, WscaleStart, SackStart, PadStart
<1>16. \A i \in 1 + n .. r : E[i] = OptEol
  <2> SUFFICES ASSUME NEW i \in 1 + n .. r PROVE E[i] = OptEol
    OBVIOUS
  <2>1. \A k \in 1 .. Len(z) : (bytes \o z)[Len(bytes) + k] = z[k]
    <3>1. z \in Seq(U8)
      BY <1>9
    <3> QED  BY <3>1, Join
  <2>2. PICK k \in 1 .. r - n : i = n + k
    <3>1. i - n \in 1 .. r - n /\ i = n + (i - n)
      OBVIOUS
    <3> QED  BY <3>1
  <2>3. E[n + k] = z[k]
    BY <1>6, <1>9, <1>11, <2>1
  <2> QED  BY <1>9, <2>2, <2>3
<1>17. 1 + n <= r + 1
  BY <1>7
<1> QED  BY <1>1, <1>7, <1>10, <1>11, <1>12, <1>13, <1>14, <1>15, <1>16, <1>17

-----------------------------------------------------------------------------
(* The option loop of parse() *)

\* What the loop finds from byte i on, given what it finds further on.
Step(f, o, i) ==
    IF i > Len(o) \/ o[i] = OptEol THEN EmptyOptions
    ELSE IF o[i] = OptNop THEN f[i + 1]
    ELSE IF ~ OptionFits(o, i) THEN EmptyOptions
    ELSE Before(o[i], SubSeq(o, i + 2, i + o[i + 1] - 1), f[i + o[i + 1]])
Walk(f, o) == f = [i \in 1 .. Len(o) + 1 |-> Step(f, o, i)]
WalkFrom(f, o, m) == \A i \in m .. Len(o) + 1 : f[i] = Step(f, o, i)

\* The loop ends on every field: each option it takes is at least a byte long
\* and ends in the field.
LEMMA WalkExists ==
  ASSUME NEW o \in Seq(U8)
  PROVE  \E f : Walk(f, o)
<1>1. PICK n \in Nat : n = Len(o)
  BY LenProperties
<1>2. \A i \in 1 .. n : o[i] \in Nat
  BY <1>1, ElementOfSeq DEF U8
<1>3. ASSUME NEW f, NEW g, NEW i \in 1 .. n + 1, \A j \in i + 1 .. n + 1 : f[j] = g[j]
      PROVE  Step(f, o, i) = Step(g, o, i)
  <2>1. CASE i > n \/ o[i] = OptEol
    BY <1>1, <2>1 DEF Step
  <2>2. CASE ~ (i > n \/ o[i] = OptEol) /\ o[i] = OptNop
    <3>1. i + 1 \in i + 1 .. n + 1
      BY <2>2
    <3>2. f[i + 1] = g[i + 1]
      BY <1>3, <3>1
    <3> QED  BY <1>1, <2>2, <3>2 DEF Step
  <2>3. CASE ~ (i > n \/ o[i] = OptEol) /\ o[i] # OptNop /\ ~ OptionFits(o, i)
    BY <1>1, <2>3 DEF Step
  <2>4. CASE ~ (i > n \/ o[i] = OptEol) /\ o[i] # OptNop /\ OptionFits(o, i)
    <3>1. i < n /\ o[i + 1] >= 2 /\ i + o[i + 1] - 1 <= n
      BY <1>1, <2>4 DEF OptionFits
    <3>2. o[i + 1] \in Nat
      BY <1>2, <3>1
    <3>3. i + o[i + 1] \in i + 1 .. n + 1
      BY <3>1, <3>2
    <3>4. f[i + o[i + 1]] = g[i + o[i + 1]]
      BY <1>3, <3>3
    <3> QED  BY <1>1, <2>4, <3>4 DEF Step
  <2> QED  BY <2>1, <2>2, <2>3, <2>4
<1> DEFINE Bad == {m \in Nat : m <= n /\ ~ \E f : WalkFrom(f, o, n + 1 - m)}
<1>4. Bad = {}
  <2>1. SUFFICES ASSUME Bad # {} PROVE FALSE
    OBVIOUS
  <2>2. PICK m \in Bad : \A k \in Bad : m <= k
    BY <2>1, LeastOf
  <2>3. m \in Nat /\ m <= n /\ ~ \E f : WalkFrom(f, o, n + 1 - m)
    BY <2>2
  <2>4. \E f : \A i \in n + 2 - m .. n + 1 : f[i] = Step(f, o, i)
    <3>1. CASE m = 0
      <4>1. \A i \in n + 2 - m .. n + 1 : FALSE
        BY <3>1
      <4> QED  BY <4>1
    <3>2. CASE m # 0
      <4>1. m - 1 \in Nat /\ m - 1 <= n /\ ~ (m <= m - 1) /\ n + 1 - (m - 1) = n + 2 - m
        BY <2>3, <3>2
      <4>2. m - 1 \notin Bad
        BY <2>2, <4>1
      <4>3. PICK f : WalkFrom(f, o, n + 1 - (m - 1))
        BY <4>1, <4>2
      <4> QED  BY <1>1, <4>1, <4>3 DEF WalkFrom
    <3> QED  BY <3>1, <3>2
  <2>5. PICK f : \A i \in n + 2 - m .. n + 1 : f[i] = Step(f, o, i)
    BY <2>4
  <2>6. PICK s \in 1 .. n + 1 : s = n + 1 - m
    BY <2>3
  <2>7. PICK g : g = [i \in s .. n + 1 |-> IF i = s THEN Step(f, o, s) ELSE f[i]]
    OBVIOUS
  <2>8. \A j \in s + 1 .. n + 1 : f[j] = g[j] /\ f[j] = Step(f, o, j)
    <3>1. SUFFICES ASSUME NEW j \in s + 1 .. n + 1 PROVE f[j] = g[j] /\ f[j] = Step(f, o, j)
      OBVIOUS
    <3>2. j \in s .. n + 1 /\ j # s /\ j \in n + 2 - m .. n + 1
      BY <2>3, <2>6
    <3> QED  BY <2>5, <2>7, <3>2
  <2>9. ASSUME NEW i \in s .. n + 1 PROVE g[i] = Step(g, o, i)
    <3>1. \A j \in i + 1 .. n + 1 : f[j] = g[j]
      BY <2>8
    <3>2. i \in 1 .. n + 1
      OBVIOUS
    <3>3. Step(f, o, i) = Step(g, o, i)
      BY <1>3, <3>1, <3>2
    <3>4. g[i] = Step(f, o, i)
      <4>1. CASE i = s
        BY <2>7, <4>1
      <4>2. CASE i # s
        <5>1. i \in s + 1 .. n + 1
          BY <4>2
        <5> QED  BY <2>8, <5>1
      <4> QED  BY <4>1, <4>2
    <3> QED  BY <3>3, <3>4
  <2>10. WalkFrom(g, o, n + 1 - m)
    BY <1>1, <2>6, <2>9 DEF WalkFrom
  <2> QED  BY <2>3, <2>10
<1>5. PICK f : WalkFrom(f, o, n + 1 - n)
  <2>1. n \notin {}
    OBVIOUS
  <2>2. n <= n
    OBVIOUS
  <2>3. n \notin Bad
    BY <1>4, <2>1, Zenon
  <2> QED  BY <2>2, <2>3, Zenon
<1>6. \A i \in 1 .. n + 1 : f[i] = Step(f, o, i)
  <2>1. n + 1 - n = 1
    OBVIOUS
  <2> QED  BY <1>1, <1>5, <2>1 DEF WalkFrom
<1>7. PICK g : g = [i \in 1 .. n + 1 |-> f[i]]
  OBVIOUS
<1>8. ASSUME NEW i \in 1 .. n + 1 PROVE g[i] = Step(g, o, i)
  <2>1. \A j \in i + 1 .. n + 1 : f[j] = g[j]
    BY <1>7
  <2>2. Step(f, o, i) = Step(g, o, i)
    BY <1>3, <2>1
  <2> QED  BY <1>6, <1>7, <2>2
<1>9. g = [i \in 1 .. n + 1 |-> Step(g, o, i)]
  BY <1>7, <1>8
<1> QED  BY <1>1, <1>9 DEF Walk

\* So the options parse() finds are those of the walk from the first byte.
LEMMA ParseWalk ==
  ASSUME NEW o \in Seq(U8)
  PROVE  \E f : ParseOptions(o) = f[1] /\ \A i \in 1 .. Len(o) + 1 : f[i] = Step(f, o, i)
<1>1. PICK f : f = CHOOSE g : g = [i \in 1 .. Len(o) + 1 |->
            IF i > Len(o) \/ o[i] = OptEol THEN EmptyOptions
            ELSE IF o[i] = OptNop THEN g[i + 1]
            ELSE IF ~ OptionFits(o, i) THEN EmptyOptions
            ELSE Before(o[i], SubSeq(o, i + 2, i + o[i + 1] - 1), g[i + o[i + 1]])]
  OBVIOUS
<1>2. ParseOptions(o) = f[1]
  BY <1>1 DEF ParseOptions
<1>3. f = CHOOSE g : Walk(g, o)
  BY <1>1 DEF Walk, Step
<1>4. Walk(f, o)
  BY <1>3, WalkExists, Zenon
<1>5. \A i \in 1 .. Len(o) + 1 : f[i] = Step(f, o, i)
  BY <1>4 DEF Walk
<1> QED  BY <1>2, <1>5

\* What each kind of option adds to the options after it.
Found(m, p, b, w) == [mss |-> m, sack_permitted |-> p, sack_blocks |-> b, wscale |-> w]
Joins(k, u, l) ==
    Found(IF l.mss = None /\ k = OptMss /\ Len(u) = 2 THEN get16(u) ELSE l.mss,
          l.sack_permitted \/ (k = OptSackPermitted /\ u = <<>>),
          (IF k = OptSack THEN SackBlocks(u) ELSE <<>>) \o l.sack_blocks,
          IF l.wscale = None /\ k = OptWscale /\ Len(u) = 1 THEN u[1] ELSE l.wscale)
\* The same as a record of its four fields.
LEMMA BeforeIs ==
  ASSUME NEW k, NEW u, NEW l PROVE Before(k, u, l) = Joins(k, u, l)
  BY Zenon DEF Before, Joins, Found

\* The four kinds are told apart.
LEMMA KindsDiffer ==
  /\ OptMss # OptSackPermitted /\ OptMss # OptWscale /\ OptMss # OptSack
  /\ OptSackPermitted # OptWscale /\ OptSackPermitted # OptSack /\ OptWscale # OptSack
  BY DEF OptMss, OptSackPermitted, OptWscale, OptSack

\* An MSS option before options without one.
LEMMA BeforeMss ==
  ASSUME NEW v, Len(v) = 2, NEW p \in BOOLEAN, NEW b \in Seq(SackBlock), NEW w
  PROVE  Before(OptMss, v, Found(None, p, b, w)) = Found(get16(v), p, b, w)
<1>1. <<>> \o b = b /\ b \o <<>> = b
  BY ConcatEmptySeq
<1>2. Joins(OptMss, v, Found(None, p, b, w)) = Found(get16(v), p, b, w)
  BY <1>1, KindsDiffer DEF Joins, Found
<1> QED  BY <1>2, BeforeIs, Zenon

\* A SACK-permitted option.
LEMMA BeforePermitted ==
  ASSUME NEW p \in BOOLEAN, NEW b \in Seq(SackBlock), NEW w
  PROVE  Before(OptSackPermitted, <<>>, Found(None, p, b, w)) = Found(None, TRUE, b, w)
<1>1. <<>> \o b = b /\ b \o <<>> = b
  BY ConcatEmptySeq
<1>2. Joins(OptSackPermitted, <<>>, Found(None, p, b, w)) = Found(None, TRUE, b, w)
  BY <1>1, KindsDiffer DEF Joins, Found
<1> QED  BY <1>2, BeforeIs, Zenon

\* A window scale before options without one.
LEMMA BeforeWscale ==
  ASSUME NEW v, Len(v) = 1, NEW b \in Seq(SackBlock)
  PROVE  Before(OptWscale, v, Found(None, FALSE, b, None)) = Found(None, FALSE, b, v[1])
<1>1. <<>> \o b = b /\ b \o <<>> = b
  BY ConcatEmptySeq
<1>2. Joins(OptWscale, v, Found(None, FALSE, b, None)) = Found(None, FALSE, b, v[1])
  BY <1>1, KindsDiffer DEF Joins, Found
<1> QED  BY <1>2, BeforeIs, Zenon

\* The SACK option before options without blocks.
LEMMA BeforeSack ==
  ASSUME NEW v, NEW b \in Seq(SackBlock), SackBlocks(v) = b
  PROVE  Before(OptSack, v, Found(None, FALSE, <<>>, None)) = Found(None, FALSE, b, None)
<1>1. <<>> \o b = b /\ b \o <<>> = b
  BY ConcatEmptySeq
<1>2. Joins(OptSack, v, Found(None, FALSE, <<>>, None)) = Found(None, FALSE, b, None)
  BY <1>1, KindsDiffer DEF Joins, Found
<1> QED  BY <1>2, BeforeIs, Zenon

\* f[j] is what the loop finds from byte j of the field on, for every j.
Walks(f, e) == \A j \in 1 .. Len(e) + 1 : f[j] = Step(f, e, j)

\* An option of l bytes stands whole in the field from byte i on.
OptionAt(e, i, l) == e[i] # OptEol /\ e[i] # OptNop /\ e[i + 1] = l /\ l >= 2 /\ i + l - 1 <= Len(e)
\* There the loop takes the option and goes on behind it.
LEMMA OneOption ==
  ASSUME NEW e \in Seq(U8), NEW f, NEW i \in Nat \ {0}, NEW l \in Nat,
         Walks(f, e), OptionAt(e, i, l)
  PROVE  f[i] = Before(e[i], SubSeq(e, i + 2, i + l - 1), f[i + l])
<1>1. PICK n \in Nat : n = Len(e)
  BY LenProperties
<1>2. i \in 1 .. n + 1 /\ ~ (i > n) /\ i < n
  BY <1>1 DEF OptionAt
<1>3. OptionFits(e, i)
  BY <1>1, <1>2 DEF OptionFits, OptionAt
<1>4. f[i] = Step(f, e, i)
  BY <1>1, <1>2 DEF Walks
<1> QED  BY <1>1, <1>2, <1>3, <1>4 DEF Step, OptionAt

\* The loop at a no-operation byte.
LEMMA OneNop ==
  ASSUME NEW e \in Seq(U8), NEW f, NEW i \in Nat \ {0},
         Walks(f, e), i <= Len(e), e[i] = OptNop
  PROVE  f[i] = f[i + 1]
<1>1. PICK n \in Nat : n = Len(e)
  BY LenProperties
<1>2. i \in 1 .. n + 1 /\ ~ (i > n)
  BY <1>1
<1>3. f[i] = Step(f, e, i) /\ OptNop # OptEol
  BY <1>1, <1>2 DEF OptNop, OptEol, Walks
<1> QED  BY <1>1, <1>2, <1>3 DEF Step

\* The value of an option that stands in the field from byte p on.
LEMMA Value ==
  ASSUME NEW e \in Seq(U8), NEW p \in Nat \ {0}, NEW n \in Nat, p + n <= Len(e) + 1
  PROVE  /\ SubSeq(e, p, p + n - 1) \in Seq(U8) /\ Len(SubSeq(e, p, p + n - 1)) = n
         /\ \A i \in 1 .. n : SubSeq(e, p, p + n - 1)[i] = e[p - 1 + i]
<1>1. PICK m \in Nat : m = Len(e)
  BY LenProperties
<1>2. \A i \in p .. p + n - 1 : e[i] \in U8
  BY <1>1, ElementOfSeq
<1>3. PICK q \in Int : q = p + n - 1
  OBVIOUS
<1>4. /\ SubSeq(e, p, q) \in Seq(U8)
      /\ Len(SubSeq(e, p, q)) = IF p <= q THEN q - p + 1 ELSE 0
      /\ \A i \in 1 .. q - p + 1 : SubSeq(e, p, q)[i] = e[p + i - 1]
  BY <1>2, <1>3, SubSeqProperties
<1>5. (IF p <= q THEN q - p + 1 ELSE 0) = n /\ q - p + 1 = n
  BY <1>3
<1>6. ASSUME NEW i \in 1 .. n PROVE p + i - 1 = p - 1 + i
  OBVIOUS
<1> QED  BY <1>3, <1>4, <1>5, <1>6

\* The SACK blocks read back from their bytes.
LEMMA SackBack ==
  ASSUME NEW o \in Options
  PROVE  SackBlocks(Blocks(o)) = o.sack_blocks
<1>1. PICK sb \in Seq(SackBlock) : sb = o.sack_blocks
  BY DEF Options
<1>2. PICK n \in Nat : n = Len(sb)
  BY LenProperties
<1>3. PICK val \in Seq(U8) : /\ val = Blocks(o) /\ Len(val) = 8 * n
                             /\ \A k \in 1 .. n, j \in 1 .. 8 : val[8 * k - 8 + j] = BlockBytes(sb[k])[j]
  BY <1>1, <1>2, BlocksFacts
<1>4. ASSUME NEW k \in 1 .. n
      PROVE  get32(SubSeq(val, 8 * k - 7, 8 * k - 4)) = sb[k].start /\ get32(SubSeq(val, 8 * k - 3, 8 * k)) = sb[k].end
  <2>1. sb[k] \in SackBlock
    BY <1>2, ElementOfSeq
  <2>2. sb[k].start \in U32 /\ sb[k].end \in U32
    BY <2>1 DEF SackBlock
  <2>3. \A i \in 1 .. 4 : /\ BlockBytes(sb[k])[i] = put32(sb[k].start)[i]
                          /\ BlockBytes(sb[k])[4 + i] = put32(sb[k].end)[i]
    BY <2>1, BlockFacts
  <2>4. PICK p \in Nat \ {0}, q \in Nat \ {0} : p = 8 * k - 7 /\ q = 8 * k - 3
    OBVIOUS
  <2>5. p + 3 = 8 * k - 4 /\ q + 3 = 8 * k /\ p + 3 <= 8 * n /\ q + 3 <= 8 * n
    BY <2>4
  <2>6. Len(put32(sb[k].start)) = 4 /\ Len(put32(sb[k].end)) = 4
    BY <2>2, Put32, SMT
  <2>7. At(val, p, put32(sb[k].start))
    <3>1. ASSUME NEW i \in 1 .. 4 PROVE val[p - 1 + i] = put32(sb[k].start)[i]
      <4>1. i \in 1 .. 8 /\ p - 1 + i = 8 * k - 8 + i
        BY <2>4
      <4> QED  BY <1>3, <2>3, <4>1
    <3>2. p - 1 + 4 <= 8 * n
      BY <2>5
    <3> QED  BY <1>3, <2>6, <3>1, <3>2 DEF At
  <2>8. At(val, q, put32(sb[k].end))
    <3>1. ASSUME NEW i \in 1 .. 4 PROVE val[q - 1 + i] = put32(sb[k].end)[i]
      <4>1. 4 + i \in 1 .. 8 /\ q - 1 + i = 8 * k - 8 + (4 + i)
        BY <2>4
      <4>2. val[8 * k - 8 + (4 + i)] = BlockBytes(sb[k])[4 + i]
        BY <1>3, <4>1
      <4> QED  BY <2>3, <4>1, <4>2
    <3>2. q - 1 + 4 <= 8 * n
      BY <2>5
    <3> QED  BY <1>3, <2>6, <3>1, <3>2 DEF At
  <2>9. get32(SubSeq(val, p, p + 3)) = sb[k].start
    BY <2>2, <2>7, Get32, SMT
  <2>10. get32(SubSeq(val, q, q + 3)) = sb[k].end
    BY <2>2, <2>8, Get32, SMT
  <2> QED  BY <2>4, <2>5, <2>9, <2>10
<1>5. ASSUME NEW k \in 1 .. n
      PROVE  [start |-> get32(SubSeq(val, 8 * k - 7, 8 * k - 4)), end |-> get32(SubSeq(val, 8 * k - 3, 8 * k))] = sb[k]
  <2>1. sb[k] \in SackBlock
    BY <1>2, ElementOfSeq
  <2>2. sb[k] = [start |-> sb[k].start, end |-> sb[k].end]
    BY <2>1 DEF SackBlock
  <2> QED  BY <1>4, <2>2
<1>6. Len(val) \div 8 = n
  BY <1>3, SMT
<1>7. SackBlocks(val) = [k \in 1 .. n |-> sb[k]]
  BY <1>5, <1>6 DEF SackBlocks
<1>8. sb = [k \in 1 .. n |-> sb[k]]
  BY <1>2
<1> QED  BY <1>1, <1>3, <1>7, <1>8

\* The bytes of the SACK option.
LEMMA SackPart ==
  ASSUME NEW o \in Options, o.sack_blocks # <<>>, NEW n \in Nat, n = Len(o.sack_blocks), n <= 4
  PROVE  /\ SackBytes(o)[1] = OptNop /\ SackBytes(o)[2] = OptNop /\ SackBytes(o)[3] = OptSack
         /\ SackBytes(o)[4] = 2 + 8 * n
         /\ \A i \in 1 .. 8 * n : SackBytes(o)[4 + i] = Blocks(o)[i]
<1>1. (2 + 8 * n) % 256 = 2 + 8 * n /\ 2 + 8 * n \in U8
  <2>1. PICK v \in Nat : v = 2 + 8 * n /\ v < 256
    OBVIOUS
  <2>2. v % 256 = v
    <3>1. PICK q \in Nat, r \in Nat : q = v \div 256 /\ r = v % 256 /\ v = q * 256 + r
      BY Split, SMT
    <3>2. q = 0 /\ r = v
      <4>1. v = q * 256 + r /\ v < 256
        BY <2>1, <3>1
      <4>2. q < 1
        BY <4>1, SMT
      <4>3. q = 0
        BY <4>2
      <4> QED  BY <4>1, <4>3
    <3> QED  BY <3>1, <3>2
  <2> QED  BY <2>1, <2>2 DEF U8
<1>2. 1 \in U8 /\ 5 \in U8
  BY DEF U8
<1>3. PICK s \in Seq(U8) : s = <<OptNop, OptNop, OptSack, 2 + 8 * n>> /\ Len(s) = 4
  <2>1. /\ <<OptNop, OptNop, OptSack, 2 + 8 * n>> \in Seq(U8)
        /\ Len(<<OptNop, OptNop, OptSack, 2 + 8 * n>>) = 4
    BY <1>1, <1>2 DEF OptNop, OptSack
  <2> QED  BY <2>1
<1>4. PICK t \in Seq(U8) : t = Blocks(o) /\ Len(t) = 8 * n
  BY BlocksFacts
<1>5. SackBytes(o) = s \o t
  BY <1>1, <1>3, <1>4 DEF SackBytes, Blocks
<1>6. /\ \A i \in 1 .. Len(s) : (s \o t)[i] = s[i]
      /\ \A i \in 1 .. Len(t) : (s \o t)[Len(s) + i] = t[i]
  BY Join
<1>7. 1 \in 1 .. 4 /\ 2 \in 1 .. 4 /\ 3 \in 1 .. 4 /\ 4 \in 1 .. 4
  OBVIOUS
<1>8. s[1] = OptNop /\ s[2] = OptNop /\ s[3] = OptSack /\ s[4] = 2 + 8 * n
  BY <1>3
<1> QED  BY <1>3, <1>4, <1>5, <1>6, <1>7, <1>8

\* A field the loop is run on, and what it finds from each byte on.
Read(f, o) ==
    /\ ParseOptions(encode(o)) = f[1]
    /\ Walks(f, encode(o))

\* After the last option the loop finds nothing.
LEMMA PadStage ==
  ASSUME NEW o \in Options, NEW f, Read(f, o), PadStart(o) \in Nat \ {0}
  PROVE  f[PadStart(o)] = Found(None, FALSE, <<>>, None)
<1>1. PICK e \in Seq(U8), n \in Nat : e = encode(o) /\ n = Len(e)
  BY EncodeFacts, LenProperties
<1>2. PICK p \in 1 .. n + 1 : p = PadStart(o)
  BY <1>1, EncodeFacts
<1>3. p > n \/ e[p] = OptEol
  <2>1. CASE p <= n
    <3>1. p \in PadStart(o) .. Len(encode(o))
      BY <1>1, <1>2, <2>1
    <3> QED  BY <1>1, <3>1, EncodeFacts
  <2> QED  BY <2>1
<1>4. f[p] = Step(f, e, p)
  BY <1>1, <1>2 DEF Read, Walks
<1>5. f[p] = EmptyOptions
  BY <1>1, <1>3, <1>4 DEF Step
<1> QED  BY <1>2, <1>5 DEF EmptyOptions, Found

\* From the SACK option on, the loop finds the SACK blocks.
LEMMA SackStage ==
  ASSUME NEW o \in Options, NEW f, Read(f, o), wire_len(o) <= OptRoom, SackStart(o) \in Nat \ {0}
  PROVE  f[SackStart(o)] = Found(None, FALSE, o.sack_blocks, None)
<1>1. PICK e \in Seq(U8), w \in Nat : e = encode(o) /\ w = Len(e) /\ w <= 40
  BY EncodeFacts, LenProperties DEF OptRoom
<1>2. PICK n \in Nat : n = Len(o.sack_blocks)
  BY BlocksFacts
<1>3. PICK S \in Nat \ {0} : S = SackStart(o)
  OBVIOUS
<1>4. o.sack_blocks \in Seq(SackBlock)
  BY DEF Options
<1>5. CASE n = 0
  <2>1. o.sack_blocks = <<>>
    BY <1>2, <1>4, <1>5, EmptySeq
  <2>2. Len(SackBytes(o)) = 0
    BY <1>2, <1>5, PartFacts DEF SackLen
  <2>3. PadStart(o) = S
    BY <1>3, <2>2 DEF PadStart
  <2> QED  BY <1>3, <2>1, <2>3, PadStage
<1>6. CASE n # 0
  <2>1. o.sack_blocks # <<>>
    BY <1>2, <1>4, <1>6, EmptySeq
  <2>2. Len(SackBytes(o)) = 4 + 8 * n
    BY <1>2, <1>6, PartFacts DEF SackLen
  <2>3. /\ S - 1 + (4 + 8 * n) <= w
        /\ \A i \in 1 .. 4 + 8 * n : e[S - 1 + i] = SackBytes(o)[i]
    <3>1. At(e, S, SackBytes(o))
      BY <1>1, <1>3, EncodeFacts
    <3> QED  BY <1>1, <2>2, <3>1 DEF At
  <2>4. n <= 4
    BY <1>1, <2>3
  <2>5. /\ SackBytes(o)[1] = OptNop /\ SackBytes(o)[2] = OptNop /\ SackBytes(o)[3] = OptSack
        /\ SackBytes(o)[4] = 2 + 8 * n
        /\ \A i \in 1 .. 8 * n : SackBytes(o)[4 + i] = Blocks(o)[i]
    BY <1>2, <2>1, <2>4, SackPart
  <2>6. e[S] = OptNop /\ e[S + 1] = OptNop /\ e[S + 2] = OptSack /\ e[S + 3] = 2 + 8 * n
    <3>1. /\ 1 \in 1 .. 4 + 8 * n /\ 2 \in 1 .. 4 + 8 * n /\ 3 \in 1 .. 4 + 8 * n /\ 4 \in 1 .. 4 + 8 * n
          /\ S - 1 + 1 = S /\ S - 1 + 2 = S + 1 /\ S - 1 + 3 = S + 2 /\ S - 1 + 4 = S + 3
      OBVIOUS
    <3> QED  BY <2>3, <2>5, <3>1
  <2>7. PICK l \in Nat, p \in Nat \ {0} : l = 2 + 8 * n /\ p = S + 2
    OBVIOUS
  <2>8. PICK val \in Seq(U8) : val = SubSeq(e, p + 2, p + l - 1) /\ val = Blocks(o)
    <3>1. PICK q \in Nat \ {0}, m \in Nat : q = p + 2 /\ m = 8 * n
      OBVIOUS
    <3>2. q + m <= Len(e) + 1
      BY <1>1, <2>3, <2>7, <3>1
    <3>3. /\ SubSeq(e, q, q + m - 1) \in Seq(U8) /\ Len(SubSeq(e, q, q + m - 1)) = m
          /\ \A i \in 1 .. m : SubSeq(e, q, q + m - 1)[i] = e[q - 1 + i]
      BY <3>2, Value
    <3>4. q + m - 1 = p + l - 1
      BY <2>7, <3>1
    <3>5. PICK val \in Seq(U8) : /\ val = SubSeq(e, q, q + m - 1) /\ Len(val) = m
                                 /\ \A i \in 1 .. m : val[i] = e[q - 1 + i]
      BY <3>3
    <3>6. PICK t \in Seq(U8) : t = Blocks(o) /\ Len(t) = m
      BY <1>2, <3>1, BlocksFacts
    <3>7. ASSUME NEW i \in 1 .. m PROVE val[i] = t[i]
      <4>1. 4 + i \in 1 .. 4 + 8 * n /\ S - 1 + (4 + i) = q - 1 + i /\ i \in 1 .. 8 * n
        BY <2>7, <3>1
      <4>2. e[S - 1 + (4 + i)] = Blocks(o)[i]
        BY <2>3, <2>5, <4>1
      <4> QED  BY <3>5, <3>6, <4>1, <4>2
    <3>8. val = t
      <4>1. val = [i \in 1 .. m |-> val[i]] /\ t = [i \in 1 .. m |-> t[i]]
        <5>1. Len(val) = m
          BY <3>5
        <5>2. Len(t) = m
          BY <3>6
        <5> QED  BY <5>1, <5>2
      <4> QED  BY <3>7, <4>1
    <3> QED  BY <3>1, <3>4, <3>5, <3>6, <3>8
  <2>9. Walks(f, e)
    BY <1>1 DEF Read
  <2>10. f[p] = Before(OptSack, SubSeq(e, p + 2, p + l - 1), f[p + l])
    <3>1. e[p] = OptSack /\ e[p + 1] = l /\ l >= 2 /\ p + l - 1 <= Len(e)
      <4>1. p + 1 = S + 3 /\ l >= 2 /\ p + l - 1 <= w
        BY <2>3, <2>7
      <4> QED  BY <1>1, <2>6, <2>7, <4>1
    <3>2. e[p] # OptEol /\ e[p] # OptNop
      BY <3>1 DEF OptSack, OptEol, OptNop
    <3>3. f[p] = Before(e[p], SubSeq(e, p + 2, p + l - 1), f[p + l])
      <4>1. OptionAt(e, p, l)
        BY <3>1, <3>2, Zenon DEF OptionAt
      <4> QED  BY <2>9, <4>1, OneOption
    <3> QED  BY <3>1, <3>3
  <2>11. f[S] = f[S + 1] /\ f[S + 1] = f[S + 2]
    <3>1. S <= Len(e) /\ S + 1 <= Len(e) /\ S + 1 \in Nat \ {0} /\ (S + 1) + 1 = S + 2
      BY <1>1, <2>3
    <3>2. f[S] = f[S + 1]
      BY <2>6, <2>9, <3>1, OneNop
    <3>3. f[S + 1] = f[(S + 1) + 1]
      BY <2>6, <2>9, <3>1, OneNop
    <3> QED  BY <3>1, <3>2, <3>3
  <2>12. PadStart(o) = p + l /\ PadStart(o) \in Nat \ {0}
    BY <1>3, <2>2, <2>7 DEF PadStart
  <2>13. f[p + l] = Found(None, FALSE, <<>>, None)
    BY <2>12, PadStage
  <2>14. SackBlocks(val) = o.sack_blocks
    BY <2>8, SackBack
  <2>15. f[p] = Found(None, FALSE, o.sack_blocks, None)
    <3>1. Before(OptSack, val, Found(None, FALSE, <<>>, None)) = Found(None, FALSE, o.sack_blocks, None)
      BY <1>4, <2>14, BeforeSack
    <3> QED  BY <2>8, <2>10, <2>13, <3>1
  <2> QED  BY <1>3, <2>7, <2>11, <2>15
<1> QED  BY <1>5, <1>6

\* The parts begin inside the field, or just past it.
LEMMA Starts ==
  ASSUME NEW o \in Options
  PROVE  /\ PermittedStart(o) \in Nat \ {0} /\ WscaleStart(o) \in Nat \ {0} /\ SackStart(o) \in Nat \ {0}
         /\ PadStart(o) \in Nat \ {0}
<1>1. PICK A \in Seq(U8), B \in Seq(U8), C \in Seq(U8), D \in Seq(U8) :
         A = MssBytes(o) /\ B = PermittedBytes(o) /\ C = WscaleBytes(o) /\ D = SackBytes(o)
  BY PartFacts
<1>2. PICK a \in Nat, b \in Nat, c \in Nat, d \in Nat : a = Len(A) /\ b = Len(B) /\ c = Len(C) /\ d = Len(D)
  BY LenProperties
<1> QED  BY <1>1, <1>2 DEF PermittedStart, WscaleStart, SackStart, PadStart

\* From the window scale on, it is found too.
LEMMA WscaleStage ==
  ASSUME NEW o \in Options, NEW f, Read(f, o), wire_len(o) <= OptRoom
  PROVE  f[WscaleStart(o)] = Found(None, FALSE, o.sack_blocks, o.wscale)
<1>1. PICK e \in Seq(U8), w \in Nat : e = encode(o) /\ w = Len(e)
  BY EncodeFacts, LenProperties
<1>2. PICK S \in Nat \ {0} : S = WscaleStart(o)
  BY Starts
<1>3. f[SackStart(o)] = Found(None, FALSE, o.sack_blocks, None)
  BY Starts, SackStage
<1>4. CASE o.wscale = None
  <2>1. Len(WscaleBytes(o)) = 0
    BY <1>4, PartFacts
  <2>2. SackStart(o) = S
    BY <1>2, <2>1 DEF SackStart
  <2> QED  BY <1>2, <1>3, <1>4, <2>2
<1>5. CASE o.wscale # None
  <2>1. Len(WscaleBytes(o)) = 3 /\ WscaleBytes(o) = <<OptWscale, 3, o.wscale>>
    BY <1>5, PartFacts DEF WscaleBytes
  <2>2. S - 1 + 3 <= w /\ \A i \in 1 .. 3 : e[S - 1 + i] = WscaleBytes(o)[i]
    <3>1. At(e, S, WscaleBytes(o))
      BY <1>1, <1>2, EncodeFacts
    <3> QED  BY <1>1, <2>1, <3>1 DEF At
  <2>3. e[S] = OptWscale /\ e[S + 1] = 3 /\ e[S + 2] = o.wscale
    <3>1. /\ 1 \in 1 .. 3 /\ 2 \in 1 .. 3 /\ 3 \in 1 .. 3
          /\ S - 1 + 1 = S /\ S - 1 + 2 = S + 1 /\ S - 1 + 3 = S + 2
      OBVIOUS
    <3> QED  BY <2>1, <2>2, <3>1
  <2>4. OptionAt(e, S, 3)
    <3>1. S + 3 - 1 <= Len(e) /\ 3 >= 2
      BY <1>1, <2>2
    <3>2. e[S] # OptEol /\ e[S] # OptNop
      BY <2>3 DEF OptWscale, OptEol, OptNop
    <3> QED  BY <2>3, <3>1, <3>2 DEF OptionAt
  <2>5. Walks(f, e)
    BY <1>1 DEF Read
  <2>6. f[S] = Before(e[S], SubSeq(e, S + 2, S + 3 - 1), f[S + 3])
    BY <2>4, <2>5, OneOption
  <2>7. PICK val \in Seq(U8) : val = SubSeq(e, S + 2, S + 3 - 1) /\ Len(val) = 1 /\ val[1] = o.wscale
    <3>1. PICK q \in Nat \ {0} : q = S + 2
      OBVIOUS
    <3>2. q + 1 <= Len(e) + 1 /\ q + 1 - 1 = S + 3 - 1 /\ q - 1 + 1 = S + 2 /\ 1 \in 1 .. 1
      BY <1>1, <2>2, <3>1
    <3>3. /\ SubSeq(e, q, q + 1 - 1) \in Seq(U8) /\ Len(SubSeq(e, q, q + 1 - 1)) = 1
          /\ \A i \in 1 .. 1 : SubSeq(e, q, q + 1 - 1)[i] = e[q - 1 + i]
      BY <3>2, Value
    <3> QED  BY <2>3, <3>1, <3>2, <3>3
  <2>8. SackStart(o) = S + 3
    BY <1>2, <2>1 DEF SackStart
  <2>9. o.sack_blocks \in Seq(SackBlock)
    BY DEF Options
  <2>10. Before(OptWscale, val, Found(None, FALSE, o.sack_blocks, None)) = Found(None, FALSE, o.sack_blocks, val[1])
    BY <2>7, <2>9, BeforeWscale
  <2> QED  BY <1>2, <1>3, <2>3, <2>6, <2>7, <2>8, <2>10
<1> QED  BY <1>4, <1>5

\* From the SACK-permitted option on.
LEMMA PermittedStage ==
  ASSUME NEW o \in Options, NEW f, Read(f, o), wire_len(o) <= OptRoom
  PROVE  f[PermittedStart(o)] = Found(None, o.sack_permitted, o.sack_blocks, o.wscale)
<1>1. PICK e \in Seq(U8), w \in Nat : e = encode(o) /\ w = Len(e)
  BY EncodeFacts, LenProperties
<1>2. PICK S \in Nat \ {0} : S = PermittedStart(o)
  BY Starts
<1>3. f[WscaleStart(o)] = Found(None, FALSE, o.sack_blocks, o.wscale)
  BY WscaleStage
<1>4. o.sack_permitted \in BOOLEAN /\ o.sack_blocks \in Seq(SackBlock)
  BY DEF Options
<1>5. CASE o.sack_permitted = FALSE
  <2>1. Len(PermittedBytes(o)) = 0
    BY <1>5, PartFacts
  <2>2. WscaleStart(o) = S
    BY <1>2, <2>1 DEF WscaleStart
  <2> QED  BY <1>2, <1>3, <1>5, <2>2
<1>6. CASE o.sack_permitted = TRUE
  <2>1. Len(PermittedBytes(o)) = 2 /\ PermittedBytes(o) = <<OptSackPermitted, 2>>
    BY <1>6, PartFacts DEF PermittedBytes
  <2>2. S - 1 + 2 <= w /\ \A i \in 1 .. 2 : e[S - 1 + i] = PermittedBytes(o)[i]
    <3>1. At(e, S, PermittedBytes(o))
      BY <1>1, <1>2, EncodeFacts
    <3> QED  BY <1>1, <2>1, <3>1 DEF At
  <2>3. e[S] = OptSackPermitted /\ e[S + 1] = 2
    <3>1. 1 \in 1 .. 2 /\ 2 \in 1 .. 2 /\ S - 1 + 1 = S /\ S - 1 + 2 = S + 1
      OBVIOUS
    <3> QED  BY <2>1, <2>2, <3>1
  <2>4. OptionAt(e, S, 2)
    <3>1. S + 2 - 1 <= Len(e) /\ 2 >= 2
      BY <1>1, <2>2
    <3>2. e[S] # OptEol /\ e[S] # OptNop
      BY <2>3 DEF OptSackPermitted, OptEol, OptNop
    <3> QED  BY <2>3, <3>1, <3>2 DEF OptionAt
  <2>5. Walks(f, e)
    BY <1>1 DEF Read
  <2>6. f[S] = Before(e[S], SubSeq(e, S + 2, S + 2 - 1), f[S + 2])
    BY <2>4, <2>5, OneOption
  <2>7. SubSeq(e, S + 2, S + 2 - 1) = <<>>
    <3>1. PICK q \in Nat \ {0} : q = S + 2
      OBVIOUS
    <3>2. q + 0 <= Len(e) + 1 /\ q + 0 - 1 = S + 2 - 1
      BY <1>1, <2>2, <3>1
    <3>3. SubSeq(e, q, q + 0 - 1) \in Seq(U8) /\ Len(SubSeq(e, q, q + 0 - 1)) = 0
      BY <3>2, Value
    <3>4. SubSeq(e, q, q + 0 - 1) = <<>>
      BY <3>3, EmptySeq
    <3> QED  BY <3>1, <3>2, <3>4
  <2>8. WscaleStart(o) = S + 2
    BY <1>2, <2>1 DEF WscaleStart
  <2>9. Before(OptSackPermitted, <<>>, f[S + 2]) = Found(None, TRUE, o.sack_blocks, o.wscale)
    <3>1. PICK no \in BOOLEAN : no = FALSE
      OBVIOUS
    <3>2. Before(OptSackPermitted, <<>>, Found(None, no, o.sack_blocks, o.wscale))
            = Found(None, TRUE, o.sack_blocks, o.wscale)
      BY <1>4, BeforePermitted
    <3> QED  BY <1>3, <2>8, <3>1, <3>2
  <2> QED  BY <1>2, <1>6, <2>3, <2>6, <2>7, <2>9
<1> QED  BY <1>4, <1>5, <1>6

\* From the first byte on: the whole of the options.
LEMMA MssStage ==
  ASSUME NEW o \in Options, NEW f, Read(f, o), wire_len(o) <= OptRoom
  PROVE  f[1] = Found(o.mss, o.sack_permitted, o.sack_blocks, o.wscale)
<1>1. PICK e \in Seq(U8), w \in Nat : e = encode(o) /\ w = Len(e)
  BY EncodeFacts, LenProperties
<1>2. f[PermittedStart(o)] = Found(None, o.sack_permitted, o.sack_blocks, o.wscale)
  BY PermittedStage
<1>3. o.sack_permitted \in BOOLEAN /\ o.sack_blocks \in Seq(SackBlock)
  BY DEF Options
<1>4. CASE o.mss = None
  <2>1. Len(MssBytes(o)) = 0
    BY <1>4, PartFacts
  <2>2. PermittedStart(o) = 1
    BY <2>1 DEF PermittedStart
  <2> QED  BY <1>2, <1>4, <2>2
<1>5. CASE o.mss # None
  <2>0. o.mss \in U16
    BY <1>5 DEF Options
  <2>1. PICK t \in Seq(U8) : t = put16(o.mss) /\ Len(t) = 2 /\ t[1] * 256 + t[2] = o.mss
    BY <2>0, Put16, SMT
  <2>2. Len(MssBytes(o)) = 4 /\ MssBytes(o) = <<OptMss, 4>> \o t
    BY <1>5, <2>1, PartFacts DEF MssBytes
  <2>3. PICK s \in Seq(U8) : s = <<OptMss, 4>> /\ Len(s) = 2 /\ s[1] = OptMss /\ s[2] = 4
    <3>1. 2 \in U8 /\ 4 \in U8
      BY DEF U8
    <3>2. <<2, 4>> \in Seq(U8) /\ Len(<<2, 4>>) = 2 /\ <<2, 4>>[1] = 2 /\ <<2, 4>>[2] = 4
      BY <3>1
    <3>3. OptMss = 2
      BY DEF OptMss
    <3> QED  BY <3>2, <3>3
  <2>4. /\ \A i \in 1 .. Len(s) : (s \o t)[i] = s[i]
        /\ \A i \in 1 .. Len(t) : (s \o t)[Len(s) + i] = t[i]
    BY Join
  <2>5. /\ MssBytes(o)[1] = OptMss /\ MssBytes(o)[2] = 4
        /\ MssBytes(o)[3] = t[1] /\ MssBytes(o)[4] = t[2]
    <3>1. 1 \in 1 .. 2 /\ 2 \in 1 .. 2 /\ 2 + 1 = 3 /\ 2 + 2 = 4
      OBVIOUS
    <3>2. MssBytes(o) = s \o t
      BY <2>2, <2>3
    <3>3. (s \o t)[1] = s[1] /\ (s \o t)[2] = s[2] /\ (s \o t)[3] = t[1] /\ (s \o t)[4] = t[2]
      BY <2>1, <2>3, <2>4, <3>1
    <3> QED  BY <2>3, <3>2, <3>3
  <2>6. 4 <= w /\ e[1] = OptMss /\ e[2] = 4 /\ e[3] = t[1] /\ e[4] = t[2]
    <3>1. At(e, 1, MssBytes(o))
      BY <1>1, EncodeFacts
    <3>2. 1 - 1 + 4 <= w /\ \A i \in 1 .. 4 : e[1 - 1 + i] = MssBytes(o)[i]
      BY <1>1, <2>2, <3>1 DEF At
    <3>3. /\ 1 \in 1 .. 4 /\ 2 \in 1 .. 4 /\ 3 \in 1 .. 4 /\ 4 \in 1 .. 4
          /\ 1 - 1 + 1 = 1 /\ 1 - 1 + 2 = 2 /\ 1 - 1 + 3 = 3 /\ 1 - 1 + 4 = 4
      OBVIOUS
    <3> QED  BY <2>5, <3>2, <3>3
  <2>7. OptionAt(e, 1, 4)
    <3>1. 1 + 4 - 1 <= Len(e) /\ 4 >= 2 /\ 1 + 1 = 2
      BY <1>1, <2>6
    <3>2. e[1] # OptEol /\ e[1] # OptNop
      BY <2>6 DEF OptMss, OptEol, OptNop
    <3> QED  BY <2>6, <3>1, <3>2 DEF OptionAt
  <2>8. Walks(f, e)
    BY <1>1 DEF Read
  <2>9. f[1] = Before(e[1], SubSeq(e, 1 + 2, 1 + 4 - 1), f[1 + 4])
    BY <2>7, <2>8, OneOption
  <2>10. PICK val \in Seq(U8) : val = SubSeq(e, 1 + 2, 1 + 4 - 1) /\ Len(val) = 2 /\ val[1] = t[1] /\ val[2] = t[2]
    <3>1. PICK q \in Nat \ {0} : q = 3
      OBVIOUS
    <3>2. /\ q + 2 <= Len(e) + 1 /\ q + 2 - 1 = 1 + 4 - 1 /\ q = 1 + 2
          /\ q - 1 + 1 = 3 /\ q - 1 + 2 = 4 /\ 1 \in 1 .. 2 /\ 2 \in 1 .. 2
      BY <1>1, <2>6, <3>1
    <3>3. /\ SubSeq(e, q, q + 2 - 1) \in Seq(U8) /\ Len(SubSeq(e, q, q + 2 - 1)) = 2
          /\ \A i \in 1 .. 2 : SubSeq(e, q, q + 2 - 1)[i] = e[q - 1 + i]
      BY <3>2, Value
    <3> QED  BY <2>6, <3>2, <3>3
  <2>11. get16(val) = o.mss
    BY <2>1, <2>10, SMT DEF get16
  <2>12. PermittedStart(o) = 1 + 4
    BY <2>2 DEF PermittedStart
  <2>13. Before(OptMss, val, Found(None, o.sack_permitted, o.sack_blocks, o.wscale))
           = Found(get16(val), o.sack_permitted, o.sack_blocks, o.wscale)
    BY <1>3, <2>10, BeforeMss
  <2> QED  BY <1>2, <2>6, <2>9, <2>10, <2>11, <2>12, <2>13
<1> QED  BY <1>4, <1>5

\* parse() finds in what encode() wrote the options it was given.
LEMMA OptionsReadBack ==
  ASSUME NEW o \in Options, wire_len(o) <= OptRoom
  PROVE  ParseOptions(encode(o)) = o
<1>1. encode(o) \in Seq(U8)
  BY EncodeFacts
<1>2. PICK f : Read(f, o)
  BY <1>1, ParseWalk DEF Read, Walks
<1>3. ParseOptions(encode(o)) = Found(o.mss, o.sack_permitted, o.sack_blocks, o.wscale)
  BY <1>2, MssStage DEF Read
<1>4. o = Found(o.mss, o.sack_permitted, o.sack_blocks, o.wscale)
  BY DEF Options, Found
<1> QED  BY <1>3, <1>4

-----------------------------------------------------------------------------
(* What send() writes *)

\* The frame build() makes carries what encode() wrote, whole.
LEMMA BuildIs ==
  ASSUME NEW s \in [opt : Options, paylen : Nat]
  PROVE  /\ Len(encode(s.opt)) = wire_len(s.opt) /\ wire_len(s.opt) \in Nat
         /\ build(s) = IF wire_len(s.opt) > OptRoom \/ 4 + IpLen + TcpLen + wire_len(s.opt) + s.paylen > FrameCap
                       THEN <<>> ELSE <<Frame("inet", "tcp", encode(s.opt), s.paylen)>>
<1>1. s.opt \in Options
  OBVIOUS
<1>2. PICK e \in Seq(U8), w \in Nat : e = encode(s.opt) /\ w = Len(e) /\ w = wire_len(s.opt)
  BY <1>1, EncodeFacts
<1>3. PICK buf : buf = [k \in 1 .. w |-> IF k <= Len(e) THEN e[k] ELSE 0]
  OBVIOUS
<1>4. buf = e
  <2>1. \A k \in 1 .. w : (IF k <= Len(e) THEN e[k] ELSE 0) = e[k]
    BY <1>2
  <2>2. e = [k \in 1 .. w |-> e[k]]
    <3>1. Len(e) = w
      BY <1>2
    <3> QED  BY <3>1
  <2> QED  BY <1>3, <2>1, <2>2
<1>5. build(s) = IF w > OptRoom \/ 4 + IpLen + TcpLen + w + s.paylen > FrameCap
                 THEN <<>> ELSE <<Frame("inet", "tcp", buf, s.paylen)>>
  BY <1>2, <1>3 DEF build
<1> QED  BY <1>2, <1>4, <1>5

\* parse() of the frame around a field of whole words is that field's options.
LEMMA ParseFrame ==
  ASSUME NEW e \in Seq(U8), NEW q \in Nat, Len(e) = 4 * q, NEW l \in Nat
  PROVE  /\ parse(Frame("inet", "tcp", e, l)) = [opt |-> ParseOptions(e), paylen |-> l]
         /\ Frame("inet", "tcp", e, l).n \in Nat
<1>1. PICK f : f = Frame("inet", "tcp", e, l)
  OBVIOUS
<1>2. (20 + 4 * q) \div 4 = 5 + q /\ 20 \div 4 = 5
  BY SMT
<1>3. /\ f.af = "inet" /\ f.ip_hl = 5 /\ f.ip_p = "tcp" /\ f.ip_len = 20 + (20 + 4 * q) + l
      /\ f.th_off = 5 + q /\ f.opts = e /\ f.n = 4 + (20 + (20 + 4 * q) + l)
  BY <1>1, <1>2 DEF Frame, IpLen, TcpLen
<1>4. SubSeq(e, 1, 4 * q) = e
  BY SubSeqFull
<1>5. PICK ihl, doff : ihl = 4 * f.ip_hl /\ doff = 4 * f.th_off
  OBVIOUS
<1>6. ihl = 20 /\ doff = 20 + 4 * q
  BY <1>3, <1>5
<1>7. /\ f.n >= 4 + IpLen /\ f.af = "inet" /\ ihl >= IpLen /\ f.ip_p = "tcp" /\ LengthsAgree(f)
      /\ ihl + TcpLen <= f.ip_len /\ doff >= TcpLen /\ ihl + doff <= f.ip_len
  BY <1>3, <1>6 DEF IpLen, TcpLen, LengthsAgree
<1>8. parse(f) = [opt |-> ParseOptions(SubSeq(f.opts, 1, doff - TcpLen)), paylen |-> f.ip_len - ihl - doff]
  BY <1>5, <1>7, Zenon DEF parse
<1>9. doff - TcpLen = 4 * q /\ f.ip_len - ihl - doff = l
  BY <1>3, <1>6 DEF TcpLen
<1>10. parse(f) = [opt |-> ParseOptions(e), paylen |-> l]
  BY <1>3, <1>4, <1>8, <1>9
<1>11. f.n \in Nat
  BY <1>3
<1> QED  BY <1>1, <1>10, <1>11

\* A segment build() accepts reads back as itself; one it refuses does not fit.
LEMMA BuildParses ==
  ASSUME NEW s \in [opt : Options, paylen : Nat]
  PROVE  IF build(s) = <<>>
         THEN \/ Len(encode(s.opt)) > OptRoom
              \/ 4 + IpLen + TcpLen + Len(encode(s.opt)) + s.paylen > FrameCap
         ELSE parse(build(s)[1]) = s /\ build(s)[1].n \in Nat
<1>1. s.opt \in Options /\ s.paylen \in Nat
  OBVIOUS
<1>2. PICK w \in Nat : w = wire_len(s.opt) /\ w = Len(encode(s.opt)) /\ \E q \in Nat : w = 4 * q
  BY <1>1, EncodeFacts
<1>3. build(s) = IF w > OptRoom \/ 4 + IpLen + TcpLen + w + s.paylen > FrameCap
                 THEN <<>> ELSE <<Frame("inet", "tcp", encode(s.opt), s.paylen)>>
  BY <1>2, BuildIs
<1>4. CASE w > OptRoom \/ 4 + IpLen + TcpLen + w + s.paylen > FrameCap
  BY <1>2, <1>3, <1>4
<1>5. CASE ~ (w > OptRoom \/ 4 + IpLen + TcpLen + w + s.paylen > FrameCap)
  <2>1. PICK fr : fr = Frame("inet", "tcp", encode(s.opt), s.paylen)
    OBVIOUS
  <2>2. build(s) = <<fr>>
    BY <1>3, <1>5, <2>1
  <2>3. <<fr>> # <<>> /\ <<fr>>[1] = fr
    OBVIOUS
  <2>4. encode(s.opt) \in Seq(U8)
    BY <1>1, EncodeFacts
  <2>5. PICK q \in Nat : Len(encode(s.opt)) = 4 * q
    BY <1>2
  <2>6. parse(fr) = [opt |-> ParseOptions(encode(s.opt)), paylen |-> s.paylen] /\ fr.n \in Nat
    BY <1>1, <2>1, <2>4, <2>5, ParseFrame
  <2>7. wire_len(s.opt) <= OptRoom
    BY <1>2, <1>5 DEF OptRoom
  <2>8. ParseOptions(encode(s.opt)) = s.opt
    BY <1>1, <2>7, OptionsReadBack
  <2>9. s = [opt |-> s.opt, paylen |-> s.paylen]
    OBVIOUS
  <2>10. parse(fr) = s
    BY <2>6, <2>8, <2>9
  <2> QED  BY <2>2, <2>3, <2>6, <2>10
<1> QED  BY <1>4, <1>5

\* The fields of the segments send() is given have their C++ widths.
SegsTyped == Segs \subseteq [opt : Options, paylen : Nat]

\* What the last call of send() wrote is what build() makes of its segment.
WroteInv ==
    wrote = <<>> \/ \E s \in Segs, c \in {0, 1} : wrote = <<[seg |-> s, frame |-> build(s), written |-> c]>>

\* Every step keeps it: send() writes what build() made, all others clear it.
LEMMA WroteStep ==
  ASSUME WroteInv, [Next]_vars
  PROVE  WroteInv'
<1>1. CASE wrote' = <<>>
  BY <1>1 DEF WroteInv
<1>2. CASE wrote' = wrote
  BY <1>2 DEF WroteInv
<1>3. ASSUME NEW s \in Segs, NEW ok \in BOOLEAN, Send(s, ok)
      PROVE  WroteInv'
  <2>1. PICK c \in {0, 1} : wrote' = <<[seg |-> s, frame |-> build(s), written |-> c]>>
    BY <1>3 DEF Send
  <2> QED  BY <2>1 DEF WroteInv
<1> QED  BY <1>1, <1>2, <1>3 DEF Next, vars, Arrive, Calls, Drain, DrainFor, Again, Reads, Disturbances,
            TopExpired, TopPoll, PollEmpty, PollInterrupted, PollError, ReadFrame, Leave, NothingSent, Tick

\* For every segment whose fields have their C++ widths, what Utun::send() puts
\* on the wire is read by parse() as that segment, and send() refuses a segment
\* only if its options need more than the 40 bytes of the data offset or the
\* frame more than the buffer.
THEOREM RoundTrip ==
  ASSUME SegsTyped
  PROVE  Spec => []WireRoundTrip
<1>1. Init => WroteInv
  BY DEF Init, WroteInv
<1>2. WroteInv /\ [Next]_vars => WroteInv'
  BY WroteStep
<1>3. WroteInv => WireRoundTrip
  <2> SUFFICES ASSUME WroteInv, NEW k \in DOMAIN wrote
               PROVE  LET w == wrote[k]
                          optlen == Len(encode(w.seg.opt))
                      IN  IF w.frame = <<>>
                          THEN optlen > OptRoom \/ 4 + IpLen + TcpLen + optlen + w.seg.paylen > FrameCap
                          ELSE parse(w.frame[1]) = w.seg
    BY DEF WireRoundTrip
  <2>1. PICK s \in Segs, c \in {0, 1} : wrote = <<[seg |-> s, frame |-> build(s), written |-> c]>>
    BY DEF WroteInv
  <2>2. wrote[k].seg = s /\ wrote[k].frame = build(s)
    BY <2>1
  <2>3. s \in [opt : Options, paylen : Nat]
    BY DEF SegsTyped
  <2>4. IF build(s) = <<>>
        THEN \/ Len(encode(s.opt)) > OptRoom
             \/ 4 + IpLen + TcpLen + Len(encode(s.opt)) + s.paylen > FrameCap
        ELSE parse(build(s)[1]) = s
    BY <2>3, BuildParses
  <2> QED  BY <2>2, <2>4
<1> QED  BY <1>1, <1>2, <1>3, PTL DEF Spec

=============================================================================
