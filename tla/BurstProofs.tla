---------------------------- MODULE BurstProofs ----------------------------
(***************************************************************************)
(* Burst, for every limit, number of probes, timing, failed writes and     *)
(* stalls: what exp_challenge_ack concludes from the number of replies it  *)
(* counts follows from the limiter, for bursts that were handled promptly. *)
(***************************************************************************)
EXTENDS Burst, TLAPS, SequenceTheorems, FiniteSetTheorems, FunctionTheorems

-----------------------------------------------------------------------------
(* The inductive invariant *)

Result == [acks : Nat, sent : Nat, send_failures : Nat]
History == [handled : Nat, acks : Nat, counted : Nat, first : Nat, last : Nat]
Limiter == [last : Int, count : Int]

\* Types.
BurstTypes ==
    /\ begun \in {1, 2, 3, 4, 6, 9} /\ step \in begun .. 9
    /\ pc \in {"ready", "sending", "collecting", "done"}
    /\ wake \in Nat /\ clock \in Nat /\ start \in Nat
    /\ limiter \in [Peers -> Limiter]
    /\ probes \in Seq(Bursts) /\ replies \in Seq(Bursts)
    /\ res \in [Bursts -> Result] /\ passed \in [Bursts -> History]
    /\ spent \in [fail : Nat, stall : Nat]

\* Probes of burst k that were not handled before it returned, and answers it
\* has not counted.
Owed(k) == res[k].sent - passed[k].handled
Unread(k) == passed[k].acks - passed[k].counted

Absent(k, q) == \A i \in 1 .. Len(q) : q[i] # k
\* The last n entries of q, and no others, are k.
Suffix(q, k, n) == n <= Len(q) /\ \A i \in 1 .. Len(q) : q[i] = k <=> i > Len(q) - n

\* Probes and replies are of bursts that have begun; the others have no trace.
RangeInv ==
    /\ \A i \in 1 .. Len(probes) : probes[i] \in begun .. step
    /\ \A i \in 1 .. Len(replies) : replies[i] \in begun .. step
ToCome(k) == k > step \/ (k = step /\ pc = "ready")
IdleInv ==
    \A k \in Bursts : ToCome(k) =>
        /\ res[k].sent = 0 /\ res[k].acks = 0
        /\ passed[k].handled = 0 /\ passed[k].acks = 0 /\ passed[k].counted = 0
        /\ Absent(k, probes) /\ Absent(k, replies)
\* A burst that was handled and read to the end has left nothing behind.
Settled(k) == Owed(k) = 0 /\ Unread(k) = 0
LeftInv ==
    \A k \in Bursts :
        /\ Owed(k) >= 0 /\ Unread(k) >= 0
        /\ Owed(k) = 0 => Absent(k, probes)
        /\ Settled(k) => Absent(k, replies)
\* The probes and the replies of the running burst are behind those of the
\* bursts before it: both queues are first in, first out.
OrderInv ==
    Running =>
        /\ Suffix(probes, step, Owed(step)) /\ Suffix(replies, step, Unread(step))
        /\ passed[step].handled > 0 => Owed(step) = Len(probes)
        /\ passed[step].acks <= passed[step].handled
FifoInv == RangeInv /\ IdleInv /\ LeftInv /\ OrderInv

\* The socket of the running burst is established; those of bursts 4 and 5 together.
Needs(k) == IF k = 4 THEN {4, 5} ELSE {Script[k].peer}
AliveInv ==
    /\ Running => Needs(step) \subseteq alive
    /\ pc = "ready" => Needs(step) \ Script[step].up \subseteq alive

\* The answers counted for a burst are its own when no earlier burst of its
\* peer has left any.
CountInv ==
    /\ \A k \in FirstOfPeer : res[k].acks = passed[k].counted
    /\ step >= 7 /\ Settled(6) => res[7].acks = passed[7].counted
    /\ step >= 8 /\ Settled(6) /\ Settled(7) => res[8].acks = passed[8].counted

\* From the first probe of burst j to the last of burst k less than a second
\* has passed, and the first of them did not come at tcp_now = 0.
Tight(j, k) == InOneSecond(j, k) /\ NowNonzero(j)
Capped(k) == IF passed[k].handled < Script[k].limit THEN passed[k].handled ELSE Script[k].limit
\* The limiter's second is the one the first probe of burst k opened.
WindowOf(k) ==
    /\ limiter[Script[k].peer].last = (start + passed[k].first) % NowMod
    /\ limiter[Script[k].peer].count = Capped(k)
\* A run is short against the wrap of tcp_now: 24 days of milliseconds.
ShortRun == 2 * (MaxStall + 9 * CollectTicks + PauseTicks) < NowMod
\* The first probe of burst k opens a second.
Opens(k) == k \in FirstOfPeer \/ (k = 8 /\ ShortRun /\ Owed(6) = 0 /\ Owed(7) = 0)

\* What the limiter remembers and what it has answered.
FirstInv ==
    \A k \in Bursts : passed[k].first <= passed[k].last /\ passed[k].last <= clock
FreshInv ==
    \A k \in FirstOfPeer : k > step \/ (k = step /\ passed[k].handled = 0 /\ pc # "done") =>
        limiter[Script[k].peer].last = 0
SizedInv ==
    \A k \in begun .. step :
        /\ passed[k].handled > 0 /\ Opens(k) /\ Tight(k, k)
        /\ Owed(k) = 0 \/ (k = step /\ Running)
        => passed[k].acks = Capped(k)
OpenInv ==
    Running /\ passed[step].handled > 0 /\ Opens(step) /\ Tight(step, step) => WindowOf(step)
SpentInv ==
    /\ Owed(6) = 0 /\ passed[6].handled >= Script[6].limit /\ step = 7 /\ pc # "done"
    /\ IF passed[7].handled > 0 THEN Tight(6, 7) ELSE Tight(6, 6)
    => WindowOf(6)
SilentInv ==
    /\ Owed(6) = 0 /\ passed[6].handled >= Script[6].limit
    /\ step >= 7 /\ Tight(6, 7) /\ passed[7].handled > 0
    /\ Owed(7) = 0 \/ (step = 7 /\ Running)
    => passed[7].acks = 0
\* A burst's second ended before the third burst's pause began.
OpenedBy(t) == limiter[6].last = 0 \/ \E u \in 0 .. t : limiter[6].last = (start + u) % NowMod
PauseInv ==
    /\ OpenedBy(clock)
    /\ step = 8 /\ pc # "done" /\ Owed(6) = 0 /\ Owed(7) = 0 /\ passed[8].handled = 0 =>
          OpenedBy((IF pc = "ready" THEN wake ELSE clock) - PauseTicks)

\* Time passes in the waits and the stalls only.
Allowed ==
    spent.stall + (IF pc \in {"collecting", "done"} THEN step ELSE step - 1) * CollectTicks
        + (IF step >= 8 THEN PauseTicks ELSE 0)
ClockInv ==
    /\ spent.stall <= MaxStall /\ clock <= Allowed
    /\ pc \in {"ready", "collecting"} => wake <= Allowed

LimiterInv ==
    /\ FirstInv /\ FreshInv /\ SizedInv /\ OpenInv /\ SpentInv /\ SilentInv
    /\ PauseInv /\ ClockInv
BurstInv == BurstTypes /\ FifoInv /\ AliveInv /\ CountInv /\ LimiterInv
-----------------------------------------------------------------------------
(* The script, the arithmetic of tcp_now, and queues *)

\* What main() does before, in and after each of its nine bursts.
LEMMA ScriptFacts ==
    /\ Bursts = 1 .. 9 /\ Len(Script) = 9
    /\ \A k \in 1 .. 9 :
          /\ Script[k].peer = IF k <= 6 THEN k ELSE IF k <= 8 THEN 6 ELSE 7
          /\ Script[k].limit = IF k = 9 THEN ProbeLimit ELSE ChallengeLimit
          /\ Script[k].pause = IF k = 8 THEN PauseTicks ELSE 0
<1>1. Bursts = 1 .. 9 /\ Len(Script) = 9
  BY DEF Bursts, Script
<1>2. /\ Script[1] = Fires(1, {1}, {1}) /\ Script[2] = Fires(2, {2}, {2})
      /\ Script[3] = Fires(3, {3}, {3}) /\ Script[4] = Fires(4, {4, 5}, {})
      /\ Script[5] = Fires(5, {}, {4, 5}) /\ Script[6] = Fires(6, {6}, {})
      /\ Script[7] = Fires(6, {}, {})
      /\ Script[8] = [Fires(6, {}, {6}) EXCEPT !.pause = Pause]
      /\ Script[9] = [Fires(7, {7}, {7}) EXCEPT !.limit = ProbeLimit]
  BY DEF Script
<1>3. ASSUME NEW k \in 1 .. 9
      PROVE  /\ Script[k].peer = IF k <= 6 THEN k ELSE IF k <= 8 THEN 6 ELSE 7
             /\ Script[k].limit = IF k = 9 THEN ProbeLimit ELSE ChallengeLimit
             /\ Script[k].pause = IF k = 8 THEN PauseTicks ELSE 0
  <2>1. k = 1 \/ k = 2 \/ k = 3 \/ k = 4 \/ k = 5 \/ k = 6 \/ k = 7 \/ k = 8 \/ k = 9
    OBVIOUS
  <2>2. CASE k = 8
    BY <1>2, <2>2 DEF Fires, Pause
  <2>3. CASE k = 9
    BY <1>2, <2>3 DEF Fires
  <2>4. CASE k = 1 \/ k = 2 \/ k = 3 \/ k = 4
    BY <1>2, <2>4 DEF Fires
  <2>5. CASE k = 5 \/ k = 6 \/ k = 7
    BY <1>2, <2>5 DEF Fires
  <2> QED  BY <2>1, <2>2, <2>3, <2>4, <2>5
<1> QED  BY <1>1, <1>3

\* Which sockets main() establishes before a burst and resets after it.
LEMMA ScriptSockets ==
    /\ Script[1].up = {1} /\ Script[2].up = {2} /\ Script[3].up = {3}
    /\ Script[4].up = {4, 5} /\ Script[5].up = {} /\ Script[6].up = {6}
    /\ Script[7].up = {} /\ Script[8].up = {} /\ Script[9].up = {7}
    /\ Script[4].down = {} /\ Script[6].down = {} /\ Script[7].down = {}
<1>1. /\ Script[1] = Fires(1, {1}, {1}) /\ Script[2] = Fires(2, {2}, {2})
      /\ Script[3] = Fires(3, {3}, {3}) /\ Script[4] = Fires(4, {4, 5}, {})
      /\ Script[5] = Fires(5, {}, {4, 5}) /\ Script[6] = Fires(6, {6}, {})
      /\ Script[7] = Fires(6, {}, {})
      /\ Script[8] = [Fires(6, {}, {6}) EXCEPT !.pause = Pause]
      /\ Script[9] = [Fires(7, {7}, {7}) EXCEPT !.limit = ProbeLimit]
  BY DEF Script
<1> QED  BY <1>1 DEF Fires

\* The bursts that are the first of their connection.
LEMMA FirstBursts == FirstOfPeer = (1 .. 6) \cup {9}
<1>1. FirstOfPeer = {k \in 1 .. 9 : \A j \in 1 .. k - 1 : Script[j].peer # Script[k].peer}
  BY ScriptFacts DEF FirstOfPeer
<1>2. ASSUME NEW k \in 1 .. 9, k <= 6 \/ k = 9
      PROVE  \A j \in 1 .. k - 1 : Script[j].peer # Script[k].peer
  BY <1>2, ScriptFacts
<1>3. Script[6].peer = Script[7].peer /\ Script[6].peer = Script[8].peer
  BY ScriptFacts
<1>4. 7 \notin FirstOfPeer
  <2>1. 6 \in 1 .. 7 - 1
    OBVIOUS
  <2> QED  BY <1>1, <1>3, <2>1
<1>7. 8 \notin FirstOfPeer
  <2>1. 6 \in 1 .. 8 - 1
    OBVIOUS
  <2> QED  BY <1>1, <1>3, <2>1
<1>5. \A k : k \in FirstOfPeer => k \in 1 .. 9 /\ k # 7 /\ k # 8
  BY <1>1, <1>4, <1>7
<1>6. \A k \in 1 .. 9 : k <= 6 \/ k = 9 => k \in FirstOfPeer
  BY <1>1, <1>2
<1> QED  BY <1>5, <1>6

\* A first burst shares its peer with no burst before it.
LEMMA FirstAlone ==
    ASSUME NEW k \in FirstOfPeer, NEW j \in 1 .. 9, j < k
    PROVE  Script[j].peer # Script[k].peer
BY FirstBursts, ScriptFacts

\* The limits are positive, and no burst has fewer probes.
LEMMA Limits ==
    ASSUME NEW k \in 1 .. 9
    PROVE  Script[k].limit \in Nat \ {0} /\ Script[k].limit <= kProbes /\ kProbes \in Nat
BY ScriptFacts, BurstAssumption DEF ProbeLimit

\* tcp_now is a nonnegative integer, and its residue is the number itself below the wrap.
LEMMA NowFacts ==
    ASSUME NEW s \in Nat
    PROVE  s % NowMod \in 0 .. NowMod - 1 /\ s % NowMod <= s
BY BurstAssumption

\* The residue of a difference is that of the difference of the residues.
LEMMA DiffMod ==
    ASSUME NEW s \in Nat, NEW t \in Nat, NEW c \in Nat, t <= c
    PROVE  (((s + c) % NowMod) - ((s + t) % NowMod)) % NowMod = (c - t) % NowMod
<1>1. NowMod \in Nat \ {0}
  BY BurstAssumption
<1>2. PICK x \in Int : x = (s + c) % NowMod
  BY <1>1
<1>3. PICK y \in Int : y = (s + t) % NowMod
  BY <1>1
<1>4. PICK z \in Int : z = (c - t) % NowMod
  BY <1>1
<1>5. PICK a \in Int : a = (s + c) \div NowMod
  BY <1>1
<1>6. PICK b \in Int : b = (s + t) \div NowMod
  BY <1>1
<1>7. PICK e \in Int : e = (c - t) \div NowMod
  BY <1>1
<1>8. s + c = NowMod * a + x /\ s + t = NowMod * b + y /\ c - t = NowMod * e + z
  BY <1>1, <1>2, <1>3, <1>4, <1>5, <1>6, <1>7
<1>9. z \in 0 .. NowMod - 1
  BY <1>1, <1>4
<1>10. x - y = NowMod * (e + b - a) + z
  BY <1>1, <1>8
<1>11. PICK q \in Int : q = e + b - a
  OBVIOUS
<1>12. (NowMod * q + z) % NowMod = z
  BY <1>1, <1>9
<1>13. (x - y) % NowMod = z
  BY <1>10, <1>11, <1>12
<1> QED  BY <1>2, <1>3, <1>4, <1>13

\* The clock difference tcp_is_ack_ratelimited() compares never exceeds the
\* time that passed, and is that time before half the space has gone by.
LEMMA TimerDiff ==
    ASSUME NEW s \in Nat, NEW t \in Nat, NEW c \in Nat, t <= c
    PROVE  /\ timer_diff((s + c) % NowMod, (s + t) % NowMod) \in Int
           /\ timer_diff((s + c) % NowMod, (s + t) % NowMod) <= c - t
           /\ 2 * (c - t) < NowMod =>
                 timer_diff((s + c) % NowMod, (s + t) % NowMod) = c - t
<1>1. PICK d : d = (((s + c) % NowMod) - ((s + t) % NowMod)) % NowMod
  OBVIOUS
<1>2. d = (c - t) % NowMod
  BY <1>1, DiffMod
<1>3. d \in 0 .. NowMod - 1 /\ d <= c - t /\ c - t \in Nat /\ NowMod \in Nat
  BY <1>2, NowFacts, BurstAssumption
<1>4. 2 * (c - t) < NowMod => d = c - t
  BY <1>2, BurstAssumption
<1>5. timer_diff((s + c) % NowMod, (s + t) % NowMod) = IF 2 * d < NowMod THEN d ELSE d - NowMod
  BY <1>1 DEF timer_diff
<1> QED  BY <1>3, <1>4, <1>5

\* The entries of a queue after its head is taken, or an entry appended.
LEMMA TailEntries ==
    ASSUME NEW S, NEW q \in Seq(S), q # <<>>
    PROVE  /\ Len(q) \in Nat /\ Len(q) >= 1 /\ Head(q) = q[1] /\ Head(q) \in S
           /\ Tail(q) \in Seq(S) /\ Len(Tail(q)) = Len(q) - 1
           /\ \A i \in 1 .. Len(q) - 1 : Tail(q)[i] = q[i + 1] /\ i + 1 \in 1 .. Len(q)
OBVIOUS
\* The same for an appended entry.
LEMMA AppendEntries ==
    ASSUME NEW S, NEW q \in Seq(S), NEW e \in S
    PROVE  /\ Len(q) \in Nat /\ Append(q, e) \in Seq(S) /\ Len(Append(q, e)) = Len(q) + 1
           /\ \A i \in 1 .. Len(q) + 1 : Append(q, e)[i] = IF i <= Len(q) THEN q[i] ELSE e
OBVIOUS

\* Taking the head leaves what was absent absent.
LEMMA AbsentTail ==
    ASSUME NEW q \in Seq(Bursts), q # <<>>, NEW k
    PROVE  Absent(k, q) => Absent(k, Tail(q)) /\ Head(q) # k
BY TailEntries DEF Absent
\* So does appending another burst's entry.
LEMMA AbsentAppend ==
    ASSUME NEW q \in Seq(Bursts), NEW e \in Bursts, NEW k, e # k
    PROVE  Absent(k, q) => Absent(k, Append(q, e))
BY AppendEntries DEF Absent

\* A suffix whose first entry is at the head is the whole queue.
LEMMA SuffixHead ==
    ASSUME NEW q \in Seq(Bursts), q # <<>>, NEW k, NEW n \in Nat, Suffix(q, k, n)
    PROVE  /\ Head(q) = k => n = Len(q) /\ n >= 1 /\ Suffix(Tail(q), k, n - 1)
           /\ Head(q) # k => n < Len(q) /\ Suffix(Tail(q), k, n)
<1>1. PICK L \in Nat : L = Len(q)
  BY TailEntries
<1>2. n <= L /\ L >= 1 /\ Head(q) = q[1] /\ Len(Tail(q)) = L - 1
  BY <1>1, TailEntries DEF Suffix
<1>3. \A i \in 1 .. L : q[i] = k <=> i > L - n
  BY <1>1 DEF Suffix
<1>4. \A i \in 1 .. L - 1 : Tail(q)[i] = q[i + 1] /\ i + 1 \in 1 .. L
  BY <1>1, TailEntries
<1>5. Head(q) = k <=> n = L
  <2>1. 1 \in 1 .. L
    BY <1>2
  <2>2. q[1] = k <=> 1 > L - n
    BY <1>3, <2>1
  <2>3. 1 > L - n <=> n = L
    BY <1>2
  <2> QED  BY <1>2, <2>2, <2>3
<1>6. ASSUME NEW m \in Nat, m = (IF n = L THEN n - 1 ELSE n), NEW i \in 1 .. L - 1
      PROVE  Tail(q)[i] = k <=> i > (L - 1) - m
  <2>1. i + 1 \in 1 .. L /\ Tail(q)[i] = q[i + 1]
    BY <1>4
  <2>2. Tail(q)[i] = k <=> i + 1 > L - n
    BY <1>3, <2>1
  <2>3. i + 1 > L - n <=> i > (L - 1) - m
    BY <1>2, <1>6
  <2> QED  BY <2>2, <2>3
<1>7. CASE Head(q) = k
  <2>1. n = L /\ n - 1 \in Nat /\ n - 1 <= L - 1
    BY <1>2, <1>5, <1>7
  <2>2. Suffix(Tail(q), k, n - 1)
    BY <1>2, <1>6, <2>1 DEF Suffix
  <2> QED  BY <1>1, <1>2, <1>7, <2>1, <2>2
<1>8. CASE Head(q) # k
  <2>1. n # L /\ n <= L - 1
    BY <1>2, <1>5, <1>8
  <2>2. Suffix(Tail(q), k, n)
    BY <1>2, <1>6, <2>1 DEF Suffix
  <2>3. n < L
    BY <2>1
  <2> QED  BY <1>1, <1>8, <2>2, <2>3
<1> QED  BY <1>7, <1>8
\* Appending an entry of k lengthens its suffix.
LEMMA SuffixAppend ==
    ASSUME NEW q \in Seq(Bursts), NEW k \in Bursts, NEW n \in Nat, Suffix(q, k, n)
    PROVE  Suffix(Append(q, k), k, n + 1)
BY AppendEntries DEF Suffix

\* A queue without k has the empty suffix of k, and no other.
LEMMA SuffixNone ==
    ASSUME NEW q \in Seq(Bursts), NEW k
    PROVE  Absent(k, q) <=> Suffix(q, k, 0)
BY DEF Suffix, Absent

-----------------------------------------------------------------------------
(* Types *)

\* The verdict of the limiter is a Boolean and a state of the limiter.
LEMMA VerdictType ==
    ASSUME BurstTypes, NEW l \in Limiter, NEW n \in Nat
    PROVE  /\ tcp_is_ack_ratelimited(l, n).limited \in BOOLEAN
           /\ tcp_is_ack_ratelimited(l, n).to \in Limiter
<1>1. tcp_now \in Int
  BY BurstAssumption DEF tcp_now, BurstTypes
<1>2. l.last \in Int /\ l.count \in Int
  BY DEF Limiter
<1>3. PICK b : b = IF SecondOver(l) THEN [last |-> tcp_now, count |-> 0] ELSE l
  OBVIOUS
<1>4. b \in Limiter
  BY <1>1, <1>3 DEF Limiter
<1>5. [b EXCEPT !.count = @ + 1] \in Limiter
  BY <1>4 DEF Limiter
<1>6. PICK m \in BOOLEAN : m = (~ SecondOver(l) /\ l.count >= n)
  OBVIOUS
<1>7. tcp_is_ack_ratelimited(l, n) = [limited |-> m, to |-> IF m THEN b ELSE [b EXCEPT !.count = @ + 1]]
  BY <1>3, <1>6 DEF tcp_is_ack_ratelimited
<1> QED  BY <1>4, <1>5, <1>6, <1>7

\* The limit in force is positive.
LEMMA InForce == ASSUME BurstTypes PROVE LimitInForce \in Nat \ {0}
<1>1. step \in 1 .. 9
  BY DEF BurstTypes
<1> QED  BY <1>1, Limits, BurstAssumption DEF LimitInForce

\* What the kernel's input of a probe does, field by field: h is the burst that
\* sent it, p its socket, v the limiter's verdict and a whether it is answered.
ProbeStep(h, p, v, a) ==
    /\ h = Head(probes) /\ p = Script[h].peer
    /\ v = tcp_is_ack_ratelimited(limiter[p], LimitInForce)
    /\ probes # <<>> /\ probes' = Tail(probes)
    /\ p \in alive => a = ~ v.limited
    /\ limiter' = IF p \in alive THEN [limiter EXCEPT ![p] = v.to] ELSE limiter
    /\ replies' = IF a THEN Append(replies, h) ELSE replies
    /\ \A k \in 1 .. 9 : k # h => passed'[k] = passed[k]
    /\ passed'[h].handled = IF h = step /\ Running THEN passed[h].handled + 1 ELSE passed[h].handled
    /\ passed'[h].acks = IF a THEN passed[h].acks + 1 ELSE passed[h].acks
    /\ passed'[h].counted = passed[h].counted
    /\ passed'[h].first = IF passed[h].handled = 0 THEN clock ELSE passed[h].first
    /\ passed'[h].last = clock
    /\ UNCHANGED <<begun, step, pc, wake, alive, res, clock, start, spent>>
\* The input of a probe is such a step and keeps the types.
LEMMA ProbeFacts ==
    ASSUME BurstTypes, KernelProbe
    PROVE  /\ \E v : \E h \in 1 .. 9, p \in Peers, a \in BOOLEAN : ProbeStep(h, p, v, a)
           /\ BurstTypes'
<1>1. probes \in Seq(1 .. 9) /\ probes # <<>> /\ replies \in Seq(1 .. 9) /\ passed \in [1 .. 9 -> History]
  BY ScriptFacts DEF BurstTypes, KernelProbe
<1>2. PICK h \in 1 .. 9 : h = Head(probes)
  BY <1>1
<1>3. PICK p \in Peers : p = Script[h].peer
  BY <1>2, ScriptFacts DEF Peers
<1>4. PICK v : v = tcp_is_ack_ratelimited(limiter[p], LimitInForce)
  OBVIOUS
<1>5. limiter[p] \in Limiter /\ LimitInForce \in Nat
  BY InForce DEF BurstTypes
<1>6. v.limited \in BOOLEAN /\ v.to \in Limiter
  BY <1>4, <1>5, VerdictType
<1>7. PICK a \in BOOLEAN :
        /\ p \in alive => a = ~ v.limited
        /\ limiter' = IF p \in alive THEN [limiter EXCEPT ![p] = v.to] ELSE limiter
        /\ replies' = IF a THEN Append(replies, h) ELSE replies
        /\ passed' = [passed EXCEPT
              ![h].handled = IF h = step /\ Running THEN @ + 1 ELSE @,
              ![h].acks = IF a THEN @ + 1 ELSE @,
              ![h].first = IF passed[h].handled = 0 THEN clock ELSE @,
              ![h].last = clock]
  <2>1. PICK a \in IF p \in alive THEN {~ v.limited} ELSE BOOLEAN :
        /\ limiter' = IF p \in alive THEN [limiter EXCEPT ![p] = v.to] ELSE limiter
        /\ replies' = IF a THEN Append(replies, h) ELSE replies
        /\ passed' = [passed EXCEPT
              ![h].handled = IF h = step /\ Running THEN @ + 1 ELSE @,
              ![h].acks = IF a THEN @ + 1 ELSE @,
              ![h].first = IF passed[h].handled = 0 THEN clock ELSE @,
              ![h].last = clock]
    BY <1>2, <1>3, <1>4, Zenon DEF KernelProbe, LimiterOf
  <2>2. a \in BOOLEAN /\ (p \in alive => a = ~ v.limited)
    BY <1>6, <2>1, Zenon
  <2> QED  BY <2>1, <2>2
<1>8. UNCHANGED <<begun, step, pc, wake, alive, res, clock, start, spent>> /\ probes' = Tail(probes)
  BY DEF KernelProbe
<1>9. passed[h] \in History /\ clock \in Nat
  BY <1>1 DEF BurstTypes
<1>10. PICK r : r = [passed[h] EXCEPT
              !.handled = IF h = step /\ Running THEN @ + 1 ELSE @,
              !.acks = IF a THEN @ + 1 ELSE @,
              !.first = IF passed[h].handled = 0 THEN clock ELSE @,
              !.last = clock]
  OBVIOUS
<1>11. /\ r \in History
       /\ r.handled = IF h = step /\ Running THEN passed[h].handled + 1 ELSE passed[h].handled
       /\ r.acks = IF a THEN passed[h].acks + 1 ELSE passed[h].acks
       /\ r.counted = passed[h].counted
       /\ r.first = IF passed[h].handled = 0 THEN clock ELSE passed[h].first
       /\ r.last = clock
  <2>1. PICK n : n = IF h = step /\ Running THEN passed[h].handled + 1 ELSE passed[h].handled
    OBVIOUS
  <2>2. PICK c : c = IF a THEN passed[h].acks + 1 ELSE passed[h].acks
    OBVIOUS
  <2>3. PICK f : f = IF passed[h].handled = 0 THEN clock ELSE passed[h].first
    OBVIOUS
  <2>4. n \in Nat /\ c \in Nat /\ f \in Nat
    BY <1>9, <2>1, <2>2, <2>3 DEF History
  <2>5. r = [passed[h] EXCEPT !.handled = n, !.acks = c, !.first = f, !.last = clock]
    BY <1>9, <1>10, <2>1, <2>2, <2>3 DEF History
  <2>6. /\ r \in History /\ r.handled = n /\ r.acks = c /\ r.first = f
        /\ r.counted = passed[h].counted /\ r.last = clock
    BY <1>9, <2>4, <2>5 DEF History
  <2> QED  BY <2>1, <2>2, <2>3, <2>6
<1>12. passed' = [passed EXCEPT ![h] = r]
  BY <1>1, <1>7, <1>10
<1>13. passed'[h] = r /\ (\A k \in 1 .. 9 : k # h => passed'[k] = passed[k]) /\ passed' \in [1 .. 9 -> History]
  BY <1>1, <1>11, <1>12
<1>14. ProbeStep(h, p, v, a)
  BY <1>1, <1>2, <1>3, <1>4, <1>7, <1>8, <1>11, <1>13 DEF ProbeStep
<1>15. probes' \in Seq(1 .. 9) /\ replies' \in Seq(1 .. 9)
  BY <1>1, <1>2, <1>7, <1>8, TailEntries, AppendEntries
<1>16. limiter' \in [Peers -> Limiter]
  BY <1>6, <1>7 DEF BurstTypes
<1>17. BurstTypes'
  BY <1>8, <1>13, <1>15, <1>16, ScriptFacts DEF BurstTypes
<1> QED  BY <1>14, <1>17

\* What the write of a probe does.
SendStep(ok) ==
    /\ pc = "sending"
    /\ probes' = IF ok THEN Append(probes, step) ELSE probes
    /\ \A k \in 1 .. 9 : res'[k].acks = res[k].acks
    /\ \A k \in 1 .. 9 : res'[k].sent = IF k = step /\ ok THEN res[k].sent + 1 ELSE res[k].sent
    /\ spent'.stall = spent.stall
    /\ UNCHANGED <<begun, step, pc, wake, limiter, alive, replies, clock, start, passed>>
\* The write is such a step and keeps the types.
LEMMA SendFacts ==
    ASSUME BurstTypes, NEW ok \in BOOLEAN, SendProbe(ok)
    PROVE  SendStep(ok) /\ BurstTypes'
<1>1. /\ res \in [1 .. 9 -> Result] /\ probes \in Seq(1 .. 9) /\ step \in 1 .. 9
      /\ spent \in [fail : Nat, stall : Nat]
  BY ScriptFacts DEF BurstTypes
<1>2. res[step] \in Result
  BY <1>1
<1>3. /\ pc = "sending"
      /\ UNCHANGED <<begun, step, pc, wake, limiter, alive, replies, clock, start, passed>>
  BY DEF SendProbe
<1>4. CASE ok
  <2>1. /\ probes' = Append(probes, step) /\ spent' = spent
        /\ res' = [res EXCEPT ![step].sent = @ + 1]
    BY <1>4 DEF SendProbe
  <2>2. PICK r : r = [res[step] EXCEPT !.sent = @ + 1]
    OBVIOUS
  <2>3. r \in Result /\ r.sent = res[step].sent + 1 /\ r.acks = res[step].acks
    BY <1>2, <2>2 DEF Result
  <2>4. /\ res' \in [1 .. 9 -> Result] /\ res'[step] = r
        /\ \A k \in 1 .. 9 : k # step => res'[k] = res[k]
    BY <1>1, <2>1, <2>2, <2>3
  <2>5. probes' \in Seq(1 .. 9)
    BY <1>1, <2>1, AppendEntries
  <2>6. SendStep(ok)
    BY <1>3, <1>4, <2>1, <2>3, <2>4 DEF SendStep
  <2> QED  BY <1>3, <2>1, <2>4, <2>5, <2>6, ScriptFacts DEF BurstTypes
<1>5. CASE ~ ok
  <2>1. /\ probes' = probes /\ spent' = [spent EXCEPT !.fail = @ + 1]
        /\ res' = [res EXCEPT ![step].send_failures = @ + 1]
    BY <1>5 DEF SendProbe
  <2>2. PICK r : r = [res[step] EXCEPT !.send_failures = @ + 1]
    OBVIOUS
  <2>3. r \in Result /\ r.sent = res[step].sent /\ r.acks = res[step].acks
    BY <1>2, <2>2 DEF Result
  <2>4. /\ res' \in [1 .. 9 -> Result] /\ res'[step] = r
        /\ \A k \in 1 .. 9 : k # step => res'[k] = res[k]
    BY <1>1, <2>1, <2>2, <2>3
  <2>5. spent' \in [fail : Nat, stall : Nat] /\ spent'.stall = spent.stall
    BY <1>1, <2>1
  <2>6. SendStep(ok)
    BY <1>3, <1>5, <2>1, <2>3, <2>4, <2>5 DEF SendStep
  <2> QED  BY <1>1, <1>3, <2>1, <2>4, <2>5, <2>6, ScriptFacts DEF BurstTypes
<1> QED  BY <1>4, <1>5

\* What the read of a reply of burst h does.
CollectStep(h) ==
    /\ pc = "collecting" /\ replies # <<>> /\ h = Head(replies) /\ replies' = Tail(replies)
    /\ \A k \in 1 .. 9 : res'[k].sent = res[k].sent
    /\ \A k \in 1 .. 9 :
          res'[k].acks = IF k = step /\ Script[h].peer = Script[step].peer
                         THEN res[k].acks + 1 ELSE res[k].acks
    /\ \A k \in 1 .. 9 :
          /\ passed'[k].handled = passed[k].handled /\ passed'[k].acks = passed[k].acks
          /\ passed'[k].first = passed[k].first /\ passed'[k].last = passed[k].last
          /\ passed'[k].counted = IF k = step /\ h = step THEN passed[k].counted + 1 ELSE passed[k].counted
    /\ UNCHANGED <<begun, step, pc, wake, limiter, alive, probes, clock, start, spent>>
\* The read is such a step and keeps the types.
LEMMA CollectFacts ==
    ASSUME BurstTypes, Collect
    PROVE  BurstTypes' /\ \E h \in 1 .. 9 : CollectStep(h)
<1>1. /\ res \in [1 .. 9 -> Result] /\ replies \in Seq(1 .. 9) /\ step \in 1 .. 9
      /\ passed \in [1 .. 9 -> History]
  BY ScriptFacts DEF BurstTypes
<1>2. /\ pc = "collecting" /\ replies # <<>> /\ replies' = Tail(replies)
      /\ UNCHANGED <<begun, step, pc, wake, limiter, alive, probes, clock, start, spent>>
  BY DEF Collect
<1>3. PICK h \in 1 .. 9 : h = Head(replies)
  BY <1>1, <1>2
<1>4. res[step] \in Result /\ passed[step] \in History
  BY <1>1
<1>5. PICK r : r = [res[step] EXCEPT !.acks = @ + 1]
  OBVIOUS
<1>6. r \in Result /\ r.sent = res[step].sent /\ r.acks = res[step].acks + 1
  BY <1>4, <1>5 DEF Result
<1>7. res' = IF Script[h].peer = Script[step].peer THEN [res EXCEPT ![step] = r] ELSE res
  BY <1>1, <1>3, <1>5 DEF Collect, IsMine
<1>8. /\ res' \in [1 .. 9 -> Result]
      /\ \A k \in 1 .. 9 : res'[k].sent = res[k].sent
      /\ \A k \in 1 .. 9 :
          res'[k].acks = IF k = step /\ Script[h].peer = Script[step].peer
                         THEN res[k].acks + 1 ELSE res[k].acks
  <2>1. CASE Script[h].peer = Script[step].peer
    BY <1>1, <1>6, <1>7, <2>1
  <2>2. CASE Script[h].peer # Script[step].peer
    BY <1>1, <1>7, <2>2
  <2> QED  BY <2>1, <2>2
<1>9. PICK c : c = [passed[step] EXCEPT !.counted = @ + 1]
  OBVIOUS
<1>10. /\ c \in History /\ c.handled = passed[step].handled /\ c.acks = passed[step].acks
       /\ c.first = passed[step].first /\ c.last = passed[step].last
       /\ c.counted = passed[step].counted + 1
  BY <1>4, <1>9 DEF History
<1>11. passed' = IF h = step THEN [passed EXCEPT ![step] = c] ELSE passed
  BY <1>1, <1>3, <1>9 DEF Collect
<1>12. /\ passed' \in [1 .. 9 -> History]
       /\ \A k \in 1 .. 9 :
          /\ passed'[k].handled = passed[k].handled /\ passed'[k].acks = passed[k].acks
          /\ passed'[k].first = passed[k].first /\ passed'[k].last = passed[k].last
          /\ passed'[k].counted = IF k = step /\ h = step THEN passed[k].counted + 1 ELSE passed[k].counted
  <2>1. CASE h = step
    BY <1>1, <1>10, <1>11, <2>1
  <2>2. CASE h # step
    BY <1>1, <1>11, <2>2
  <2> QED  BY <2>1, <2>2
<1>13. replies' \in Seq(1 .. 9)
  BY <1>1, <1>2, TailEntries
<1>14. CollectStep(h)
  BY <1>2, <1>3, <1>8, <1>12 DEF CollectStep
<1> QED  BY <1>2, <1>8, <1>12, <1>13, <1>14, ScriptFacts DEF BurstTypes

\* What the end of a burst does: the experiment ends, or the next burst follows.
EndStep ==
    /\ pc = "collecting" /\ clock >= wake
    /\ alive' = alive \ Script[step].down
    /\ \/ /\ step < 9 /\ step' = step + 1 /\ pc' = "ready"
          /\ wake' = clock + Script[step + 1].pause
       \/ pc' = "done" /\ step' = step /\ wake' = wake
    /\ UNCHANGED <<begun, limiter, probes, replies, res, clock, start, spent, passed>>
\* The end of a burst is such a step and keeps the types.
LEMMA EndFacts ==
    ASSUME BurstTypes, EndBurst
    PROVE  EndStep /\ BurstTypes'
<1>1. step \in 1 .. 9 /\ clock \in Nat /\ begun \in 1 .. 9
  BY DEF BurstTypes
<1>2. LastBurst \in Int /\ LastBurst <= 9
  BY <1>1, ScriptFacts, BurstAssumption DEF LastBurst
<1>3. EndStep
  BY <1>1, <1>2 DEF EndBurst, EndStep
<1>4. CASE step < 9 /\ step' = step + 1 /\ pc' = "ready" /\ wake' = clock + Script[step + 1].pause
  <2>1. Script[step + 1].pause \in Nat
    BY <1>1, <1>4, ScriptFacts, BurstAssumption
  <2>2. wake' \in Nat
    BY <1>1, <1>4, <2>1
  <2>3. begun <= step
    BY <1>1 DEF BurstTypes
  <2>4. step' \in begun .. 9
    BY <1>1, <1>4, <2>3
  <2> QED  BY <1>3, <1>4, <2>2, <2>4 DEF BurstTypes, EndStep
<1>5. CASE pc' = "done" /\ step' = step /\ wake' = wake
  BY <1>3, <1>5 DEF BurstTypes, EndStep
<1> QED  BY <1>3, <1>4, <1>5 DEF EndStep

\* The other steps keep the types.
LEMMA QuietTypes ==
    ASSUME BurstTypes, Begin \/ StartCollect \/ Tick
    PROVE  BurstTypes'
<1>1. CASE Begin
  <2>1. replies' \in Seq(Bursts)
    BY <1>1 DEF BurstTypes, Begin
  <2> QED  BY <1>1, <2>1 DEF BurstTypes, Begin
<1>2. CASE StartCollect
  BY <1>2, BurstAssumption DEF BurstTypes, StartCollect
<1>3. CASE Tick
  <2>1. spent' \in [fail : Nat, stall : Nat]
    BY <1>3 DEF BurstTypes, Tick
  <2> QED  BY <1>3, <2>1 DEF BurstTypes, Tick
<1> QED  BY <1>1, <1>2, <1>3

-----------------------------------------------------------------------------
(* The queues *)

\* The numbers the invariants compare are integers.
LEMMA Numbers ==
    ASSUME BurstTypes, NEW k \in 1 .. 9
    PROVE  /\ res[k].sent \in Nat /\ res[k].acks \in Nat
           /\ passed[k].handled \in Nat /\ passed[k].acks \in Nat /\ passed[k].counted \in Nat
           /\ passed[k].first \in Nat /\ passed[k].last \in Nat
           /\ Owed(k) \in Int /\ Unread(k) \in Int
<1>1. res[k] \in Result /\ passed[k] \in History
  BY ScriptFacts DEF BurstTypes
<1> QED  BY <1>1 DEF Result, History, Owed, Unread

\* A burst begins once and the bursts are numbered 1 to 9.
LEMMA StepRange == ASSUME BurstTypes PROVE step \in 1 .. 9 /\ begun \in 1 .. step
BY DEF BurstTypes

\* The queues of the running burst.
LEMMA RunningFacts ==
    ASSUME BurstTypes, FifoInv, Running, NEW s \in 1 .. 9, s = step
    PROVE  /\ Suffix(probes, s, Owed(s)) /\ Suffix(replies, s, Unread(s))
           /\ Owed(s) \in Nat /\ Unread(s) \in Nat
           /\ passed[s].handled > 0 => Owed(s) = Len(probes)
           /\ passed[s].acks <= passed[s].handled
<1>1. Owed(s) \in Int /\ Unread(s) \in Int
  BY Numbers
<1>2. Owed(s) >= 0 /\ Unread(s) >= 0
  BY ScriptFacts DEF FifoInv, LeftInv
<1> QED  BY <1>1, <1>2 DEF FifoInv, OrderInv

\* The probe the kernel takes in is of a burst that has begun; if that burst
\* is not running, it owes; if it is, all the probes are its own.
LEMMA HeadProbe ==
    ASSUME BurstTypes, FifoInv, NEW h \in 1 .. 9, h = Head(probes), probes # <<>>,
           NEW s \in 1 .. 9, s = step
    PROVE  /\ h \in begun .. s /\ ~ ToCome(h) /\ Owed(h) # 0
           /\ Running /\ h = s => Owed(h) = Len(probes) /\ Owed(h) \in Nat \ {0}
           /\ Running /\ h # s => passed[s].handled = 0 /\ passed[s].acks = 0 /\ Unread(s) = 0
<1>1. probes \in Seq(Bursts) /\ Bursts = 1 .. 9
  BY ScriptFacts DEF BurstTypes
<1>2. Len(probes) \in Nat /\ Len(probes) >= 1 /\ h = probes[1]
  BY <1>1, TailEntries
<1>3. h \in begun .. s
  BY <1>2 DEF FifoInv, RangeInv
<1>4. ~ Absent(h, probes)
  BY <1>2 DEF Absent
<1>5. ~ ToCome(h)
  BY <1>1, <1>4 DEF FifoInv, IdleInv
<1>6. Owed(h) # 0
  BY <1>1, <1>4 DEF FifoInv, LeftInv
<1>7. passed[s].handled \in Nat /\ passed[s].acks \in Nat /\ passed[s].counted \in Nat
  BY Numbers
<1>8. ASSUME Running, h = s
      PROVE  Owed(h) = Len(probes) /\ Owed(h) \in Nat \ {0}
  <2>1. Suffix(probes, s, Owed(s)) /\ Owed(s) \in Nat
    BY <1>8, RunningFacts
  <2> QED  BY <1>1, <1>2, <1>8, <2>1, SuffixHead
<1>9. ASSUME Running, h # s
      PROVE  passed[s].handled = 0 /\ passed[s].acks = 0 /\ Unread(s) = 0
  <2>1. /\ Suffix(probes, s, Owed(s)) /\ Owed(s) \in Nat /\ Unread(s) \in Nat
        /\ passed[s].handled > 0 => Owed(s) = Len(probes)
        /\ passed[s].acks <= passed[s].handled
    BY <1>9, RunningFacts
  <2>2. Owed(s) < Len(probes)
    BY <1>1, <1>9, <2>1, SuffixHead
  <2>3. passed[s].handled = 0
    BY <1>2, <1>7, <2>1, <2>2
  <2>4. passed[s].acks = 0
    BY <1>7, <2>1, <2>3
  <2>5. Unread(s) = 0
    BY <1>7, <2>1, <2>4 DEF Unread
  <2> QED  BY <2>3, <2>4, <2>5
<1> QED  BY <1>3, <1>5, <1>6, <1>8, <1>9

\* The input of a probe keeps the queues in order.
LEMMA ProbeFifo ==
    ASSUME BurstTypes, FifoInv, KernelProbe
    PROVE  FifoInv'
<1>1. PICK v : \E h \in 1 .. 9, p \in Peers, a \in BOOLEAN : ProbeStep(h, p, v, a)
  BY ProbeFacts
<1>2. PICK h \in 1 .. 9, p \in Peers, a \in BOOLEAN : ProbeStep(h, p, v, a)
  BY <1>1
<1> PICK s \in 1 .. 9 : s = step
  BY StepRange
<1>3. /\ h = Head(probes) /\ probes # <<>> /\ probes' = Tail(probes)
      /\ replies' = IF a THEN Append(replies, h) ELSE replies
      /\ UNCHANGED <<begun, step, pc, res>>
  BY <1>2 DEF ProbeStep
<1>4. /\ \A k \in 1 .. 9 : k # h => passed'[k] = passed[k]
      /\ passed'[h].handled = IF h = s /\ Running THEN passed[h].handled + 1 ELSE passed[h].handled
      /\ passed'[h].acks = IF a THEN passed[h].acks + 1 ELSE passed[h].acks
      /\ passed'[h].counted = passed[h].counted
  BY <1>2 DEF ProbeStep
<1>5. /\ probes \in Seq(Bursts) /\ replies \in Seq(Bursts) /\ step \in 1 .. 9 /\ Bursts = 1 .. 9
  BY ScriptFacts, StepRange DEF BurstTypes
<1>6. /\ h \in begun .. s /\ ~ ToCome(h) /\ Owed(h) # 0
      /\ Running /\ h = s => Owed(h) = Len(probes) /\ Owed(h) \in Nat \ {0}
      /\ Running /\ h # s => passed[s].handled = 0 /\ passed[s].acks = 0 /\ Unread(s) = 0
  BY <1>3, HeadProbe
<1>7. (Running' <=> Running) /\ \A k : ToCome(k)' <=> ToCome(k)
  BY <1>3 DEF Running, ToCome
<1>8. /\ \A k \in 1 .. 9 : k # h => Owed(k)' = Owed(k) /\ Unread(k)' = Unread(k)
      /\ Owed(h)' = IF h = s /\ Running THEN Owed(h) - 1 ELSE Owed(h)
      /\ Unread(h)' = IF a THEN Unread(h) + 1 ELSE Unread(h)
  <2>1. /\ res'[h] = res[h] /\ res[h].sent \in Nat /\ passed[h].handled \in Nat
        /\ passed[h].acks \in Nat /\ passed[h].counted \in Nat
    BY <1>3, Numbers
  <2>2. /\ Owed(h)' = IF h = s /\ Running THEN Owed(h) - 1 ELSE Owed(h)
        /\ Unread(h)' = IF a THEN Unread(h) + 1 ELSE Unread(h)
    BY <1>4, <2>1 DEF Owed, Unread
  <2>3. \A k \in 1 .. 9 : k # h => Owed(k)' = Owed(k) /\ Unread(k)' = Unread(k)
    BY <1>3, <1>4 DEF Owed, Unread
  <2> QED  BY <2>2, <2>3
<1>9. ASSUME NEW k \in 1 .. 9, Absent(k, probes)
      PROVE  Absent(k, probes') /\ k # h
  BY <1>3, <1>5, <1>9, AbsentTail
<1>10. ASSUME NEW k \in 1 .. 9, Absent(k, replies), k # h \/ ~ a
       PROVE  Absent(k, replies')
  BY <1>3, <1>5, <1>10, AbsentAppend
<1>11. RangeInv'
  <2>1. \A i \in 1 .. Len(probes') : probes'[i] \in begun .. s
    BY <1>3, <1>5, TailEntries DEF FifoInv, RangeInv
  <2>2. \A i \in 1 .. Len(replies') : replies'[i] \in begun .. s
    BY <1>3, <1>5, <1>6, AppendEntries DEF FifoInv, RangeInv
  <2>3. step' = s /\ begun' = begun
    BY <1>3
  <2> QED  BY <2>1, <2>2, <2>3 DEF RangeInv
<1>12. IdleInv'
  <2> SUFFICES ASSUME NEW k \in 1 .. 9, ToCome(k)
               PROVE  /\ res'[k].sent = 0 /\ res'[k].acks = 0
                      /\ passed'[k].handled = 0 /\ passed'[k].acks = 0 /\ passed'[k].counted = 0
                      /\ Absent(k, probes') /\ Absent(k, replies')
    BY <1>5, <1>7 DEF IdleInv
  <2>1. k # h
    BY <1>6
  <2>2. /\ res[k].sent = 0 /\ res[k].acks = 0
        /\ passed[k].handled = 0 /\ passed[k].acks = 0 /\ passed[k].counted = 0
        /\ Absent(k, probes) /\ Absent(k, replies)
    BY <1>5 DEF FifoInv, IdleInv
  <2> QED  BY <1>3, <1>4, <1>9, <1>10, <2>1, <2>2
<1>13. LeftInv'
  <2> SUFFICES ASSUME NEW k \in 1 .. 9
               PROVE  /\ Owed(k)' >= 0 /\ Unread(k)' >= 0
                      /\ Owed(k)' = 0 => Absent(k, probes')
                      /\ Settled(k)' => Absent(k, replies')
    BY <1>5 DEF LeftInv
  <2>1. /\ Owed(k) >= 0 /\ Unread(k) >= 0 /\ Owed(k) \in Int /\ Unread(k) \in Int
        /\ Owed(k) = 0 => Absent(k, probes)
        /\ Settled(k) => Absent(k, replies)
    BY <1>5, Numbers DEF FifoInv, LeftInv
  <2>2. CASE k # h
    BY <1>8, <1>9, <1>10, <2>1, <2>2 DEF Settled
  <2>3. CASE k = h /\ ~ (h = s /\ Running)
    BY <1>6, <1>8, <2>1, <2>3 DEF Settled
  <2>4. CASE k = h /\ h = s /\ Running
    <3>1. Owed(h)' = Owed(h) - 1 /\ Owed(h) = Len(probes) /\ Owed(h) \in Nat \ {0}
      BY <1>6, <1>8, <2>4
    <3>2. Owed(h)' = 0 => Absent(h, probes')
      BY <1>3, <1>5, <3>1, TailEntries DEF Absent
    <3>3. ASSUME Unread(h)' = 0
          PROVE  Absent(h, replies')
      <4>1. Unread(h) = 0 /\ ~ a
        BY <1>8, <2>1, <2>4, <3>3
      <4>2. Suffix(replies, h, 0)
        BY <2>4, <4>1 DEF FifoInv, OrderInv
      <4>3. Absent(h, replies)
        BY <1>5, <4>2, SuffixNone
      <4> QED  BY <1>10, <4>1, <4>3
    <3> QED  BY <1>8, <2>1, <2>4, <3>1, <3>2, <3>3 DEF Settled
  <2> QED  BY <2>2, <2>3, <2>4
<1>14. OrderInv'
  <2> SUFFICES ASSUME Running
               PROVE  /\ Suffix(probes', s, Owed(s)') /\ Suffix(replies', s, Unread(s)')
                      /\ passed'[s].handled > 0 => Owed(s)' = Len(probes')
                      /\ passed'[s].acks <= passed'[s].handled
    <3>1. /\ step' = s /\ Owed(step)' = Owed(s)' /\ Unread(step)' = Unread(s)'
          /\ Running' <=> Running
      BY <1>3, <1>7 DEF Owed, Unread
    <3> QED  BY <3>1 DEF OrderInv
  <2>1. /\ Suffix(probes, s, Owed(s)) /\ Suffix(replies, s, Unread(s))
        /\ passed[s].handled > 0 => Owed(s) = Len(probes)
        /\ passed[s].acks <= passed[s].handled
        /\ Owed(s) \in Nat /\ Unread(s) \in Nat
    BY RunningFacts
  <2>2. CASE h = s
    <3>1. Suffix(probes', s, Owed(s)')
      BY <1>3, <1>5, <1>8, <2>1, <2>2, SuffixHead
    <3>2. Suffix(replies', s, Unread(s)')
      BY <1>3, <1>5, <1>8, <2>1, <2>2, SuffixAppend
    <3>3. Owed(s)' = Len(probes')
      BY <1>3, <1>5, <1>6, <1>8, <2>2, TailEntries
    <3>4. passed'[s].acks <= passed'[s].handled
      <4>1. passed[s].acks \in Nat /\ passed[s].handled \in Nat
        BY Numbers
      <4> QED  BY <1>4, <2>1, <2>2, <4>1
    <3> QED  BY <3>1, <3>2, <3>3, <3>4
  <2>3. CASE h # s
    <3>1. passed'[s] = passed[s] /\ Owed(s)' = Owed(s) /\ Unread(s)' = Unread(s)
      BY <1>4, <1>5, <1>8, <2>3
    <3>2. Suffix(probes', s, Owed(s)')
      BY <1>3, <1>5, <2>1, <2>3, <3>1, SuffixHead
    <3>3. Absent(s, replies)
      BY <1>5, <1>6, <2>1, <2>3, SuffixNone
    <3>4. Suffix(replies', s, Unread(s)')
      <4>1. Absent(s, replies')
        BY <1>5, <1>10, <2>3, <3>3
      <4>2. replies' \in Seq(Bursts)
        BY ProbeFacts DEF BurstTypes
      <4> QED  BY <1>6, <2>3, <3>1, <4>1, <4>2, SuffixNone
    <3> QED  BY <1>6, <2>1, <2>3, <3>1, <3>2, <3>4
  <2> QED  BY <2>2, <2>3
<1> QED  BY <1>11, <1>12, <1>13, <1>14 DEF FifoInv

\* The start of a burst keeps the queues in order.
LEMMA BeginFifo ==
    ASSUME BurstTypes, FifoInv, Begin
    PROVE  FifoInv'
<1> PICK s \in 1 .. 9 : s = step
  BY StepRange
<1>1. /\ pc = "ready" /\ pc' = "sending" /\ (replies' = replies \/ replies' = <<>>)
      /\ UNCHANGED <<begun, step, probes, res, passed>>
  BY DEF Begin
<1>2. Bursts = 1 .. 9 /\ probes \in Seq(Bursts) /\ replies' \in Seq(Bursts)
  BY ScriptFacts, QuietTypes DEF BurstTypes
<1>3. \A k \in 1 .. 9 : Owed(k)' = Owed(k) /\ Unread(k)' = Unread(k)
  BY <1>1 DEF Owed, Unread
<1>4. \A k \in 1 .. 9 : ToCome(k)' => ToCome(k)
  BY <1>1 DEF ToCome
<1>5. \A k \in 1 .. 9 : Absent(k, replies) => Absent(k, replies')
  BY <1>1 DEF Absent
<1>6. RangeInv'
  BY <1>1 DEF FifoInv, RangeInv
<1>7. IdleInv'
  BY <1>1, <1>2, <1>4, <1>5 DEF FifoInv, IdleInv
<1>8. LeftInv'
  BY <1>1, <1>2, <1>3, <1>5 DEF FifoInv, LeftInv, Settled
<1>9. OrderInv'
  <2>1. ToCome(s)
    BY <1>1 DEF ToCome
  <2>2. /\ res[s].sent = 0 /\ passed[s].handled = 0 /\ passed[s].acks = 0 /\ passed[s].counted = 0
        /\ Absent(s, probes) /\ Absent(s, replies)
    BY <1>2, <2>1 DEF FifoInv, IdleInv
  <2>3. Owed(s)' = 0 /\ Unread(s)' = 0
    BY <1>1, <2>2 DEF Owed, Unread
  <2>4. Suffix(probes', s, 0) /\ Suffix(replies', s, 0)
    BY <1>1, <1>2, <1>5, <2>2, SuffixNone
  <2>5. step' = s /\ Owed(step)' = Owed(s)' /\ Unread(step)' = Unread(s)'
    BY <1>1 DEF Owed, Unread
  <2>6. ~ (passed'[s].handled > 0) /\ passed'[s].acks <= passed'[s].handled
    BY <1>1, <2>2
  <2> QED  BY <2>3, <2>4, <2>5, <2>6 DEF OrderInv
<1> QED  BY <1>6, <1>7, <1>8, <1>9 DEF FifoInv

\* The write of a probe keeps the queues in order.
LEMMA SendFifo ==
    ASSUME BurstTypes, FifoInv, NEW ok \in BOOLEAN, SendProbe(ok)
    PROVE  FifoInv'
<1> PICK s \in 1 .. 9 : s = step
  BY StepRange
<1>1. SendStep(ok)
  BY SendFacts
<1>2. /\ pc = "sending" /\ probes' = IF ok THEN Append(probes, s) ELSE probes
      /\ UNCHANGED <<begun, step, pc, replies, passed>>
  BY <1>1 DEF SendStep
<1>3. /\ \A k \in 1 .. 9 : res'[k].acks = res[k].acks
      /\ \A k \in 1 .. 9 : res'[k].sent = IF k = s /\ ok THEN res[k].sent + 1 ELSE res[k].sent
  BY <1>1 DEF SendStep
<1>4. Bursts = 1 .. 9 /\ probes \in Seq(Bursts) /\ begun \in 1 .. s
  BY ScriptFacts, StepRange DEF BurstTypes
<1>5. /\ \A k \in 1 .. 9 : k # s => Owed(k)' = Owed(k)
      /\ Owed(s)' = IF ok THEN Owed(s) + 1 ELSE Owed(s)
      /\ \A k \in 1 .. 9 : Unread(k)' = Unread(k)
  <2>1. res[s].sent \in Nat /\ passed[s].handled \in Nat
    BY Numbers
  <2>2. Owed(s)' = IF ok THEN Owed(s) + 1 ELSE Owed(s)
    <3>1. passed'[s] = passed[s] /\ res'[s].sent = IF ok THEN res[s].sent + 1 ELSE res[s].sent
      BY <1>2, <1>3
    <3> QED  BY <2>1, <3>1 DEF Owed
  <2>3. \A k \in 1 .. 9 : k # s => Owed(k)' = Owed(k)
    BY <1>2, <1>3 DEF Owed
  <2>4. \A k \in 1 .. 9 : Unread(k)' = Unread(k)
    BY <1>2 DEF Unread
  <2> QED  BY <2>2, <2>3, <2>4
<1>6. Running /\ Running'
  BY <1>2 DEF Running
<1>7. /\ Suffix(probes, s, Owed(s)) /\ Suffix(replies, s, Unread(s))
      /\ Owed(s) \in Nat /\ Unread(s) \in Nat
      /\ passed[s].handled > 0 => Owed(s) = Len(probes)
      /\ passed[s].acks <= passed[s].handled
  BY <1>6, RunningFacts
<1>8. \A k \in 1 .. 9 : Absent(k, probes) /\ (k # s \/ ~ ok) => Absent(k, probes')
  BY <1>2, <1>4, AbsentAppend
<1>9. RangeInv'
  <2>1. \A i \in 1 .. Len(probes') : probes'[i] \in begun .. s
    BY <1>2, <1>4, AppendEntries DEF FifoInv, RangeInv
  <2> QED  BY <1>2, <2>1 DEF FifoInv, RangeInv
<1>10. IdleInv'
  <2>1. \A k \in 1 .. 9 : ToCome(k)' => ToCome(k) /\ k # s
    BY <1>2 DEF ToCome
  <2> QED  BY <1>2, <1>3, <1>4, <1>8, <2>1 DEF FifoInv, IdleInv
<1>11. LeftInv'
  <2> SUFFICES ASSUME NEW k \in 1 .. 9
               PROVE  /\ Owed(k)' >= 0 /\ Unread(k)' >= 0
                      /\ Owed(k)' = 0 => Absent(k, probes')
                      /\ Settled(k)' => Absent(k, replies')
    BY <1>4 DEF LeftInv
  <2>1. /\ Owed(k) >= 0 /\ Unread(k) >= 0 /\ Owed(k) \in Int /\ Unread(k) \in Int
        /\ Owed(k) = 0 => Absent(k, probes)
        /\ Settled(k) => Absent(k, replies)
    BY <1>4, Numbers DEF FifoInv, LeftInv
  <2>2. CASE k # s
    BY <1>2, <1>5, <1>8, <2>1, <2>2 DEF Settled
  <2>3. CASE k = s
    BY <1>2, <1>5, <1>8, <2>1, <2>3 DEF Settled
  <2> QED  BY <2>2, <2>3
<1>12. OrderInv'
  <2>1. Suffix(probes', s, Owed(s)')
    BY <1>2, <1>4, <1>5, <1>7, SuffixAppend
  <2>2. passed'[s].handled > 0 => Owed(s)' = Len(probes')
    BY <1>2, <1>4, <1>5, <1>7, AppendEntries
  <2>3. step' = s /\ Owed(step)' = Owed(s)' /\ Unread(step)' = Unread(s)'
    BY <1>2 DEF Owed, Unread
  <2>4. Suffix(replies', s, Unread(s)') /\ passed'[s].acks <= passed'[s].handled
    BY <1>2, <1>5, <1>7
  <2> QED  BY <2>1, <2>2, <2>3, <2>4 DEF OrderInv
<1> QED  BY <1>9, <1>10, <1>11, <1>12 DEF FifoInv

\* The read of a reply keeps the queues in order.
LEMMA CollectFifo ==
    ASSUME BurstTypes, FifoInv, Collect
    PROVE  FifoInv'
<1> PICK s \in 1 .. 9 : s = step
  BY StepRange
<1> PICK h \in 1 .. 9 : CollectStep(h)
  BY CollectFacts
<1>1. /\ pc = "collecting" /\ replies # <<>> /\ h = Head(replies) /\ replies' = Tail(replies)
      /\ UNCHANGED <<begun, step, pc, probes>>
  BY DEF CollectStep
<1>2. \A k \in 1 .. 9 :
        /\ res'[k].sent = res[k].sent
        /\ res'[k].acks = IF k = s /\ Script[h].peer = Script[s].peer
                          THEN res[k].acks + 1 ELSE res[k].acks
        /\ passed'[k].handled = passed[k].handled /\ passed'[k].acks = passed[k].acks
        /\ passed'[k].counted = IF k = s /\ h = s THEN passed[k].counted + 1 ELSE passed[k].counted
  BY DEF CollectStep
<1>3. Bursts = 1 .. 9 /\ probes \in Seq(Bursts) /\ replies \in Seq(Bursts)
  BY ScriptFacts, StepRange DEF BurstTypes
<1>4. Running /\ Running'
  BY <1>1 DEF Running
<1>5. /\ Suffix(probes, s, Owed(s)) /\ Suffix(replies, s, Unread(s))
      /\ Owed(s) \in Nat /\ Unread(s) \in Nat
      /\ passed[s].handled > 0 => Owed(s) = Len(probes)
      /\ passed[s].acks <= passed[s].handled
  BY <1>4, RunningFacts
<1>6. /\ \A k \in 1 .. 9 : Owed(k)' = Owed(k)
      /\ \A k \in 1 .. 9 : k # s => Unread(k)' = Unread(k)
      /\ Unread(s)' = IF h = s THEN Unread(s) - 1 ELSE Unread(s)
  <2>1. passed[s].acks \in Nat /\ passed[s].counted \in Nat
    BY Numbers
  <2> QED  BY <1>2, <2>1 DEF Owed, Unread
<1>7. /\ h = s => Unread(s) = Len(replies) /\ Unread(s) >= 1 /\ Suffix(replies', s, Unread(s) - 1)
      /\ h # s => Suffix(replies', s, Unread(s))
  BY <1>1, <1>3, <1>5, SuffixHead
<1>8. \A k \in 1 .. 9 : Absent(k, replies) => Absent(k, replies')
  BY <1>1, <1>3, AbsentTail
<1>9. RangeInv'
  <2>1. \A i \in 1 .. Len(replies') : replies'[i] \in begun .. step
    BY <1>1, <1>3, TailEntries DEF FifoInv, RangeInv
  <2> QED  BY <1>1, <2>1 DEF FifoInv, RangeInv
<1>10. IdleInv'
  <2>1. \A k \in 1 .. 9 : ToCome(k)' => ToCome(k) /\ k # s
    BY <1>1 DEF ToCome
  <2> QED  BY <1>1, <1>2, <1>3, <1>8, <2>1 DEF FifoInv, IdleInv
<1>11. LeftInv'
  <2> SUFFICES ASSUME NEW k \in 1 .. 9
               PROVE  /\ Owed(k)' >= 0 /\ Unread(k)' >= 0
                      /\ Owed(k)' = 0 => Absent(k, probes')
                      /\ Settled(k)' => Absent(k, replies')
    BY <1>3 DEF LeftInv
  <2>1. /\ Owed(k) >= 0 /\ Unread(k) >= 0 /\ Owed(k) \in Int /\ Unread(k) \in Int
        /\ Owed(k) = 0 => Absent(k, probes)
        /\ Settled(k) => Absent(k, replies)
    BY <1>3, Numbers DEF FifoInv, LeftInv
  <2>2. CASE k # s \/ h # s
    BY <1>1, <1>6, <1>8, <2>1, <2>2 DEF Settled
  <2>3. CASE k = s /\ h = s
    <3>1. Unread(s)' = 0 => Suffix(replies', s, 0)
      BY <1>6, <1>7, <2>3
    <3>2. replies' \in Seq(Bursts)
      BY CollectFacts DEF BurstTypes
    <3>3. Unread(s)' = 0 => Absent(s, replies')
      BY <3>1, <3>2, SuffixNone
    <3> QED  BY <1>1, <1>6, <1>7, <2>1, <2>3, <3>3 DEF Settled
  <2> QED  BY <2>2, <2>3
<1>12. OrderInv'
  <2>1. Suffix(replies', s, Unread(s)')
    BY <1>6, <1>7
  <2>2. step' = s /\ Owed(step)' = Owed(s)' /\ Unread(step)' = Unread(s)'
    BY <1>1 DEF Owed, Unread
  <2>3. /\ Suffix(probes', s, Owed(s)') /\ passed'[s].acks <= passed'[s].handled
        /\ passed'[s].handled > 0 => Owed(s)' = Len(probes')
    BY <1>1, <1>2, <1>5, <1>6
  <2> QED  BY <2>1, <2>2, <2>3 DEF OrderInv
<1> QED  BY <1>9, <1>10, <1>11, <1>12 DEF FifoInv

\* The end of a burst keeps the queues in order.
LEMMA EndFifo ==
    ASSUME BurstTypes, FifoInv, EndBurst
    PROVE  FifoInv'
<1> PICK s \in 1 .. 9 : s = step
  BY StepRange
<1>1. EndStep
  BY EndFacts
<1>2. /\ pc = "collecting" /\ pc' \in {"ready", "done"}
      /\ UNCHANGED <<begun, probes, replies, res, passed>>
      /\ (step' = s + 1 /\ pc' = "ready") \/ (step' = s /\ pc' = "done")
  BY <1>1 DEF EndStep
<1>3. Bursts = 1 .. 9 /\ begun \in 1 .. s
  BY ScriptFacts, StepRange
<1>4. \A k \in 1 .. 9 : Owed(k)' = Owed(k) /\ Unread(k)' = Unread(k)
  BY <1>2 DEF Owed, Unread
<1>5. RangeInv'
  <2>1. begun .. step \subseteq (begun .. step)'
    BY <1>2, <1>3
  <2> QED  BY <1>2, <2>1 DEF FifoInv, RangeInv
<1>6. IdleInv'
  <2>1. \A k \in 1 .. 9 : ToCome(k)' => ToCome(k)
    BY <1>2 DEF ToCome
  <2> QED  BY <1>2, <1>3, <2>1 DEF FifoInv, IdleInv
<1>7. LeftInv'
  BY <1>2, <1>3, <1>4 DEF FifoInv, LeftInv, Settled
<1>8. OrderInv'
  BY <1>2 DEF OrderInv, Running
<1> QED  BY <1>5, <1>6, <1>7, <1>8 DEF FifoInv

\* A tick and the start of the collection leave the queues alone.
LEMMA QuietFifo ==
    ASSUME BurstTypes, FifoInv, StartCollect \/ Tick
    PROVE  FifoInv'
<1>1. /\ UNCHANGED <<begun, step, probes, replies, res, passed>>
      /\ pc' = pc \/ (pc = "sending" /\ pc' = "collecting")
  BY DEF StartCollect, Tick
<1>2. (Running' <=> Running) /\ \A k : ToCome(k)' <=> ToCome(k)
  BY <1>1 DEF Running, ToCome
<1>3. \A k : Owed(k)' = Owed(k) /\ Unread(k)' = Unread(k)
  BY <1>1 DEF Owed, Unread
<1>4. Owed(step)' = Owed(step) /\ Unread(step)' = Unread(step)
  BY <1>1 DEF Owed, Unread
<1>5. RangeInv'
  BY <1>1 DEF FifoInv, RangeInv
<1>6. IdleInv'
  BY <1>1, <1>2 DEF FifoInv, IdleInv
<1>7. LeftInv'
  BY <1>1, <1>3 DEF FifoInv, LeftInv, Settled
<1>8. OrderInv'
  BY <1>1, <1>2, <1>4 DEF FifoInv, OrderInv
<1> QED  BY <1>5, <1>6, <1>7, <1>8 DEF FifoInv

\* In the initial state the queues are empty.
LEMMA InitFifo == ASSUME Init PROVE BurstTypes /\ FifoInv
<1>1. /\ begun \in {1, 2, 3, 4, 6, 9} /\ step = begun /\ pc = "ready" /\ probes = <<>> /\ replies = <<>>
      /\ start \in Nat
  BY BurstAssumption DEF Init
<1>2. Bursts = 1 .. 9
  BY ScriptFacts
<1>3. /\ res = [k \in 1 .. 9 |-> [acks |-> 0, sent |-> 0, send_failures |-> 0]]
      /\ passed = [k \in 1 .. 9 |-> [handled |-> 0, acks |-> 0, counted |-> 0, first |-> 0, last |-> 0]]
  BY <1>2 DEF Init
<1>4. res \in [1 .. 9 -> Result] /\ passed \in [1 .. 9 -> History]
  BY <1>3 DEF Result, History
<1>5. limiter \in [Peers -> Limiter]
  BY DEF Init, Limiter
<1>6. BurstTypes
  BY <1>1, <1>2, <1>4, <1>5 DEF BurstTypes, Init
<1>7. \A k \in 1 .. 9 : Owed(k) = 0 /\ Unread(k) = 0
  BY <1>3 DEF Owed, Unread
<1>8. Len(probes) = 0 /\ Len(replies) = 0
  BY <1>1
<1>9. \A k : Absent(k, probes) /\ Absent(k, replies)
  BY <1>8 DEF Absent
<1>10. RangeInv
  BY <1>8 DEF RangeInv
<1>11. IdleInv
  BY <1>2, <1>3, <1>9 DEF IdleInv
<1>12. LeftInv
  BY <1>2, <1>7, <1>9 DEF LeftInv
<1>13. OrderInv
  BY <1>1 DEF OrderInv, Running
<1> QED  BY <1>6, <1>10, <1>11, <1>12, <1>13 DEF FifoInv

-----------------------------------------------------------------------------
(* Sockets and counted replies *)

\* The socket of the running burst stays established.
LEMMA StepAlive ==
    ASSUME BurstTypes, AliveInv, Next
    PROVE  AliveInv'
<1> PICK s \in 1 .. 9 : s = step
  BY StepRange
<1>1. \A k \in 1 .. 9 : Needs(k)' = Needs(k)
  BY DEF Needs
<1>2. CASE Begin
  <2>1. alive' = alive \cup Script[s].up /\ pc = "ready" /\ pc' = "sending" /\ step' = s
    BY <1>2 DEF Begin
  <2>2. Needs(s) \subseteq alive'
    BY <2>1 DEF AliveInv
  <2> QED  BY <2>1, <2>2 DEF AliveInv
<1>3. CASE EndBurst
  <2>1. EndStep
    BY <1>3, EndFacts
  <2>2. CASE pc' = "done"
    BY <2>2 DEF AliveInv, Running
  <2>3. CASE s < 9 /\ step' = s + 1 /\ pc' = "ready"
    <3>1. Needs(s) \subseteq alive /\ alive' = alive \ Script[s].down
      BY <2>1 DEF EndStep, AliveInv, Running
    <3>2. s = 1 \/ s = 2 \/ s = 3 \/ s = 4 \/ s = 5 \/ s = 6 \/ s = 7 \/ s = 8
      BY <2>3
    <3>3. Needs(s + 1) \ Script[s + 1].up \subseteq alive'
      <4>1. CASE s = 4
        BY <3>1, <4>1, ScriptFacts, ScriptSockets DEF Needs
      <4>2. CASE s = 6
        BY <3>1, <4>2, ScriptFacts, ScriptSockets DEF Needs
      <4>3. CASE s = 7
        BY <3>1, <4>3, ScriptFacts, ScriptSockets DEF Needs
      <4>4. CASE s = 1 \/ s = 2 \/ s = 3 \/ s = 5 \/ s = 8
        BY <4>4, ScriptFacts, ScriptSockets DEF Needs
      <4> QED  BY <3>2, <4>1, <4>2, <4>3, <4>4
    <3>4. PICK n : n = s + 1
      OBVIOUS
    <3> QED  BY <2>3, <3>3, <3>4 DEF AliveInv, Running, Needs
  <2> QED  BY <2>1, <2>2, <2>3 DEF EndStep
<1>4. CASE KernelProbe \/ StartCollect \/ Collect \/ Tick \/ \E ok \in BOOLEAN : SendProbe(ok)
  <2>1. /\ alive' = alive /\ step' = s
        /\ pc' = pc \/ (pc = "sending" /\ pc' = "collecting")
    BY <1>4 DEF KernelProbe, StartCollect, Collect, Tick, SendProbe
  <2> QED  BY <2>1 DEF AliveInv, Running, Needs
<1> QED  BY <1>2, <1>3, <1>4 DEF Next

\* Once a later burst runs, what an earlier burst owes does not change, and
\* nothing arrives for a burst that is settled.
LEMMA OwedStays ==
    ASSUME BurstTypes, FifoInv, Next, NEW j \in 1 .. 9, j < step
    PROVE  Owed(j)' = Owed(j) /\ (Settled(j)' => Settled(j))
<1> PICK s \in 1 .. 9 : s = step
  BY StepRange
<1>1. CASE KernelProbe
  <2>1. PICK v : \E h \in 1 .. 9, p \in Peers, a \in BOOLEAN : ProbeStep(h, p, v, a)
    BY <1>1, ProbeFacts
  <2>2. PICK h \in 1 .. 9, p \in Peers, a \in BOOLEAN : ProbeStep(h, p, v, a)
    BY <2>1
  <2>3. res' = res /\ (j # h => passed'[j] = passed[j]) /\ passed'[h].counted = passed[h].counted
        /\ passed'[h].handled = IF h = s /\ Running THEN passed[h].handled + 1 ELSE passed[h].handled
    BY <2>2 DEF ProbeStep
  <2>4. Owed(j)' = Owed(j)
    BY <2>3 DEF Owed
  <2>5. h = j => Owed(j) # 0
    BY <2>2, HeadProbe DEF ProbeStep
  <2> QED  BY <2>3, <2>4, <2>5 DEF Settled, Unread
<1>2. CASE Collect
  <2>1. PICK h \in 1 .. 9 : CollectStep(h)
    BY <1>2, CollectFacts
  <2>2. /\ res'[j].sent = res[j].sent /\ passed'[j].handled = passed[j].handled
        /\ passed'[j].acks = passed[j].acks /\ passed'[j].counted = passed[j].counted
    BY <2>1 DEF CollectStep
  <2> QED  BY <2>2 DEF Settled, Owed, Unread
<1>3. ASSUME NEW ok \in BOOLEAN, SendProbe(ok)
      PROVE  Owed(j)' = Owed(j) /\ (Settled(j)' => Settled(j))
  <2>1. res'[j].sent = res[j].sent /\ passed' = passed
    BY <1>3, SendFacts DEF SendStep
  <2> QED  BY <2>1 DEF Settled, Owed, Unread
<1>4. CASE Begin \/ StartCollect \/ EndBurst \/ Tick
  <2>1. res' = res /\ passed' = passed
    BY <1>4 DEF Begin, StartCollect, EndBurst, Tick
  <2> QED  BY <2>1 DEF Settled, Owed, Unread
<1> QED  BY <1>1, <1>2, <1>3, <1>4 DEF Next

\* The replies counted for a burst are its own.
LEMMA StepCount ==
    ASSUME BurstTypes, FifoInv, CountInv, Next
    PROVE  CountInv'
<1> PICK s \in 1 .. 9 : s = step
  BY StepRange
<1>1. FirstOfPeer = (1 .. 6) \cup {9} /\ Bursts = 1 .. 9
  BY FirstBursts, ScriptFacts
<1>2. CASE Collect
  <2>1. PICK h \in 1 .. 9 : CollectStep(h)
    BY <1>2, CollectFacts
  <2>2. /\ replies # <<>> /\ h = Head(replies) /\ step' = s
        /\ \A k \in 1 .. 9 :
            /\ res'[k].acks = IF k = s /\ Script[h].peer = Script[s].peer
                              THEN res[k].acks + 1 ELSE res[k].acks
            /\ passed'[k].counted = IF k = s /\ h = s THEN passed[k].counted + 1 ELSE passed[k].counted
    BY <2>1 DEF CollectStep
  <2>3. replies \in Seq(Bursts) /\ Len(replies) \in Nat /\ Len(replies) >= 1 /\ h = replies[1]
    BY <2>2, TailEntries DEF BurstTypes
  <2>4. h <= s
    BY <2>3, StepRange DEF FifoInv, RangeInv
  <2>5. \A k \in 1 .. 9 : Settled(k) => h # k
    BY <1>1, <2>3 DEF FifoInv, LeftInv, Absent
  <2>6. ASSUME NEW k \in FirstOfPeer
        PROVE  res'[k].acks = passed'[k].counted
    <3>1. k \in 1 .. 9 /\ res[k].acks = passed[k].counted
      BY <1>1 DEF CountInv
    <3>2. k = s /\ h # s => Script[h].peer # Script[s].peer
      BY <2>4, FirstAlone
    <3> QED  BY <2>2, <3>1, <3>2
  <2>7. ASSUME s >= 7, Settled(6)'
        PROVE  res'[7].acks = passed'[7].counted
    <3>1. Settled(6)
      BY <2>7, OwedStays
    <3>2. res[7].acks = passed[7].counted
      BY <2>7, <3>1 DEF CountInv
    <3>3. s = 7 /\ h # s => Script[h].peer # Script[s].peer
      BY <2>4, <2>5, <3>1, ScriptFacts
    <3> QED  BY <2>2, <3>2, <3>3
  <2>8. ASSUME s >= 8, Settled(6)', Settled(7)'
        PROVE  res'[8].acks = passed'[8].counted
    <3>1. Settled(6) /\ Settled(7)
      BY <2>8, OwedStays
    <3>2. res[8].acks = passed[8].counted
      BY <2>8, <3>1 DEF CountInv
    <3>3. s = 8 /\ h # s => Script[h].peer # Script[s].peer
      BY <2>4, <2>5, <3>1, ScriptFacts
    <3> QED  BY <2>2, <3>2, <3>3
  <2> QED  BY <2>2, <2>6, <2>7, <2>8 DEF CountInv
<1>3. CASE ~ Collect
  <2>1. \A k \in 1 .. 9 : res'[k].acks = res[k].acks /\ passed'[k].counted = passed[k].counted
    <3>1. CASE KernelProbe
      BY <3>1, ProbeFacts DEF ProbeStep
    <3>2. ASSUME NEW ok \in BOOLEAN, SendProbe(ok)
          PROVE  \A k \in 1 .. 9 : res'[k].acks = res[k].acks /\ passed'[k].counted = passed[k].counted
      BY <3>2, SendFacts DEF SendStep
    <3>3. CASE Begin \/ StartCollect \/ EndBurst \/ Tick
      BY <3>3 DEF Begin, StartCollect, EndBurst, Tick
    <3> QED  BY <1>3, <3>1, <3>2, <3>3 DEF Next
  <2>2. step' = s \/ step' = s + 1
    <3>1. CASE EndBurst
      BY <3>1, EndFacts DEF EndStep
    <3>2. CASE ~ EndBurst
      BY <3>2 DEF Next, KernelProbe, Begin, StartCollect, Collect, Tick, SendProbe
    <3> QED  BY <3>1, <3>2
  <2>3. \A k \in FirstOfPeer : res'[k].acks = passed'[k].counted
    BY <1>1, <2>1 DEF CountInv
  <2>4. \A k \in 1 .. 9 : k > s => res[k].acks = 0 /\ passed[k].counted = 0
    BY <1>1 DEF FifoInv, IdleInv, ToCome
  <2>5. ASSUME step' >= 7, Settled(6)'
        PROVE  res'[7].acks = passed'[7].counted
    <3>1. CASE s >= 7
      BY <2>1, <2>5, <3>1, OwedStays DEF CountInv
    <3>2. CASE s < 7
      BY <2>1, <2>4, <3>2
    <3> QED  BY <3>1, <3>2
  <2>6. ASSUME step' >= 8, Settled(6)', Settled(7)'
        PROVE  res'[8].acks = passed'[8].counted
    <3>1. CASE s >= 8
      BY <2>1, <2>6, <3>1, OwedStays DEF CountInv
    <3>2. CASE s < 8
      BY <2>1, <2>4, <3>2
    <3> QED  BY <3>1, <3>2
  <2> QED  BY <2>3, <2>5, <2>6 DEF CountInv
<1> QED  BY <1>2, <1>3

-----------------------------------------------------------------------------
(* The limiter *)

\* The verdict that opens a second: answered, and one is counted.
LEMMA OpeningVerdict ==
    ASSUME NEW l, NEW n, SecondOver(l)
    PROVE  /\ tcp_is_ack_ratelimited(l, n).limited = FALSE
           /\ tcp_is_ack_ratelimited(l, n).to = [last |-> tcp_now, count |-> 1]
<1>1. [[last |-> tcp_now, count |-> 0] EXCEPT !.count = @ + 1] = [last |-> tcp_now, count |-> 1]
  OBVIOUS
<1> QED  BY <1>1 DEF tcp_is_ack_ratelimited

\* The verdict within a second: answered and counted up to the limit.
LEMMA WithinVerdict ==
    ASSUME NEW l \in Limiter, NEW n \in Nat, ~ SecondOver(l)
    PROVE  /\ tcp_is_ack_ratelimited(l, n).limited <=> l.count >= n
           /\ tcp_is_ack_ratelimited(l, n).to.last = l.last
           /\ tcp_is_ack_ratelimited(l, n).to.count = IF l.count >= n THEN l.count ELSE l.count + 1
<1>1. PICK m \in BOOLEAN : m <=> l.count >= n
  OBVIOUS
<1>3. /\ tcp_is_ack_ratelimited(l, n).limited <=> m
      /\ tcp_is_ack_ratelimited(l, n).to = IF m THEN l ELSE [l EXCEPT !.count = @ + 1]
  BY <1>1 DEF tcp_is_ack_ratelimited
<1>2. /\ [l EXCEPT !.count = @ + 1].last = l.last
      /\ [l EXCEPT !.count = @ + 1].count = l.count + 1
  BY DEF Limiter
<1> QED  BY <1>1, <1>2, <1>3

\* A second opened at t, when tcp_now was not 0, is not over before its end.
LEMMA NotOver ==
    ASSUME BurstTypes, NEW l, NEW t \in Nat, t <= clock, clock - t < Second,
           l.last = (start + t) % NowMod, l.last # 0
    PROVE  ~ SecondOver(l)
<1>1. start \in Nat /\ clock \in Nat /\ Second \in Nat
  BY BurstAssumption DEF BurstTypes
<1>2. PICK d : d = timer_diff((start + clock) % NowMod, (start + t) % NowMod)
  OBVIOUS
<1>3. d \in Int /\ d <= clock - t
  BY <1>1, <1>2, TimerDiff
<1>4. timer_diff(tcp_now, l.last) = d
  BY <1>2 DEF tcp_now
<1>5. ~ (d >= Second)
  BY <1>1, <1>3
<1> QED  BY <1>4, <1>5 DEF SecondOver

\* A short run ends before half the space of tcp_now has gone by.
LEMMA ClockBound ==
    ASSUME BurstTypes, ClockInv, ShortRun
    PROVE  2 * clock < NowMod
<1>1. /\ CollectTicks \in Nat /\ PauseTicks \in Nat /\ MaxStall \in Nat /\ NowMod \in Nat
      /\ clock \in Nat /\ spent.stall \in Nat /\ step \in 1 .. 9
  BY BurstAssumption, StepRange DEF BurstTypes
<1>2. PICK n \in 0 .. 9 : n = IF pc \in {"collecting", "done"} THEN step ELSE step - 1
  BY <1>1
<1>3. n * CollectTicks \in Nat /\ n * CollectTicks <= 9 * CollectTicks
  BY <1>1
<1>4. PICK m \in Nat : m = n * CollectTicks
  BY <1>3
<1>5. clock <= spent.stall + m + (IF step >= 8 THEN PauseTicks ELSE 0) /\ spent.stall <= MaxStall
  BY <1>2, <1>4 DEF ClockInv, Allowed
<1>6. clock <= MaxStall + 9 * CollectTicks + PauseTicks
  BY <1>1, <1>3, <1>4, <1>5
<1> QED  BY <1>1, <1>6 DEF ShortRun

\* The running burst's own probe is decided by the limiter of its socket, under
\* the limit in force for the burst.
LEMMA OwnProbe ==
    ASSUME BurstTypes, AliveInv, NEW s \in 1 .. 9, s = step, Running,
           NEW p \in Peers, NEW v, NEW a \in BOOLEAN, ProbeStep(s, p, v, a)
    PROVE  /\ p = Script[s].peer /\ a = ~ v.limited
           /\ v = tcp_is_ack_ratelimited(limiter[p], Script[s].limit)
           /\ limiter'[p] = v.to /\ limiter[p] \in Limiter
<1>1. p = Script[s].peer
  BY DEF ProbeStep
<1>2. p \in alive
  BY <1>1, ScriptFacts DEF AliveInv, Needs
<1>3. LimitInForce = Script[s].limit
  BY DEF LimitInForce
<1> QED  BY <1>1, <1>2, <1>3 DEF ProbeStep, BurstTypes

\* The first probe of a burst that opens a second finds the last one over.
LEMMA OpensOver ==
    ASSUME BurstTypes, FreshInv, PauseInv, ClockInv,
           NEW s \in 1 .. 9, s = step, Running, Opens(s), passed[s].handled = 0
    PROVE  SecondOver(limiter[Script[s].peer])
<1>1. CASE s \in FirstOfPeer
  <2>1. limiter[Script[s].peer].last = 0
    BY <1>1 DEF FreshInv, Running
  <2> QED  BY <2>1 DEF SecondOver
<1>2. CASE s \notin FirstOfPeer
  <2>1. s = 8 /\ ShortRun /\ Owed(6) = 0 /\ Owed(7) = 0
    BY <1>2 DEF Opens
  <2>2. Script[s].peer = 6
    BY <2>1, ScriptFacts
  <2>3. OpenedBy(clock - PauseTicks)
    BY <2>1 DEF PauseInv, Running
  <2>4. CASE limiter[6].last = 0
    BY <2>2, <2>4 DEF SecondOver
  <2>5. CASE limiter[6].last # 0
    <3>1. PICK u \in 0 .. clock - PauseTicks : limiter[6].last = (start + u) % NowMod
      BY <2>3, <2>5 DEF OpenedBy
    <3>2. /\ start \in Nat /\ clock \in Nat /\ Second \in Nat /\ PauseTicks \in Nat /\ PauseTicks >= Second
          /\ NowMod \in Nat
      BY BurstAssumption DEF BurstTypes
    <3>3. 2 * clock < NowMod
      BY <2>1, ClockBound
    <3>4. u \in Nat /\ u <= clock /\ clock - u >= Second /\ 2 * (clock - u) < NowMod
      BY <3>1, <3>2, <3>3
    <3>5. timer_diff((start + clock) % NowMod, (start + u) % NowMod) = clock - u
      BY <3>2, <3>4, TimerDiff
    <3>6. timer_diff(tcp_now, limiter[6].last) >= Second
      BY <3>1, <3>4, <3>5 DEF tcp_now
    <3> QED  BY <2>2, <3>6 DEF SecondOver
  <2> QED  BY <2>4, <2>5
<1> QED  BY <1>1, <1>2

\* Tight only speaks of what passed between two probes: it is kept when the
\* last of them was earlier.
LEMMA TightEarlier ==
    ASSUME BurstTypes, FirstInv, NEW j \in 1 .. 9, NEW k \in 1 .. 9,
           clock - passed[j].first < Second,
           (start + passed[j].first) % NowMod # 0
    PROVE  Tight(j, k)
<1>1. /\ passed[j].first \in Nat /\ passed[k].last \in Nat /\ clock \in Nat /\ Second \in Nat
      /\ passed[k].last <= clock
  BY Numbers, ScriptFacts, BurstAssumption DEF BurstTypes, FirstInv
<1>2. passed[k].last - passed[j].first < Second
  BY <1>1
<1> QED  BY <1>2 DEF Tight, InOneSecond, NowNonzero

\* The running burst's probe within a second that a burst j opened: the
\* limiter still counts that second.
LEMMA WindowGoesOn ==
    ASSUME BurstTypes, FirstInv, NEW j \in 1 .. 9, WindowOf(j),
           clock - passed[j].first < Second,
           (start + passed[j].first) % NowMod # 0
    PROVE  ~ SecondOver(limiter[Script[j].peer])
<1>1. passed[j].first \in Nat /\ clock \in Nat /\ passed[j].first <= clock
  <2>1. /\ passed[j].first \in Nat /\ passed[j].last \in Nat /\ clock \in Nat
        /\ passed[j].first <= passed[j].last /\ passed[j].last <= clock
    BY Numbers, ScriptFacts DEF BurstTypes, FirstInv
  <2> QED  BY <2>1
<1>2. limiter[Script[j].peer].last = (start + passed[j].first) % NowMod
  BY DEF WindowOf
<1>3. limiter[Script[j].peer].last # 0
  BY <1>2
<1> QED  BY <1>1, <1>2, <1>3, NotOver

\* The history of the burst whose own probe is taken in.
LEMMA OwnHistory ==
    ASSUME NEW s \in 1 .. 9, s = step, Running,
           NEW p \in Peers, NEW v, NEW a \in BOOLEAN, ProbeStep(s, p, v, a)
    PROVE  /\ passed'[s].handled = passed[s].handled + 1
           /\ passed'[s].acks = IF a THEN passed[s].acks + 1 ELSE passed[s].acks
           /\ passed'[s].first = IF passed[s].handled = 0 THEN clock ELSE passed[s].first
           /\ passed'[s].last = clock
           /\ \A k \in 1 .. 9 : k # s => passed'[k] = passed[k]
           /\ start' = start /\ clock' = clock /\ step' = step /\ pc' = pc /\ begun' = begun /\ wake' = wake
BY DEF ProbeStep

\* A probe of the running burst in a second this burst opened: the answers
\* follow the limit.
LEMMA OwnWindow ==
    ASSUME BurstTypes, FifoInv, AliveInv, FirstInv, FreshInv, SizedInv, OpenInv, PauseInv, ClockInv,
           NEW s \in 1 .. 9, s = step, Running, Opens(s),
           NEW p \in Peers, NEW v, NEW a \in BOOLEAN, ProbeStep(s, p, v, a), Tight(s, s)'
    PROVE  passed'[s].acks = Capped(s)' /\ WindowOf(s)'
<1>1. /\ p = Script[s].peer /\ a = ~ v.limited /\ limiter[p] \in Limiter
      /\ v = tcp_is_ack_ratelimited(limiter[p], Script[s].limit) /\ limiter'[p] = v.to
  BY OwnProbe
<1>2. /\ passed'[s].handled = passed[s].handled + 1
      /\ passed'[s].acks = IF a THEN passed[s].acks + 1 ELSE passed[s].acks
      /\ passed'[s].first = IF passed[s].handled = 0 THEN clock ELSE passed[s].first
      /\ passed'[s].last = clock /\ start' = start /\ clock' = clock
  BY OwnHistory
<1>3. passed[s].handled \in Nat /\ passed[s].acks \in Nat /\ passed[s].first \in Nat /\ clock \in Nat
  BY Numbers DEF BurstTypes
<1>4. PICK L \in Nat \ {0} : L = Script[s].limit
  BY Limits
<1>5. Capped(s)' = IF passed[s].handled + 1 < L THEN passed[s].handled + 1 ELSE L
  BY <1>2, <1>4 DEF Capped
<1>6. CASE passed[s].handled = 0
  <2>1. SecondOver(limiter[p])
    BY <1>1, <1>6, OpensOver
  <2>2. v.limited = FALSE /\ v.to = [last |-> tcp_now, count |-> 1]
    BY <1>1, <2>1, OpeningVerdict
  <2>3. passed[s].acks = 0
    BY <1>3, <1>6, RunningFacts
  <2>4. passed'[s].acks = 1 /\ limiter'[p].count = 1 /\ limiter'[p].last = tcp_now
    <3>1. a
      BY <1>1, <2>2, Zenon
    <3>2. passed'[s].acks = 1
      BY <1>2, <2>3, <3>1
    <3> QED  BY <1>1, <2>2, <3>2
  <2>5. Capped(s)' = 1
    BY <1>4, <1>5, <1>6
  <2>6. limiter'[p].last = (start' + passed'[s].first) % NowMod
    BY <1>2, <1>6, <2>4 DEF tcp_now
  <2> QED  BY <1>1, <2>4, <2>5, <2>6 DEF WindowOf
<1>7. CASE passed[s].handled # 0
  <2>1. passed[s].handled > 0 /\ passed'[s].first = passed[s].first
    BY <1>2, <1>3, <1>7
  <2>2. /\ clock - passed[s].first < Second
        /\ (start + passed[s].first) % NowMod # 0
    BY <1>2, <2>1 DEF Tight, InOneSecond, NowNonzero
  <2>3. Tight(s, s)
    BY <2>2, TightEarlier
  <2>4. WindowOf(s)
    BY <2>1, <2>3 DEF OpenInv
  <2>5. s \in begun .. step
    BY StepRange
  <2>6. passed[s].acks = Capped(s)
    BY <2>1, <2>3, <2>5 DEF SizedInv
  <2>7. ~ SecondOver(limiter[p])
    BY <1>1, <2>2, <2>4, WindowGoesOn
  <2>8. /\ limiter[p].last = (start + passed[s].first) % NowMod
        /\ limiter[p].count = Capped(s)
    BY <1>1, <2>4 DEF WindowOf
  <2>9. Capped(s) = IF passed[s].handled < L THEN passed[s].handled ELSE L
    BY <1>4 DEF Capped
  <2>10. PICK c \in Int : c = Capped(s) /\ c = limiter[p].count /\ c = passed[s].acks
    BY <1>3, <1>4, <2>6, <2>8, <2>9
  <2>11. /\ v.limited <=> c >= L
         /\ v.to.last = limiter[p].last
         /\ v.to.count = IF c >= L THEN c ELSE c + 1
    <3>1. /\ v.limited <=> limiter[p].count >= L
          /\ v.to.last = limiter[p].last
          /\ v.to.count = IF limiter[p].count >= L THEN limiter[p].count ELSE limiter[p].count + 1
      <4>1. L \in Nat /\ v = tcp_is_ack_ratelimited(limiter[p], L)
        BY <1>1, <1>4
      <4>2. PICK l \in Limiter : l = limiter[p]
        BY <1>1
      <4>3. ~ SecondOver(l)
        BY <2>7, <4>2
      <4>4. /\ tcp_is_ack_ratelimited(l, L).limited <=> l.count >= L
            /\ tcp_is_ack_ratelimited(l, L).to.last = l.last
            /\ tcp_is_ack_ratelimited(l, L).to.count = IF l.count >= L THEN l.count ELSE l.count + 1
        BY <4>1, <4>3, WithinVerdict
      <4>5. v = tcp_is_ack_ratelimited(l, L)
        BY <4>1, <4>2
      <4>6. v.limited <=> l.count >= L
        BY <4>4, <4>5, Zenon
      <4>7. v.to.last = l.last
        BY <4>4, <4>5, Zenon
      <4>8. v.to.count = IF l.count >= L THEN l.count ELSE l.count + 1
        BY <4>4, <4>5, Zenon
      <4> QED  BY <4>2, <4>6, <4>7, <4>8
    <3> QED  BY <2>10, <3>1
  <2>12. passed'[s].acks = IF c >= L THEN c ELSE c + 1
    BY <1>1, <1>2, <2>10, <2>11
  <2>13. Capped(s)' = IF c >= L THEN c ELSE c + 1
    BY <1>3, <1>4, <1>5, <2>9, <2>10
  <2>14. limiter'[p].last = (start' + passed'[s].first) % NowMod
    BY <1>1, <1>2, <2>1, <2>8, <2>11
  <2> QED  BY <1>1, <2>11, <2>12, <2>13, <2>14 DEF WindowOf
<1> QED  BY <1>6, <1>7

\* A probe of burst 7 within the second of burst 6, whose limit is spent:
\* no answer, and the limiter is left alone.
LEMMA OwnSilent ==
    ASSUME BurstTypes, AliveInv, FirstInv, SpentInv, step = 7, Running,
           Owed(6) = 0, passed[6].handled >= Script[6].limit,
           NEW p \in Peers, NEW v, NEW a \in BOOLEAN, ProbeStep(7, p, v, a), Tight(6, 7)'
    PROVE  WindowOf(6)' /\ ~ a
<1>1. /\ p = Script[7].peer /\ a = ~ v.limited /\ limiter[p] \in Limiter
      /\ v = tcp_is_ack_ratelimited(limiter[p], Script[7].limit) /\ limiter'[p] = v.to
  BY OwnProbe
<1>2. passed'[7].last = clock /\ passed'[6] = passed[6] /\ start' = start
  BY OwnHistory
<1>3. /\ clock - passed[6].first < Second
      /\ (start + passed[6].first) % NowMod # 0
  BY <1>2 DEF Tight, InOneSecond, NowNonzero
<1>4. Tight(6, 6) /\ Tight(6, 7)
  BY <1>3, TightEarlier
<1>5. WindowOf(6)
  BY <1>4 DEF SpentInv, Running
<1>6. Script[6].peer = p /\ Script[6].limit = Script[7].limit
  BY <1>1, ScriptFacts
<1>7. ~ SecondOver(limiter[p])
  BY <1>3, <1>5, <1>6, WindowGoesOn
<1>8. PICK L \in Nat \ {0} : L = Script[6].limit
  BY Limits
<1>9. Capped(6) = L
  BY <1>8, Numbers DEF Capped
<1>10. limiter[p].last = (start + passed[6].first) % NowMod /\ limiter[p].count = L
  BY <1>5, <1>6, <1>9 DEF WindowOf
<1>11. v.limited /\ v.to.last = limiter[p].last /\ v.to.count = L
  BY <1>1, <1>6, <1>7, <1>8, <1>10, WithinVerdict
<1>12. Capped(6)' = L
  BY <1>2, <1>9 DEF Capped
<1>13. WindowOf(6)'
  BY <1>1, <1>2, <1>6, <1>10, <1>11, <1>12 DEF WindowOf
<1> QED  BY <1>1, <1>11, <1>13

\* A verdict leaves the limiter's second as it is or opens one now.
LEMMA VerdictLast ==
    ASSUME NEW l \in Limiter, NEW n \in Nat
    PROVE  \/ tcp_is_ack_ratelimited(l, n).to.last = l.last
           \/ tcp_is_ack_ratelimited(l, n).to.last = tcp_now
<1>1. CASE SecondOver(l)
  <2>1. tcp_is_ack_ratelimited(l, n).to = [last |-> tcp_now, count |-> 1]
    BY <1>1, OpeningVerdict
  <2> QED  BY <2>1
<1>2. CASE ~ SecondOver(l)
  BY <1>2, WithinVerdict
<1> QED  BY <1>1, <1>2

\* The input of a probe keeps what the limiter and the answers show.
LEMMA ProbeLimiter ==
    ASSUME BurstTypes, FifoInv, AliveInv, LimiterInv, KernelProbe
    PROVE  LimiterInv'
<1> USE DEF LimiterInv
<1> PICK s \in 1 .. 9 : s = step
  BY StepRange
<1>1. PICK v : \E h \in 1 .. 9, p \in Peers, a \in BOOLEAN : ProbeStep(h, p, v, a)
  BY ProbeFacts
<1>2. PICK h \in 1 .. 9, p \in Peers, a \in BOOLEAN : ProbeStep(h, p, v, a)
  BY <1>1
<1>3. /\ p = Script[h].peer /\ h = Head(probes) /\ probes # <<>>
      /\ step' = s /\ begun' = begun /\ pc' = pc /\ wake' = wake /\ clock' = clock
      /\ start' = start /\ spent' = spent /\ res' = res
      /\ \A k \in 1 .. 9 : k # h => passed'[k] = passed[k]
  BY <1>2 DEF ProbeStep
<1>4. \A k \in 1 .. 9 : Script[k].peer # p => limiter'[Script[k].peer] = limiter[Script[k].peer]
  BY <1>2, ScriptFacts DEF ProbeStep, BurstTypes, Peers
<1>5. /\ h \in begun .. s /\ h <= s /\ ~ ToCome(h) /\ Owed(h) # 0
      /\ Running /\ h # s => passed[s].handled = 0
  <2>1. begun \in 1 .. 9
    BY StepRange
  <2> QED  BY <1>3, <2>1, HeadProbe
<1>6. (Running' <=> Running) /\ (h = s => Running \/ pc = "done")
  BY <1>3, <1>5 DEF Running, ToCome, BurstTypes
<1>7. \A k \in 1 .. 9 : k # h => Owed(k)' = Owed(k)
  BY <1>3 DEF Owed
<1>8. ~ (h = s /\ Running) => Owed(h)' = Owed(h)
  BY <1>2 DEF ProbeStep, Owed
<1>9. \A j \in 1 .. 9 : j < s => Owed(j)' = Owed(j)
  BY OwedStays DEF Next
<1>10. \A k \in 1 .. 9 : k <= s /\ Opens(k)' => Opens(k)
  BY <1>9 DEF Opens
<1>11. ASSUME h = s, Running
       PROVE  /\ passed'[s].handled > 0 /\ passed'[s].last = clock
              /\ Opens(s)' /\ Tight(s, s)' => passed'[s].acks = Capped(s)' /\ WindowOf(s)'
  <2>1. passed'[s].handled = passed[s].handled + 1 /\ passed'[s].last = clock
    BY <1>2, <1>11, OwnHistory
  <2>2. passed'[s].handled > 0
    BY <2>1, Numbers
  <2>3. ASSUME Opens(s)', Tight(s, s)'
        PROVE  passed'[s].acks = Capped(s)' /\ WindowOf(s)'
    BY <1>2, <1>10, <1>11, <2>3, OwnWindow
  <2> QED  BY <2>1, <2>2, <2>3
<1>12. \A j, k \in 1 .. 9 : j # h /\ k # h => (Tight(j, k)' <=> Tight(j, k))
  BY <1>3 DEF Tight, InOneSecond, NowNonzero
<1>13. \A k \in 1 .. 9 : k # h => Capped(k)' = Capped(k)
  BY <1>3 DEF Capped
<1>14. \A k \in 1 .. 9 : k # h /\ Script[k].peer # p => (WindowOf(k)' <=> WindowOf(k))
  BY <1>3, <1>4, <1>13 DEF WindowOf
<1>15. FirstInv'
  <2> SUFFICES ASSUME NEW k \in 1 .. 9
               PROVE  passed'[k].first <= passed'[k].last /\ passed'[k].last <= clock
    BY <1>3, ScriptFacts DEF FirstInv
  <2>1. passed[k].first <= passed[k].last /\ passed[k].last <= clock
    BY ScriptFacts DEF FirstInv
  <2>2. passed[k].first \in Nat /\ passed[k].last \in Nat /\ clock \in Nat
    BY Numbers DEF BurstTypes
  <2>3. CASE k # h
    BY <1>3, <2>1, <2>3
  <2>4. CASE k = h
    <3>1. /\ passed'[k].first = IF passed[k].handled = 0 THEN clock ELSE passed[k].first
          /\ passed'[k].last = clock
      BY <1>2, <2>4 DEF ProbeStep
    <3> QED  BY <2>1, <2>2, <3>1
  <2> QED  BY <2>3, <2>4
<1>16. FreshInv'
  <2> SUFFICES ASSUME NEW k \in FirstOfPeer, k > s \/ (k = s /\ passed'[k].handled = 0 /\ pc # "done")
               PROVE  limiter'[Script[k].peer].last = 0
    BY <1>3 DEF FreshInv
  <2>1. k \in 1 .. 9
    BY FirstBursts
  <2>2. h < k
    BY <1>5, <1>6, <1>11, <2>1
  <2>3. Script[k].peer # p /\ passed'[k] = passed[k]
    BY <1>3, <2>1, <2>2, FirstAlone
  <2> QED  BY <1>4, <2>1, <2>3 DEF FreshInv
<1>17. SizedInv'
  <2> SUFFICES ASSUME NEW k \in begun .. s, passed'[k].handled > 0, Opens(k)', Tight(k, k)',
                      Owed(k)' = 0 \/ (k = s /\ Running)
               PROVE  passed'[k].acks = Capped(k)'
    BY <1>3, <1>6 DEF SizedInv
  <2>1. k \in 1 .. 9 /\ k <= s
    BY StepRange
  <2>2. Opens(k)
    BY <1>10, <2>1
  <2>3. CASE k # h
    BY <1>3, <1>7, <1>12, <1>13, <2>1, <2>2, <2>3 DEF SizedInv
  <2>4. CASE k = h
    <3>1. h = s /\ Running
      BY <1>5, <1>8, <2>4
    <3> QED  BY <1>11, <2>4, <3>1
  <2> QED  BY <2>3, <2>4
<1>18. OpenInv'
  <2> SUFFICES ASSUME Running, passed'[s].handled > 0, Opens(s)', Tight(s, s)'
               PROVE  WindowOf(s)'
    <3>1. /\ WindowOf(step)' <=> WindowOf(s)'
          /\ Tight(step, step)' <=> Tight(s, s)'
          /\ Opens(step)' <=> Opens(s)'
      BY <1>3 DEF WindowOf, Capped, Tight, InOneSecond, NowNonzero, Opens
    <3> QED  BY <1>3, <1>6, <3>1 DEF OpenInv
  <2>1. h = s
    BY <1>3, <1>5
  <2> QED  BY <1>11, <2>1
<1>19. SpentInv'
  <2> SUFFICES ASSUME Owed(6)' = 0, passed'[6].handled >= Script[6].limit, s = 7, pc # "done",
                      IF passed'[7].handled > 0 THEN Tight(6, 7)' ELSE Tight(6, 6)'
               PROVE  WindowOf(6)'
    BY <1>3 DEF SpentInv
  <2>1. Owed(6) = 0 /\ h # 6
    BY <1>5, <1>9
  <2>2. passed[6].handled >= Script[6].limit
    BY <1>3, <2>1
  <2>3. CASE h = 7
    <3>1. Running /\ Tight(6, 7)'
      BY <1>6, <1>11, <2>3
    <3> QED  BY <1>2, <2>1, <2>2, <2>3, <3>1, OwnSilent
  <2>4. CASE h < 6
    <3>1. Script[6].peer # p /\ passed'[7] = passed[7]
      BY <1>3, <2>4, ScriptFacts
    <3>2. IF passed[7].handled > 0 THEN Tight(6, 7) ELSE Tight(6, 6)
      BY <1>12, <2>4, <3>1
    <3>3. WindowOf(6)
      BY <2>1, <2>2, <3>2 DEF SpentInv
    <3> QED  BY <1>14, <2>1, <3>1, <3>3
  <2> QED  BY <1>5, <2>1, <2>3, <2>4
<1>20. SilentInv'
  <2> SUFFICES ASSUME Owed(6)' = 0, passed'[6].handled >= Script[6].limit, s >= 7, Tight(6, 7)',
                      passed'[7].handled > 0, Owed(7)' = 0 \/ (s = 7 /\ Running)
               PROVE  passed'[7].acks = 0
    BY <1>3, <1>6 DEF SilentInv
  <2>1. Owed(6) = 0 /\ h # 6
    BY <1>5, <1>9
  <2>2. passed[6].handled >= Script[6].limit /\ passed'[6] = passed[6]
    BY <1>3, <2>1
  <2>3. CASE h # 7
    BY <1>3, <1>7, <1>12, <2>1, <2>2, <2>3 DEF SilentInv
  <2>4. CASE h = 7
    <3>1. s = 7 /\ Running
      BY <1>5, <1>8, <2>4
    <3>2. ~ a
      BY <1>2, <2>1, <2>2, <2>4, <3>1, OwnSilent
    <3>3. passed'[7].acks = passed[7].acks
      BY <1>2, <2>4, <3>1, <3>2, OwnHistory
    <3>4. CASE passed[7].handled = 0
      <4>1. passed[7].acks <= passed[7].handled
        BY <3>1, RunningFacts
      <4>2. passed[7].acks \in Nat
        BY Numbers
      <4> QED  BY <3>3, <3>4, <4>1, <4>2
    <3>5. CASE passed[7].handled # 0
      <4>1. passed[7].handled > 0
        BY <3>5, Numbers
      <4>2. /\ clock - passed[6].first < Second
            /\ (start + passed[6].first) % NowMod # 0
        BY <1>3, <1>11, <2>2, <2>4, <3>1 DEF Tight, InOneSecond, NowNonzero
      <4>3. Tight(6, 7)
        BY <4>2, TightEarlier
      <4> QED  BY <2>1, <2>2, <3>1, <3>3, <4>1, <4>3 DEF SilentInv
    <3> QED  BY <3>4, <3>5
  <2> QED  BY <2>3, <2>4
<1>21. PauseInv'
  <2>1. OpenedBy(clock)'
    <3>1. limiter'[6].last = limiter[6].last \/ limiter'[6].last = tcp_now
      <4>1. limiter[p] \in Limiter /\ LimitInForce \in Nat /\ limiter \in [Peers -> Limiter] /\ 6 \in Peers
        BY InForce DEF BurstTypes, Peers
      <4>2. v = tcp_is_ack_ratelimited(limiter[p], LimitInForce)
        BY <1>2 DEF ProbeStep
      <4>3. v.to.last = limiter[p].last \/ v.to.last = tcp_now
        BY <4>1, <4>2, VerdictLast
      <4>4. limiter' = limiter \/ limiter' = [limiter EXCEPT ![p] = v.to]
        BY <1>2 DEF ProbeStep
      <4> QED  BY <4>1, <4>3, <4>4
    <3>2. CASE limiter'[6].last = limiter[6].last
      BY <1>3, <3>2 DEF PauseInv, OpenedBy
    <3>3. CASE limiter'[6].last = tcp_now
      <4>1. clock \in 0 .. clock
        BY DEF BurstTypes
      <4> QED  BY <1>3, <3>3, <4>1 DEF OpenedBy, tcp_now
    <3> QED  BY <3>1, <3>2, <3>3
  <2>2. ASSUME s = 8, pc # "done", Owed(6)' = 0, Owed(7)' = 0, passed'[8].handled = 0
        PROVE  OpenedBy((IF pc = "ready" THEN wake ELSE clock) - PauseTicks)'
    <3>1. Owed(6) = 0 /\ Owed(7) = 0 /\ h # 6 /\ h # 7
      BY <1>5, <1>9, <2>2
    <3>2. h # 8
      BY <1>6, <1>11, <2>2
    <3>3. Script[6].peer # p /\ Script[6].peer = 6
      BY <1>3, <1>5, <2>2, <3>1, <3>2, ScriptFacts
    <3>4. limiter'[6] = limiter[6] /\ passed'[8] = passed[8]
      BY <1>3, <1>4, <3>2, <3>3
    <3>5. OpenedBy((IF pc = "ready" THEN wake ELSE clock) - PauseTicks)
      BY <2>2, <3>1, <3>4 DEF PauseInv
    <3> QED  BY <1>3, <3>4, <3>5 DEF OpenedBy
  <2> QED  BY <1>3, <2>1, <2>2 DEF PauseInv
<1>22. ClockInv'
  BY <1>3 DEF ClockInv, Allowed
<1> QED  BY <1>15, <1>16, <1>17, <1>18, <1>19, <1>20, <1>21, <1>22

\* A step other than the input of a probe leaves the limiter and its history alone.
LEMMA OtherSteps ==
    ASSUME BurstTypes, Next, ~ KernelProbe
    PROVE  /\ limiter' = limiter /\ start' = start /\ begun' = begun
           /\ \A k \in 1 .. 9 :
                 /\ passed'[k].handled = passed[k].handled /\ passed'[k].acks = passed[k].acks
                 /\ passed'[k].first = passed[k].first /\ passed'[k].last = passed[k].last
           /\ pc # "done"
           /\ \/ step' = step /\ (pc = "ready" => pc' = "ready" \/ Begin)
              \/ EndBurst /\ pc = "collecting" /\ pc' = "ready" /\ step' = step + 1
           /\ clock' = clock \/ (Tick /\ clock' = clock + 1)
<1>1. CASE Collect
  BY <1>1, CollectFacts DEF CollectStep
<1>2. CASE EndBurst
  BY <1>2, EndFacts DEF EndStep
<1>3. CASE Begin \/ StartCollect \/ Tick \/ \E ok \in BOOLEAN : SendProbe(ok)
  BY <1>3 DEF Begin, StartCollect, Tick, SendProbe
<1> QED  BY <1>1, <1>2, <1>3 DEF Next

\* The other steps keep what the limiter and the answers show.
LEMMA OtherLimiter ==
    ASSUME BurstTypes, FifoInv, LimiterInv, Next, ~ KernelProbe
    PROVE  FirstInv' /\ FreshInv' /\ SizedInv' /\ OpenInv' /\ SpentInv' /\ SilentInv'
<1> USE DEF LimiterInv
<1> PICK s \in 1 .. 9 : s = step
  BY StepRange
<1>1. /\ limiter' = limiter /\ start' = start /\ begun' = begun /\ pc # "done"
      /\ \A k \in 1 .. 9 :
            /\ passed'[k].handled = passed[k].handled /\ passed'[k].acks = passed[k].acks
            /\ passed'[k].first = passed[k].first /\ passed'[k].last = passed[k].last
      /\ clock' = clock \/ clock' = clock + 1
  BY OtherSteps
<1>2. \/ step' = s /\ (pc = "ready" => pc' = "ready" \/ Begin)
      \/ EndBurst /\ pc = "collecting" /\ pc' = "ready" /\ step' = s + 1
  BY OtherSteps
<1>3. \A k \in 1 .. 9 : ToCome(k) => passed[k].handled = 0
  BY ScriptFacts DEF FifoInv, IdleInv
<1>4. \A k \in 1 .. 9 : k > s => passed[k].handled = 0
  BY <1>3 DEF ToCome
<1>5. passed[s].handled > 0 => Running
  BY <1>1, <1>3 DEF ToCome, Running, BurstTypes
<1>6. \A j \in 1 .. 9 : j < s => Owed(j)' = Owed(j)
  BY OwedStays
<1>7. \A k \in 1 .. 9 : k <= s /\ Opens(k)' => Opens(k)
  BY <1>6 DEF Opens
<1>8. \A j, k \in 1 .. 9 : Tight(j, k)' <=> Tight(j, k)
  BY <1>1 DEF Tight, InOneSecond, NowNonzero
<1>9. \A k \in 1 .. 9 : Capped(k)' = Capped(k)
  BY <1>1 DEF Capped
<1>10. \A k \in 1 .. 9 : WindowOf(k)' <=> WindowOf(k)
  BY <1>1, <1>9 DEF WindowOf
<1>11. FirstInv'
  <2>1. clock \in Nat /\ clock' \in Nat /\ clock <= clock'
    BY <1>1 DEF BurstTypes
  <2>2. \A k \in 1 .. 9 : passed[k].last \in Nat /\ passed[k].first \in Nat
    BY Numbers
  <2>3. \A k \in 1 .. 9 : passed[k].first <= passed[k].last /\ passed[k].last <= clock
    BY ScriptFacts DEF FirstInv
  <2>4. \A k \in 1 .. 9 : passed'[k].first <= passed'[k].last /\ passed'[k].last <= clock'
    BY <1>1, <2>1, <2>2, <2>3
  <2> QED  BY <2>4, ScriptFacts DEF FirstInv
<1>12. FreshInv'
  <2> SUFFICES ASSUME NEW k \in FirstOfPeer,
                      k > step' \/ (k = step' /\ passed'[k].handled = 0 /\ pc' # "done")
               PROVE  limiter[Script[k].peer].last = 0
    BY <1>1 DEF FreshInv
  <2>1. k \in 1 .. 9
    BY FirstBursts
  <2>2. k > s \/ (k = s /\ passed[k].handled = 0)
    BY <1>1, <1>2, <2>1
  <2> QED  BY <1>1, <2>2 DEF FreshInv
<1>13. SizedInv'
  <2> SUFFICES ASSUME NEW k \in begun .. step', passed'[k].handled > 0, Opens(k)', Tight(k, k)',
                      Owed(k)' = 0 \/ (k = step' /\ Running')
               PROVE  passed'[k].acks = Capped(k)'
    BY <1>1 DEF SizedInv
  <2>1. step' \in 1 .. 9 /\ begun \in 1 .. s
    <3>1. begun \in 1 .. s
      BY StepRange
    <3>2. CASE EndBurst
      <4>1. EndStep
        BY <3>2, EndFacts
      <4> QED  BY <3>1, <4>1 DEF EndStep
    <3>3. CASE step' = s
      BY <3>1, <3>3
    <3> QED  BY <1>2, <3>2, <3>3
  <2>2. k \in 1 .. 9
    BY <2>1
  <2>3. k <= s
    BY <1>1, <1>4, <2>2
  <2>4. k \in begun .. s
    BY <2>1, <2>2, <2>3
  <2>5. Owed(k) = 0 \/ (k = s /\ Running)
    <3>1. CASE k = s
      BY <1>1, <1>5, <2>2, <3>1
    <3>2. CASE k < s
      BY <1>2, <1>6, <2>2, <3>2
    <3> QED  BY <2>2, <2>3, <3>1, <3>2
  <2>6. Opens(k) /\ Tight(k, k) /\ passed[k].handled > 0
    BY <1>1, <1>7, <1>8, <2>2, <2>3
  <2>7. passed[k].acks = Capped(k)
    BY <2>4, <2>5, <2>6 DEF SizedInv
  <2> QED  BY <1>1, <1>9, <2>2, <2>7
<1>14. OpenInv'
  <2> SUFFICES ASSUME Running', passed'[step'].handled > 0, Opens(step)', Tight(step, step)'
               PROVE  WindowOf(step)'
    BY DEF OpenInv
  <2>1. step' = s
    BY <1>2 DEF Running
  <2>2. Opens(s)' /\ Tight(s, s)' /\ passed'[s].handled > 0
    BY <2>1 DEF Opens, Tight, InOneSecond, NowNonzero
  <2>3. Opens(s) /\ Tight(s, s) /\ passed[s].handled > 0
    BY <1>1, <1>7, <1>8, <2>2
  <2>4. WindowOf(s)
    BY <1>5, <2>3 DEF OpenInv
  <2>5. WindowOf(s)'
    BY <1>10, <2>4
  <2> QED  BY <2>1, <2>5 DEF WindowOf, Capped
<1>15. SpentInv'
  <2> SUFFICES ASSUME Owed(6)' = 0, passed'[6].handled >= Script[6].limit, step' = 7,
                      IF passed'[7].handled > 0 THEN Tight(6, 7)' ELSE Tight(6, 6)'
               PROVE  WindowOf(6)'
    BY DEF SpentInv
  <2>1. /\ passed[6].handled >= Script[6].limit
        /\ IF passed[7].handled > 0 THEN Tight(6, 7) ELSE Tight(6, 6)
    BY <1>1, <1>8
  <2>2. s = 7 \/ (s = 6 /\ Running)
    BY <1>2 DEF Running
  <2>3. CASE s = 7
    BY <1>1, <1>6, <1>10, <2>1, <2>3 DEF SpentInv
  <2>4. CASE s = 6 /\ Running
    <3>1. passed[7].handled = 0
      BY <1>4, <2>4
    <3>2. Tight(6, 6) /\ Opens(6)
      BY <2>1, <3>1, FirstBursts DEF Opens
    <3>3. passed[6].handled > 0
      BY <2>1, Limits, Numbers
    <3>4. WindowOf(6)
      BY <2>4, <3>2, <3>3 DEF OpenInv
    <3> QED  BY <1>10, <3>4
  <2> QED  BY <2>2, <2>3, <2>4
<1>16. SilentInv'
  <2> SUFFICES ASSUME Owed(6)' = 0, passed'[6].handled >= Script[6].limit, step' >= 7, Tight(6, 7)',
                      passed'[7].handled > 0, Owed(7)' = 0 \/ (step' = 7 /\ Running')
               PROVE  passed'[7].acks = 0
    BY DEF SilentInv
  <2>1. passed[6].handled >= Script[6].limit /\ Tight(6, 7) /\ passed[7].handled > 0
    BY <1>1, <1>8
  <2>2. s >= 7
    BY <1>4, <2>1
  <2>3. Owed(7) = 0 \/ (s = 7 /\ Running)
    BY <1>2, <1>5, <1>6, <2>1, <2>2
  <2>4. passed[7].acks = 0
    BY <1>6, <2>1, <2>2, <2>3 DEF SilentInv
  <2> QED  BY <1>1, <2>4
<1> QED  BY <1>11, <1>12, <1>13, <1>14, <1>15, <1>16

\* The limiter of the third burst's connection was last opened before the
\* pause, and time passes in the waits and the stalls only.
LEMMA OtherPause ==
    ASSUME BurstTypes, FifoInv, LimiterInv, Next, ~ KernelProbe
    PROVE  PauseInv'
<1> USE DEF LimiterInv
<1> PICK s \in 1 .. 9 : s = step
  BY StepRange
<1>1. /\ limiter' = limiter /\ start' = start /\ pc # "done"
      /\ \A k \in 1 .. 9 : passed'[k].handled = passed[k].handled
      /\ clock' = clock \/ (Tick /\ clock' = clock + 1)
  BY OtherSteps
<1>2. clock \in Nat /\ wake \in Nat /\ PauseTicks \in Nat
  BY BurstAssumption DEF BurstTypes
<1>3. ASSUME NEW t \in Int, NEW u \in Int, t <= u, OpenedBy(t)
      PROVE  limiter'[6].last = 0 \/ \E w \in 0 .. u : limiter'[6].last = (start' + w) % NowMod
  <2>1. \A w \in 0 .. t : w \in 0 .. u
    BY <1>3
  <2> QED  BY <1>1, <1>3, <2>1 DEF OpenedBy
<1>4. OpenedBy(clock)'
  <2>1. OpenedBy(clock) /\ clock' \in Int /\ clock <= clock'
    BY <1>1, <1>2 DEF PauseInv
  <2> QED  BY <1>2, <1>3, <2>1 DEF OpenedBy
<1>5. ASSUME step' = 8, pc' # "done", Owed(6)' = 0, Owed(7)' = 0, passed'[8].handled = 0
      PROVE  OpenedBy((IF pc = "ready" THEN wake ELSE clock) - PauseTicks)'
  <2>1. PICK t \in Int : t = (IF pc = "ready" THEN wake ELSE clock) - PauseTicks
    BY <1>2
  <2>2. PICK u : u = (IF pc' = "ready" THEN wake' ELSE clock') - PauseTicks
    OBVIOUS
  <2>3. CASE s = 8
    <3>1. Owed(6) = 0 /\ Owed(7) = 0
      BY <1>5, <2>3, OwedStays
    <3>2. OpenedBy(t)
      BY <1>1, <1>5, <2>1, <2>3, <3>1 DEF PauseInv
    <3>3. u \in Int /\ t <= u
      <4>1. CASE Begin
        BY <1>2, <2>1, <2>2, <4>1 DEF Begin
      <4>2. CASE Tick
        BY <1>2, <2>1, <2>2, <4>2 DEF Tick
      <4>3. CASE EndBurst
        BY <1>5, <2>3, <4>3, EndFacts DEF EndStep
      <4>4. CASE StartCollect \/ Collect \/ \E ok \in BOOLEAN : SendProbe(ok)
        BY <1>2, <2>1, <2>2, <4>4 DEF StartCollect, Collect, SendProbe
      <4> QED  BY <4>1, <4>2, <4>3, <4>4 DEF Next
    <3> QED  BY <1>3, <2>2, <3>2, <3>3 DEF OpenedBy
  <2>4. CASE s # 8
    <3>1. EndBurst /\ s = 7 /\ pc' = "ready"
      BY <1>5, <2>4, OtherSteps
    <3>2. EndStep
      BY <3>1, EndFacts
    <3>3. wake' = clock + PauseTicks
      BY <1>5, <3>1, <3>2, ScriptFacts DEF EndStep
    <3>4. u = clock
      BY <1>2, <2>2, <3>1, <3>3
    <3>5. OpenedBy(clock)
      BY DEF PauseInv
    <3> QED  BY <1>2, <1>3, <2>2, <3>4, <3>5 DEF OpenedBy
  <2> QED  BY <2>3, <2>4
<1> QED  BY <1>4, <1>5 DEF PauseInv

\* Time passes in the waits and the stalls only.
LEMMA OtherClock ==
    ASSUME BurstTypes, ClockInv, Next, ~ KernelProbe
    PROVE  ClockInv'
<1> PICK s \in 1 .. 9 : s = step
  BY StepRange
<1>1. /\ CollectTicks \in Nat /\ PauseTicks \in Nat /\ MaxStall \in Nat
      /\ clock \in Nat /\ wake \in Nat /\ spent.stall \in Nat
  BY BurstAssumption DEF BurstTypes
<1>2. PICK c \in Nat : c = s * CollectTicks
  BY <1>1
<1>3. PICK b \in Nat : b = (s - 1) * CollectTicks
  BY <1>1
<1>4. c = b + CollectTicks
  BY <1>1, <1>2, <1>3
<1>5. PICK z \in Nat : z = IF s >= 8 THEN PauseTicks ELSE 0
  BY <1>1
<1>6. Allowed = spent.stall + (IF pc \in {"collecting", "done"} THEN c ELSE b) + z
  BY <1>2, <1>3, <1>5 DEF Allowed
<1>7. /\ spent.stall <= MaxStall /\ clock <= Allowed
      /\ pc \in {"ready", "collecting"} => wake <= Allowed
  BY DEF ClockInv
<1>8. step' = s => Allowed' = spent'.stall + (IF pc' \in {"collecting", "done"} THEN c ELSE b) + z
  BY <1>2, <1>3, <1>5 DEF Allowed
<1>9. CASE Begin
  <2>1. /\ step' = s /\ pc = "ready" /\ pc' = "sending" /\ clock' = clock /\ spent' = spent
    BY <1>9 DEF Begin
  <2>2. Allowed' = Allowed
    BY <1>6, <1>8, <2>1
  <2> QED  BY <1>7, <2>1, <2>2 DEF ClockInv
<1>10. CASE StartCollect
  <2>1. /\ step' = s /\ pc = "sending" /\ pc' = "collecting" /\ clock' = clock /\ spent' = spent
        /\ wake' = clock + CollectTicks
    BY <1>10 DEF StartCollect
  <2>2. Allowed = spent.stall + b + z /\ Allowed' = spent.stall + c + z
    BY <1>6, <1>8, <2>1
  <2>3. wake' <= Allowed' /\ clock' <= Allowed'
    BY <1>1, <1>4, <1>7, <2>1, <2>2
  <2> QED  BY <1>7, <2>1, <2>3 DEF ClockInv
<1>11. CASE Tick
  <2>1. /\ step' = s /\ pc' = pc /\ wake' = wake /\ clock' = clock + 1
    BY <1>11 DEF Tick
  <2>2. CASE Waiting /\ spent' = spent
    <3>1. pc \in {"ready", "collecting"} /\ clock < wake
      BY <2>2 DEF Waiting
    <3>2. Allowed' = Allowed
      BY <1>6, <1>8, <2>1, <2>2
    <3>3. Allowed \in Int
      BY <1>1, <1>6
    <3>4. clock' <= Allowed' /\ wake' <= Allowed'
      BY <1>1, <1>7, <2>1, <3>1, <3>2, <3>3
    <3> QED  BY <1>7, <2>2, <3>4 DEF ClockInv
  <2>3. CASE spent.stall < MaxStall /\ spent' = [spent EXCEPT !.stall = @ + 1]
    <3>1. spent'.stall = spent.stall + 1
      BY <2>3 DEF BurstTypes
    <3>2. Allowed' = Allowed + 1 /\ Allowed \in Int
      BY <1>1, <1>6, <1>8, <2>1, <3>1
    <3>3. clock' <= Allowed' /\ spent'.stall <= MaxStall
      BY <1>1, <1>7, <2>1, <2>3, <3>1, <3>2
    <3>4. pc \in {"ready", "collecting"} => wake <= Allowed'
      BY <1>1, <1>7, <3>2
    <3> QED  BY <2>1, <3>3, <3>4 DEF ClockInv
  <2> QED  BY <1>11, <2>2, <2>3 DEF Tick
<1>12. CASE EndBurst
  <2>1. EndStep
    BY <1>12, EndFacts
  <2>2. clock' = clock /\ spent' = spent /\ pc = "collecting"
    BY <2>1 DEF EndStep
  <2>3. Allowed = spent.stall + c + z
    BY <1>6, <2>2
  <2>4. CASE pc' = "done" /\ step' = s
    <3>1. Allowed' = Allowed
      BY <1>8, <2>2, <2>3, <2>4
    <3> QED  BY <1>7, <2>2, <2>4, <3>1 DEF ClockInv
  <2>5. CASE s < 9 /\ step' = s + 1 /\ pc' = "ready" /\ wake' = clock + Script[s + 1].pause
    <3>1. Script[s + 1].pause = IF s = 7 THEN PauseTicks ELSE 0
      BY <2>5, ScriptFacts
    <3>2. Allowed' = spent.stall + c + (IF s + 1 >= 8 THEN PauseTicks ELSE 0)
      BY <1>1, <1>2, <2>2, <2>5 DEF Allowed
    <3>3. wake' <= Allowed' /\ clock' <= Allowed'
      BY <1>1, <1>5, <1>7, <2>2, <2>3, <2>5, <3>1, <3>2
    <3> QED  BY <1>7, <2>2, <2>5, <3>3 DEF ClockInv
  <2> QED  BY <2>1, <2>4, <2>5 DEF EndStep
<1>13. CASE Collect \/ \E ok \in BOOLEAN : SendProbe(ok)
  <2>1. step' = s /\ pc' = pc /\ wake' = wake /\ clock' = clock /\ spent'.stall = spent.stall
    BY <1>13, SendFacts DEF SendStep, Collect
  <2>2. Allowed' = Allowed
    BY <1>6, <1>8, <2>1
  <2> QED  BY <1>7, <2>1, <2>2 DEF ClockInv
<1> QED  BY <1>9, <1>10, <1>11, <1>12, <1>13 DEF Next

-----------------------------------------------------------------------------
(* The theorems *)

\* The initial state.
LEMMA InitBurst == ASSUME Init PROVE BurstInv
<1>1. BurstTypes /\ FifoInv
  BY InitFifo
<1>2. Bursts = 1 .. 9 /\ FirstOfPeer \subseteq 1 .. 9
  BY ScriptFacts, FirstBursts
<1>3. /\ begun \in {1, 2, 3, 4, 6, 9} /\ step = begun /\ pc = "ready" /\ wake = 0 /\ clock = 0
      /\ limiter = [p \in Peers |-> [last |-> 0, count |-> 0]] /\ spent.stall = 0
      /\ res = [k \in 1 .. 9 |-> [acks |-> 0, sent |-> 0, send_failures |-> 0]]
      /\ passed = [k \in 1 .. 9 |-> [handled |-> 0, acks |-> 0, counted |-> 0, first |-> 0, last |-> 0]]
  BY <1>2, BurstAssumption DEF Init
<1>4. /\ \A k \in 1 .. 9 : Script[k].peer \in Peers /\ limiter[Script[k].peer].last = 0
      /\ limiter[6].last = 0
  BY <1>3, ScriptFacts DEF Peers
<1>5. \A k \in 1 .. 9 : passed[k].handled = 0 /\ passed[k].counted = 0 /\ res[k].acks = 0
        /\ passed[k].first = 0 /\ passed[k].last = 0
  BY <1>3
<1>6. AliveInv
  <2>1. Needs(begun) \subseteq Script[begun].up
    BY <1>3, ScriptFacts, ScriptSockets DEF Needs
  <2> QED  BY <1>3, <2>1 DEF AliveInv, Running
<1>7. CountInv
  BY <1>2, <1>5 DEF CountInv
<1>8. FirstInv
  BY <1>2, <1>3, <1>5 DEF FirstInv
<1>9. FreshInv
  BY <1>2, <1>4 DEF FreshInv
<1>10. SizedInv
  <2>1. begun .. step \subseteq 1 .. 9
    BY <1>1, StepRange
  <2> QED  BY <1>5, <2>1 DEF SizedInv
<1>11. OpenInv
  BY <1>3 DEF OpenInv, Running
<1>12. SpentInv /\ SilentInv
  BY <1>3, <1>5 DEF SpentInv, SilentInv
<1>13. PauseInv
  BY <1>3, <1>4 DEF PauseInv, OpenedBy
<1>14. ClockInv
  <2>1. PICK n \in 0 .. 8 : n = step - 1
    BY <1>3
  <2>2. n * CollectTicks \in Nat /\ PauseTicks \in Nat /\ MaxStall \in Nat
    BY BurstAssumption
  <2>3. PICK m \in Nat : m = n * CollectTicks
    BY <2>2
  <2>4. Allowed = m + (IF step >= 8 THEN PauseTicks ELSE 0)
    BY <1>3, <2>1, <2>2, <2>3 DEF Allowed
  <2>5. 0 <= Allowed
    BY <2>2, <2>4
  <2> QED  BY <1>3, <2>2, <2>5 DEF ClockInv
<1> QED  BY <1>1, <1>6, <1>7, <1>8, <1>9, <1>10, <1>11, <1>12, <1>13, <1>14 DEF BurstInv, LimiterInv

\* Every step keeps the invariant.
LEMMA NextBurst == ASSUME BurstInv, [Next]_vars PROVE BurstInv'
<1> USE DEF BurstInv
<1>1. CASE UNCHANGED vars
  <2>1. UNCHANGED <<begun, step, pc, wake, limiter, alive, probes, replies, res, clock, start, spent, passed>>
    BY <1>1 DEF vars
  <2>2. BurstTypes'
    BY <2>1 DEF BurstTypes
  <2>3. /\ \A k : Owed(k)' = Owed(k) /\ Unread(k)' = Unread(k)
        /\ Owed(step)' = Owed(step) /\ Unread(step)' = Unread(step)
    BY <2>1 DEF Owed, Unread
  <2>4. FifoInv'
    <3>1. RangeInv' /\ IdleInv'
      BY <2>1 DEF FifoInv, RangeInv, IdleInv, ToCome
    <3>2. LeftInv'
      BY <2>1, <2>3 DEF FifoInv, LeftInv, Settled
    <3>3. OrderInv'
      BY <2>1, <2>3 DEF FifoInv, OrderInv, Running
    <3> QED  BY <3>1, <3>2, <3>3 DEF FifoInv
  <2>5. AliveInv'
    BY <2>1 DEF AliveInv, Running, Needs
  <2>6. CountInv'
    BY <2>1, <2>3 DEF CountInv, Settled
  <2>7. FirstInv' /\ FreshInv' /\ ClockInv' /\ PauseInv'
    BY <2>1, <2>3 DEF LimiterInv, FirstInv, FreshInv, ClockInv, Allowed, PauseInv, OpenedBy
  <2>8. \A j, k : Tight(j, k)' <=> Tight(j, k)
    BY <2>1 DEF Tight, InOneSecond, NowNonzero
  <2>9. \A k : Capped(k)' = Capped(k) /\ (WindowOf(k)' <=> WindowOf(k)) /\ (Opens(k)' <=> Opens(k))
    BY <2>1, <2>3 DEF Capped, WindowOf, Opens
  <2>10. SizedInv'
    BY <2>1, <2>3, <2>8, <2>9 DEF LimiterInv, SizedInv, Running
  <2>11. OpenInv'
    <3>1. PICK s : s = step
      OBVIOUS
    <3>2. /\ WindowOf(step)' <=> WindowOf(s)
          /\ Tight(step, step)' <=> Tight(s, s)
          /\ Opens(step)' <=> Opens(s)
      BY <2>1, <2>3, <3>1 DEF WindowOf, Capped, Tight, InOneSecond, NowNonzero, Opens
    <3> QED  BY <2>1, <3>1, <3>2 DEF LimiterInv, OpenInv, Running
  <2>12. SpentInv' /\ SilentInv'
    BY <2>1, <2>3, <2>8, <2>9 DEF LimiterInv, SpentInv, SilentInv, Running
  <2> QED  BY <2>2, <2>4, <2>5, <2>6, <2>7, <2>10, <2>11, <2>12 DEF LimiterInv
<1>2. CASE KernelProbe
  <2>1. BurstTypes' /\ FifoInv'
    BY <1>2, ProbeFacts, ProbeFifo
  <2>2. AliveInv' /\ CountInv'
    BY <1>2, StepAlive, StepCount DEF Next
  <2>3. LimiterInv'
    BY <1>2, ProbeLimiter
  <2> QED  BY <2>1, <2>2, <2>3
<1>3. CASE Next /\ ~ KernelProbe
  <2>1. BurstTypes' /\ FifoInv'
    <3>1. CASE Begin
      BY <3>1, QuietTypes, BeginFifo
    <3>2. CASE StartCollect \/ Tick
      BY <3>2, QuietTypes, QuietFifo
    <3>3. CASE Collect
      BY <3>3, CollectFacts, CollectFifo
    <3>4. CASE EndBurst
      BY <3>4, EndFacts, EndFifo
    <3>5. CASE \E ok \in BOOLEAN : SendProbe(ok)
      BY <3>5, SendFacts, SendFifo
    <3> QED  BY <1>3, <3>1, <3>2, <3>3, <3>4, <3>5 DEF Next
  <2>2. AliveInv' /\ CountInv'
    BY <1>3, StepAlive, StepCount
  <2>3. FirstInv' /\ FreshInv' /\ SizedInv' /\ OpenInv' /\ SpentInv' /\ SilentInv'
    BY <1>3, OtherLimiter
  <2>4. PauseInv'
    BY <1>3, OtherPause
  <2>5. ClockInv'
    BY <1>3, OtherClock DEF LimiterInv
  <2>6. LimiterInv'
    BY <2>3, <2>4, <2>5 DEF LimiterInv
  <2> QED  BY <2>1, <2>2, <2>6
<1> QED  BY <1>1, <1>2, <1>3

\* The invariant holds throughout the experiment.
THEOREM BurstInvariant == Spec => []BurstInv
<1>1. Init => BurstInv
  BY InitBurst
<1>2. BurstInv /\ [Next]_vars => BurstInv'
  BY NextBurst
<1> QED  BY <1>1, <1>2, PTL DEF Spec

\* What a prompt burst leaves: nothing owed, nothing unread, and every probe handled.
LEMMA PromptFacts ==
    ASSUME BurstInv, NEW k \in 1 .. 9, Prompt(k)
    PROVE  /\ Settled(k) /\ passed[k].counted = passed[k].acks /\ passed[k].handled = kProbes
           /\ k \in begun .. step /\ passed[k].handled > 0 /\ Capped(k) = Script[k].limit
           /\ passed[k].handled >= Script[k].limit
<1>1. /\ passed[k].handled = kProbes /\ passed[k].counted = passed[k].acks /\ res[k].sent = kProbes
      /\ k \in begun .. step
  BY DEF Prompt, Over, Complete
<1>2. passed[k].acks \in Nat /\ kProbes \in Nat
  BY Numbers, BurstAssumption DEF BurstInv
<1>3. Settled(k)
  BY <1>1, <1>2 DEF Settled, Owed, Unread
<1>4. Script[k].limit \in Nat \ {0} /\ Script[k].limit <= kProbes
  BY Limits
<1>5. Capped(k) = Script[k].limit /\ passed[k].handled > 0
  BY <1>1, <1>2, <1>4 DEF Capped
<1> QED  BY <1>1, <1>3, <1>4, <1>5

\* The first burst of a connection, handled within a second and read to the
\* end, counts exactly the limit in force, for any limit and number of probes,
\* whatever the bursts before it spent or left on the shared fd.
THEOREM FreshBurst == Spec => []FreshBurstExact
<1>1. ASSUME BurstInv PROVE FreshBurstExact
  <2> SUFFICES ASSUME NEW k \in FirstOfPeer, Prompt(k), InOneSecond(k, k), NowNonzero(k)
               PROVE  res[k].acks = Script[k].limit
    BY DEF FreshBurstExact
  <2>1. k \in 1 .. 9
    BY FirstBursts
  <2>2. /\ Settled(k) /\ passed[k].counted = passed[k].acks /\ passed[k].handled > 0
        /\ k \in begun .. step /\ Capped(k) = Script[k].limit
    BY <1>1, <2>1, PromptFacts
  <2>3. passed[k].acks = Capped(k)
    BY <1>1, <2>2 DEF BurstInv, LimiterInv, SizedInv, Opens, Tight, Settled
  <2>4. res[k].acks = passed[k].counted
    BY <1>1 DEF BurstInv, CountInv
  <2> QED  BY <2>2, <2>3, <2>4
<1> QED  BY <1>1, BurstInvariant, PTL

\* The second burst on a connection, within the second of the first, counts nothing.
THEOREM SameWindow == Spec => []SameWindowSilent
<1>1. ASSUME BurstInv PROVE SameWindowSilent
  <2> SUFFICES ASSUME Prompt(6), Prompt(7), InOneSecond(6, 7), NowNonzero(6)
               PROVE  res[7].acks = 0
    BY DEF SameWindowSilent
  <2>1. /\ Settled(6) /\ passed[6].handled >= Script[6].limit
        /\ Settled(7) /\ passed[7].counted = passed[7].acks /\ passed[7].handled > 0
        /\ 7 \in begun .. step
    BY <1>1, PromptFacts
  <2>2. step >= 7
    BY <1>1, <2>1, StepRange DEF BurstInv
  <2>3. passed[7].acks = 0
    BY <1>1, <2>1, <2>2 DEF BurstInv, LimiterInv, SilentInv, Tight, Settled
  <2>4. res[7].acks = passed[7].counted
    BY <1>1, <2>1, <2>2 DEF BurstInv, CountInv
  <2> QED  BY <2>1, <2>3, <2>4
<1> QED  BY <1>1, BurstInvariant, PTL

\* The third burst, after the sleep, counts the whole limit again, if the run
\* is short against the wrap of tcp_now.
THEOREM NextWindow == ASSUME ShortRun PROVE Spec => []NextWindowExact
<1>1. ASSUME BurstInv PROVE NextWindowExact
  <2> SUFFICES ASSUME Prompt(6), Prompt(7), Prompt(8), InOneSecond(8, 8), NowNonzero(8)
               PROVE  res[8].acks = ChallengeLimit
    BY DEF NextWindowExact
  <2>1. /\ Settled(6) /\ Settled(7) /\ Settled(8)
        /\ passed[8].counted = passed[8].acks /\ passed[8].handled > 0
        /\ 8 \in begun .. step /\ Capped(8) = Script[8].limit
    BY <1>1, PromptFacts
  <2>2. Script[8].limit = ChallengeLimit
    BY ScriptFacts
  <2>3. step >= 8
    BY <1>1, <2>1, StepRange DEF BurstInv
  <2>4. passed[8].acks = Capped(8)
    BY <1>1, <2>1 DEF BurstInv, LimiterInv, SizedInv, Opens, Tight, Settled
  <2>5. res[8].acks = passed[8].counted
    BY <1>1, <2>1, <2>3 DEF BurstInv, CountInv
  <2> QED  BY <2>1, <2>2, <2>4, <2>5
<1> QED  BY <1>1, BurstInvariant, PTL

-----------------------------------------------------------------------------
(* The replies of a connection *)

\* The only connection with several bursts, and its replies on the fd.
Sixth == {6, 7, 8}
Waiting6(q) == {i \in 1 .. Len(q) : q[i] \in Sixth}
\* The replies its bursts counted and those still on the fd are no more than
\* the kernel sent.
SumInv ==
    res[6].acks + res[7].acks + res[8].acks + Cardinality(Waiting6(replies))
        <= passed[6].acks + passed[7].acks + passed[8].acks

\* The replies on the fd are finitely many.
LEMMA WaitingFinite ==
    ASSUME NEW q \in Seq(Bursts)
    PROVE  IsFiniteSet(Waiting6(q)) /\ Cardinality(Waiting6(q)) \in Nat
<1>1. IsFiniteSet(1 .. Len(q))
  BY FS_Interval
<1>2. IsFiniteSet(Waiting6(q))
  BY <1>1, FS_Subset DEF Waiting6
<1> QED  BY <1>2, FS_CardinalityType

\* One more reply.
LEMMA WaitingAppend ==
    ASSUME NEW q \in Seq(Bursts), NEW e \in Bursts
    PROVE  Cardinality(Waiting6(Append(q, e))) =
             IF e \in Sixth THEN Cardinality(Waiting6(q)) + 1 ELSE Cardinality(Waiting6(q))
<1>1. /\ Len(q) \in Nat /\ Len(Append(q, e)) = Len(q) + 1
      /\ \A i \in 1 .. Len(q) + 1 : Append(q, e)[i] = IF i <= Len(q) THEN q[i] ELSE e
  BY AppendEntries
<1>2. CASE e \in Sixth
  <2>1. Waiting6(Append(q, e)) = Waiting6(q) \cup {Len(q) + 1}
    BY <1>1, <1>2 DEF Waiting6
  <2>2. Len(q) + 1 \notin Waiting6(q)
    BY <1>1 DEF Waiting6
  <2> QED  BY <1>2, <2>1, <2>2, WaitingFinite, FS_AddElement
<1>3. CASE e \notin Sixth
  <2>1. Waiting6(Append(q, e)) = Waiting6(q)
    BY <1>1, <1>3 DEF Waiting6
  <2> QED  BY <1>3, <2>1
<1> QED  BY <1>2, <1>3

\* One reply less.
LEMMA WaitingTail ==
    ASSUME NEW q \in Seq(Bursts), q # <<>>
    PROVE  Cardinality(Waiting6(Tail(q))) =
             IF Head(q) \in Sixth THEN Cardinality(Waiting6(q)) - 1 ELSE Cardinality(Waiting6(q))
<1>1. PICK L \in Nat : L = Len(q)
  BY TailEntries
<1>2. /\ L >= 1 /\ Head(q) = q[1] /\ Len(Tail(q)) = L - 1 /\ Tail(q) \in Seq(Bursts)
      /\ \A i \in 1 .. L - 1 : Tail(q)[i] = q[i + 1] /\ i + 1 \in 1 .. L
  BY <1>1, TailEntries
<1>3. PICK A : A = Waiting6(q) \ {1}
  OBVIOUS
<1>4. PICK B : B = Waiting6(Tail(q))
  OBVIOUS
<1>5. A = {i \in 2 .. L : q[i] \in Sixth}
  BY <1>1, <1>3 DEF Waiting6
<1>6. B = {i \in 1 .. L - 1 : q[i + 1] \in Sixth}
  BY <1>2, <1>4 DEF Waiting6
<1>7. ExistsBijection(B, A)
  <2>1. PICK f : f = [i \in B |-> i + 1]
    OBVIOUS
  <2>2. f \in [B -> A]
    BY <1>5, <1>6, <2>1
  <2>3. \A i, j \in B : f[i] = f[j] => i = j
    BY <1>6, <2>1
  <2>4. \A j \in A : \E i \in B : f[i] = j
    <3> SUFFICES ASSUME NEW j \in A PROVE \E i \in B : f[i] = j
      OBVIOUS
    <3>1. j \in 2 .. L /\ q[j] \in Sixth
      BY <1>5
    <3>2. j - 1 \in 1 .. L - 1 /\ (j - 1) + 1 = j
      BY <3>1
    <3>3. j - 1 \in B /\ f[j - 1] = j
      BY <1>6, <2>1, <3>1, <3>2
    <3> QED  BY <3>3
  <2>5. f \in Bijection(B, A)
    BY <2>2, <2>3, <2>4, Fun_IsBij
  <2> QED  BY <2>5, Fun_ExistsBij
<1>8. IsFiniteSet(Waiting6(q)) /\ IsFiniteSet(B) /\ Cardinality(Waiting6(q)) \in Nat
  BY <1>2, <1>4, WaitingFinite
<1>9. Cardinality(A) = Cardinality(B)
  BY <1>7, <1>8, FS_Bijection
<1>10. Cardinality(A) = IF 1 \in Waiting6(q) THEN Cardinality(Waiting6(q)) - 1 ELSE Cardinality(Waiting6(q))
  BY <1>3, <1>8, FS_RemoveElement
<1>11. 1 \in Waiting6(q) <=> Head(q) \in Sixth
  BY <1>1, <1>2 DEF Waiting6
<1> QED  BY <1>4, <1>9, <1>10, <1>11

\* A sum of three naturals one of which grows by one.
LEMMA OneMore ==
    ASSUME NEW f, NEW g, NEW j \in Sixth,
           f[6] \in Nat, f[7] \in Nat, f[8] \in Nat,
           \A k \in Sixth : g[k] = IF k = j THEN f[k] + 1 ELSE f[k]
    PROVE  g[6] + g[7] + g[8] = (f[6] + f[7] + f[8]) + 1
<1>1. PICK x \in Nat, y \in Nat, z \in Nat : x = f[6] /\ y = f[7] /\ z = f[8]
  OBVIOUS
<1>2. CASE j = 6
  <2>1. g[6] = x + 1 /\ g[7] = y /\ g[8] = z
    BY <1>1, <1>2 DEF Sixth
  <2> QED  BY <1>1, <2>1
<1>3. CASE j = 7
  <2>1. g[6] = x /\ g[7] = y + 1 /\ g[8] = z
    BY <1>1, <1>3 DEF Sixth
  <2> QED  BY <1>1, <2>1
<1>4. CASE j = 8
  <2>1. g[6] = x /\ g[7] = y /\ g[8] = z + 1
    BY <1>1, <1>4 DEF Sixth
  <2> QED  BY <1>1, <2>1
<1> QED  BY <1>2, <1>3, <1>4 DEF Sixth

\* Every step keeps the balance.
LEMMA NextSum == ASSUME BurstInv, SumInv, [Next]_vars PROVE SumInv'
<1> USE DEF BurstInv
<1> PICK s \in 1 .. 9 : s = step
  BY StepRange
<1>1. Bursts = 1 .. 9 /\ replies \in Seq(Bursts)
  BY ScriptFacts DEF BurstTypes
<1>2. PICK n \in Nat : n = Cardinality(Waiting6(replies))
  BY <1>1, WaitingFinite
<1>3. \A k \in Sixth : res[k].acks \in Nat /\ passed[k].acks \in Nat
  BY Numbers DEF Sixth
<1> DEFINE f == [k \in Sixth |-> res[k].acks]
           g == [k \in Sixth |-> passed[k].acks]
<1>10. /\ \A k \in Sixth : f[k] = res[k].acks /\ f[k] \in Nat
       /\ \A k \in Sixth : g[k] = passed[k].acks /\ g[k] \in Nat
  BY <1>3
<1>11. 6 \in Sixth /\ 7 \in Sixth /\ 8 \in Sixth /\ Sixth \subseteq 1 .. 9
  BY DEF Sixth
<1>12. PICK A \in Nat : A = f[6] + f[7] + f[8]
  BY <1>10, <1>11
<1>13. PICK P \in Nat : P = g[6] + g[7] + g[8]
  BY <1>10, <1>11
<1>4. A + n <= P
  BY <1>2, <1>10, <1>11, <1>12, <1>13 DEF SumInv
<1>14. PICK F : F = [k \in Sixth |-> res'[k].acks]
  OBVIOUS
<1>15. PICK G : G = [k \in Sixth |-> passed'[k].acks]
  OBVIOUS
<1>16. /\ \A k \in Sixth : F[k] = res'[k].acks
       /\ \A k \in Sixth : G[k] = passed'[k].acks
  BY <1>14, <1>15
<1>17. ASSUME NEW m \in Int, m = Cardinality(Waiting6(replies')),
              NEW B \in Int, B = F[6] + F[7] + F[8], NEW Q \in Int, Q = G[6] + G[7] + G[8], B + m <= Q
       PROVE  SumInv'
  BY <1>11, <1>16, <1>17 DEF SumInv
<1>18. /\ (\A k \in Sixth : res'[k].acks = res[k].acks) => F[6] + F[7] + F[8] = A
       /\ (\A k \in Sixth : passed'[k].acks = passed[k].acks) => G[6] + G[7] + G[8] = P
  BY <1>10, <1>11, <1>12, <1>13, <1>16
<1>5. CASE KernelProbe
  <2>1. PICK v : \E h \in 1 .. 9, p \in Peers, a \in BOOLEAN : ProbeStep(h, p, v, a)
    BY <1>5, ProbeFacts
  <2>2. PICK h \in 1 .. 9, p \in Peers, a \in BOOLEAN : ProbeStep(h, p, v, a)
    BY <2>1
  <2>3. /\ replies' = IF a THEN Append(replies, h) ELSE replies
        /\ res' = res /\ \A k \in 1 .. 9 : k # h => passed'[k] = passed[k]
        /\ passed'[h].acks = IF a THEN passed[h].acks + 1 ELSE passed[h].acks
    BY <2>2 DEF ProbeStep
  <2>4. Cardinality(Waiting6(replies')) = IF a /\ h \in Sixth THEN n + 1 ELSE n
    BY <1>1, <1>2, <2>3, WaitingAppend
  <2>5. \A k \in 1 .. 9 : passed'[k].acks = IF k = h /\ a THEN passed[k].acks + 1 ELSE passed[k].acks
    BY <2>3
  <2>6. F[6] + F[7] + F[8] = A
    BY <1>18, <2>3
  <2>7. CASE a /\ h \in Sixth
    <3>1. \A k \in Sixth : G[k] = IF k = h THEN g[k] + 1 ELSE g[k]
      BY <1>10, <1>11, <1>16, <2>5, <2>7
    <3>2. G[6] + G[7] + G[8] = P + 1
      BY <1>10, <1>11, <1>13, <2>7, <3>1, OneMore
    <3>3. Cardinality(Waiting6(replies')) = n + 1
      BY <2>4, <2>7
    <3> QED  BY <1>4, <1>17, <2>6, <3>2, <3>3
  <2>8. CASE ~ (a /\ h \in Sixth)
    <3>1. G[6] + G[7] + G[8] = P
      BY <1>11, <1>18, <2>5, <2>8
    <3>2. Cardinality(Waiting6(replies')) = n
      BY <2>4, <2>8
    <3> QED  BY <1>4, <1>17, <2>6, <3>1, <3>2
  <2> QED  BY <2>7, <2>8
<1>6. CASE Collect
  <2>1. PICK h \in 1 .. 9 : CollectStep(h)
    BY <1>6, CollectFacts
  <2>2. /\ replies # <<>> /\ h = Head(replies) /\ replies' = Tail(replies)
        /\ \A k \in 1 .. 9 :
            /\ res'[k].acks = IF k = s /\ Script[h].peer = Script[s].peer
                              THEN res[k].acks + 1 ELSE res[k].acks
            /\ passed'[k].acks = passed[k].acks
    BY <2>1 DEF CollectStep
  <2>3. Cardinality(Waiting6(replies')) = IF h \in Sixth THEN n - 1 ELSE n
    BY <1>1, <1>2, <2>2, WaitingTail
  <2>4. G[6] + G[7] + G[8] = P
    BY <1>11, <1>18, <2>2
  <2>5. CASE s \in Sixth /\ Script[h].peer = Script[s].peer
    <3>1. s = 6 \/ s = 7 \/ s = 8
      BY <2>5 DEF Sixth
    <3>2. h \in Sixth
      BY <2>5, <3>1, ScriptFacts DEF Sixth
    <3>3. \A k \in Sixth : F[k] = IF k = s THEN f[k] + 1 ELSE f[k]
      BY <1>10, <1>11, <1>16, <2>2, <2>5
    <3>4. F[6] + F[7] + F[8] = A + 1
      BY <1>10, <1>11, <1>12, <2>5, <3>3, OneMore
    <3>5. Cardinality(Waiting6(replies')) = n - 1
      BY <2>3, <3>2
    <3> QED  BY <1>4, <1>17, <2>4, <3>4, <3>5
  <2>6. CASE ~ (s \in Sixth /\ Script[h].peer = Script[s].peer)
    <3>1. F[6] + F[7] + F[8] = A
      BY <1>11, <1>18, <2>2, <2>6
    <3>2. PICK m \in Int : m = Cardinality(Waiting6(replies')) /\ m <= n
      BY <2>3
    <3> QED  BY <1>4, <1>17, <2>4, <3>1, <3>2
  <2> QED  BY <2>5, <2>6
<1>7. CASE Begin
  <2>1. res' = res /\ passed' = passed /\ (replies' = replies \/ replies' = <<>>)
    BY <1>7 DEF Begin
  <2>2. replies' = <<>> => Waiting6(replies') = {}
    BY DEF Waiting6
  <2>3. PICK m \in Int : m = Cardinality(Waiting6(replies')) /\ m <= n
    BY <1>2, <2>1, <2>2, FS_EmptySet
  <2>4. F[6] + F[7] + F[8] = A /\ G[6] + G[7] + G[8] = P
    BY <1>18, <2>1
  <2> QED  BY <1>4, <1>17, <2>3, <2>4
<1>8. CASE StartCollect \/ EndBurst \/ Tick \/ UNCHANGED vars
  <2>1. res' = res /\ passed' = passed /\ replies' = replies
    BY <1>8 DEF StartCollect, EndBurst, Tick, vars
  <2> QED  BY <2>1 DEF SumInv
<1>9. CASE \E ok \in BOOLEAN : SendProbe(ok)
  <2>1. passed' = passed /\ replies' = replies /\ \A k \in 1 .. 9 : res'[k].acks = res[k].acks
    BY <1>9, SendFacts DEF SendStep
  <2> QED  BY <2>1 DEF SumInv
<1> QED  BY <1>5, <1>6, <1>7, <1>8, <1>9 DEF Next

\* The initial state.
LEMMA InitSum == ASSUME Init PROVE SumInv
<1>1. Bursts = 1 .. 9 /\ replies = <<>>
  BY ScriptFacts DEF Init
<1>2. \A k \in 1 .. 9 : res[k].acks = 0 /\ passed[k].acks = 0
  BY <1>1 DEF Init
<1>3. Waiting6(replies) = {}
  BY <1>1 DEF Waiting6
<1>4. Cardinality(Waiting6(replies)) = 0
  BY <1>3, FS_EmptySet
<1> QED  BY <1>2, <1>4 DEF SumInv

\* The recursive sum of Total, over the nine bursts.
SumOf(S, t) == S = [k \in 0 .. 9 |-> IF k = 0 THEN 0 ELSE S[k - 1] + t[k]]
\* It exists.
LEMMA SumExists ==
    ASSUME NEW t \in [1 .. 9 -> Int]
    PROVE  \E S : SumOf(S, t)
<1> DEFINE a1 == t[1]
           a2 == a1 + t[2]
           a3 == a2 + t[3]
           a4 == a3 + t[4]
           a5 == a4 + t[5]
           a6 == a5 + t[6]
           a7 == a6 + t[7]
           a8 == a7 + t[8]
           a9 == a8 + t[9]
           G == [k \in 0 .. 9 |->
                   IF k = 0 THEN 0 ELSE IF k = 1 THEN a1 ELSE IF k = 2 THEN a2 ELSE
                   IF k = 3 THEN a3 ELSE IF k = 4 THEN a4 ELSE IF k = 5 THEN a5 ELSE
                   IF k = 6 THEN a6 ELSE IF k = 7 THEN a7 ELSE IF k = 8 THEN a8 ELSE a9]
<1>1. \A k \in 0 .. 9 : G[k] = IF k = 0 THEN 0 ELSE G[k - 1] + t[k]
  <2> SUFFICES ASSUME NEW k \in 0 .. 9 PROVE G[k] = IF k = 0 THEN 0 ELSE G[k - 1] + t[k]
    OBVIOUS
  <2>1. k = 0 \/ k = 1 \/ k = 2 \/ k = 3 \/ k = 4 \/ k = 5 \/ k = 6 \/ k = 7 \/ k = 8 \/ k = 9
    OBVIOUS
  <2> QED  BY <2>1
<1>2. SumOf(G, t)
  BY <1>1 DEF SumOf
<1> QED  BY <1>2

\* And is the sum of the nine terms.
LEMMA SumValue ==
    ASSUME NEW t \in [1 .. 9 -> Int], NEW S, SumOf(S, t)
    PROVE  S[9] = t[1] + t[2] + t[3] + t[4] + t[5] + t[6] + t[7] + t[8] + t[9]
<1>1. \A k \in 0 .. 9 : S[k] = IF k = 0 THEN 0 ELSE S[k - 1] + t[k]
  BY DEF SumOf
<1>2. S[1] = t[1]
  BY <1>1
<1>3. S[2] = t[1] + t[2]
  BY <1>1, <1>2
<1>4. S[3] = t[1] + t[2] + t[3]
  BY <1>1, <1>3
<1>5. S[4] = t[1] + t[2] + t[3] + t[4]
  BY <1>1, <1>4
<1>6. S[5] = t[1] + t[2] + t[3] + t[4] + t[5]
  BY <1>1, <1>5
<1>7. S[6] = t[1] + t[2] + t[3] + t[4] + t[5] + t[6]
  BY <1>1, <1>6
<1>8. S[7] = t[1] + t[2] + t[3] + t[4] + t[5] + t[6] + t[7]
  BY <1>1, <1>7
<1>9. S[8] = t[1] + t[2] + t[3] + t[4] + t[5] + t[6] + t[7] + t[8]
  BY <1>1, <1>8
<1> QED  BY <1>1, <1>9

\* Total over the replies the bursts counted.
LEMMA AckedTotal ==
    ASSUME BurstTypes, NEW p, NEW t, t = [k \in 1 .. 9 |-> IF Script[k].peer = p THEN res[k].acks ELSE 0]
    PROVE  /\ t \in [1 .. 9 -> Int]
           /\ Total(p, Acked) = t[1] + t[2] + t[3] + t[4] + t[5] + t[6] + t[7] + t[8] + t[9]
<1>1. t \in [1 .. 9 -> Int]
  BY Numbers
<1>2. ASSUME NEW S
      PROVE  SumOf(S, t) <=> S = [k \in 0 .. Len(Script) |->
                IF k = 0 THEN 0 ELSE S[k - 1] + (IF Script[k].peer = p THEN Acked(k) ELSE 0)]
  <2>1. \A k \in 0 .. 9 : k # 0 => t[k] = IF Script[k].peer = p THEN Acked(k) ELSE 0
    BY DEF Acked
  <2>2. Len(Script) = 9
    BY ScriptFacts
  <2> QED  BY <2>1, <2>2 DEF SumOf
<1>3. PICK R : R = CHOOSE S : S = [k \in 0 .. Len(Script) |->
                IF k = 0 THEN 0 ELSE S[k - 1] + (IF Script[k].peer = p THEN Acked(k) ELSE 0)]
  OBVIOUS
<1>4. \E S : S = [k \in 0 .. Len(Script) |->
                IF k = 0 THEN 0 ELSE S[k - 1] + (IF Script[k].peer = p THEN Acked(k) ELSE 0)]
  BY <1>1, <1>2, SumExists, Zenon
<1>5. R = [k \in 0 .. Len(Script) |->
                IF k = 0 THEN 0 ELSE R[k - 1] + (IF Script[k].peer = p THEN Acked(k) ELSE 0)]
  BY <1>3, <1>4, Zenon
<1>6. Total(p, Acked) = R[Len(Script)]
  BY <1>3, Zenon DEF Total
<1>7. SumOf(R, t) /\ Len(Script) = 9
  BY <1>2, <1>5, ScriptFacts
<1> QED  BY <1>1, <1>6, <1>7, SumValue

\* Total over the replies the kernel sent.
LEMMA AnsweredTotal ==
    ASSUME BurstTypes, NEW p, NEW t, t = [k \in 1 .. 9 |-> IF Script[k].peer = p THEN passed[k].acks ELSE 0]
    PROVE  /\ t \in [1 .. 9 -> Int]
           /\ Total(p, Answered) = t[1] + t[2] + t[3] + t[4] + t[5] + t[6] + t[7] + t[8] + t[9]
<1>1. t \in [1 .. 9 -> Int]
  BY Numbers
<1>2. ASSUME NEW S
      PROVE  SumOf(S, t) <=> S = [k \in 0 .. Len(Script) |->
                IF k = 0 THEN 0 ELSE S[k - 1] + (IF Script[k].peer = p THEN Answered(k) ELSE 0)]
  <2>1. \A k \in 0 .. 9 : k # 0 => t[k] = IF Script[k].peer = p THEN Answered(k) ELSE 0
    BY DEF Answered
  <2>2. Len(Script) = 9
    BY ScriptFacts
  <2> QED  BY <2>1, <2>2 DEF SumOf
<1>3. PICK R : R = CHOOSE S : S = [k \in 0 .. Len(Script) |->
                IF k = 0 THEN 0 ELSE S[k - 1] + (IF Script[k].peer = p THEN Answered(k) ELSE 0)]
  OBVIOUS
<1>4. \E S : S = [k \in 0 .. Len(Script) |->
                IF k = 0 THEN 0 ELSE S[k - 1] + (IF Script[k].peer = p THEN Answered(k) ELSE 0)]
  BY <1>1, <1>2, SumExists, Zenon
<1>5. R = [k \in 0 .. Len(Script) |->
                IF k = 0 THEN 0 ELSE R[k - 1] + (IF Script[k].peer = p THEN Answered(k) ELSE 0)]
  BY <1>3, <1>4, Zenon
<1>6. Total(p, Answered) = R[Len(Script)]
  BY <1>3, Zenon DEF Total
<1>7. SumOf(R, t) /\ Len(Script) = 9
  BY <1>2, <1>5, ScriptFacts
<1> QED  BY <1>1, <1>6, <1>7, SumValue

\* The replies counted for a connection are replies the kernel sent on it, each
\* counted once, for any traffic of the other connections on the shared fd.
THEOREM OwnReplies == Spec => []CountsOwnReplies
<1>1. Init => SumInv
  BY InitSum
<1>2. BurstInv /\ SumInv /\ [Next]_vars => SumInv'
  BY NextSum
<1>3. ASSUME BurstInv, SumInv PROVE CountsOwnReplies
  <2> SUFFICES ASSUME NEW p \in Peers PROVE Total(p, Acked) <= Total(p, Answered)
    BY DEF CountsOwnReplies
  <2>1. BurstTypes
    BY <1>3 DEF BurstInv
  <2>2. PICK t : t = [k \in 1 .. 9 |-> IF Script[k].peer = p THEN res[k].acks ELSE 0]
    OBVIOUS
  <2>3. PICK u : u = [k \in 1 .. 9 |-> IF Script[k].peer = p THEN passed[k].acks ELSE 0]
    OBVIOUS
  <2>4. /\ t \in [1 .. 9 -> Int]
        /\ Total(p, Acked) = t[1] + t[2] + t[3] + t[4] + t[5] + t[6] + t[7] + t[8] + t[9]
    BY <2>1, <2>2, AckedTotal
  <2>5. /\ u \in [1 .. 9 -> Int]
        /\ Total(p, Answered) = u[1] + u[2] + u[3] + u[4] + u[5] + u[6] + u[7] + u[8] + u[9]
    BY <2>1, <2>3, AnsweredTotal
  <2>6. ASSUME NEW k \in 1 .. 9, k <= 5 \/ k = 9
        PROVE  t[k] <= u[k]
    <3>1. k \in FirstOfPeer
      BY <2>6, FirstBursts
    <3>2. res[k].acks = passed[k].counted
      BY <1>3, <3>1 DEF BurstInv, CountInv
    <3>3. Unread(k) >= 0
      BY <1>3, ScriptFacts DEF BurstInv, FifoInv, LeftInv
    <3>4. passed[k].counted \in Nat /\ passed[k].acks \in Nat
      BY <2>1, Numbers
    <3>5. res[k].acks <= passed[k].acks
      BY <3>2, <3>3, <3>4 DEF Unread
    <3> QED  BY <2>2, <2>3, <3>5
  <2>7. t[6] + t[7] + t[8] <= u[6] + u[7] + u[8]
    <3>1. Script[6].peer = 6 /\ Script[7].peer = 6 /\ Script[8].peer = 6
      BY ScriptFacts
    <3>2. CASE p = 6
      <4>1. /\ t[6] = res[6].acks /\ t[7] = res[7].acks /\ t[8] = res[8].acks
            /\ u[6] = passed[6].acks /\ u[7] = passed[7].acks /\ u[8] = passed[8].acks
        BY <2>2, <2>3, <3>1, <3>2
      <4>2. PICK n \in Nat : n = Cardinality(Waiting6(replies))
        BY <2>1, WaitingFinite DEF BurstTypes
      <4>3. t[6] + t[7] + t[8] + n <= u[6] + u[7] + u[8]
        BY <1>3, <4>1, <4>2 DEF SumInv
      <4> QED  BY <2>4, <2>5, <4>2, <4>3
    <3>3. CASE p # 6
      BY <2>2, <2>3, <3>1, <3>3
    <3> QED  BY <3>2, <3>3
  <2>8. t[1] <= u[1] /\ t[2] <= u[2] /\ t[3] <= u[3] /\ t[4] <= u[4] /\ t[5] <= u[5] /\ t[9] <= u[9]
    BY <2>6
  <2> QED  BY <2>4, <2>5, <2>7, <2>8
<1> QED  BY <1>1, <1>2, <1>3, BurstInvariant, PTL DEF Spec

=============================================================================
