--------------------------- MODULE SeqSpaceProofs ---------------------------
(***************************************************************************)
(* Facts about the cyclic sequence space, for every size 2 * Half.         *)
(* Everything the proofs about the receiver need from modular arithmetic   *)
(* is here; above this module a sequence number is only ever seen through  *)
(* its distance seq_sub(x, base) from a base.                              *)
(***************************************************************************)
EXTENDS SeqSpace, TLAPS

\* The size of the space is a positive natural number, twice Half.
LEMMA SpaceSize == M \in Nat \ {0} /\ M = 2 * Half
  BY HalfAssumption DEF M

\* Quotient and remainder.
LEMMA ModDef ==
  ASSUME NEW a \in Int, NEW K \in Nat \ {0}
  PROVE  /\ a = K * (a \div K) + (a % K)
         /\ a \div K \in Int
         /\ a % K \in 0 .. K - 1
  BY SMT

\* The remainder is determined by the decomposition.
LEMMA ModUnique ==
  ASSUME NEW q \in Int, NEW K \in Nat \ {0}, NEW r \in 0 .. K - 1
  PROVE  (K * q + r) % K = r
  BY SMT

\* A conversion to uint32_t yields a sequence number.
LEMMA WrapType == ASSUME NEW n \in Int PROVE Wrap(n) \in SeqNo
  BY ModDef, SpaceSize DEF Wrap, SeqNo

\* A uint32_t is its own conversion; one turn too far is taken back.
LEMMA WrapValue ==
  ASSUME NEW n \in Int
  PROVE  /\ 0 <= n /\ n < M => Wrap(n) = n
         /\ -M <= n /\ n < 0 => Wrap(n) = n + M
         /\ M <= n /\ n < 2 * M => Wrap(n) = n - M
  BY SpaceSize DEF Wrap

\* Converting early or late makes no difference to a sum: the reason the
\* code may add a length to a 32-bit sequence number.
LEMMA WrapAdd ==
  ASSUME NEW a \in Int, NEW k \in Int
  PROVE  Wrap(a + k) = Wrap(Wrap(a) + k)
<1> DEFINE q == a \div M   r == a % M
<1>0. M \in Nat \ {0}
  BY SpaceSize
<1>1. a = M * q + r /\ q \in Int /\ r \in 0 .. M - 1
  BY <1>0, ModDef
<1> HIDE DEF q, r
<1> DEFINE b == r + k   q2 == b \div M   r2 == b % M
<1>2. b \in Int
  BY <1>0, <1>1
<1> HIDE DEF b
<1>3. b = M * q2 + r2 /\ q2 \in Int /\ r2 \in 0 .. M - 1
  BY <1>0, <1>2, ModDef
<1> HIDE DEF q2, r2
<1>4. a + k = M * (q + q2) + r2
  BY <1>0, <1>1, <1>2, <1>3 DEF b
<1>5. (M * (q + q2) + r2) % M = r2
  BY <1>0, <1>1, <1>3, ModUnique
<1> QED
  BY <1>4, <1>5 DEF Wrap, b, r, r2

\* The unsigned difference of two sequence numbers.
LEMMA SubValue ==
  ASSUME NEW a \in SeqNo, NEW b \in SeqNo
  PROVE  /\ a >= b => seq_sub(a, b) = a - b
         /\ a < b => seq_sub(a, b) = a - b + M
         /\ seq_sub(a, b) \in SeqNo
<1>1. a \in Int /\ b \in Int /\ a - b \in Int /\ -M <= a - b /\ a - b < M
  BY SpaceSize DEF SeqNo
<1> QED
  BY <1>1, WrapValue, WrapType DEF seq_sub

\* A sequence number is an integer in 0 .. M-1.
LEMMA SeqNoValue ==
  ASSUME NEW a \in SeqNo PROVE a \in Int /\ 0 <= a /\ a < M
  BY SpaceSize DEF SeqNo

\* Moving the base forward to y lowers the distance of everything beyond y
\* by the distance of y; what lies before y is one turn away.
LEMMA Rebase ==
  ASSUME NEW b \in SeqNo, NEW x \in SeqNo, NEW y \in SeqNo
  PROVE  /\ seq_sub(x, b) >= seq_sub(y, b) => seq_sub(x, y) = seq_sub(x, b) - seq_sub(y, b)
         /\ seq_sub(x, b) < seq_sub(y, b) => seq_sub(x, y) = seq_sub(x, b) - seq_sub(y, b) + M
<1>1. /\ b \in Int /\ 0 <= b /\ b < M
      /\ x \in Int /\ 0 <= x /\ x < M
      /\ y \in Int /\ 0 <= y /\ y < M
      /\ M \in Int
  BY SeqNoValue, SpaceSize
<1>2. /\ x >= b => seq_sub(x, b) = x - b
      /\ x < b => seq_sub(x, b) = x - b + M
  BY SubValue
<1>3. /\ y >= b => seq_sub(y, b) = y - b
      /\ y < b => seq_sub(y, b) = y - b + M
  BY SubValue
<1>4. /\ x >= y => seq_sub(x, y) = x - y
      /\ x < y => seq_sub(x, y) = x - y + M
  BY SubValue
<1> QED
  BY <1>1, <1>2, <1>3, <1>4

\* Within half the space of a common base, the cyclic comparisons are the
\* comparisons of the distances from the base.
LEMMA Compare ==
  ASSUME NEW b \in SeqNo, NEW x \in SeqNo, NEW y \in SeqNo,
         seq_sub(x, b) < Half, seq_sub(y, b) < Half
  PROVE  /\ seq_lt(x, y) <=> seq_sub(x, b) < seq_sub(y, b)
         /\ seq_leq(x, y) <=> seq_sub(x, b) <= seq_sub(y, b)
         /\ seq_gt(x, y) <=> seq_sub(x, b) > seq_sub(y, b)
         /\ seq_geq(x, y) <=> seq_sub(x, b) >= seq_sub(y, b)
<1>1. /\ seq_sub(x, b) \in Int /\ 0 <= seq_sub(x, b)
      /\ seq_sub(y, b) \in Int /\ 0 <= seq_sub(y, b)
  BY SubValue, SeqNoValue
<1>2. int32(seq_sub(x, y)) = seq_sub(x, b) - seq_sub(y, b)
  BY <1>1, Rebase, SpaceSize, HalfAssumption DEF int32
<1> QED
  BY <1>1, <1>2 DEF seq_lt, seq_leq, seq_gt, seq_geq

\* Going from the base by the distance of y arrives at y.
LEMMA SubBack ==
  ASSUME NEW b \in SeqNo, NEW y \in SeqNo
  PROVE  Wrap(b + seq_sub(y, b)) = y
<1>1. /\ b \in Int /\ 0 <= b /\ b < M
      /\ y \in Int /\ 0 <= y /\ y < M
      /\ M \in Int
  BY SeqNoValue, SpaceSize
<1>2. b + seq_sub(y, b) = y \/ b + seq_sub(y, b) = y + M
  <2>1. /\ y >= b => seq_sub(y, b) = y - b
        /\ y < b => seq_sub(y, b) = y - b + M
    BY SubValue
  <2> QED
    BY <1>1, <2>1
<1>3. Wrap(y) = y /\ Wrap(y + M) = y
  <2>1. Wrap(y) = y
    BY <1>1, WrapValue
  <2>2. Wrap(y + M) = (y + M) - M
    BY <1>1, WrapValue
  <2> QED
    BY <1>1, <2>1, <2>2
<1> QED
  BY <1>2, <1>3

\* Two positions of the stream less than half the space apart: the signed
\* 32-bit difference of their sequence numbers is their distance.
LEMMA Offset ==
  ASSUME NEW c \in Int, NEW n \in Int, NEW t \in Int,
         -Half < n - t, n - t < Half
  PROVE  /\ int32(seq_sub(Wrap(c + n), Wrap(c + t))) = n - t
         /\ n >= t => seq_sub(Wrap(c + n), Wrap(c + t)) = n - t
<1> DEFINE b == Wrap(c + t)   x == Wrap(c + n)   d == n - t
<1>1. x = Wrap(b + d)
  <2>1. c + n = (c + t) + (n - t) /\ c + t \in Int /\ n - t \in Int
    OBVIOUS
  <2> QED
    BY <2>1, WrapAdd
<1>2. x \in SeqNo /\ b \in SeqNo
  BY WrapType
<1>3. d \in Int /\ -Half < d /\ d < Half /\ (d >= 0 <=> n >= t)
  BY HalfAssumption
<1> SUFFICES /\ int32(seq_sub(x, b)) = d
             /\ d >= 0 => seq_sub(x, b) = d
  BY <1>3
<1> HIDE DEF x, b, d
<1>4. b \in Int /\ 0 <= b /\ b < M /\ x \in Int /\ 0 <= x /\ x < M /\ M \in Int /\ M = 2 * Half /\ Half \in Nat
  BY <1>2, SeqNoValue, SpaceSize, HalfAssumption
<1>5. x = b + d \/ x = b + d + M \/ x = b + d - M
  <2>1. b + d \in Int /\ -M <= b + d /\ b + d < 2 * M
    BY <1>3, <1>4
  <2> DEFINE e == b + d
  <2>2. e \in Int
    BY <2>1
  <2>3. /\ 0 <= e /\ e < M => Wrap(e) = e
        /\ -M <= e /\ e < 0 => Wrap(e) = e + M
        /\ M <= e /\ e < 2 * M => Wrap(e) = e - M
    BY <2>2, WrapValue
  <2> QED
    BY <1>1, <1>3, <1>4, <2>1, <2>3
<1>6. seq_sub(x, b) = d \/ seq_sub(x, b) = d + M
  <2>1. /\ x >= b => seq_sub(x, b) = x - b
        /\ x < b => seq_sub(x, b) = x - b + M
    BY <1>2, SubValue
  <2> QED
    BY <1>3, <1>4, <1>5, <2>1
<1>7. seq_sub(x, b) \in Int /\ 0 <= seq_sub(x, b) /\ seq_sub(x, b) < M
  BY <1>2, SubValue, SeqNoValue
<1> QED
  BY <1>3, <1>4, <1>6, <1>7 DEF int32
=============================================================================
