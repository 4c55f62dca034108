------------------------------ MODULE SeqSpace ------------------------------
(***************************************************************************)
(* 32-bit cyclic sequence numbers and their comparisons                    *)
(* (src/include/tp/seq.hpp).  The width is a parameter: the code has       *)
(* Half = 2^31, TLC runs with a small Half so that the space wraps inside  *)
(* a short stream, and the proofs hold for every Half > 0.                 *)
(***************************************************************************)
EXTENDS Integers

CONSTANT Half       \* half of the sequence space; 2^31 in the code

ASSUME HalfAssumption == Half \in Nat \ {0}

M == 2 * Half                        \* size of the space: 2^32
SeqNo == 0 .. M - 1                  \* uint32_t

\* Conversion of an unbounded integer to uint32_t.
Wrap(n) == n % M

\* a - b in uint32_t arithmetic.
seq_sub(a, b) == Wrap(a - b)

\* int32_t(u): the two's complement reading of an unsigned difference.
int32(u) == IF u < Half THEN u ELSE u - M

\* Mutant: sequence numbers compared with <.
seq_lt_plain(a, b) == a < b
seq_lt(a, b)  == int32(seq_sub(a, b)) < 0
seq_leq(a, b) == int32(seq_sub(a, b)) <= 0
seq_gt(a, b)  == int32(seq_sub(a, b)) > 0
seq_geq(a, b) == int32(seq_sub(a, b)) >= 0
=============================================================================
