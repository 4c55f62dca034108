--------------------------- MODULE ReassemblySpec ---------------------------
(***************************************************************************)
(* What tp::Reassembly promises its caller, without saying how it keeps    *)
(* the data.  The stream is a sequence of byte positions 0, 1, 2, ...;     *)
(* position p travels as sequence number Wrap(Isn + p).  The receiver has  *)
(* a set of positions it accepted, the in-order frontier is the first      *)
(* position missing from it, and what the caller reads after accept() is   *)
(* whether the frontier moved, rcv_nxt() and sack_blocks().                *)
(***************************************************************************)
EXTENDS Stream

VARIABLES
    got,        \* positions of every byte accepted so far
    frontier,   \* length of the in-order prefix of got
    out         \* what the caller reads when accept() has returned

specVars == <<got, frontier, out>>

SpecInit ==
    /\ got = {}
    /\ frontier = 0
    /\ out = Answer(FALSE, {}, 0)

\* accept(seq, len, t): the bytes are added; the frontier is the first
\* missing position; an empty or fully delivered segment changes neither.
SpecAccept(p, n) ==
    /\ InWindow(frontier, p, n)
    /\ got' = got \cup Bytes(p, n)
    /\ \E f \in frontier .. StreamLen :
          /\ IsFrontier(f, got')
          /\ frontier' = f
    /\ out' = Answer(frontier' # frontier, got', frontier')

SpecNext == \E p \in 0 .. StreamLen, n \in 0 .. MaxLen : SpecAccept(p, n)

ReassemblyContract == SpecInit /\ [][SpecNext]_specVars
=============================================================================
