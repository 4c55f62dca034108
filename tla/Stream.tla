------------------------------- MODULE Stream -------------------------------
(***************************************************************************)
(* The byte stream one connection carries, shared by every module that     *)
(* talks about it: byte positions 0, 1, 2, ... and the 32-bit sequence     *)
(* numbers that stand for them, the in-order frontier of a set of accepted *)
(* positions, the runs above it, and what a window-respecting sender can   *)
(* deliver.                                                                *)
(***************************************************************************)
EXTENDS SeqSpace, FiniteSets

CONSTANTS
    Isn,         \* sequence number of the first data byte
    Window,      \* bytes the sender may have beyond the frontier
    StreamLen,   \* length of the byte stream
    MaxLen,      \* longest segment payload
    MaxBlocks    \* SACK blocks that fit in the option field; 4 in the code

ASSUME IsnAssumption == Isn \in SeqNo
ASSUME WindowAssumption == Window \in Nat /\ Window < Half
ASSUME StreamAssumption == StreamLen \in Nat /\ MaxLen \in Nat /\ MaxBlocks \in Nat

SeqOf(p) == Wrap(Isn + p)
Bytes(p, n) == p .. p + n - 1

\* f is the in-order frontier of the positions in S.
IsFrontier(f, S) == f \notin S /\ 0 .. f - 1 \subseteq S

\* The maximal runs <<a, b>> (bytes a .. b-1) of S that lie above f.
Runs(S, f) ==
    LET Ends == {p \in f + 1 .. f + Window : p \in S /\ p + 1 \notin S}
        Start(e) == CHOOSE a \in f + 1 .. e : a .. e \subseteq S /\ a - 1 \notin S
    IN  {<<Start(e), e + 1>> : e \in Ends}

\* The highest MaxBlocks runs, highest first, as sack_blocks() puts them; the
\* newest run is the highest as long as nothing is reordered.
Sacks(S, f) ==
    LET R == Runs(S, f)
        N == IF Cardinality(R) < MaxBlocks THEN Cardinality(R) ELSE MaxBlocks
        Kth(k) == CHOOSE r \in R : Cardinality({q \in R : q[1] > r[1]}) = k - 1
    IN  [k \in 1 .. N |-> [start |-> SeqOf(Kth(k)[1]), end |-> SeqOf(Kth(k)[2])]]

Answer(moved, S, f) ==
    [moved |-> moved, rcv_nxt |-> SeqOf(f), sacks |-> Sacks(S, f)]

\* Segments a sender that respects the window can deliver: none reaches
\* further than Window beyond the frontier, and none starts more than Window
\* below it (the sender's oldest unacknowledged byte is that close).
InWindow(f, p, n) ==
    /\ p + n <= StreamLen
    /\ p + n <= f + Window
    /\ p >= f - Window
=============================================================================
