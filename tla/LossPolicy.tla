----------------------------- MODULE LossPolicy -----------------------------
(***************************************************************************)
(* tp::LossPolicy (src/src/policy.cpp): an ordered list of drop rules.  A  *)
(* rule names a range of stream offsets and how many overlapping segments  *)
(* it may still take.  The policy is a value threaded through receive(),   *)
(* so the module has operators and no state of its own.                    *)
(***************************************************************************)
EXTENDS Naturals, Sequences

DropRule == [lo : Nat, hi : Nat, times : Nat, fired : Nat]

\* add({lo, hi, times}): a rule that has not fired yet.
NewRule(lo, hi, times) == [lo |-> lo, hi |-> hi, times |-> times, fired |-> 0]

\* Overlap, not containment, with a rule that still has drops to give.
Matches(r, rel, len) == r.fired < r.times /\ rel < r.hi /\ r.lo < rel + len

Matching(rules, rel, len) == {k \in 1 .. Len(rules) : Matches(rules[k], rel, len)}

\* drop() returns true for a non-empty segment that some rule matches ...
Drops(rules, rel, len) == len > 0 /\ Matching(rules, rel, len) # {}

\* ... and charges it to the first such rule.
Charged(rules, rel, len) ==
    LET first == CHOOSE k \in Matching(rules, rel, len) :
                    \A j \in Matching(rules, rel, len) : k <= j
    IN  [rules EXCEPT ![first].fired = @ + 1]

\* unfired(): the rules an experiment must not leave behind.
unfired(rules) == {k \in 1 .. Len(rules) : rules[k].fired = 0}
=============================================================================
