----------------------------- MODULE MCRecovery -----------------------------
(* Model-checking instances of Recovery: the rounds of the experiments. *)
EXTENDS Recovery

Lose(lo, times) == <<NewRule(lo, lo + 1, times)>>
Round(n, rs) == [bytes |-> n, rules |-> rs]

\* One transfer of 8 segments of 2 units, one loss anywhere: exp_hol has one in
\* the middle and one in the last segment, exp_dupack sweeps the end.
OneLoss == {<<Round(16, Lose(k, 1))>> : k \in 0 .. 15}
\* The retransmission is lost too; two segments of one flight are lost.
LostTwice == {<<Round(16, Lose(k, 2))>> : k \in {7, 11, 15}}
TwoLosses == {<<Round(16, Lose(j, 1) \o Lose(k, 1))>> : j \in {4}, k \in {6, 10, 14}}
\* exp_dupack, part 2: rounds that lose the second last segment of a chunk.
LosingRounds == {[k \in 1 .. 4 |-> Round(6, Lose(6 * k - 4, 1))]}
\* exp_rto, part 3: the last segment is lost every time: 12 times, or
\* until the kernel gives the connection up.
Ladder == {<<Round(8, Lose(7, n))>> : n \in {12, 20}}

AllScenarios == OneLoss \cup LostTwice \cup TwoLosses \cup LosingRounds \cup Ladder
=============================================================================
