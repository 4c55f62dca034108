------------------------------- MODULE MCPeer -------------------------------
(* Model-checking instances of Peer: targets and loss policies. *)
EXTENDS Peer

\* One call, as run_scenario makes.
ShortCall == <<2>>
\* Two calls on one connection, as the rate-limit rounds of exp_dupack make.
TwoCalls == <<2, 5>>

\* The ladder of exp_rto; one byte lost once in each call.
LoseTailTwice == <<<<NewRule(1, 2, 2)>>>>
LosePerCall == <<<<NewRule(1, 2, 1)>>, <<NewRule(2, 3, 1)>>>>
=============================================================================
