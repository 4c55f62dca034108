----------------------------- MODULE MCSession ------------------------------
(* Model-checking instances of Session: scenario sizes around the send buffer. *)
EXTENDS Session

FourScenarios == <<1, 3, 2, 1>>
TwoScenarios == <<1, 1>>
=============================================================================
