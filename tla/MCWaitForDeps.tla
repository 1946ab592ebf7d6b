---------------------------- MODULE MCWaitForDeps ----------------------------
(* Values of the constants for the model checker.                          *)
EXTENDS WaitForDeps, TLC

CONSTANTS auth, uam, authPods, uamPods
MCServices == {auth, uam}
MCWatchers == {authPods, uamPods}
Symmetry == Permutations(MCServices) \cup Permutations(MCWatchers)
=============================================================================
