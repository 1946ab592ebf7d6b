----------------------------- MODULE MCPresence -----------------------------
(* Values of the constants for the model checker.                          *)
EXTENDS Presence

CONSTANTS kfm, uam, authDep, authCM
MCMRs == {kfm, uam}
MCDeployments == {authDep}
MCConfigMaps == {authCM}
=============================================================================
