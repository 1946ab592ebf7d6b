------------------------------ MODULE MCDrill ------------------------------
(* Values of the constants for the model checker.                          *)
EXTENDS DrillInvariants, FiniteSets, TLC

CONSTANTS m1, m2
MCMRs == {m1, m2}
MCOneMR == {m1}
MCPeers == {"diagnostic-collect"}
MCItems == {"rds-pitr-ready", "saas-deployments-ready"}
MCNeeds == [i \in MCItems |-> IF i = "rds-pitr-ready" THEN MRs ELSE {"restore-ns"}]
MCCanaryNeeds == [i \in {"canary-path"} |-> {"restore-ns"}]
MRSymmetry == Permutations(MRs)
=============================================================================
