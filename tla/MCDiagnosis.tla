----------------------------- MODULE MCDiagnosis -----------------------------
(* Values of the constants for the model checker.                          *)
EXTENDS Diagnosis

CONSTANT m1
MCOneMR == {m1}
MCPeers == {Collector}
MCItems == {"rds-pitr-ready", "saas-deployments-ready"}
MCNeeds == [i \in MCItems |-> IF i = "rds-pitr-ready" THEN MRs ELSE {"restore-ns"}]
=============================================================================
