SPECIFICATION Spec
CONSTANTS
  m1 = m1
  m2 = m2
  MRs <- MCMRs
  RestoreNs = "restore-ns"
  VerifyJob = "verify"
  CleanupJob = "cleanup"
  Peers <- MCPeers
  MaxFaults = 1
  Mode = "presence"
  Items <- MCItems
  Needs <- MCNeeds
  MaxVerifyPods = 2
  MaxWait = 2
  Grace = 1
  Retentions = {0, 1}
  DefaultRetention = 1
  DryRun = FALSE
  JobNameSet = TRUE
  Prompt = TRUE
  MaxCleanupPods = 2
INVARIANT TypeOK
INVARIANT SafetyInv
INVARIANT PreservedDrillStays
INVARIANT CompletedIsClean
INVARIANT CompleteMeansReported
PROPERTY VerdictIsVerifys
PROPERTY NoRespawnAfterVerdict
PROPERTY VerdictIsFinal
PROPERTY PolicyImplemented
SYMMETRY MRSymmetry
CHECK_DEADLOCK FALSE
