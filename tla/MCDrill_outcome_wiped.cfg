SPECIFICATION Spec
CONSTANTS
  m1 = m1
  m2 = m2
  MRs <- MCOneMR
  RestoreNs = "restore-ns"
  VerifyJob = "verify"
  CleanupJob = "cleanup"
  Peers <- MCPeers
  MaxFaults = 0
  Mode = "presence"
  Items <- MCItems
  Needs <- MCNeeds
  MaxVerifyPods = 2
  MaxWait = 2
  Grace = 1
  Retentions = {0, 1}
  DefaultRetention = 1
  DryRun = FALSE
  JobNameSet = TRUE
  Prompt = TRUE
  MaxCleanupPods = 2
PROPERTY OutcomeStays
CHECK_DEADLOCK FALSE
