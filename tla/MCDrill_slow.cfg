SPECIFICATION FairSpec
CONSTANTS
  m1 = m1
  m2 = m2
  MRs <- MCOneMR
  RestoreNs = "restore-ns"
  VerifyJob = "verify"
  CleanupJob = "cleanup"
  Peers = {}
  MaxFaults = 1
  Mode = "api"
  Items = {"canary-path"}
  Needs <- MCCanaryNeeds
  MaxVerifyPods = 1
  MaxWait = 1
  Grace = 1
  Retentions = {0, 1}
  DefaultRetention = 1
  DryRun = FALSE
  JobNameSet = FALSE
  Prompt = FALSE
  MaxCleanupPods = 1
PROPERTY NeverHangs
PROPERTY RetentionHonoured
CHECK_DEADLOCK FALSE
