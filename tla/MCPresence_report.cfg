SPECIFICATION Spec
CONSTANTS
  kfm = kfm
  uam = uam
  authDep = authDep
  authCM = authCM
  MRs <- MCMRs
  Deployments <- MCDeployments
  requiredConfigMaps <- MCConfigMaps
  MaxErrors = 1
INVARIANT TypeOK
INVARIANT SucceededIsGrounded
PROPERTY ActionableFirst
PROPERTY EveryCheckReported
CHECK_DEADLOCK FALSE
