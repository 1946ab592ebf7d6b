SPECIFICATION FairSpec
CONSTANTS
  auth = auth
  uam = uam
  authPods = authPods
  uamPods = uamPods
  Services <- MCServices
  Watchers <- MCWatchers
  PodStates = {"fine", "image"}
INVARIANT TypeOK
INVARIANT NilMeansReady
INVARIANT NoTargetPassedOver
INVARIANT ErrorHasCause
INVARIANT NothingOutlivesReturn
PROPERTY GateImplemented
PROPERTY ReadyReturns
PROPERTY FailFast
PROPERTY DeadlineReturns
CHECK_DEADLOCK FALSE
