SPECIFICATION Spec
CONSTANTS
  auth = auth
  uam = uam
  authPods = authPods
  uamPods = uamPods
  Services <- MCServices
  Watchers <- MCWatchers
  PodStates = {"fine", "image"}
INVARIANT CauseReported
SYMMETRY Symmetry
CHECK_DEADLOCK FALSE
