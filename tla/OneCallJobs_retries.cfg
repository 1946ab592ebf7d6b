SPECIFICATION FairSpec
CONSTANTS
  MaxPods = 2
  MaxFaults = 2
INVARIANT TypeOK
INVARIANT CanaryThere
INVARIANT CanaryGone
INVARIANT NotificationDelivered
PROPERTY FailureIsEarned
PROPERTY JobsEnd
CHECK_DEADLOCK FALSE
