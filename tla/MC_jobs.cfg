SPECIFICATION MCJobsSpec
CONSTANTS
  p1 = p1  p2 = p2  k1 = k1  r1 = r1
  NoJob = NoJob
  Job = {1, 2}
  Pipeline = {p1, p2}
  DeployKey = {k1}
  Reader = {r1}
  MaxFailures = 1
INVARIANTS
  JobsTypeOK
  SuccessIsComplete
  StreamIsExact
  JobSuccessIsDeployed
  OrderlyDeploysDoNotPileUp
PROPERTIES
  JobsEnd
  FollowersAreTold
CHECK_DEADLOCK FALSE
