CONSTANTS
  None = None
  g1 = g1  d1 = d1  d2 = d2  s1 = s1  s2 = s2
  k1 = k1  k2 = k2  v1 = v1  v2 = v2
  Slug = {s1}
  WorkerRun = {1,2}
  OperatorRun = {}
  Revision = {v1, v2}
  Own = own
  Reader = {own}
  LocalVps = TRUE
  MaxFaults = 0
  MaxCrashes = 1
  Op = {1, 2}
  Grant = {g1}
  Deployment = {d1}
  SlugOf <- OneSlug
  Key = {k1, k2}
  Client = {c1}
  Call <- RedeployCalls
  Batch = 8
SPECIFICATION FairSpec
PROPERTY OperationsSettle
