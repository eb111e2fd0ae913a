SPECIFICATION FairSpec
CONSTANTS
  r1 = r1  r2 = r2  b1 = b1  b2 = b2
  None = None
  RestartPlan = RestartPlan
  Request = {1, 2, 3, 4, 5, 6}
  Run = {r1, r2}
  Block = {b1, b2}
  Found <- Hosts
  Written <- Edits
  MaxOpen = 1
  MaxEdits = 1
  Throws = FALSE
INVARIANTS
  TypeOK
  MutatedOnce
PROPERTIES
  RunsMoveForward
  
  RepairIsInstalled
  ActionsAreDecided
CHECK_DEADLOCK FALSE
