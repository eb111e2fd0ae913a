SPECIFICATION Spec
CONSTANTS
  r1 = r1  r2 = r2  b1 = b1  b2 = b2
  None = None
  RestartPlan = RestartPlan
  Request = {1, 2, 3, 4, 5}
  Run = {r1, r2}
  Block = {b1, b2}
  Found <- CaddyHosts
  Written <- Edits
  MaxOpen = 2
  MaxEdits = 0
  Throws = FALSE
SYMMETRY Interchangeable
INVARIANT MutatedOnce
CHECK_DEADLOCK FALSE
