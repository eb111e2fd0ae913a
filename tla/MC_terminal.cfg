SPECIFICATION FairSpec
CONSTANTS
  u1 = u1
  t1 = t1
  t2 = t2
  None = None
  Socket = {t1, t2}
  User = {u1}
  UserOf <- OneUser
  MaxSessions = 1
  MaxStarts = 2
  Patient = TRUE
INVARIANTS
  TypeOK
  CountIsExact
  OnlyFailedClosesLoseShells
PROPERTIES
  ShellsOfGoneClientsAreClosed
CHECK_DEADLOCK FALSE
