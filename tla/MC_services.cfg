SPECIFICATION ServicesSpec
CONSTANTS
  g1 = g1  q1 = q1  q2 = q2  x1 = x1  x2 = x2  e1 = e1  h1 = h1  h2 = h2
  k = k  a = a  b = b  w1 = w1  w2 = w2  t1 = t1
  None = None
  AgentGrant = {g1}
  Code = {1, 2}
  Family = {1, 2}
  Token = {1, 2, 3, 4}
  AuthRequest = {q1, q2}
  Delivery = {e1}
  Linked = {1, 2}
  HookGrant = {x1, x2}
  Hook = {h1, h2}
  MaxConsents = 2
  Root = {k}
  Component = {a, b}
  Writer = {w1, w2}
  Task = {t1}
  MaxVersion = 3
INVARIANTS
  OAuthTypeOK
  LinearFamily
  DeliveriesTypeOK
  ProcessedIsQueued
  OneOperationWhileGrantsStand
  EnvTypeOK
  RowIsNewestActive
  OverrideIsWhole
  DeliveredValues
PROPERTIES
  ImplementsTokenFamilies
CHECK_DEADLOCK FALSE
