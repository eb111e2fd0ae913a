SPECIFICATION EnvSpec
CONSTANTS
  Root = {}
  Component = {a}
  Writer = {w1}
  Task = {t1, t2}
  MaxVersion = 2
INVARIANT GatedRunFindsFiles
CHECK_DEADLOCK FALSE
