SPECIFICATION DaemonSpec
CONSTANTS
  Managers = {m1, m2}
  Confs = {c1, c2}
  Modes = {available, force}
  NoOne = NoOne
  Gap = 1
  MaxTime = 3
  MaxValues = 3
INVARIANT
  NoConcurrentExecution
