SPECIFICATION HostSpec
CONSTANTS
  Managers = {m1, m2}
  Confs = {c1}
  Modes = {available, force}
  NoOne = NoOne
  Gap = 1
  MaxTime = 1
  MaxValues = 2
  Lists = {l1, l2}
  NoList = NoList
INVARIANTS
  TypeOK
  NoConcurrentExecution
  ModeChangesSurvive
  NoValueLost
  
PROPERTY
  LockIsReleased
