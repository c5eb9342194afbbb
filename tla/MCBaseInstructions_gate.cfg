CONSTANTS
  s1 = s1
  s2 = s2
  p1 = p1
  p2 = p2
  States = {s1, s2}
  InitState = s1
  Pids = {p1, p2}
  Kernel = Kernel
  NoFlag = NoFlag
  NoOp = NoOp
  Restrict = TRUE
  MaxCount = 2
SPECIFICATION Spec
PROPERTY GateFollowsState
