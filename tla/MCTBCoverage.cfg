CONSTANTS
  Procs = {p1, p2}
  InitProc = p1
  States = {s1, s2}
  InitState = s1
  Modules = {"ma", "mb"}
  IdModules = {"ma"}
  ta1 = ta1
  ta2 = ta2
  tb1 = tb1
  TBs = {ta1, ta2, tb1}
  ModuleOf <- MCModuleOf
SPECIFICATION Spec
SYMMETRY MCSymmetry
INVARIANTS TypeOK LocalCoversStates NewBlockSignalledOnce
