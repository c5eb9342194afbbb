CONSTANTS
  x1 = x1
  x2 = x2
  Vars <- MCVars
  W = 2
  Tables <- MCLutTables
  Mapped = {0, 1, 2, 3}
  Exec = {0, 1}
  PageSize = 2
  GPRs <- MCGPRs
  EIP = "EIP"
  ModuleOf <- MCModuleOf
  NoModule = "none"
  NoCbid = ""
  Recipes <- MCRecipes
  IctiOffsets = {0, 1}
  InitRegs <- MCInitRegs
  InitMem <- MCInitMem
  InitPc = 2
  ExprChoices <- MCLutExprChoices
  BranchChoices <- MCBranchChoices
  MaxEnv = 3
SPECIFICATION Spec
INVARIANT PovReadyIsSound
