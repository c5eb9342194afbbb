CONSTANTS
  EIP0 = EIP0
  Arrays <- MCArrays
  ArrayKind <- MCArrayKind
  ByteMax = 1
  States <- MCStates
  MaxIO = 1
  Conds <- MCConds
  Options <- MCOptions
  Roles <- MCRoles
  Seeds <- MCSeeds
SPECIFICATION Spec
INVARIANTS
  TypeOK
  RemapPreservesPath
  ForkOutcomesFollowPath
CHECK_DEADLOCK FALSE
