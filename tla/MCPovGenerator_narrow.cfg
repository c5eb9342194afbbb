CONSTANTS
  EIP0 = EIP0
  Arrays <- MCArrays
  ArrayKind <- MCArrayKind
  ByteMax = 1
  States <- MCStates
  MaxIO = 0
  Conds <- MCCondsMerged
  Options <- MCOptions
  Roles <- MCRoles
  Seeds <- MCSeeds
SPECIFICATION Spec
INVARIANT ConcolicsFollowPath
CHECK_DEADLOCK FALSE
