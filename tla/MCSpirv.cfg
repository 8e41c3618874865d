SPECIFICATION SpirvSpec
CONSTANTS
  MaxStatements = 4
  MaxInside = 2
  Plain = {"expr", "return", "discard"}
  Jumps = {"break", "continue"}
  CaseValues = {1}
  Default = default
  IfOperators = {"plain"}
  LoopShapes <- MCLoopShapes
  MaxPath = 4
  FirstTypeId = 3
  TypeIdLimit = 2
  FirstNameId = 4
  NameIdLimit = 3
  FirstBodyId = 6
  BodyIdLimit = 5
  NameHash <- MCNameHash
  OpNumber <- MCOpNumber
  ObjectTypes <- MCTypes
  Swizzles <- MCSwizzles
  MaxPushes = 3
  MaxInCall = 1
INVARIANTS
  OnlyLegalJumps
  SameFlow
  WellFormed
  DecorationsFollow
  MeaningKept
  IdsApart
  AccessesMeant
CHECK_DEADLOCK FALSE
