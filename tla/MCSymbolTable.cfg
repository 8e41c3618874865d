SPECIFICATION MCSpec
CONSTANTS
  UserNames = {"v", "texture"}
  UserBlocks <- MCUserBlocks
  BuiltIns <- MCBuiltIns
  BuiltInFunctions <- MCBuiltInFunctions
  Unsized = {"ClipDistance", "in"}
  NamedBlocks = {"in"}
  InvariantOutputs = {"FragDepth", "Position", "ClipDistance"}
  Issued = 3
  Precisions = {"low", "high"}
  MaxLevelInUniqueID = 4
  NoBuiltInRedeclarations = TRUE
  SeparateNameSpaces = FALSE
  MaxLevel = 5
  MaxScopeWork = 4
  MaxBuiltInWork = 5
INVARIANTS
  NoNameClash
  IdsRight
  EditsKept
  UsesAgree
PROPERTIES
  PrecisionsRestored
  SharedUntouched
