SPECIFICATION MCSpec
CONSTANTS
  MaxIfNesting = 3
  Sources = {"main", "other"}
  Headers = {"rb", "sb", "eb", "ec"}
  NoFile = "none"
  Dirs = {"r", "q", "s", "d", "e"}
  Names = {"b", "s/b", "c"}
  DirOf <- MCDirOf
  FileAt <- MCFileAt
  ExternalDirs <- MCExternalDirs
  MaxDepth = 4
INVARIANT
  InputsInOrder
PROPERTIES
  GroupsSpec
  SearchOrder
