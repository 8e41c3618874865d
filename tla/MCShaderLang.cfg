SPECIFICATION MCSpec
CONSTANTS
  t1 = t1
  t2 = t2
  desktop = desktop
  es = es
  c1 = c1
  c2 = c2
  c3 = c3
  NoThread = NoThread
  Threads = {t1, t2}
  Keys = {desktop, es}
  EsKeys = {es}
  NumStages = 2
  FragmentStage = 2
  Clients = {c1, c2, c3}
  Owner <- MCOwner
  Sponsor <- MCSponsor
  StagesOf <- MCStagesOf
  MaxGPA = 2
  NoBlock = NoBlock
  Blocks = {b1, b2, b3}
  PageSize = 7
  HeaderSkip = 2
  Alignment = 2
  Sizes = {0, 1, 3, 5, 6}
  MaxMarks = 3
SYMMETRY Symmetry
INVARIANTS
  TablesInLivePool
  AdoptedTableComplete
  HeapInOrder
PROPERTIES
  ReadOnlyIsFinal
  CacheSpec
  MarkReleaseSpec
