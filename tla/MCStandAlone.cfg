SPECIFICATION MCSpec
CONSTANTS
  main = main
  w1 = w1
  w2 = w2
  desktop = desktop
  es = es
  ref = ref
  extra = extra
  f1 = f1
  f2 = f2
  f3 = f3
  NoThread = NoThread
  Threads = {main, w1, w2}
  Main = main
  Keys = {desktop, es}
  EsKeys = {es}
  NumStages = 2
  FragmentStage = 2
  Clients = {ref, extra}
  Owner <- MCOwner
  Sponsor <- MCSponsor
  StagesOf <- MCStagesOf
  Items <- MCItems
  JobOf <- MCJobOf
  Repeats = 2
CHECK_DEADLOCK FALSE
INVARIANTS
  EachFileOnce
  ExitCodeRight
PROPERTIES
  KeepsContract
  Terminates
