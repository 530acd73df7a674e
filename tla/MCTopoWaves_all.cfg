SPECIFICATION FairSpec
CONSTANTS
  a = a
  b = b
  c = c
  Names = {a, b, c}
  Catalogs <- MCCatalogs
  TargetLists <- UpToTwoTargets
  NewReqs <- OneWordOrNone
  MaxEdits = 1
  Doubled = {a}
  Flaws = 1
INVARIANTS
  TypeOK
  KeysAreClosure
  WavesOrdered
  NoUnderflow
  PlanComplete
  CycleIsReal
  LoopInv
  ClosureInv
PROPERTIES
  Terminates
CHECK_DEADLOCK FALSE
