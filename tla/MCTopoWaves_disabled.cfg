SPECIFICATION Spec
CONSTANTS
  a = a
  b = b
  Names = {a, b}
  Catalogs <- MCCatalogs
  TargetLists <- AllPackages
  NewReqs <- OneWordOrNone
  MaxEdits = 0
  Doubled = {}
  Flaws = 1
INVARIANTS
  AllDepsEarlier
CHECK_DEADLOCK FALSE
