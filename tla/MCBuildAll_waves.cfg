SPECIFICATION Spec
CONSTANTS
  lib = lib
  app = app
  tool = tool
  Pkgs = {lib, app, tool}
  Rows <- Loosened
  Procs <- MCProcs
  Prior = Prior
  Exclusive = FALSE
  ClearFails = FALSE
  MaxVer = 2
  MaxRuns = 1
  Cap = 2
  Goals <- TwoOrMore
  a1 = a1
  Arches = {a1}
  ArchLists <- OneArchList
  Orphans = TRUE
  Edits = TRUE
INVARIANTS
  TypeOK
  OkRunIsComplete
PROPERTIES
  OrderKept
CHECK_DEADLOCK FALSE
