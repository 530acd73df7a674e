SPECIFICATION Spec
CONSTANTS
  lib = lib
  app = app
  tool = tool
  Pkgs = {lib, app}
  Rows <- Twins
  Procs <- MCProcs
  Prior = Prior
  Exclusive = FALSE
  ClearFails = FALSE
  MaxVer = 2
  MaxRuns = 1
  Cap = 2
  Goals <- AllPkgs
  a1 = a1
  Arches = {a1}
  ArchLists <- OneArchList
  Orphans = FALSE
  Edits = FALSE
INVARIANTS
  AllBuilt
CHECK_DEADLOCK FALSE
