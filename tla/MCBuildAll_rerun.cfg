SPECIFICATION FairSpec
CONSTANTS
  lib = lib
  app = app
  tool = tool
  Pkgs = {lib, app}
  Rows <- Chain
  Procs <- MCProcs
  Prior = Prior
  Exclusive = FALSE
  ClearFails = FALSE
  MaxVer = 2
  MaxRuns = 2
  Cap = 2
  Goals <- AllPkgs
  a1 = a1
  Arches = {a1}
  ArchLists <- OneArchList
  Orphans = FALSE
  Edits = FALSE
INVARIANTS
  BuildDirsApart
  NothingStagedIsBuilding
  OkRunUsedItsOwn
PROPERTIES
  RunEnds
CHECK_DEADLOCK FALSE
