SPECIFICATION BuildSpec
CONSTANTS
  lib = lib
  app = app
  Pkgs = {lib, app}
  MaxVer = 2
  Rows <- LibAndApp
  Prior = 0
  Arches = {a1, a2}
  a1 = a1
  a2 = a2
  Procs = {1, 2}
  Exclusive = TRUE
  ClearFails = FALSE
INVARIANTS
  StagedExactly
PROPERTIES
  ExitOkIsSigned
CHECK_DEADLOCK FALSE
