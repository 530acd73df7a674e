SPECIFICATION BuildSpec
CONSTANTS
  lib = lib
  app = app
  Pkgs = {lib, app}
  MaxVer = 2
  Rows <- LibAndApp
  Prior = 0
  Arches = {a1}
  a1 = a1
  Procs = {1, 2}
  Exclusive = FALSE
  ClearFails = TRUE
INVARIANTS
  BuildTypeOK
  SignedOrUnfinished
  UnsignedInHand
CHECK_DEADLOCK FALSE
