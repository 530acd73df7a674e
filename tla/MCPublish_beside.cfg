SPECIFICATION Spec
CONSTANTS
  app = app
  lib = lib
  Pkgs = {app, lib}
  MaxVer = 1
  Rows <- NeedNothing
  Prior = Prior
  Arches = {a1, a2}
  a1 = a1
  a2 = a2
  Procs = {p1}
  p1 = p1
  Exclusive = FALSE
  ClearFails = FALSE
  None = None
  MaxPublish = 3
SYMMETRY Swaps
INVARIANTS
  TypeOK
  SignatureIsOfIndex
PROPERTIES
  UnsignedPublished
  OkPublishIsCurrent
CHECK_DEADLOCK FALSE
