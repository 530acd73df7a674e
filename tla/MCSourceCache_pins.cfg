SPECIFICATION Spec
CONSTANTS
  N = 2
  tarball = tarball
  overlay = overlay
  Files = {tarball, overlay}
  FileOf <- Main
  StageFile = tarball
  u1 = u1
  u2 = u2
  u3 = u3
  d1 = d1
  d2 = d2
  Urls = {u1, u2, u3}
  Digests = {d1, d2}
  Vendored = d1
  None = None
  Torn = Torn
  MaxUpdates = 2
  MaxShifts = 1
INVARIANTS
  TypeOK
  PinsAreWhole
  FilesAreChecked
  SameBytes
  FetchHolds
CHECK_DEADLOCK FALSE
