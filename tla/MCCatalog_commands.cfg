SPECIFICATION Spec
CONSTANTS
  awk = awk
  gawk = gawk
  Keys = {1}
  Vers = {1, 2}
  Urls = {1, 2}
  r = r
  Repos = {r}
  Dests = {gawk, awk}
  Script <- Perl
  Seeds <- MCSeeds
  MaxEdits = 2
  MaxRegs = 2
  AtOnce = 1
INVARIANTS
  TypeOK
  ResultsAreOwn
  RegisteredOnce
PROPERTIES
  CleanIsAccepted
  NothingLost
CHECK_DEADLOCK FALSE
