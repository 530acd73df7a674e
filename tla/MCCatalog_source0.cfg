SPECIFICATION Spec
CONSTANTS
  awk = awk
  gawk = gawk
  Keys = {1}
  Vers = {1, 2}
  Urls = {1, 2}
  r = r
  Repos = {r}
  Dests = {gawk, awk}
  Script <- Perl
  Seeds <- MCSeeds
  MaxEdits = 0
  MaxRegs = 1
  AtOnce = 1
PROPERTIES
  SameSource0
CHECK_DEADLOCK FALSE
