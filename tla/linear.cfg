CONSTANTS
  c1 = c1
  c2 = c2
  Sizes = {2}
  Garbage = {0, 9}
  Clients = {c1, c2}
  Loads <- MCLoads
  Milli = 2
  IntSpan = 12
  Https <- MCHttps
  Unwritten = Unwritten
  NoFile = NoFile
  Unset = Unset
  MaxStarts = 2
SPECIFICATION Spec
INVARIANTS
  TypeOK
  StatsTrackExtremes
  BothUnitsAgree
  StatFileFresh
  LogNamesClients
  CodeOfAuthorized
  NeverShort
CHECK_DEADLOCK FALSE
