CONSTANTS
  Cwd <- MCCwd
  SvnDirs <- MCSvn
  VcsDirs <- MCVcs
  Inputs <- MCInputs
  Width = 8
SPECIFICATION Spec
INVARIANTS
  ReportsAreOwn
  CheckedAreIncluded
  CountsAgree
  QuietIsQuiet
CHECK_DEADLOCK FALSE
