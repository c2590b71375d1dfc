CONSTANTS
  Cwd <- MCCwd
  SvnDirs <- MCSvn
  VcsDirs <- MCVcs
  Inputs <- MCWidths
  Width = 8
SPECIFICATION Spec
INVARIANT WidthOfNearest
CHECK_DEADLOCK FALSE
