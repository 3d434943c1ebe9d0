CONSTANTS
  MaxPid = 1
  MaxFds = 4
  Handles = {h1}
  Stdio = Stdio
  NULL = NULL
  Users = {0, 1}
  Paths <- MCPaths
  InitFiles <- MCInitFiles
  OpenFlagSets <- MCOpenFlagSets
  CreateModes <- MCCreateModes

SPECIFICATION Spec
SYMMETRY MCSymmetry

INVARIANT TypeOK
INVARIANT NoFreedTableInUse
INVARIANT NoNodeFreedWhileHeld
PROPERTY NewFdIsLowest
