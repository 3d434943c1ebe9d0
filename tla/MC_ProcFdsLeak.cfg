CONSTANTS
  MaxPid = 1
  MaxFds = 3
  Handles = {h1, h2}
  Stdio = Stdio
  NULL = NULL
  Users = {0, 1}
  Paths <- MCPaths
  InitFiles <- MCInitFiles
  OpenFlagSets <- MCOpenFlagSets
  CreateModes <- MCCreateModes

SPECIFICATION Spec
SYMMETRY MCSymmetry

INVARIANT NodeRefsMatchHolders
