CONSTANTS
  p1 = p1
  n1 = n1
  home = home
  lnk = lnk
  LongName = LongName
  Users = {0, 1}
  Procs = {p1}
  Names <- MCNames
  Paths <- MCPaths
  Modes <- MCModes
  InitFiles <- MCInitFiles
  SysNums <- MCSysNums
  Ptrs = {"user", "null"}
  UmaskArgs = {530}
  ExecModes = {}

SPECIFICATION Spec
VIEW StateView
CHECK_DEADLOCK FALSE

INVARIANT TypeOK
PROPERTY PrivilegedChangeByAuthorised
PROPERTY ErrorsLeaveStateUnchanged
