\* Two processes on one tmpfs directory, one name, two objects; blocks of
\* 3 bytes and files of up to 7, so reads and writes span two or three blocks.
CONSTANTS
  p1 = p1
  p2 = p2
  n1 = n1
  Procs <- MCProcs
  Names = {n1}
  BLOCKSIZE = 3
  MaxLen = 7
  Offsets = {0, 2, 5}
  Sizes = {2}
  MaxObjs = 2
  TargetLens = {2}
SYMMETRY MCSymmetry
SPECIFICATION Spec
CHECK_DEADLOCK FALSE
INVARIANT
  UniqueNames
