CONSTANTS
  Files = {f1}
  Handles = {h1, h2}
  NULL = NULL
  BLOCKSIZE = 3
  MaxLen = 4
  MaxFds = 2
  Sizes = {2}
  SeekArgs = {0, 1}
  OpenFlagSets <- MCOpenFlagSets

SPECIFICATION Spec
SYMMETRY MCSymmetry

PROPERTY OffsetsFollowTheFile
CHECK_DEADLOCK FALSE
