\* Two processes on one tmpfs directory, one name, two objects; blocks of
\* 3 bytes and files of up to 7, so reads and writes span two blocks and a
\* write reaches block 2, past the two slots a new file's array has.
\* Offsets: block 0 alone, a span of blocks 0-1, a span of blocks 1-2.
CONSTANTS
  p1 = p1
  p2 = p2
  n1 = n1
  Procs <- MCProcs
  Names = {n1}
  BLOCKSIZE = 3
  MaxLen = 7
  Offsets = {0, 2, 5}
  Sizes = {2}
  MaxObjs = 2
  TargetLens = {2}
SYMMETRY MCSymmetry
SPECIFICATION Spec
CHECK_DEADLOCK FALSE
INVARIANTS
  TypeOK
  ListingNeverRepeats
  BlocksFitArray
