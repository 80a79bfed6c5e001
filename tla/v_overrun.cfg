SPECIFICATION Spec
CONSTANTS
  Buffers = {b1, b2, b3, b4, b5}
  NULL = NULL
  CMDLINE_HISTLEN = 3
  LCC_BUF_ADD_LEN = 2
  LCC_BUF_ENLARGE_ZONE = 1
  MaxLine = 2
  MaxInsert = 2
INVARIANT NoOverrun
SYMMETRY BufferSymmetry
CHECK_DEADLOCK FALSE
