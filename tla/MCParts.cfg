SPECIFICATION Spec
CONSTANTS
  HEAP = 13
  HDR = 2
  PTR = 1
  Requests = {0, 1, 2, 4}
  Alignments = {4}
  PAGE = 4
  START = 3
  OBJ = 2
  MaxObjects = 6
  Keys = {1, 2, 3}
  Objects = {a, b}
  NULL = NULL
  PID_HASH_SIZE = 2
  NODES_PER_PAGE = 2
  MaxPages = 2
  NUM_2MB_PAGES = 3
  PAGES_PER_2MB = 2
  Reserved <- OneReserved
  MaxReturned = 1
  BLOCK_SIZE = 1
  PAGE_SIZE = 4
  Lines <- MCLines
  CHARS = 2
  POINTER = 1
  ARGS = 2
  MaxLines = 5
  Cells = 5
  Characters = {0, 65, 66}
  Width = 8
  Buffer = 8
  Formats <- MCFormats
  Numbers <- MCNumbers
INVARIANTS Exclusive NoneLost NoOverlap  NodesAccounted
  HeapTiled NothingLost PrintfFits ReadsBack
PROPERTIES ImplementsMap VariablesKept CopiesExact SearchesAgree
CHECK_DEADLOCK FALSE
