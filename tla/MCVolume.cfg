SPECIFICATION VSpec
CONSTANTS
  BS = 2
  NDIRECT = 1
  GROUPS = 3
  BLOCKS_PER_GROUP = 5
  INODES_PER_GROUP = 2
  FIRST_DATA_BLOCK = 1
  TOTAL_BLOCKS = 14
  Names = {x, y, dot, dotdot}
  UserNames = {x, y}
  Dot = dot
  DotDot = dotdot
  NameLen <- MCNameLen
  UNITS = 9
  USED = {1, 2, 3, 6, 7, 11, 14}
  ROOT_BLOCK = 3
  Counts = {3, 5}
  MaxSize = 8
  MaxCalls = 5
  Garbage = {4}
SYMMETRY Symmetry
INVARIANTS BlocksOwned CountsAgree 
 
CHECK_DEADLOCK FALSE
