SPECIFICATION FSpec
CONSTANTS
  BS = 2
  NDIRECT = 1
  GROUPS = 1
  BLOCKS_PER_GROUP = 9
  INODES_PER_GROUP = 6
  FIRST_DATA_BLOCK = 1
  TOTAL_BLOCKS = 9
  Names = {dot, dotdot, bin, prog, tool, f, dev, vcon, missing}
  Dot = dot
  DotDot = dotdot
  Bin = bin
  Dev = dev
  Vcon = vcon
  ProgName = prog
  ToolName = tool
  FileName = f
  Missing = missing
  WholeUnits = {}
  Garbled = garbled
  NameLen <- MCNameLen
  UNITS = 12
  Procs = {1, 2}
  Boot = 1
  FD_ENTRY_COUNT = 2
  Disk <- MCDisk
  OpenPaths <- MCOpenPaths
  DirPaths <- MCDirPaths
  UsedFds = {0, 2}
  Counts = {3}
  MaxSize = 8
  MaxOpen = 3
  MaxCalls = 6
  MaxTables = 4
  Positions = {0, 3}
INVARIANTS InodeCoherent LookupsAgree
PROPERTIES ImplementsFds
CHECK_DEADLOCK FALSE
