CONSTANTS
  NULL = NULL
  ALLOC8R_HEAP_SIZE = 24
  CHUNK_SIZE = 4
  HEADER = 2
  ALIGN = 2
  Requests = {0, 1, 5, 20, 22, 25}
  DATA = DATA
  NThreads = 3
  TOP_PRIORITY = 2
  SCHED_PERIOD = 2
  MIN_SLICE = 2
  TIME_PRIORITY_THRESHOLD = 2
  Durations = {1, 2}
  MaxTotal = 3
  DISK_BLK_SIZE = 4
  DISK_CAPACITY_BYTES = 40
  MAX_DATA_BLOCKS_PER_INODE = 3
  MAX_NAME_SIZE = 2
  HostEntries <- MCHostEntries
  Hosts <- MCHosts
  INODE_SIZE = 2
  DEFAULT_INODE_BLOCKS = 2
  InodeBlocks = {1, 3}
  HostPaths <- MCHostPaths
  CONTINUATION = {"'"}
  Inode <- MCInode
  Root = "root"
  Paths <- MCPaths
  MAX_OPEN_FILES = 2
  Sizes = {0, 1, 3, 4, 5, 7, 8, 9}
  WildOffsets = {12, 14, 44}
  STALE = STALE
  BUFFER_SIZE = 4
  MaxPrinted = 16
  Lines <- MCLines
  MAX_CMD_LENGTH = 14
  MAX_VARVALUE_LENGTH = 6
  GETLINE_SIZE = 12
  MAX_CMD_HISTORY = 2
  MaxLines = 3
  Trees <- MCTrees
  ThreadCounts = {0, 2}
  MaxBork = 2
  Sys = {s1, s2, s3}
SPECIFICATION PartsSpec
CHECK_DEADLOCK FALSE
INVARIANTS
  HeapAccounted
  RefusedOnlyWhenFull
  PoliciesFair
  OpenedOnce
  OpenOutcome
  FirstBlockRead
  CatOutcome
  ImageReadsBack
  ShellRemembers
  ForksInOrder
  NoDeadlock
  ListsLocked
