CONSTANTS
  MAX_NAME_SIZE = 2
  Inode <- MCInode
  Root = "root"
  Paths <- MCPaths
  DISK_BLK_SIZE = 4
  DISK_CAPACITY_BYTES = 40
  MAX_DATA_BLOCKS_PER_INODE = 3
  MAX_OPEN_FILES = 2
  Sizes = {0, 1, 3, 4, 5, 7, 8, 9}
  WildOffsets = {12, 14, 44}
  NULL = NULL
  STALE = STALE
  BUFFER_SIZE = 4
  MaxPrinted = 16
SPECIFICATION CatSpec
CHECK_DEADLOCK FALSE
INVARIANT CatPrintsFile
