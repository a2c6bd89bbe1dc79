CONSTANTS
  Lines <- MCLines
  MAX_CMD_LENGTH = 14
  MAX_VARVALUE_LENGTH = 6
  MAX_CMD_HISTORY = 2
  GETLINE_SIZE = 12
  MaxLines = 3
SPECIFICATION ShellSpec
CHECK_DEADLOCK FALSE
INVARIANT BufferHolds
