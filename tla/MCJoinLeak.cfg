CONSTANTS
  a = a
  b = b
  c = c
  Threads = {a, b, c}
  Sys = {s1, s2}
  Created <- MCCreated
  NULL = NULL
  MaxCalls = 1
SPECIFICATION Spec
INVARIANT DeadIsFreed
CHECK_DEADLOCK FALSE
