CONSTANTS
  a = a
  b = b
  c = c
  Threads = {a, b, c}
  Sys = {s1, s2}
  Created <- MCCreated
  NULL = NULL
  MaxCalls = 2
SPECIFICATION FairSpec
INVARIANTS
  ListsMatchStates
  CollectedOnce
  NoStrandedJoiner
PROPERTIES
  JoinResult
  JoinReturns
CHECK_DEADLOCK FALSE
