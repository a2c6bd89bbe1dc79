CONSTANTS
  t1 = t1
  t2 = t2
  t3 = t3
  t4 = t4
  Threads = {t1, t2, t3, t4}
  Sys = {s1, s2}
  Created <- MCCreated
  NULL = NULL
SPECIFICATION FairSpec
INVARIANTS
  TypeOK
  OnePlace
  MutualExclusion
  SpinlockHeld
  AssertsHold
  WakeupPending
PROPERTIES
  ImplementsFifoLock
  QueuedGetsMutex
