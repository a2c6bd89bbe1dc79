CONSTANTS
  a = a
  b = b
  c = c
  d = d
  Threads = {a, b, c, d}
  Senders = {a, b}
  Sys = {s1, s2}
  Created <- MCCreated
  NULL = NULL
  Count = 2
SPECIFICATION FairSpec
INVARIANTS
  ChannelExclusion
  ChannelAssertsHold
PROPERTIES
  ImplementsSyncChannel
  AllThreadsFinish
