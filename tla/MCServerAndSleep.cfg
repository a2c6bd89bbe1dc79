CONSTANTS
  N = 3
  Keys = {1, 2}
  Vals = {1, 2}
  Programs <- MCPrograms
  Main = main
  Sender = sender
  NULL = NULL
  Sys = {s1, s2, s3}
  IS_OVER = 10
  MaxWakes = 2
SPECIFICATION BothSpec
INVARIANTS
  AnswersInOrder
  FramesAlive
  SleepCountExact
  NoEarlyEnd
PROPERTIES
  ServerEnds
  SleepersStart
  AllEndOrSleep
