CONSTANTS
  a = a
  b = b
  c = c
  d = d
  Tids = {a, b, c, d}
  Main = a
  NULL = NULL
  tsys = tsys
  MaxCalls = 6
SPECIFICATION Spec
INVARIANTS
  ListsMatchStates
  NoErrorExit
  StrandedOnlyByOthers
SYMMETRY Symmetry
PROPERTY JoinOutcome
