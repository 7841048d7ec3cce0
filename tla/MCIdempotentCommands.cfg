SPECIFICATION FairSpec
CONSTANTS
  Keys = {k1}
  Requests = {h1, h2}
  Connections = {w1, w2, w3}
  MaxRuns = 2
  None = None
INVARIANTS
  TypeOK
  AtMostOneEffect
  AnswersAreCommitted
PROPERTIES
  ImplementsAtMostOnce
  EveryCommandEnds
CHECK_DEADLOCK FALSE
