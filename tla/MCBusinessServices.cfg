SPECIFICATION Spec
CONSTANTS
  Ids = {x, y}
  Requests = {r1, r2}
  DatabaseAway = TRUE
  Servers = {x, y}
  SessionCalls = {r1, r2}
  MaxTokens = 2
  Items = {a, b}
  Rails = {b}
  Retries = {r1, r2}
  MaxTimes = 2
SYMMETRY Symmetry
INVARIANT CopiesKeepTheirWord
PROPERTY GoneStaysGone
CHECK_DEADLOCK FALSE
