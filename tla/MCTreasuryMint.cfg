SPECIFICATION Spec
CONSTANTS
  Instructions = {i1}
  Keys = {k1, k2}
  Events = {e1, e2}
  Connections = {w1, w2}
  Operators = {p1}
  Accounts = {a1}
  MaxUnits = 2
  None = None
INVARIANTS
  TypeOK
  CreditsBackedByMints
  RecordsAgree
PROPERTY UntouchedDuringMint
CHECK_DEADLOCK FALSE
