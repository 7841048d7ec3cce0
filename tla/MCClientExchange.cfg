SPECIFICATION Spec
CONSTANTS
  Instructions = {i1, i2}
  Events = {e1, e2, e3}
  Operators = {w1}
  Accounts = {a1}
  MaxUnits = 1
  DatabaseMayFail = TRUE
  None = None
SYMMETRY Symmetry
INVARIANTS
  TypeOK
  PostedOncePerStage
  RecordsAgree
PROPERTY ImplementsTwoStageSettlement
CHECK_DEADLOCK FALSE
