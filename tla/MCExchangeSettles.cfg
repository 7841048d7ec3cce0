SPECIFICATION Spec
CONSTANTS
  Instructions = {i1}
  Events = {e1, e2}
  Operators = {w1}
  Accounts = {a1}
  MaxUnits = 1
  DatabaseMayFail = FALSE
  None = None
PROPERTY StagesInOrderSettle
CHECK_DEADLOCK FALSE
