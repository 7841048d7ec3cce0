SPECIFICATION Spec
CONSTANTS
  Instructions = {i1}
  Keys = {k1}
  Events = {e1}
  Connections = {w1}
  Operators = {p1}
  Accounts = {a1}
  MaxUnits = 1
  None = None
INVARIANT CreditedByConfirmation
CHECK_DEADLOCK FALSE
