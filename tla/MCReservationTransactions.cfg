SPECIFICATION TxSpec
CONSTANTS
  Obligations = {o1}
  Reservations = {r1, r2}
  Accounts = {a1}
  Connections = {w1, w2, w3}
  EndStatus = {"released"}
  MaxUnits = 2
  None = None
SYMMETRY Symmetry
INVARIANT LocksAreOrdered
PROPERTY CommandsAreAtomic
CHECK_DEADLOCK FALSE
