SPECIFICATION FairTxSpec
CONSTANTS
  Obligations = {o1, o2}
  Reservations = {r1}
  Accounts = {a1}
  Connections = {w1, w2}
  EndStatus = {"released"}
  MaxUnits = 1
  None = None
PROPERTY
  EveryCommandEnds
CHECK_DEADLOCK FALSE
