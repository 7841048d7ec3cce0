SPECIFICATION Spec
CONSTANTS
  Obligations = {o1, o2}
  Reservations = {r1, r2}
  Accounts = {a1, a2}
  MaxUnits = 2
  None = None
SYMMETRY Symmetry
INVARIANTS
  TypeOK
  ReservedIsHeld
  NothingCreatedOrLost
  CancelledHoldsNothing
  StatusMatchesFulfilment
PROPERTIES
  TerminalRowsAreFinal
  ImplementsEscrow
CHECK_DEADLOCK FALSE
