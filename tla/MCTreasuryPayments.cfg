SPECIFICATION Spec
CONSTANTS
  Obligations = {o1}
  Reservations = {r1}
  Accounts = {a1}
  MaxUnits = 2
  None = None
  Payments = {p1}
  Profiles = {f1}
  Bindings = {b1}
SYMMETRY Symmetry
INVARIANTS
  TypeOK
  JournalPostedOnce
  PaidOnce
  InstructionMatchesRows
  DecisionsNameProfiles
PROPERTIES
  EndedIsNotRerouted
  ImplementsReservations
CHECK_DEADLOCK FALSE
