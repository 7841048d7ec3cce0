SPECIFICATION Spec
CONSTANTS
  Accounts = {a, b}
  Obligations = {o}
  Amounts = {1, 2}
  Events = {e}
  DepositIds = {d}
  InternalKeys = {k}
  ExternalKeys = {x}
  RedemptionKeys = {r}
  MaxOpening = 2
  MaxReservations = 2
  MaxCredits = 1
  MaxOrders = 1
  Holders = {a, b}
  Users = {u, v}
  Targets = {2}
  Buffers = {1}
  Fees = {0, 1}
  Thresholds = {1, 2}
  Reports = {1}
  MaxBalance = 2
  MaxReserved = 1
  MaxMovements = 2
  MaxInstructions = 2
  MaxRuns = 2
  MaxBreaks = 2
  Clients = {c}
  Keys = {u, v}
  CircleIds = {}
  Applications = {x1, x2}
  Calls = {u, v}
SYMMETRY Symmetry
CONSTRAINT Explored
INVARIANTS FundsAddUp MovesFollowApprovals 
CHECK_DEADLOCK FALSE
