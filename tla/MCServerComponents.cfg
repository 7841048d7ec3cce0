SPECIFICATION Spec
CONSTANTS
  Commands = {k1, k2}
  Handlers = {h1, h2}
  MaxRuns = 2
  Faults = {"restart", "loadFails", "saveFails", "job"}
  Events = {k1, k2}
  Deliveries = {h1, h2}
  Writes = 2
  MaxReprocess = 1
  Emails = {admin, ann}
  RoleLists = {{"auditor"}, {"platform_admin"}}
  Admin = admin
  People = {h1, h2}
  MaxInvitations = 2
  MaxCalls = 3
  Accounts = {ada1, ada2}
  ProvisionKeys = {k1, k2}
  NamedSets = {s}
  Provisioners = {h1, h2}
  MaxDisabled = 1
  ActivationKeys = {k1, k2}
  OwnSets = {s}
  Activators = {h1, h2}
  WireClerks = {h1, h2}
  Actors = {h1, h2}
  CircleRail = TRUE
  Ledgers = {k1, k2}
  Instruments = {ada1, ada2}
  Editors = {h1, h2}
  JournalKeys = {j1, j2, j3, j4}
  Settlements = {s}
  Posters = {h1, h2}
  CreditLimit = 2
  Advances = {k1, k2}
  Disbursements = {ada1}
  Redemptions = {ada2}
  Desks = {h1, h2}
  CallKeys = {j1}
  OtherKeys = {j2}
  Callers = {h1, h2}
  MaxAttempts = 2
  MaxAsked = 3
  Bindings <- RouteBindings
  Reservations = {k1, k2}
  ProviderEvents <- TransferEvents
  MaxTransfers = 2
  MaxBrought = 1
  MaxRequests = 4
  Requests = {h1, h2}
SYMMETRY Symmetry
INVARIANTS EffectsAreOnRecord ProvisionedOnce RowsAgree
PROPERTIES AccountsFollowTheirLifecycle NothingIsUndone
CHECK_DEADLOCK FALSE
