SPECIFICATION ServicesSpec
CONSTANTS
  r1 = r1
  r2 = r2
  handler1 = handler1
  worker1 = worker1
  handler2 = handler2
  Replica = {r1, r2}
  Task = {handler1, worker1, handler2}
  Home <- MCHome
  NoTask = NoTask
  MaxHolds = 4
  MaxLosses = 2
  MaxCrashes = 1

  Strategy = {s1}
  BrokerKey = broker
  Threshold = 2
  Window = 1
  Cooldown = 2
  MaxClock = 3
  MaxOpenings = 2
  MaxBreakerFaults = 1

  feedA = feedA
  feedB = feedB
  Symbol = {feedA, feedB}
  Length <- MCLength
  MaxRevision = 2
  BootstrapBars = 2
  MaxRestarts = 1
  MaxWrites = 3
  MaxFaults = 1

  Event = {1, 2, 3}
  Command = {}
  Consumer = {relay}
  NoOwner = NoOwner
  MaxAttempts = 2
  MaxAudit = 0
  SignalConsumer = relay
  MaxPasses = 2
  MaxLoopDeaths = 2

  i1 = i1
  i2 = i2
  i3 = i3
  i4 = i4
  Input = {i1, i2, i3, i4}
  SessionOf <- MCSession
  CutoffOf <- MCCutoff
  ActivationCutoff = 1
  NoInput = NoInput
  Main = main
  Caller = caller
  MaxPanelFaults = 1
  MaxSubmissions = 1

  MaxSupervisors = 2
  Upkeep = upkeep
  Nobody = Nobody
  MaxJobs = 1
  MaxInterventions = 2
  MaxResearchFaults = 1
INVARIANTS
  ServicesTypeOK
  OverlapOnlyAfterLoss
  OvertakenIsTold
  CooldownBounded
  StateIsHistory
  DecidedInOrder
  DeliveredInOrder
  NoWakeLost
  SessionPinnedOnce
  ModelIsCompletedPanels
  OneComputation
  MaintenanceQuiet
PROPERTIES
  ReleaseOnlyOwn
  LockReturned
  NoAdmissionWhileTripped
  CheckpointMonotone
  IndicatorCatchesUp
  DeliveredOrBlocked
  PanelsDecided
  EndedIsFinal
  AttemptsEnd
CHECK_DEADLOCK FALSE
