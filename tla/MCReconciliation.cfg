SPECIFICATION RecSpec
CONSTANTS
  r1 = r1
  handler = handler
  worker = worker
  open = open
  NoTask = NoTask
  NoCommand = NoCommand
  Replica = {r1}
  Task = {handler, worker}
  Worker = worker
  Home <- MCHome
  Command = {open}
  Bracketed = {open}
  Closing = {}
  Lots = 1
  ReclaimSettings = {FALSE}
  LostReply = {"raises", "pending", "rejected"}
  ClientIdInBook = TRUE
  ClientIdLookup = TRUE
  NotFoundResult = FALSE
  MaxDeliveries <- MCTwice
  MaxHolds = 3
  MaxLosses = 0
  MaxCrashes = 1
VIEW MCView
INVARIANTS
  RecTypeOK
  AbortedNeverSent
  SentIsRecoverable
  ExitAfterFill
  CycleSettles
PROPERTIES
  SweepClosesDead
CHECK_DEADLOCK FALSE
