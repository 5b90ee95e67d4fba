SPECIFICATION RecSpec
CONSTANTS
  r1 = r1
  handler = handler
  worker = worker
  open = open
  NoTask = NoTask
  NoCommand = NoCommand
  Replica = {r1}
  Task = {handler, worker}
  Worker = worker
  Home <- MCHome
  Command = {open}
  Bracketed = {open}
  Closing = {}
  Lots = 1
  ReclaimSettings = {FALSE}
  LostReply = {"raises"}
  ClientIdInBook = TRUE
  ClientIdLookup = FALSE
  NotFoundResult = TRUE
  MaxDeliveries <- MCOnce
  MaxHolds = 3
  MaxLosses = 0
  MaxCrashes = 0
INVARIANTS
  ExpiredNeverTraded
CHECK_DEADLOCK FALSE
