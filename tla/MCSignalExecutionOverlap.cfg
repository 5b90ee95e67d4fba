SPECIFICATION Spec
CONSTANTS
  r1 = r1
  r2 = r2
  h1 = h1
  h2 = h2
  open = open
  close = close
  NoTask = NoTask
  NoCommand = NoCommand
  Replica = {r1, r2}
  Task = {h1, h2}
  Home <- MCHome
  Command = {open}
  Bracketed = {}
  Closing = {}
  Lots = 2
  ReclaimSettings = {TRUE, FALSE}
  LostReply = {"raises"}
  MaxDeliveries <- MCTwice
  MaxHolds = 9
  MaxLosses = 1
  MaxCrashes = 1
SYMMETRY MCSymmetry
INVARIANTS
  SubmittedOnce
  OneExecutor
  ClosedRowIsDead
  LedgerBetweenRowAndVenue
PROPERTIES
  FillsNeverLost
CHECK_DEADLOCK FALSE
