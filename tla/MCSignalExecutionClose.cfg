SPECIFICATION FairSpec
CONSTANTS
  r1 = r1
  r2 = r2
  h1 = h1
  h2 = h2
  open = open
  close = close
  NoTask = NoTask
  NoCommand = NoCommand
  Replica = {r1}
  Task = {h1, h2}
  Home <- MCHomeShared
  Command = {open, close}
  Bracketed = {}
  Closing = {close}
  Lots = 1
  ReclaimSettings = {FALSE}
  LostReply = {"raises"}
  MaxDeliveries <- MCOpenAndClose
  MaxHolds = 9
  MaxLosses = 0
  MaxCrashes = 0
INVARIANTS
  ClosedRowIsDead
PROPERTIES
  RequestsEnd
CHECK_DEADLOCK FALSE
