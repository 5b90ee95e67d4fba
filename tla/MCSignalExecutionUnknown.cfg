SPECIFICATION Spec
CONSTANTS
  r1 = r1
  r2 = r2
  h1 = h1
  h2 = h2
  open = open
  close = close
  NoTask = NoTask
  NoCommand = NoCommand
  Replica = {r1}
  Task = {h1}
  Home <- MCHomeOne
  Command = {open}
  Bracketed = {open}
  Closing = {}
  Lots = 1
  ReclaimSettings = {FALSE}
  LostReply = {"raises"}
  MaxDeliveries <- MCTwice
  MaxHolds = 9
  MaxLosses = 0
  MaxCrashes = 0
PROPERTIES
  UnknownReplayReported
CHECK_DEADLOCK FALSE
