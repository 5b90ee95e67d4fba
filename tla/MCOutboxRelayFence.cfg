SPECIFICATION Spec
CONSTANTS
  Event = {command}
  Command = {command}
  Consumer = {relay}
  NoOwner = NoOwner
  Worker = {w1, w2}
  ConsumerName <- MCConsumerName
  MaxAttempts = 2
  MaxAudit = 1
  BatchLimit = 1
  MaxCrashes = 0
  MaxSlow = 1
INVARIANT FenceExact
