SPECIFICATION FairSpec
CONSTANTS
  Event = {command, stray}
  Command = {command}
  Consumer = {relay}
  NoOwner = NoOwner
  Worker = {w1, w2}
  ConsumerName <- MCConsumerName
  MaxAttempts = 2
  MaxAudit = 2
  BatchLimit = 2
  MaxCrashes = 1
  MaxSlow = 1
INVARIANTS
  TypeOK
  PublishedWasAccepted
  FenceExactInGeneration
  RetryBudget
  RedriveAudited
PROPERTIES
  DeliveryContract
