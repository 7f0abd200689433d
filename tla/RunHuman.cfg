SPECIFICATION FairSpec
CONSTANTS
  Configs <- HumanConfigs
  Replies <- HumanReplies
  CallKinds <- SomeKinds
  SummaryCosts <- OneCost
  DefaultMaxTurns = 2
  DefaultIncapable = 3
  ReservedHeadroom = 10
  MaxUserMsgs = 3
  TurnBound = 3
INVARIANTS
  TypeOK
  CallsPaired
  InputDelivered
PROPERTIES
  ClosedRunEnds
  CancelEnds
