SPECIFICATION FairSpec
CONSTANTS
  Configs <- AutonomousConfigs
  Replies <- AutonomousReplies
  CallKinds <- AllKinds
  SummaryCosts <- OneCost
  DefaultMaxTurns = 2
  DefaultIncapable = 3
  ReservedHeadroom = 10
  MaxUserMsgs = 0
  TurnBound = 0
INVARIANTS
  ReportsOnce
  WrapUpOnTime
  RepeatsBounded
PROPERTIES
  NoTurnOverBudget
  AutonomousEnds
