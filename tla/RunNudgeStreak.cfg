SPECIFICATION Spec
CONSTANTS
  Configs <- NudgeConfigs
  Replies <- NudgeReplies
  CallKinds <- AllKinds
  SummaryCosts <- OneCost
  DefaultMaxTurns = 2
  DefaultIncapable = 3
  ReservedHeadroom = 10
  MaxUserMsgs = 0
  TurnBound = 0
PROPERTIES
  BatchNudgeTruthful
