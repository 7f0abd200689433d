SPECIFICATION Spec
CONSTANTS
  Configs <- StashConfigs
  Replies <- StashReplies
  CallKinds <- PlainKinds
  SummaryCosts <- OneCost
  DefaultMaxTurns = 2
  DefaultIncapable = 3
  ReservedHeadroom = 10
  MaxUserMsgs = 1
  TurnBound = 0
INVARIANTS
  StashNeverDropped
