SPECIFICATION Spec
CONSTANTS
  Configs <- WindowConfigs
  Replies <- WindowReplies
  CallKinds <- PlainKinds
  SummaryCosts <- OneCost
  DefaultMaxTurns = 2
  DefaultIncapable = 3
  ReservedHeadroom = 10
  MaxUserMsgs = 1
  TurnBound = 0
INVARIANTS
  ConversationOK
  
PROPERTIES
  OnlyCompactionForgets
  KeepsProtocol
