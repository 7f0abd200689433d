SPECIFICATION Spec
CONSTANTS
  Feeds <- AllFeeds
  MaxChunks = 3
INVARIANTS
  ShownIsAssembled
  CallsAsSent
  TruncationDetected
  HarmonyExtracted
  DetailsAssembled
