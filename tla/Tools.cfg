SPECIFICATION FairSpec
CONSTANTS
  Calls <- SomeCalls
  Root <- Workspace
  PipeRoom = 2
  OutputCap = 3
  GrepMaxLines = 2
  CheckEvery = 2
  Contents <- SomeContents
  OldStrings <- SomeStrings
  NewStrings <- SomeStrings
  Files <- SomeFiles
  Offsets <- SomeOffsets
  Limits <- SomeLimits
  ReadMaxLines = 2
  ReadMaxBytes = 4
INVARIANTS
  TypeOK
  GroupKilled
  
  NothingCutSilently
  PagesContiguous
  
PROPERTIES
  CallReturns
