SPECIFICATION FairSpec
CONSTANTS
  Policies <- ThreePolicies
  RetryAfters <- SomeHeaders
  MaxFragments = 2
INVARIANTS
  ShownIsReply
  RequestsBounded
  SleepsAsAsked
PROPERTIES
  StreamedCallReturns
  CancelReturns
