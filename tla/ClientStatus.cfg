SPECIFICATION Spec
CONSTANTS
  Policies <- OneRetry
  RetryAfters <- SomeHeaders
  MaxFragments = 1
INVARIANT
  StatusTerminal
