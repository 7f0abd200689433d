SPECIFICATION FairSpec
CONSTANTS
  Actors <- ThreeActors
  Children <- TwoChildren
  Outcomes <- SomeOutcomes
  MaxTurns <- SomeTurns
  Threshold = 2
INVARIANTS
  TypeOK
  JoinedComplete
  DiagnosisCurrent
PROPERTIES
  EmitsAtomically
  FanoutReturns
