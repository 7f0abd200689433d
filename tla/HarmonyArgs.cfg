SPECIFICATION Spec
CONSTANTS
  Feeds <- JustContent
  MaxChunks = 3
INVARIANT
  ArgumentsEndAtToken
