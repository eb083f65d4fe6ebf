SPECIFICATION Spec
CONSTANTS
  Width = 5
  Height = 4
  Word = 256
  Chars <- SomeChars
  Garbage <- NoGarbage
INVARIANTS
  TypeOK
  CursorsAgree
  IndexBounded
PROPERTIES
  ClearsPage
  ClearReturns
\* A hung console stops its caller.
CHECK_DEADLOCK FALSE
