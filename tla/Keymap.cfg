SPECIFICATION Spec
CONSTANTS
  Keys <- MixedKeys
  WireSize = 3
  Garbage <- SomeGarbage
INVARIANTS
  TypeOK
  NoStuckFlag
PROPERTIES
  AloneTypesItself
