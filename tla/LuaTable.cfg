SPECIFICATION Spec
CONSTANTS
  s = s
  o = o
  x = x
  nil = nil
  invalid = invalid
  done = done
  Ints = {1, 2, 4, 5}
  Strings = {s}
  Objects = {o}
  Values <- OneValue
  Nil = nil
  Invalid = invalid
  Done = done
  Tables <- SomeTables
  MAXBITS = 2
  MAX_INT = 7
INVARIANTS
  TypeOK
  ChainsSound
  RehashFits
  GetnBorder
  ArrayOptimal
PROPERTIES
  Implements
\* The model stops where keys are lost.
CHECK_DEADLOCK FALSE
