SPECIFICATION Spec
CONSTANTS
  main = main
  a = a
  b = b
  c = c
  nil = nil
  Threads = {main, a, b, c}
  Main = main
  None = nil
  LUAI_MAXCCALLS = 4
  ExtraCCalls = 2
  LUAI_MAXCALLS = 6
  BASIC_CI_SIZE = 4
  Programs <- AllPrograms
INVARIANTS
  TypeOK
  CallsCounted
  JmpSound
  ExecSound
  CallsBounded
  KeptAlive
PROPERTY
  Implements
\* An error without a handler ends the program.
CHECK_DEADLOCK FALSE
