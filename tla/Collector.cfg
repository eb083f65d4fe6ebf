SPECIFICATION Spec
CONSTANTS
  a = a
  b = b
  c = c
  d = d
  Main = Main
  Reg = Reg
  nil = nil
  Obj <- FiveObjects
  MainThread = Main
  Registry = Reg
  None = nil
  Slots <- OneSlot
  MaxEntries = 1
  Programs <- AllPrograms
INVARIANTS
  TypeOK
  NoDeadInUse
  OneList
  NoBlackToWhite
  CollectsAll
  FinalizedOnce
PROPERTIES
  ClearsOnlyWeak
  Implements
