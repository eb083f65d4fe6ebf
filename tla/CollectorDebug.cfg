SPECIFICATION Spec
CONSTANTS
  a = a
  b = b
  c = c
  d = d
  Main = Main
  Reg = Reg
  nil = nil
  Obj <- SixObjects
  MainThread = Main
  Registry = Reg
  None = nil
  Slots <- OneSlot
  MaxEntries = 1
  Programs <- Sharing
INVARIANT
  NoDeadInUse
