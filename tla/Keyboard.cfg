SPECIFICATION FairSpec
CONSTANTS
  Width = 3
  Height = 3
  Word = 256
  BufSize = 4
  MaxKeys = 4
  Scans <- AllScans
  Garbage <- NoGarbage
INVARIANTS
  TypeOK
  Sorted
  NoUnderrun
  WaitingHasKey
PROPERTIES
  ReadsInOrder
  Drains
\* The main program may sleep for ever, or the kernel be brought down.
CHECK_DEADLOCK FALSE
