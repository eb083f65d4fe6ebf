SPECIFICATION BootSpec
CONSTANTS
  Width = 3
  Height = 3
  Word = 256
  BufSize = 4
  MaxKeys = 4
  Scans <- MoreScans
  Garbage <- NoGarbage
PROPERTIES
  KeyStarts
\* The processor may sleep for ever; the loop ends.
CHECK_DEADLOCK FALSE
