SPECIFICATION BootSpec
CONSTANTS
  Width = 3
  Height = 3
  Word = 256
  BufSize = 6
  MaxKeys = 2
  Scans <- LetterScans
  Garbage <- NoGarbage
PROPERTIES
  AnyKeyStarts
\* The processor may sleep for ever; the loop ends.
CHECK_DEADLOCK FALSE
