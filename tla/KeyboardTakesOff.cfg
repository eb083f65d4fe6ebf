SPECIFICATION Spec
CONSTANTS
  Width = 3
  Height = 3
  Word = 256
  BufSize = 5
  MaxKeys = 3
  Scans <- LettersOnly
  Garbage <- NoGarbage
PROPERTIES
  TakesItOff
\* The main program may sleep for ever, or the console hang.
CHECK_DEADLOCK FALSE
