SPECIFICATION PollSpec
CONSTANTS
  Width = 3
  Height = 3
  Word = 256
  BufSize = 5
  MaxKeys = 3
  Scans <- LettersOnly
  Garbage <- NoGarbage
PROPERTIES
  ReadsAll
\* The console may hang.
CHECK_DEADLOCK FALSE
