\* Every byte sequence of up to five bytes, and the one too long.  Every walk
\* ends.
SPECIFICATION Spec
CONSTANTS
  Byte <- MCByte
  MaxRecord = 5
  MaxPayload = 2
  MaxText = 1
  MaxNesting = 2
  MaxAllocations = 2
INVARIANTS
  PreflightIsExact
CHECK_DEADLOCK FALSE
