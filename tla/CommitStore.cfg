\* Publications with ends of the process between any two writes, and damage.
\* A cell that is damaged, or at the bound of generations, is left alone.
SPECIFICATION Spec
CONSTANTS
  Entry <- MCEntry
  Parts <- MCParts
  MaxAllocations = 3
  MaxPayload = 4
  MaxRecord = 8
  Slack = 1
  PageUnits = 4
  MaxPages = 3
  MaxGeneration = 3
INVARIANTS
  PublicationIsExact
CHECK_DEADLOCK FALSE
