\* Every attempt ends, on a native backing with panics.
SPECIFICATION FairSpec
CONSTANTS
  AppKey <- MCAppKey
  LedgerKey = 3
  LastSlot = 4
  MaxGeneration = 2
  Owner <- MCOwner
  Nobody = Nobody
  Governance = {0}
  PolicyId <- MCPolicyId
  HostInput <- MCHostInput
  Atomic = FALSE
  ForeignSlots = {3}
  Null = Null
  a = a
  b = b
  p1 = p1
  p2 = p2
PROPERTIES
  AttemptsEnd
