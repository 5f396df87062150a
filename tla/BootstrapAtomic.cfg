\* A canister: a trap rolls the message of the attempt back.
SPECIFICATION Spec
CONSTANTS
  AppKey <- MCAppKey
  LedgerKey = 3
  LastSlot = 4
  MaxGeneration = 3
  Owner <- MCOwner
  Nobody = Nobody
  Governance = {0}
  PolicyId <- MCPolicyId
  HostInput <- MCHostInput
  Atomic = TRUE
  ForeignSlots = {3}
  Null = Null
  a = a
  b = b
  p1 = p1
  p2 = p2
PROPERTIES
  CellStaysSound
  ImplementsContract
