\* A native backing: panics leave what was written.
SPECIFICATION Spec
CONSTANTS
  AppKey <- MCAppKey
  LedgerKey = 3
  LastSlot = 4
  MaxGeneration = 3
  Owner <- MCOwner
  Nobody = Nobody
  Governance = {0}
  PolicyId <- MCPolicyId
  HostInput <- MCHostInput
  Atomic = FALSE
  ForeignSlots = {3}
  Null = Null
  a = a
  b = b
  p1 = p1
  p2 = p2
INVARIANTS
  TypeOK
  RecoveryIsExact
  AuthorityIsDurable
  AuthorityIsConfined
  ForeignPagesStayUnowned
  PagesAreExplained
  PoisonedNeverCommits
  ResolutionIsClaimable
PROPERTIES
  RefusalIsHarmless
  CellStaysSound
  DamageIsKept
  WarmIsPassive
  ImplementsContract
