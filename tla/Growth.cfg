\* One native backing under successive runtimes, with panics and refusals.
SPECIFICATION Spec
CONSTANTS
  x = x
  y = y
  Id <- MCId
  Free = Free
  Capacity = 4
  BucketSizes <- MCBucketSizes
  DefaultSize = 2
  NoConfig = NoConfig
  Requests <- MCRequests
  PageBytes = 2
  MaxWord = 19
SYMMETRY MCSymmetry
INVARIANTS
  TypeOK
  LeasesAreExclusive
  AccountingIsExact
  ManagerIsNeverShort
  ExtentsAreBacked
  PromisesAreKept
PROPERTIES
  RefusalKeepsMetadata
  ForeignBackingIsKept
