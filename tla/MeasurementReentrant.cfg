\* A measurement from within a growth that is writing its metadata.
SPECIFICATION MSpec
CONSTANTS
  x = x
  y = y
  Id <- MCId
  LedgerId = x
  Free = Free
  Capacity = 3
  BucketSizes <- MCBucketSizes
  DefaultSize = 2
  NoConfig = NoConfig
  Requests <- MCRequests
  PageBytes = 1
  MaxWord = 7
INVARIANT
  ReentrancyIsReported
