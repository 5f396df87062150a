\* Measurements beside, around and inside growths of one native backing.
SPECIFICATION MSpec
CONSTANTS
  x = x
  y = y
  Id <- MCId
  LedgerId = x
  Free = Free
  Capacity = 3
  BucketSizes <- MCBucketSizes
  DefaultSize = 2
  NoConfig = NoConfig
  Requests <- MCRequests
  PageBytes = 1
  MaxWord = 7
INVARIANTS
  ReportIsExact
  QuietMeasurementSucceeds
