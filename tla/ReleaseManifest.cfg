\* What a failed rollback, or one cut short, leaves for the runner.
SPECIFICATION Spec
CONSTANTS
  r1 = r1
  r2 = r2
  d1 = d1
  d2 = d2
  Releases <- MCReleases
  Dates <- MCDates
  None = None
  MaxCommits = 1
  MaxEdits = 0
SYMMETRY MCSymmetry
INVARIANT
  ManifestIsLast
CHECK_DEADLOCK FALSE
