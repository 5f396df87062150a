\* One version's release with edits, failures and process ends anywhere.  With all
\* edits and commits used up, every command may refuse: the system stops there.
SPECIFICATION Spec
CONSTANTS
  r1 = r1
  r2 = r2
  d1 = d1
  d2 = d2
  Releases <- MCReleases
  Dates <- MCDates
  None = None
  MaxCommits = 3
  MaxEdits = 1
SYMMETRY MCSymmetry
INVARIANTS
  EvidenceIsSound
  RollbackIsExact
  PreparationResumes
  CheckedIndexQualifies
PROPERTIES
  ReceiptsAreKept
  AdmittedReleaseIsQualified
CHECK_DEADLOCK FALSE
