SPECIFICATION Spec
CONSTANTS
  None = None
  MaxFeatures = 3
  Counts = {1, 2}
  RefusedLatch = 0
  RefusedStop = 1
  OverrideCount = 1
  Gallery <- Enrollments
  Probe <- Extractions
INVARIANTS TypeOK StudyContract RelationOfMatched BlockedLeavesNoTrace
