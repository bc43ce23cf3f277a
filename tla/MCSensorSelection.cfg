CONSTANTS
  None = None
  FallbackDelay = 2
  ProfileRevisions = {1, 2}
  RevisionMax = 5
  TroubleMax = 1
SPECIFICATION Spec
INVARIANT RestartResumable
PROPERTIES LossBlocks FallbackHappens
CHECK_DEADLOCK FALSE
