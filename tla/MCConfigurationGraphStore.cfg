SPECIFICATION MCSpec
CONSTANTS
  None = None
  Absent = Absent
  Corrupt = Corrupt
  DocumentOrder <- MCDocumentOrder
  Contents = {"a", "b"}
  FactoryContent = "a"
  VersionMax = 3
  MaxLosses = 1
INVARIANTS CommitNeverBlocked IdentityUnique
PROPERTIES RegisterSpec StaysLoadable
VIEW View
