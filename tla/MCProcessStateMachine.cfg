SPECIFICATION Spec
CONSTANTS
  None = None
  Snapshots <- MCSnapshots
  Modelled = {"preheated", "plain", "longer", "cooled", "kept", "manual"}
  SequenceMax = 1000
  InitialSequences = {0, 997}
  Outages = {0, 1}
  Gaps = {1}
  TimestampMax = 2
  MaxPending = 2
VIEW View
INVARIANTS DecisionsApply FaultNeverBlocked CommandsCommit
PROPERTIES CompletionNotEarly
