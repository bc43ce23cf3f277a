SPECIFICATION MCSpec
CONSTANTS
  None = None
  Absent = Absent
  Corrupt = Corrupt
  Duration = 2
  CheckpointEvery = 1
  IdWindow = 2
  RevisionMax = 9
  IdMax = 2
  PressMax = 2
  Surfaces = {"touch"}
  TimeMax = 2
  EpochMax = 2
  TroubleMax = 2
INVARIANTS
  RunNeverForgotten
  EndedRunStaysEnded
  FermentingTimeTrue
PROPERTIES
  HandoffResumed
CHECK_DEADLOCK FALSE
