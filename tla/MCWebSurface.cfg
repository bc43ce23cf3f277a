SPECIFICATION Spec
CONSTANTS
    Slots <- MCSlots
    Modes <- MCModes
    Contents <- MCContents
    Replays = 1
    MaxCookie = 2
    MaxSeq = 2
    MaxRev = 1
    MaxWorld = 1
INVARIANTS MutationOnce AnswerTrue SessionTrusted
PROPERTIES ResetReturns
CHECK_DEADLOCK FALSE
