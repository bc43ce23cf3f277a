SPECIFICATION Spec
CONSTANTS
    Absent = Absent
    Corrupt = Corrupt
    None = None
    Documents = 1
    Attempts <- MCAttempts
    LockCap <- MCLockCap
    StageMax = 2
    EpochMax = 3
    TroubleMax = 2
INVARIANTS NeverStranded OldSecretsDead ResetCures GuessesBounded
