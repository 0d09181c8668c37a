\* Every command and every malformed frame, other writers of the backlight, a
\* state file from elsewhere, and every failure.
CONSTANTS
    Max = 2
    IntMax = 3
    PowersaveValue = 1
    Stored = {0, 3}
    Foreign = {0, 2}
    Frame <- AllFrames
    QueueMax = 1
    None = None
SPECIFICATION FairSpec
INVARIANTS TypeOK CacheMatchesBacklight RestoredAtMostOnce StopKeepsLevel
PROPERTIES OnlyCommandsAct ModifyClamps StopsOnSignal QueueDrains
