SPECIFICATION Spec
CONSTANTS
    Keys = {1, 2}
    kNumLevels = 3
    kL0_CompactionTrigger = 1
    kMaxMemCompactLevel = 1
    TargetFileSize = 2
    GrandParentFactor = 10
    ExpandedFactor = 25
    LevelBase = 2
    LevelFactor = 2
    w1 = w1
    w2 = w2
    Writers = {w1, w2}
    Readers = {r1}
    Batches <- MCBatches
    write_buffer_size = 0
    kL0_SlowdownWritesTrigger = 1
    kL0_StopWritesTrigger = 2
    MaxGroup = 3
    Compactor = c
    Ranges <- MCRanges
    Budgets <- MCBudgets
CHECK_DEADLOCK FALSE
INVARIANTS
    NeededFilesExist
    LevelsAreSorted
    SyncedWritesAreDurable
    NobodyWaitsForNothing
PROPERTY ImplementsKV
