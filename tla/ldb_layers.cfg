CONSTANTS
    p1 = p1
    p2 = p2
    db1 = db1
    db2 = db2
    db3 = db3
    NoProcess = NoProcess
    Processes = {p1, p2}
    Openers = {db1, db2, db3}
    ProcessOf <- TwoAndOne
    MaxDeaths = 1
    kBlockSize = 8
    kHeaderSize = 3
    RecordSizes = {0, 2, 9}
    MaxRecords = 3
    MaxFaults = 1
    UserKeys = {1, 2}
    MaxInserts = 3
    kMaxHeight = 2
    MemReaders = {r1}
    EntrySize <- MCEntrySize
    MaxSearches = 2
    ArenaBlock = 20
    ArenaAlign = 4
    NodeBytes = 4
    CacheKeys = {1, 2, 3}
    Hash <- MCHash
    Charge <- MCCharge
    HashRange = 8
    Capacity = 2
    kNumShards = 2
    FirstLength = 1
    CacheThreads = {t1, t2}
    MaxCalls = 5
    RefReaders = {t1, t2}
    MaxMetas = 2
    MaxTurns = 5
    Sources <- MCSources
    StoredKeys <- MCStoredKeys
    MaxByte = 3
    MaxTag = 19
    ValueSizes = {1, 20}
    MaxEntries = 3
    BlockSize = 36
    RestartInterval = 2
    FilterBase = 32
    Probes = 2
    MinBits = 8
    Word = 64
    BloomHash <- MCBloomHash
    PbFields <- MCPbFields
    PbMessages <- MCPbMessages
    UnknownFields <- MCUnknownFields
    MaxChanges = 2
    EnvThreads = {t1, t2, t3}
    MaxMmaps = 1
    MaxOpenFiles = 1
    MaxItems = 3
    MaxOpens = 2
    MaxIOErrors = 1
    GroupBits = 2
    Bits32 = 5
    Bits64 = 7
    MaxLevel = 3
    Edits <- MCEdits
    WriteBatches <- MCWriteBatches
    Directories <- MCDirectories
    MaxRepairCalls = 3
    MaxRepairFaults = 2
    PbItems <- MCPbItems
    PbReaders <- MCPbReaders
    PbRooms = {4, 30}
    MaxStreamItems = 2
    PbStructs <- MCStructs
    MaxMoves = 4
    Chunks <- MCChunks
    MaxCrcBytes = 25
    RandomSeeds = {0, 1, 2147483647, 2147483646, 301}
    MaxDraws = 4
    StoreKeys = {1}
    MaxHandles = 4
    MaxBatch = 1
    FileNames = {"MANIFEST", "LOG"}
    FileRanges <- MCFileRanges
    MaxFiles = 1
    MaxBytes = 2
    kFragment = 2
    MaxFileFaults = 1
    FirstBuffer = 3
    SecondBuffer = 5
    LogPrefix = 1
    MaxMessage = 6
    FixedBase = 4
    TagBytes = 2
    SpaceBytes = 6
    KeyTexts <- MCKeyTexts
    MaxStored = 3
    Base64Sources <- MCBase64Sources
    StatusNames = {"s", "t"}
    StatusTexts <- MCStatusTexts
    MaxErrors = 2
    NumberBase = 3
    kMaxNumber = 13
    NameDigits = 2
    Listings <- MCListings
    MaxReopens = 1
    MaxDirFaults = 1
    DumpNames <- MCDumpNames
    LogItems <- MCLogItems
    TableItems <- MCTableItems
    kBucketLimit <- MCBucketLimit
    Samples = {0, 2, 3, 9}
    MaxSamples = 4
    SizedVersions <- MCSizedVersions
    PropertyNames <- MCPropertyNames
    Databases <- MCDatabases
    SizeKeys = {1, 2, 3, 4, 5, 6, 7}
SPECIFICATION LayersSpec
INVARIANTS
    LogIsReadBack
    ReadersNeedNoLock
    CacheKeepsItsTables
    ReferencesHold
    TableReadsBack
    PbReadsWhatWasSent
    LimitsAreKept
    ScheduledWorkRuns
    CurrentNamesAManifest
    FormatsReadBack
    RepairDestroysNothing
    PbFieldsAreExact
    HandlesOwnTheirCells
    FilesKeepTheirBytes
    DestroyTakesOnlyItsOwn
    ReportsAreTrue
PROPERTIES
    IteratorShowsItsSnapshot
CHECK_DEADLOCK FALSE
