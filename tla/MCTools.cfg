CONSTANTS
    Calls = {c1, c2}
    RemotePaths = {r1, r2}
    LocalPaths = {l1}
    OldPaths = {r1, l1}
    Blocks = 2
    MaxRunning = 1
    None = None
    Base = 2
    ScanChunk = 2
    CompareChunk = 2
    BatchSize = 3
    MemThreshold = 1
    IterBatch = 2
    MaxCandidates = 4
    MaxTreeNodes = 20
    MaxBackScan = 4
    MaxInstLen = 3
    DecodeBudget = 40
    MaxDepth = 1
    MaxDelete = 2
    MaxSingle = 2
    MaxTotal = 3
    FooterRoom = 3
    SmallBudget = 2
    HardOutput = 40
    HardResults = 20
    MaxTotalBytes = 4
    HiddenNames = {7}
    IgnoredDirs = {8, 9}
    ListSkips = {8}
    SlocSkips = {8, 9}
    ScanRoom = 2
    MaxEntries = 2
    MaxBytes = 4
    RawOutputTTL = 2
    MaxExamples = 2
    SuffixRunes = 1
SYMMETRY Symmetry
SPECIFICATION Spec
CHECK_DEADLOCK FALSE
INVARIANTS TransfersSafe SearchesRight ResolutionRight QueriesRight FunctionsRight TreesRight ReadersRight OutputRight DispatchRight
