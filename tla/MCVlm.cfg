CONSTANTS
    c1 = c1
    c2 = c2
    p1 = p1
    p2 = p2
    VlmCalls <- MCCalls
    Cap = 3
    BudgetCap = 5
    MaxRetries = 1
    ChunkSizes = {2}
    Bases = {9, 10}
    TemperatureRetry = TRUE
    MaxWarm = 5
    Pages <- MCPages
    Models = {"classic", "two-phase"}
    LayoutSizes = {1, 3}
    Layouts <- MCLayouts
    MaxRequest = 2
    MaxBatch = 3
    MaxInBatch = 1
    EncodedCap = 8
    RawCap = 4
    RawSizes = {1}
    PageSlots = 2
    HttpSlots = 1
    CpuSlots = 2
    NImages = 2
    BlockCounts = {1, 2}
    ImageKinds = {"local", "remote", "none"}
    BatchModes = {"concurrent", "stepping"}
    RequestPermits = 2
    StreamWires <- MCStreamWires
    StreamCap = 12
    StreamRetries = 1
    Addresses = {"global", "private"}
    Private = {"private"}
    RemoteUrls <- MCRemoteUrls
    MaxHops = 2
    ImageCaps = {1, 3, 13}
    Pictures <- MCPictures
    UsizeMax = 15
SPECIFICATION VlmSpec
INVARIANTS VlmBounded VlmHonest StreamExact
PROPERTY VlmEnds
CHECK_DEADLOCK FALSE
