CONSTANTS
    q1 = q1
    q2 = q2
    call1 = call1
    call2 = call2
    call3 = call3
    w1 = w1
    w2 = w2
    w3 = w3
    Paths <- MCPaths
    Archives <- MCArchives
    Trees <- MCTreesPossible
    LayoutPath <- MCLayout
    NTasks = 2
    LocalLimit = 2
    ServerLimits = {0, 1}
    Origins <- MCOrigins
    Urls <- MCUrls
    NDocs = 2
    Features = {"legacy"}
    NPages = 3
    WindowSize = 2
    Estimates = {1, 2, 4}
    Caps = {1, 3}
    Requests = {q1, q2}
    Asks <- MCAsks
    MaxConcurrent = 2
    InputCap = 4
    ConfiguredBody = 3
    FileCap = 3
    JobCap = 3
    ZipCap = 2
    MaxFiles = 2
    NInputs = 2
    InputSizes = {0, 2, 3}
    InputMax = 3
    JobInputMax = 5
    OutputMax = 5
    MetaSize = 1
    ArtifactSizes = {1, 2}
    Declared = {1, 2}
    Preps <- MCPreps
    PrepKinds <- MCPrepKinds
    Drainers = {d1, d2}
    Callers = {call1, call2, call3}
    Programs <- MCPrograms
    RetainedCap = 2
    DocumentCap = 2
    ReadBuffer = 2
    Growth = 1
    MaxWorkers = 2
    Writers = {w1, w2, w3}
    AssetLists <- MCAssetLists
    TempOf <- MCTempOf
    Renderers = {"r1", "r2"}
    RenderJobs <- MCRenderJobs
    RenderStarts <- MCRenderStarts
    Fetchers = {"f1", "f2"}
    FetchActs <- MCFetchActs
    CacheStarts <- MCCacheStarts
    MaxRedirects = 1
    ModelSize = 2
SPECIFICATION HostsSpec
INVARIANTS OverlayHonest PlacesSound CacheSound RunsHonest PrepHonest SdkHonest
PROPERTIES CancelFreezes HostsEnd
CHECK_DEADLOCK FALSE
