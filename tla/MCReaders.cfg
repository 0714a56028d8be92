CONSTANTS
    CentralStart = 3
    MaxEntries = 2
    EntryPaths <- MCEntryPaths
    XmlDepth = 2
    XmlEvents = 5
    Packages <- MCPackages
    XmlEntryCap = 2
    XmlTotalCap = 4
    MaxU64 = 99
    MaxUsize = 6
    Mib = 3
    Gib = 7
    Permits = 20
    MaxText = 4
    Numbers = {0, 5, 8, 29}
    DefaultOf <- MCDefaultOf
    StemInputs <- MCStems
    NStems = 3
    MaxStem = 2
    NPlan = 4
    Window = 4
    PageCap = 5
    TableRows <- MCTableRows
    MaxRows = 2
    FlagSets = {{}, {0}, {0, 1}}
    BlockKinds <- MCBlockKinds
    NBlocks = 3
    Boxes <- MCBoxes
    NodeKinds <- MCNodeKinds
    NBuildPages = 3
    NodesPerPage = 2
    AssetCap = 4
    PdfDocuments <- MCDocuments
    MaxResourceDepth = 9
    NativePages = 2
    RenderSizes <- MCSizes
    RenderWorkers = 2
    InFlightCap = 3
    TextInputs <- MCTexts
    TextCaps = {2, 15, 20, 40}
    MaxLineBytes = 2
    LinesPerPage = 2
    LineCost = 1
    FixedReserve = 2
    PageReserve = 1
    CsvTexts <- MCCsvTexts
    Markups <- MCMarkups
    Jsons <- MCJsons
    CsvRows = 3
    CsvColumns = 3
    CsvGrid = 6
    SampleRows = 2
    Markdowns <- MCMarkdowns
    BlockTrees <- MCBlockTrees
    AssetNames <- MCNames
    Endpoints <- MCEndpoints
    Formats = {"md", "html"}
    InlineMax = 4
    UploadMax = 2
    MaxFiles = 2
    PageMax = 4
    FormFields <- MCFormFields
    FieldLimit = 4
    FileLimit = 3
    TextLimit = 2
    TextTotal = 4
    WholeDocument = 9
    Tasks <- MCTasks
    Overhead = 1
    ResultCap = 10
SPECIFICATION ReadersSpec
INVARIANTS InputsSound TextsSound PdfSound
CHECK_DEADLOCK FALSE
