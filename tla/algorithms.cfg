SPECIFICATION MCSpec
CONSTANTS
    CellValues = 10
    MAX_DEPTH = 4
    NoModule = NoModule
    Exe = Exe
    Modules <- MCModules
    Images <- MCImages
    Becomes <- MCBecomes
    Scans <- MCScans
    MaxMoves = 1
    CHUNK = 2
    MAX_SLOTS = 3
    MAX_OFFSET = 2
    MAX_HOPS = 3
    MAX_RESULTS = 4
    BITS = 4
    LONG = 2
    ValueNodes <- MCNodes
    Numbers <- MCNumbers
    NoAttr <- MCNoAttr
    Keywords <- MCKeywords
    NonRaw <- MCNonRaw
    HOST = 8
INVARIANTS
    AddressesRead
    PathsFound
    EditsExact
    RcnetSound
    CodeCompiles
CHECK_DEADLOCK FALSE
