SPECIFICATION MCSpec
CONSTANTS
    Texts = {"a", "b"}
    Blank = "blank"
    DraftIds = {"d1", "d2"}
    None = "none"
    MaxEdits = 3
    MaxFails = 1
    Threads = {t1, t2}
    Lists = {"own", "all"}
    Own = "own"
    All = "all"
    MaxMoves = 3
    MaxLost = 1
    Conversations = {1, 2, 3, 4}
    PageSize = 1
    MaxPages = 2
    MaxTaps = 3
    MaxFaults = 1
    Wordings = {"a", "b"}
    Empty = "empty"
    Copies = {"c1", "c2", "c3"}
    NoCopy = "no copy"
    MaxStrokes = 3
    MaxDrops = 1
SYMMETRY Symmetry
INVARIANTS
    AtRestIsSaved
    
    CacheSettles
    IosListSettles
    IosSheetKeepsOne
CHECK_DEADLOCK FALSE
