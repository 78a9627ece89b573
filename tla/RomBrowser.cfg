SPECIFICATION BrowserSpec
CONSTANTS
    Roms <- MCRoms
    FirstCard <- MCRoms
    FirstFavorites <- MCFavorites
    FirstRecents <- MCRecents
    FirstSettings <- MCSettings
    NameOrder <- MCNameOrder
    PathOrder <- MCPathOrder
    MemoryMax = 2
    Window = 2
    RecentsKept = 1
    MaxChanges = 1
CHECK_DEADLOCK FALSE
INVARIANTS StarsTrue
PROPERTIES SelectionKept ReturnToPlace
