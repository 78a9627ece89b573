\* Five entries of the list (song twice), three keys, two changes of the output.
CONSTANTS
    Files <- MCFiles
    Roots <- MCRoots
    Gamepads <- MCGamepads
    MaxTracks = 5
    MaxDepth = 8
    Rows = 2
    Chunk = 2
    SeekStep = 3
    Autoplay = TRUE
    TimedExit = TRUE
    MaxKeys = 3
    MaxDeviceChanges = 2
SPECIFICATION PlayerSpec
INVARIANTS PositionNear
PROPERTIES PlayEnds BLeaves
