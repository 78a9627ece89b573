SPECIFICATION ScanSpec
CONSTANTS
    gbc = gbc
    scummvm = scummvm
    SystemList <- MCSystemList
    DirOf <- MCDirOf
    NoDir = NoDir
    NoSub = NoSub
    AllFiles <- MCFiles
    FirstFiles <- MCFirstFiles
    Archives = {"zip", "7z"}
    Full = Full
    Scanners = {p1, p2}
    MaxScannedDirs = 2
    MaxRuns = 2
    MaxChanges = 1
    MaxCrashes = 1
SYMMETRY Symmetry
CHECK_DEADLOCK FALSE
INVARIANTS ListWhole ListExact
