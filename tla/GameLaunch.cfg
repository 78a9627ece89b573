\* A list of two of three games, three orders of the user, one key, one power loss.
CONSTANTS
    Floor <- MCFloor
    Top <- MCTop
    MaxPresses = 1
    Games = {a, b, c}
    Missing = "gone"
    Profiles = {"p", "q", "pico q"}
    Releases <- MCReleases
    Companion <- MCCompanion
    Policies = {"performance"}
    Options = {"alsa"}
    Default = "p"
    BootResume = TRUE
    MaxRecents = 2
    MaxRomOverrides = 1
    MaxOrders = 3
    MaxCuts = 1
SPECIFICATION Spec
SYMMETRY MCSymmetry
INVARIANTS KeysKept RunningIsRecent RecentOrder
