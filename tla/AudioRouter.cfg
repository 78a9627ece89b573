SPECIFICATION FairSpec
CONSTANTS
    UsbCards = {1}
    Buffer = 4
    HwBuffer = 2
    Period = 2
    ProbeInterval = 1
    FastStreak = 1
    NormalStreak = 1
    Slack = 1
INVARIANTS PositionBounds
PROPERTIES PlaybackGoesOn RouteFollowsCards
