SPECIFICATION FairSpec
CONSTANTS
    Setups <- MCSetups
    RepeatDelay = 1
    RepeatInterval = 1
    PersistDelay = 1
    Debounce = 1
INVARIANTS NoPhantomKeys
PROPERTIES OneStopPerHold MenuStaysClosed SettingsSaved
