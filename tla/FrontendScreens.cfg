SPECIFICATION Spec
CONSTANTS
    Pages = {"UI", "UI_THEME", "SYSTEM", "SYSTEM_TIME", "SYSTEM_TIME_MANUAL", "NETWORK", "NETWORK_SERVICE"}
    MaxDepth = 2
    MaxBack = 9
INVARIANTS ListMatchesScreen BackLeadsOut UsbWatched
