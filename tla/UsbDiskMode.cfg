SPECIFICATION FairSpec
CONSTANTS
    Sessions = {s1}
    Verbs = {"enter", "leave", "mount", "unmount", "commands"}
    Batches = {b1, b2}
    None = None
    Interrupts = {"signal", "power", "full"}
INVARIANTS OneOwner RunsOnce DeviceReturns
PROPERTIES ExportEnds
