SPECIFICATION Spec
CONSTANTS
    Slots = {slot_a, slot_b}
    Factory = slot_a
    Versions = {v1, v2, v3}
    Absent = Absent
    Torn = Torn
    None = None
    AnyVersion = AnyVersion
INVARIANTS NeverRecovery RunsIntact
PROPERTIES ImplementsTrialBoot
