SPECIFICATION Spec
CONSTANT Faults = {"power", "check", "io", "busy", "export"}
INVARIANTS MarksTrue CrashedSessionChecked FastBootClean
PROPERTIES UserdataKept
