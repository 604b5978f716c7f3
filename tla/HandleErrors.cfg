SPECIFICATION Spec
CHECK_DEADLOCK FALSE
CONSTANTS
    Procs = {p1}
    MaxDevices = 1
    Keys = {"remove_au", "remove_au_connections", "effect"}
    Failures = {"memory", "late_memory", "mixing"}
INVARIANTS InvalidHandleHasError
