\* A firmware update whose session is closed under way.
CONSTANTS
    r1 = r1
    r2 = r2
    editor = editor
    updater = updater
    Readers = {}
    Editors = {}
    Updaters = {updater}
    TargetOf <- Targets
    Faults = {"early"}
    Concurrent = TRUE
    MaxSids = 4
SPECIFICATION Spec
INVARIANTS UpdateIsTriggered
\* every command may have ended
CHECK_DEADLOCK FALSE
