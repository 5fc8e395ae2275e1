\* A SIP account being created beside a firmware update, with every fault.
CONSTANTS
    r1 = r1
    r2 = r2
    editor = editor
    updater = updater
    Readers = {}
    Editors = {editor}
    Updaters = {updater}
    TargetOf <- Targets
    Faults = {"early", "lost", "slow", "interrupt", "browser"}
    Concurrent = TRUE
    MaxSids = 5
SPECIFICATION Spec
INVARIANTS TypeOK NoPoisonedForm SavedAsReported
\* every command may have ended
CHECK_DEADLOCK FALSE
