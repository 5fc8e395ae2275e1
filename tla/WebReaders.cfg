\* Two readers that share the session in the cache, and a gateway that closes it at any time.
CONSTANTS
    r1 = r1
    r2 = r2
    editor = editor
    updater = updater
    Readers = {r1, r2}
    Editors = {}
    Updaters = {}
    TargetOf <- Targets
    Faults = {"early", "lost", "slow", "interrupt"}
    Concurrent = TRUE
    MaxSids = 4
SPECIFICATION FairSpec
INVARIANTS CacheIsLoggedIn
PROPERTIES CommandsEnd
\* every command may have ended
CHECK_DEADLOCK FALSE
