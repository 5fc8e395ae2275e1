\* Each of the parts that share no memory, by itself.
CONSTANTS
    MaxEvents = 2
    MaxStarts = 2
    add1 = add1
    add2 = add2
    init = init
    new = new
    Adders = {add1, add2}
    AddOf <- AddedDevices
    Inits = {init, new}
    Forced = {init}
    Original <- OriginalDevices
    Bare <- BareGateways
    Scripts <- CommandLines
    Timeout = 5
    Interval = 2
    Slow = 1
    HookSlow = 3
    Files = {"a", "b"}
    MaxLines = 3
    History = {0, 1}
    Capable <- StepsOf
    r1 = r1
    r2 = r2
    editor = editor
    updater = updater
    Readers = {r1, r2}
    Editors = {editor}
    Updaters = {updater}
    TargetOf <- Targets
    Faults = {}
    Concurrent = FALSE
    MaxSids = 5
SPECIFICATION CommandsSpec
INVARIANTS
    CommandsTypeOK
    NoOrphan EventsInOrder
    WritesAreAtomic LostOnlyToOverlap
    EffectsFollowScript
    DeadlineIsKept
    ShownOnceInOrder NothingMissed
    ReportIsTrue ConnectsWithNewCredentials
    SupportedAsDeclared UntouchedUnlessAgreed
PROPERTIES
    PasswordLeavesDisk EveryCommandEnds StaleCacheHeals
\* commands end
CHECK_DEADLOCK FALSE
