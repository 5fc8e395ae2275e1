\* The context manager entered twice, the connection lost, calls from the first session still queued in the second.
CONSTANTS
    a = a
    b = b
    c = c
    restart = restart
    Requests = {a, b}
    OneWay = {}
    Owner = owner
    Closers = {}
    Listeners = {}
    InOrder = FALSE
    Disturbances = {"lost"}
    Impatient = {a, b}
    Cancellable = {}
    Echoes <- AllEchoes
    EchoOf <- AnyEcho
    Matches <- MatchTable
    MaxConnects = 2
    MaxNoise = 0
SPECIFICATION Spec
INVARIANTS AlwaysClosed NoPendingWithoutReader
PROPERTIES ResponsesReachCallers
\* every call may be over and the session closed
CHECK_DEADLOCK FALSE
