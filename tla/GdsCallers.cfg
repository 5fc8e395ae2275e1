\* Several callers, timeouts, cancellation, a lost connection, a second task that closes.
CONSTANTS
    a = a
    b = b
    c = c
    restart = restart
    Requests = {a, b, restart}
    OneWay = {restart}
    Owner = owner
    Closers = {supervisor}
    Listeners = {}
    InOrder = FALSE
    Disturbances = {"lost"}
    Impatient = {a, b}
    Cancellable = {a, restart}
    Echoes <- AllEchoes
    EchoOf <- AnyEcho
    Matches <- MatchTable
    MaxConnects = 1
    MaxNoise = 0
SPECIFICATION Spec
INVARIANTS TypeOK NobodyForgotten OneSender AlwaysClosed
PROPERTIES ImplementsCorrelation
\* every call may be over and the session closed
CHECK_DEADLOCK FALSE
