\* A cancelled connect() skips every cleanup.
CONSTANTS
    a = a
    b = b
    c = c
    restart = restart
    Requests = {a}
    OneWay = {}
    Owner = owner
    Closers = {}
    Listeners = {}
    InOrder = FALSE
    Disturbances = {}
    Impatient = {}
    Cancellable = {owner}
    Echoes <- AllEchoes
    EchoOf <- AnyEcho
    Matches <- MatchTable
    MaxConnects = 1
    MaxNoise = 0
SPECIFICATION Spec
INVARIANTS AlwaysClosed
\* the session may be closed for good
CHECK_DEADLOCK FALSE
