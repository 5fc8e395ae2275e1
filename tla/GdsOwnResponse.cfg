\* Identical requests, a device that answers in order and may echo the command only.
CONSTANTS
    a = a
    b = b
    c = c
    restart = restart
    Requests = {a, b, c}
    OneWay = {}
    Owner = owner
    Closers = {}
    Listeners = {}
    InOrder = TRUE
    Disturbances = {"push", "lost"}
    Impatient = {}
    Cancellable = {owner}
    Echoes <- AllEchoes
    EchoOf <- AnyEcho
    Matches <- MatchTable
    MaxConnects = 1
    MaxNoise = 1
SPECIFICATION Spec
INVARIANTS OwnResponse
\* every call may be over and the session closed
CHECK_DEADLOCK FALSE
