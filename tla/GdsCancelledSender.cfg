\* A caller cancelled before its request is sent leaves its entry behind.
CONSTANTS
    a = a
    b = b
    c = c
    restart = restart
    Requests = {a, b}
    OneWay = {}
    Owner = owner
    Closers = {}
    Listeners = {}
    InOrder = TRUE
    Disturbances = {}
    Impatient = {}
    Cancellable = {a}
    Echoes <- AllEchoes
    EchoOf <- AnyEcho
    Matches <- MatchTable
    MaxConnects = 1
    MaxNoise = 0
SPECIFICATION Spec
PROPERTIES ResponsesReachCallers
\* every call may be over and the session closed
CHECK_DEADLOCK FALSE
