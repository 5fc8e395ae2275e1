\* close() puts one end marker for all listeners.
CONSTANTS
    a = a
    b = b
    c = c
    restart = restart
    Requests = {a}
    OneWay = {}
    Owner = owner
    Closers = {}
    Listeners = {l1, l2}
    InOrder = FALSE
    Disturbances = {}
    Impatient = {a}
    Cancellable = {}
    Echoes <- AllEchoes
    EchoOf <- AnyEcho
    Matches <- MatchTable
    MaxConnects = 1
    MaxNoise = 0
SPECIFICATION SpecWithDeadlines
PROPERTIES ListenersReleased
\* the session may be closed for good
CHECK_DEADLOCK FALSE
