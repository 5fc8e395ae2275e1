\* Deadlines fire: whatever else happens, no call and no listener waits for ever.
CONSTANTS
    a = a
    b = b
    c = c
    restart = restart
    Requests = {a, restart}
    OneWay = {restart}
    Owner = owner
    Closers = {}
    Listeners = {l1}
    InOrder = FALSE
    Disturbances = {"push", "malformed", "lost"}
    Impatient = {a}
    Cancellable = {restart}
    Echoes <- AllEchoes
    EchoOf <- AnyEcho
    Matches <- MatchTable
    MaxConnects = 2
    MaxNoise = 1
SPECIFICATION SpecWithDeadlines
PROPERTIES CallsEnd ListenersReleased
\* every call may be over and the session closed
CHECK_DEADLOCK FALSE
