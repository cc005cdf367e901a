SPECIFICATION LiveSpec
CONSTANTS
    Binders = {b1, b2}
    Probers = {p1}
    Servers = {s1}
    Stoppers = {x1, x2}
    Conns = {c1, c2}
    MaxConnections = 1
    None = None
CHECK_DEADLOCK FALSE
INVARIANTS QuietAfterShutdown OneAcceptor SlotsHeld
PROPERTY ServeEnds
