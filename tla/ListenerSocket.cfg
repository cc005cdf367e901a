SPECIFICATION Spec
CONSTANTS
    Binders = {b1}
    Probers = {p1}
    Servers = {s1}
    Stoppers = {x1}
    Conns = {c1}
    MaxConnections = 1
    None = None
CHECK_DEADLOCK FALSE
INVARIANT SocketReleased
