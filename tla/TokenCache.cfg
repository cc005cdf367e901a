SPECIFICATION Spec
CONSTANTS
    Requests = {r1, r2}
    Refreshers = {k1, k2}
    Creds = {c1, c2}
    MaxEntries = 1
    MinWindow = 2
    MaxTime = 2
    MaxLife = 2
    None = None
SYMMETRY Symmetry
INVARIANTS TokenIsolation OwnTokenUsable NoOrphanedWaiter
