SPECIFICATION FairBrokerSpec
CONSTANTS
    Requests = {r1, r2}
    Refreshers = {k1}
    Creds = {c1}
    MaxEntries = 1
    MinWindow = 1
    MaxTime = 1
    MaxLife = 2
    Threshold = 2
    ProbeInterval = 1
    NegMaxEntries = 1
    NegTTL = 1
    None = None
INVARIANT ProbeReserved
PROPERTIES CacheImplemented BrokerReturns
