SPECIFICATION FairSpec
CONSTANTS
    Tasks = {t1, t2}
    Creds = {c1, c2}
    Threshold = 2
    ProbeInterval = 1
    NegMaxEntries = 1
    NegTTL = 1
    None = None
PROPERTY BreakerRecovers
