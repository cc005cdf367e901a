SPECIFICATION FairSpec
CONSTANTS
    c1 = c1
    c2 = c2
    k1 = k1
    k2 = k2
    Conns = {c1, c2}
    Creds = {k1, k2}
    CredsOf <- MCCredsOf
    MaxRequests = 2
    Loads <- MCLoads
    MaxInflight = 1
    Names = {"asked", "other"}
    NameOf <- MCNameOf
    Warm <- MCWarm
    MaxLeaves = 1
    MaxDials = 1
    None = None
CHECK_DEADLOCK FALSE
INVARIANTS LeafShared OneCredentialPerLink NothingLeftOpen DenialNotAllowed
PROPERTIES LeafAnswered StalledRelayEnds
