SPECIFICATION FairSpec
CONSTANTS
    MaxWalkDepth = 4
    MaxWalkDirs = 6
    MinPodCgroupDepth = 2
    NoCA = NoCA
    MaxCAs = 2
    NumLinks = 2
    InconclusiveLimit = 2
    Refused = Refused
    Threads = {t1, t2}
    NoHost = NoHost
    DropConfig <- MCDropConfig
    Hosts <- GoodHosts
    Envs <- GoodEnvs
    StartCreds <- GoodCreds
    MaxBoots = 1
    MaxMoves = 0
    Faults = FALSE
PROPERTY StartupServes
