SPECIFICATION FairSpec
CONSTANTS
    MaxWalkDepth = 4
    MaxWalkDirs = 6
    MinPodCgroupDepth = 2
    NoCA = NoCA
    MaxCAs = 2
    NumLinks = 2
    InconclusiveLimit = 2
    Refused = Refused
    Threads = {t1, t2}
    NoHost = NoHost
    DropConfig <- MCDropConfig
    Hosts <- MCHosts
    Envs <- MCEnvs
    StartCreds <- MCStartCreds
    MaxBoots = 2
    MaxMoves = 1
    Faults = TRUE
INVARIANTS ServingGuarded OwnPod ReverseTeardown CleanReturn DropWorks
PROPERTIES OneCA StopEnds
