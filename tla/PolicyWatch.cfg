SPECIFICATION FairWatchSpec
CONSTANTS
    Versions = {0, 1}
    MaxStaleness = 3
    None = None
    ResyncPeriods = {2, 3}
    MaxEdits = 1
    MaxOutages = 1
    MaxList = 1
    MaxTotalRules = 3
    Rejected = Rejected
    RuleSets <- MCRuleSets
    Requests <- MCRequests
    RawPaths <- MCRawPaths
INVARIANTS LeaseBoundsLag CompileOrderIndependent CanonicalPaths
PROPERTIES PublishedInOrder EventuallyCurrent
