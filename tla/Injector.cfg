SPECIFICATION FairSpec
CONSTANTS
    Version = v1
    Refused = Refused
    None = None
    Replicas = {r1, r2}
    CertDirs = {"empty", "good", "partial", "invalid"}
    Servers <- MCServers
    Pods <- MCPods
    Changes <- MCChanges
    Debug <- MCDebug
    MaxTries = 2
    Budgets <- MCBudgets
INVARIANTS RunningGuarded WebhooksAgree
PROPERTIES BundlesSettle
