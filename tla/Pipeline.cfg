SPECIFICATION FairSpec
CONSTANTS
    Requests = {r1, r2}
    Hosts = {ha, hb}
    Ports = {http, https}
    http = http
    https = https
    Creds = {c1, c2}
    Versions = {v1, v2}
    v1 = v1
    v2 = v2
    ha = ha
    hb = hb
    c1 = c1
    c2 = c2
    RuleOf <- MCRuleOf
    NoMatch = NoMatch
    None = None
    MaxStaleness = 1
    Inputs <- MCInputs
INVARIANTS CredentialAttributed OutcomeRecorded
PROPERTIES EnforcementImplemented EveryRequestAnswered
