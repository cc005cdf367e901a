SPECIFICATION Spec
CONSTANTS
    Width = 4
    MinBypassBits = 2
    MaxBypassCIDRs = 2
    Unset = Unset
    Garbled = Garbled
    Bad = Bad
    Defaults <- MCDefaults
    Layers <- MCLayers
    Dests <- MCDests
    Socks = {s1, s2}
    Ports = {p1}
    AgentUID = 1000
    MaxSockets = 2
    UpdateFails = TRUE
SYMMETRY Slots
INVARIANTS OnlyExemptUncaptured OwnDestination DatagramsOnlyToDNS
