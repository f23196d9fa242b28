SPECIFICATION AgentFairSpec
CONSTANTS
    Printers = {p1, p2}
    MaxClients = 1
    MaxRefusals = 1
    MaxKills = 1
    MaxOutages = 1
INVARIANTS
    EndSaves
    NoMonitorMissing
PROPERTIES
    KnownStreamed
    ServesAgain
