SPECIFICATION DaemonSpec
CONSTANTS
    Null = Null
    a1 = a1
    a2 = a2
    h1 = h1
    h2 = h2
    Ids <- MCIds1
    Agents = {a1}
    Handlers = {h1, h2}
    Scopes = {}
    MaxDone = 2
    NSources = 2
    Unreadable = {2}
    MaxWork = 1
    ExhaustedAfter = 1
    Attempts = 2
    MaxFaults = 1
    Failing <- Everything
    Abandon = TRUE
    Routes <- NoReset
PROPERTIES SlicesEnd CancelStops
