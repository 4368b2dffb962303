SPECIFICATION MCSpec
CONSTANTS
    Null = Null
    a1 = a1
    a2 = a2
    h1 = h1
    h2 = h2
    Ids <- MCIds2
    Agents = {a1, a2}
    Handlers = {h1, h2}
    Scopes = {}
    MaxDone = 1
    NSources = 1
    Unreadable = {}
    MaxWork = 1
    ExhaustedAfter = 1
    Attempts = 2
    MaxFaults = 1
    Failing <- Everything
    Abandon = TRUE
    Routes <- SafetyRoutes
SYMMETRY Permuted
INVARIANTS IdsNameOneRequest ExclusiveWork HonestCompletion
