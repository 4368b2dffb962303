SPECIFICATION MCSpec
CONSTANTS
    Null = Null
    a1 = a1
    a2 = a2
    h1 = h1
    h2 = h2
    s1 = s1
    Lanes <- AllLanes
    Ids <- TwoIds
    Agents = {a1, a2}
    Handlers = {h1, h2}
    Scopes = {s1}
    MaxDone = 0
    Routes <- AllRoutes
SYMMETRY Permuted
INVARIANTS OnePendingPerSubject
PROPERTIES HandOver StepsOfLifecycle
