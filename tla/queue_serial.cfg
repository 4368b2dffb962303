SPECIFICATION MCSpec
CONSTANTS
    Null = Null
    a1 = a1
    a2 = a2
    h1 = h1
    h2 = h2
    s1 = s1
    Ids <- TwoIds
    Agents = {a1, a2}
    Handlers = {h1}
    Scopes = {s1}
    MaxDone = 0
    Lanes <- WholeLane
    Routes <- AllRoutes
SYMMETRY AgentsPermuted
PROPERTIES ImplementsLifecycle
