SPECIFICATION MCSpec
CONSTANTS
    Null = Null
    a1 = a1
    a2 = a2
    h1 = h1
    h2 = h2
    s1 = s1
    Ids = {1}
    Agents = {a1}
    Handlers = {h1, h2}
    Scopes = {}
    MaxDone = 0
    Lanes <- RaceLane
    Routes <- RaceRoutes
PROPERTIES TerminalIsFinal
