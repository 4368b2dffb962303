SPECIFICATION MCSpec
CONSTANTS
    h1 = h1
    h2 = h2
    p1 = p1
    p2 = p2
    p3 = p3
    p4 = p4
    p5 = p5
    d1 = d1
    d2 = d2
    d3 = d3
    google = google
    home = home
    Scenes <- AllScenes
    Sources <- MCSources
    Pages = {p1, p2, p3, p4, p5}
    Docs = {d1, d2, d3}
    Handlers = {h1, h2}
    Root <- MCRoot
    Adapter <- MCAdapter
    Anchors <- MCAnchors
    MaxPages = 4
    Limit = 2
    MaxRuns = 3
    Crashes = TRUE
    Jobs = {1}
    Controls = {google}
    Targets = {home}
    Tested = {1}
    Deploys = TRUE
INVARIANTS TypesOK DiscoveredOnce RunMatchesEvidence BypassAllowed StatusEarned CompletedIsWhole
PROPERTIES CommandsEnd
CHECK_DEADLOCK FALSE
