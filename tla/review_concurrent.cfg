SPECIFICATION MCSpec
CONSTANTS
    Null = Null
    Lanes <- AllLanes
    good = good
    poor = poor
    p1 = p1
    p2 = p2
    h1 = h1
    h2 = h2
    Records <- TwoIds
    Revisions <- TwoIds
    Names = {"go_number", "subject", "budget"}
    Values = {good, poor}
    Parsable = {good}
    Finds <- SomeFinds
    Corrections <- SomeCorrections
    Changes <- RevisedChanges
    People = {p1, p2}
    Handlers = {h1, h2}
    MaxRows = 3
    Routes = {"parse", "correct", "approve", "reject", "recompute", "request", "submit", "approve_revision", "reject_revision"}
    Crashes = TRUE
SYMMETRY Permuted
INVARIANTS LatestLives ApprovedComplete NothingFabricated RepublishedApplied VersionExplained IdsUnique
