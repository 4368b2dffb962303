SPECIFICATION MCSpec
CONSTANTS
    Null = Null
    h1 = h1
    h2 = h2
    t1 = t1
    d1 = d1
    d2 = d2
    p1 = p1
    b1 = b1
    x1 = x1
    x2 = x2
    Lanes <- AllLanes
    Sources <- MCSources
    States = {t1}
    Districts = {d1, d2}
    Buckets = {b1}
    Departments = {p1}
    StateOf <- InState
    BucketOf <- MCBucketOf
    Scopes <- MCScopes
    Outcomes <- MCOutcomes
    Texts = {x1, x2}
    Handlers = {h1, h2}
    MaxVersion = 3
    Routes = {}
    Crashes = FALSE
SYMMETRY Permuted
INVARIANTS TypeOK PublishedHasEvidence FailureShows
PROPERTIES EditsKept
