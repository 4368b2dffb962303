SPECIFICATION MCSpec
CONSTANTS
    b1 = b1
    b2 = b2
    w1 = w1
    w2 = w2
    admin = admin
    clerk = clerk
    envkey = envkey
    otherkey = otherkey
    doc1 = doc1
    doc2 = doc2
    v1 = v1
    v2 = v2
    c1 = c1
    order1 = order1
    Scenes <- AllScenes
    Browsers = {b1, b2}
    Users = {admin, clerk}
    Citizens = {c1}
    Records = {order1}
    Keys = {envkey, otherkey}
    EnvAdmin = admin
    EnvKey = envkey
    MaxDownloads = 2
    MaxSearches = 1
    Null = Null
    Workers = {w1, w2}
    Docs = {doc1, doc2}
    Fields <- MCFields
    Values = {v1, v2}
    Findings <- MCFindings
    Category <- MCCategory
    Target <- MCTarget
    MaxAnnotations = 4
    MaxRuns = 1
    None = None
    Reviewers = {w1, w2}
    Papers = {doc1, doc2}
    DepartmentOf <- MCDepartment
    Failing = {doc2}
    Shapes <- MCShapes
    MaxEntries = 3
    MaxRows = 2
    MaxEscalations = 1
    MaxCampaigns = 1
    TableSize = 1
    Absent = Absent
INVARIANTS TypesOK OnlyCitizensCounted LatestAnnotationLives RunAccounts ReadyIsApprovable NumbersAgree
PROPERTIES RevocationStands AdministratorRemains
CHECK_DEADLOCK FALSE
