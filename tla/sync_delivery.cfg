SPECIFICATION SyncSpec
CONSTANTS
    Null = Null
    a1 = a1
    a2 = a2
    h1 = h1
    u1 = u1
    scan = scan
    text = text
    Urls = {u1}
    Contents = {scan, text}
    Scanned = {scan}
    DocIds <- TwoIds
    RecIds <- FourIds
    Handlers = {h1}
    Tesseract = FALSE
    OcrTexts = {"none", "good"}
    Crashes = TRUE
    Routes = {"sync", "approve", "cleanup"}
    Agents = {a1, a2}
    Rounds = 1
    Faults = 1
INVARIANTS SyncedIsDurable Lineage
PROPERTIES TextArrives
CHECK_DEADLOCK FALSE
