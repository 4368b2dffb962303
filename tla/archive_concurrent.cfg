SPECIFICATION Spec
CONSTANTS
    Null = Null
    h1 = h1
    h2 = h2
    u1 = u1
    u2 = u2
    scan = scan
    text = text
    Urls = {u1}
    Contents = {scan}
    Scanned = {scan}
    DocIds <- TwoIds
    RecIds <- ThreeIds
    Handlers = {h1, h2}
    Tesseract = FALSE
    OcrTexts = {"none", "good"}
    Crashes = TRUE
    Routes = {"sync", "cleanup", "approve", "reprocess", "acquire", "ingest","parse"}
SYMMETRY Permuted
INVARIANTS LinkIsTrue AnswerIsTrue
PROPERTIES NewestKept
