SPECIFICATION Spec
CONSTANTS
    Null = Null
    h1 = h1
    h2 = h2
    u1 = u1
    u2 = u2
    scan = scan
    text = text
    Urls = {u1}
    Contents = {scan, text}
    Scanned = {scan}
    DocIds <- TwoIds
    RecIds <- FourIds
    Handlers = {h1}
    Tesseract = FALSE
    OcrTexts = {"none", "good"}
    Crashes = FALSE
    Routes = {"sync"}
INVARIANTS ChangeIsNewVersion
