SPECIFICATION Spec
CONSTANTS
    Field = {title}
    KnownField = {title}
    Value = {v1, v2}
    NoText = NoText
    Handler = {h1, h2}
    Tab = {t1}
    NoTab = NoTab
    Allowed = {"update", "undo", "resolve", "split", "scan", "other", "expire"}
    SyncStrategy = "fullscan"
    MaxRequests = 3
    MaxRemote = 3
    MaxAttempts = 3
SYMMETRY Symmetry
INVARIANT ConflictKeepsLocal
