SPECIFICATION HistorySpec
CONSTANTS
    Field = {title, status}
    KnownField = {title, status}
    Value = {v1, v2}
    NoText = NoText
    Handler = {h1}
    Tab = {t1}
    NoTab = NoTab
    Allowed = {"update", "other", "scan"}
    SyncStrategy = "fullscan"
    MaxRequests = 1
    MaxRemote = 2
    MaxAttempts = 1
SYMMETRY Symmetry
INVARIANT NoEditLost
