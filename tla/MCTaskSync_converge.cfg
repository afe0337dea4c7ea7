SPECIFICATION FairSpec
CONSTANTS
    Field = {title}
    KnownField = {title}
    Value = {v1, v2}
    NoText = NoText
    Handler = {h1, h2}
    Tab = {t1}
    NoTab = NoTab
    Allowed = {"update", "delete", "resolve", "scan", "other", "fail", "lost", "crash"}
    SyncStrategy = "fullscan"
    MaxRequests = 2
    MaxRemote = 2
    MaxAttempts = 2
PROPERTY SyncConverges
