SPECIFICATION Spec
CONSTANTS
    Field = {title, status}
    KnownField = {title, status}
    Value = {v1, v2}
    NoText = NoText
    Handler = {h1, h2}
    Tab = {t1}
    NoTab = NoTab
    Allowed = {"create", "update", "delete", "undo", "scan", "other", "lost"}
    SyncStrategy = "fullscan"
    MaxRequests = 2
    MaxRemote = 1
    MaxAttempts = 2
SYMMETRY Symmetry
INVARIANT PatchBaseIsCurrent
INVARIANT MarkOwnContent
PROPERTY SyncedAsPushed
PROPERTY ImplementsTaskStore
