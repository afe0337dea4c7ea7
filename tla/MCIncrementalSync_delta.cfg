SPECIFICATION SyncSpec
CONSTANTS
    Field = {"f"}
    KnownField = {"f"}
    Value = {v0, v1}
    NoText = NoText
    Calendar = {c}
    Cal = c
    Href = {h1, h2}
    UID = {h1, h2}
    NoObject = NoObject
    CalendarOf <- MCCalendarOf
    HomeUID <- MCHomeUID
    Events = {"edit", "remove", "create", "other", "bare", "downgrade", "fail"}
    MaxRevision = 3
    MaxRequests = 1
    MaxRows = 3
SYMMETRY MCSymmetry
INVARIANTS NothingMissed DeltaIsScan
