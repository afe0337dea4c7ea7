SPECIFICATION FairSpec
CONSTANTS
  A = A
  B = B
  Calendar = {A, B}
  Id = {i1, i2, i3}
  None = None
  NoText = NoText
  Field = {"title"}
  KnownField = {"title"}
  Value = {"x", "y"}
  Handler = {h1, h2}
  MaxRequests = 2
  MaxRemote = 1
  FullScanned = {A}
  Allowed = {"move", "edit", "scan", "fail", "lost", "crash", "other"}
CHECK_DEADLOCK FALSE
INVARIANT NeverLost
PROPERTIES MoveEndsAlone RowsMatchCopies
