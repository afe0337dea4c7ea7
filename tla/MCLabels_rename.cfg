SPECIFICATION Spec
CONSTANTS
  t1 = t1
  t2 = t2
  h1 = h1
  h2 = h2
  Task = {t1, t2}
  Handler = {h1, h2}
  None = None
  NoText = NoText
  Field = {"categories"}
  KnownField = {"categories"}
  Spelling = {"home", "Home", "work"}
  Value <- MCValue
  Fold <- MCFold
  Choice <- MCChoice
  RemoteText <- MCRemoteText
  Allowed = {"rename", "remove", "edit", "undo", "scan", "fail", "crash", "other"}
  MaxId = 3
  MaxRequests = 2
  MaxRemote = 1
SYMMETRY MCSymmetry
CHECK_DEADLOCK FALSE
INVARIANTS AssignedAsWritten ListedIsCurrent
PROPERTY GoneFromTasks
