SPECIFICATION Spec
CONSTANTS
  t1 = t1
  t2 = t2
  t3 = t3
  Task = {t1, t2, t3}
  None = None
  NoText = NoText
  Field = {"status", "related"}
  KnownField = {"status"}
  Value <- MCValue
  Handler = {h1, h2}
  MaxRequests = 2
  MaxRemote = 1
  RemoteText <- MCRemoteText
  Allowed = {"create", "delete", "complete", "scan", "fail", "crash", "other"}
SYMMETRY MCSymmetry
CHECK_DEADLOCK FALSE
INVARIANT ParentExists
PROPERTIES ScanFlattens ParentGoesLast
