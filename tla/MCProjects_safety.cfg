SPECIFICATION Spec
CONSTANTS
  a = a
  b = b
  c1 = c1
  c2 = c2
  Calendar = {c1, c2}
  Name = {a, b}
  SlugOf <- MCSlugOf
  Project = {p1, p2}
  Handler = {h1, h2}
  None = None
  MaxVersion = 4
  MaxRequests = 4
  Allowed = {"create", "rename", "delete", "settings", "task", "conflict", "sync", "fail", "crash", "other"}
SYMMETRY MCSymmetry
CHECK_DEADLOCK FALSE
INVARIANTS ReservationsDistinct HolderIsAlone OneDefault Agreement
PROPERTIES TasksOnlyGoWithCalendar
