SPECIFICATION Spec
CONSTANT Null = Null
INVARIANTS
  FilterSelectsAsRead
  TextIsKept
  QuickAddAsShown
  RuleEditKeepsRest
  FavoriteFollowsPriority
  ConflictAsShown
  PagesAgree
  FamiliesStayTogether
CHECK_DEADLOCK FALSE
