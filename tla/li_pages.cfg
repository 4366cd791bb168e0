CONSTANTS
  Clients = {c1, c2}
  Rows <- MCRows
  Scopes = {"a", "b"}
  ScopeOf <- MCScopeOf
  Narrow <- MCNarrow
  CreatedAt <- MCCreatedAt
  PageSize = 1
  MaxChanges = 1
  None = None
SPECIFICATION FairSpec
CHECK_DEADLOCK FALSE
INVARIANTS
  OwnRows
  WalkComplete
PROPERTY
  WalksEnd
