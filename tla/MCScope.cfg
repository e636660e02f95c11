SPECIFICATION Spec
CONSTANTS
  Cases <- MCCases
  Listed <- MCListed
  Root <- MCRoot
INVARIANTS
  TypeOK
  ParsedAsMeant
  ScopeExact
  ChangedNotLost
  FailsClosed
CHECK_DEADLOCK FALSE
