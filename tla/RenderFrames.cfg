CONSTANTS
  s1 = s1
  s2 = s2
  user = user
  system = system
  NoRole = NoRole
  Slugs <- MCSlugs
  Roles <- MCRoles
  User = user
  MaxDepth = 1
  RefMaxDepth = 2
  Budget = 8
SPECIFICATION Spec
INVARIANTS
  TypeOK
  StackBounded
  ChainsSound
  WellMarked
  UntrustedOnlyForUser
  RepeatsAfterBlock
CHECK_DEADLOCK FALSE
