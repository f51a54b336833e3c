CONSTANTS
  c1 = c1
  c2 = c2
  plain = plain
  prose = prose
  strictly = strictly
  broken = broken
  looping = looping
  tag = tag
  None = None
  Refused = Refused
  Callers <- MCCallers
  Bodies <- MCBodies
  Tags <- MCTags
  Malformed <- MCMalformed
  Endless <- MCEndless
  Refuses <- MCRefuses
  StrictAttributes = TRUE
  MaxEntries = 2
SPECIFICATION FairSpec
INVARIANTS
  TypeOK
  CacheBounded
  CacheHoldsAcceptedParses
PROPERTIES
  AnswersLikeSomeParse
  CallsReturn
