SPECIFICATION Spec
CONSTANTS
  Stacks <- MCStacks
  MaxMade = 2
  MaxWrites = 1
INVARIANTS
  MergeIsLayered
  SentIsLayered
  LayersStayTheirOwn
CHECK_DEADLOCK FALSE
