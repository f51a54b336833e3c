CONSTANTS
  Documents <- MCDocuments
  Edits <- MCEdits
  MaxPatchEdits = 2
SPECIFICATION Spec
CHECK_DEADLOCK FALSE
INVARIANTS
  SelfCheckOnlyForKeep
  StaysWellFormed
  RetryChangesNothing
  OrderIsIrrelevant
PROPERTIES
  KeepsOtherLines
