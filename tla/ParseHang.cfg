CONSTANTS
  Sources <- Mismatches
  Words <- MCWords
SPECIFICATION Spec
CHECK_DEADLOCK FALSE
PROPERTY MismatchedIsRefused
