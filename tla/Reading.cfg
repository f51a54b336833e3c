CONSTANTS
  Sources <- MCSources
  Words <- MCWords
SPECIFICATION Spec
CHECK_DEADLOCK FALSE
INVARIANTS
  EscapingReadsBack
  FencesAreInert
  NothingDropped
  RawSourceIsWhole
PROPERTIES
  EveryStepAdvances
