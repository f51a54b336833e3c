CONSTANTS
  a = a
  b = b
  r1 = r1
  r2 = r2
  NoDef = NoDef
  Names <- MCNames
  Renders <- MCRenders
  Depth = 2
  Chains <- MCChains
  Bags <- MCBags
  Flats <- MCFlats
SPECIFICATION Spec
SYMMETRY MCSymmetry
INVARIANTS
  TypeOK
  NothingShared
  AcceptedIsAnswered
  UntrustedNeverShown
  DeclaredIsPresent
  OneSeal
  BindingChangesNothing
