SPECIFICATION Spec
CONSTANTS
  MaxInherit = 2
  MaxNodes = 5
  MaxIncludes = 2
  MaxRefs = 2
  Documents <- MCDocuments
  Callers <- MCCallers
  Parents <- MCParents
  Templates <- MCTemplates
  Specs <- MCSpecs
INVARIANT
  ReferencesReported
