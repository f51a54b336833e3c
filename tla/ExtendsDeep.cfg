CONSTANTS
  r1 = r1
  r2 = r2
  base = base
  root = root
  top = top
  page = page
  layout = layout
  trunk = trunk
  leaf = leaf
  odd = odd
  ill = ill
  NoParent = NoParent
  Absent = Absent
  Down = Down
  Unspliced = Unspliced
  Renders <- DeepRenders
  Names <- DeepNames
  Docs <- DeepDocs
  Templates <- DeepTemplates
  Extends <- DeepExtends
  Form <- DeepForm
  MaxDepth = 1
SPECIFICATION Spec
INVARIANTS
  ChainsBounded
PROPERTIES
  RefusedWhenCut
CHECK_DEADLOCK FALSE
