CONSTANTS
  r1 = r1
  r2 = r2
  base = base
  root = root
  top = top
  page = page
  layout = layout
  trunk = trunk
  leaf = leaf
  odd = odd
  ill = ill
  NoParent = NoParent
  Absent = Absent
  Down = Down
  Unspliced = Unspliced
  Renders <- MCRenders
  Names <- MCNames
  Docs <- MCDocs
  Templates <- MCTemplates
  Extends <- MCExtends
  Form <- MCForm
  MaxDepth = 1
SPECIFICATION Spec
INVARIANTS
  NestedParentIsOwn
CHECK_DEADLOCK FALSE
