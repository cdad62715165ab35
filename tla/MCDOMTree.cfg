SPECIFICATION Spec
CONSTANTS
  Nil = Nil
  doc = doc
  e1 = e1
  e2 = e2
  x1 = x1
  frag = frag
  type = type
  Node <- MCNode
  Kind <- MCKind
  Document = doc
  Foreign = {doc}
  ReadOnly = {}
  Blank = {}
  InitialDom <- MCInitialDom
  Unguarded = {}
INVARIANTS ParentChildAgree Acyclic DocumentCaches FragmentInOrder
PROPERTIES FragmentInsertionEnds
