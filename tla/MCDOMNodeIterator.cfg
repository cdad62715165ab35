SPECIFICATION IterSpec
CONSTANTS
  Nil = Nil
  doc = doc
  e1 = e1
  e2 = e2
  x1 = x1
  ref = ref
  t1 = t1
  frag = frag
  it1 = it1
  Node <- MCNode
  Kind <- MCKind
  Document = doc
  Foreign = {doc}
  ReadOnly = {ref, t1}
  Blank = {}
  InitialDom <- MCInitialDom
  Unguarded = {}
  Iterator = {it1}
  Shown = {e1, e2, t1, x1}
  Roots = {doc, e1}
  ExpandReferences = FALSE
  RemoveUnstarted = FALSE
INVARIANTS OnOwnSubtree StepsAreNeighbours RemovalKeepsPosition
