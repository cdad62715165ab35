SPECIFICATION RangeSpec
CONSTANTS
  Nil = Nil
  doc = doc
  e1 = e1
  t1 = t1
  t2 = t2
  frag = frag
  rg1 = rg1
  Node <- MCNode
  Kind <- MCKind
  Document = doc
  Foreign = {doc}
  ReadOnly = {}
  Blank = {}
  InitialDom <- MCInitialDom
  Unguarded = {}
  RangeId = {rg1}
  Spare = {t2}
  InitialLen <- MCInitialLen
  MaxLen = 2
  SplitFreely = FALSE
INVARIANTS BoundariesExist StartNotAfterEnd CompareIsDocumentOrder
