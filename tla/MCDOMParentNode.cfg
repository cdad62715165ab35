SPECIFICATION PointerSpec
CONSTANTS
  Nil = Nil
  doc = doc
  e1 = e1
  e2 = e2
  t1 = t1
  t2 = t2
  c1 = c1
  Node <- MCNode
  Document = doc
  Leaf = {t1, t2, c1}
  FlagsCopied = {t1, t2, c1}
  Fresh = {c1}
  CloneFirst = FALSE
INVARIANTS SiblingsMirror EndsKnown
PROPERTIES ImplementsChildLists
