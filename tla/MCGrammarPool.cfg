SPECIFICATION Spec
CONSTANTS
  p1 = p1
  p2 = p2
  g1 = g1
  g2 = g2
  g3 = g3
  g4 = g4
  Parser <- MCParser
  Grammar <- MCGrammar
  Namespace = {"ns"}
  SystemId = {"sys"}
  DtdKey = "[dtd]"
  NoGrammar = NoGrammar
  Unguarded = {"loadNameless", "orphanAbsent"}
SYMMETRY MCSymmetry
INVARIANTS SoleOwner TablesAreTrue DTDNotShared
PROPERTIES LockedRegistryIsFrozen
