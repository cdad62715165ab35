SPECIFICATION XSModelsSpec
CONSTANTS
  p1 = p1
  p2 = p2
  a1 = a1
  a2 = a2
  b1 = b1
  Parser <- MCParser
  Grammar <- MCGrammar
  NamespaceOf <- MCNamespaceOf
  MaxModels = 3
  Unguarded = {}
SYMMETRY MCSymmetry
INVARIANTS ModelIsCurrent NoFreedModelRead ReadSchemasAreThere EveryModelOwned
