SPECIFICATION SchemaDocumentsSpec
CONSTANTS
  Docs <- MCDocs
  TargetNS <- MCTargetNS
  Namespaces <- MCNamespaces
  Declares <- MCDeclares
  Links <- MCLinks
  LocationOf <- MCLocationOf
  MultipleImports = FALSE
  MaxLinks = 3
  MaxRefs = 2
INVARIANTS NestingEnds ScopesAreUnique ReferencesAreJudged
