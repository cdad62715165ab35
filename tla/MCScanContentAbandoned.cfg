SPECIFICATION ScanSpec
CONSTANTS
  Names <- MCNames
  Entities <- MCEntities
  Decls <- MCDecls
  Prefix <- MCPrefix
  Namespace <- MCNamespace
  Documents <- MCDocuments
  Replacements <- MCReplacements
  MaxParses = 2
  AbandonFreely = TRUE
CHECK_DEADLOCK FALSE
INVARIANTS NextParseClosesOpenFiles
