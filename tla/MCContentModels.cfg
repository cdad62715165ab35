SPECIFICATION ContentSpec
CONSTANTS
  a = a
  b = b
  s = s
  Elements <- MCElements
  Members <- MCMembers
  Declared <- MCDeclared
  MaxChildren <- MCMaxChildren
CHECK_DEADLOCK FALSE
INVARIANTS VerdictIsLanguage FirstUnexpectedChild AttributionIsReported
