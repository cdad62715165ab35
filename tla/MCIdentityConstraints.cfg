SPECIFICATION IdentitySpec
CONSTANTS
  Schemas <- MCSchemas
  Complex = {"r", "e", "g"}
  Attributed = {"e"}
  Simple = {"b"}
  Root = "r"
  Values = {"1", "2"}
  MaxElements = 5
  MaxDepth = 4
CHECK_DEADLOCK FALSE
INVARIANTS KeysAreJudged KeyrefsAreJudged
