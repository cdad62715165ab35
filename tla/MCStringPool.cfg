SPECIFICATION FairSpec
CONSTANTS
  t1 = t1
  t2 = t2
  u = u
  v = v
  w = w
  Thread <- MCThread
  String <- MCString
  ConstStrings <- MCConst
  InitialCap = 2
  NoThread = NoThread
  NoString = NoString
INVARIANTS MutexHeld TablesAgree ValueHasId
PROPERTIES IdsAreForGood ImplementsStringIds CallsReturn
