CONSTANTS
  i = i
  x = x
  b = b
  a = a
  f = f
  g = g
  h = h
  p = p
  VarType <- MCVarType
  FunType <- MCFunType
  Held <- MCHeld
  Programs <- MCPrograms
  Depth = 4
  Width = 4
  Unit = 2
  PrintStep = 2
SPECIFICATION Spec
INVARIANTS TypesAreChecked ValueIsAsWritten FoldingIsComplete
CHECK_DEADLOCK FALSE
