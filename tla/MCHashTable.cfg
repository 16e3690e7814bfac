CONSTANTS
  k1 = k1
  k2 = k2
  k3 = k3
  v1 = v1
  v2 = v2
  NULL = NULL
  Keys <- MCKeys
  Values <- MCValues
  Hash <- MCHash
  Size = 3
  MaxElements = 4
  UserFunctions <- MCFunctions
SPECIFICATION Spec
PROPERTIES IterationIsComplete ImplementsMap
CHECK_DEADLOCK FALSE
