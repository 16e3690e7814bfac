CONSTANTS
  a = a
  b = b
  c = c
  Programs <- AnyPrograms
SPECIFICATION Spec
INVARIANTS LoopVariablesAreTheirOwn
CHECK_DEADLOCK FALSE
