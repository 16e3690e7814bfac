\* Three int values and the patterns of 0.0f and of one more float.
CONSTANTS
  Ints = {0, 1, 2}
  Floats = {0, 5}
SPECIFICATION Spec
INVARIANTS LoadsMeanTheirConstant NoDuplicates
\* The compiler stops after the .const list.
CHECK_DEADLOCK FALSE
