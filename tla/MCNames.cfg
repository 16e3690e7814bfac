CONSTANTS
  a = a
  b = b
  c = c
  Programs <- MCPrograms
SPECIFICATION Spec
INVARIANTS CopiesErrTowardsLoops OuterRefsPrecedeLoops FreshNamesKeepTheirMeaning AddressesAreSlots ArraysAreFlattened
CHECK_DEADLOCK FALSE
