\* Seven fill statements and two literals in each other pass the limit of 20.
CONSTANTS
  a = a
  b = b
  c = c
  d = d
  Names = {a, b, c, d}
  MaxEntries = 4
  MaxFills = 7
  MaxNesting = 3
SPECIFICATION Spec
INVARIANTS TempsApart FewFillsFit
SYMMETRY Symmetry
CHECK_DEADLOCK FALSE
