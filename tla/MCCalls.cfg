CONSTANTS
  foo = foo
  bar = bar
  Names = {foo, bar}
  Shapes <- MCShapes
  MaxFunctions = 4
  MaxCalls = 1
SPECIFICATION Spec
INVARIANTS CallsReachTheirFunction ModulesLink ArgumentsArePushed
CHECK_DEADLOCK FALSE
