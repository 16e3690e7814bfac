CONSTANTS
  Tables <- MCCompilers
  Breakpoints <- MCBreakpoints
  Targets <- MCTargets
  MaxCycles = 3
SPECIFICATION Spec
INVARIANTS ActionIdsAreShown LifetimesMatchTheRun
PROPERTIES PhaseErrorsStop NotifiedCyclesRepeat BreakpointsHold Terminates
CHECK_DEADLOCK FALSE
