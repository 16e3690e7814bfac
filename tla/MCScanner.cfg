CONSTANTS
  NULL = NULL
  Inputs <- MCInputs
  Reported <- MCReported
  LineLength = 5
  Header <- MCHeader
  MaxReports = 1
SPECIFICATION Spec
INVARIANTS ResultsAreAsMeant MessagesFitTheirLines ErrorsShowTheirToken
CHECK_DEADLOCK FALSE
