CONSTANTS
  i = i
  j = j
  Programs <- MCPrograms
  LoopVars = {i, j}
  Answers <- MCAnswers
  MaxEvents = 6
  MaxSilent = 40
SPECIFICATION Spec
INVARIANTS EndsWhereTheBodyEnds StackIsEmptyBetweenStatements ReferencesHaveOneOwner
PROPERTIES SourceSpec
CHECK_DEADLOCK FALSE
