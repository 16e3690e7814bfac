CONSTANTS
  Grammars <- MCGrammars
  Reserved <- MCReserved
  MaxIters = {3, 196}
  TreeDepth = 3
SPECIFICATION Spec
INVARIANTS UnwrappedSetsMeanTheirExpression SetAttributesReachMembers HandledNodesAreReached AttributesAreEvaluatedInOrder LoopsAreReal
PROPERTIES Terminates
