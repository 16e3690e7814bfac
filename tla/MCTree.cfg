CONSTANTS
  text = text
  Texts = {text}
  Grammars <- MCGrammars
  Ids <- MCIds
  LinkedTypes = {"loop"}
  MaxStrings = 2
  MaxNodes = 3
SPECIFICATION Spec
INVARIANTS MemoryHasOneOwner CopyIsFaithful CheckMatchesLifetimes RemovedTypeIsGone
CHECK_DEADLOCK FALSE
