SPECIFICATION Spec
CONSTANTS
  NoContent = NoContent
  Contents <- AllTags
  Tools <- SomeTools
  FinishReasons = {"nil", "length"}
  MaxChunks = 3
INVARIANTS NothingLost DoneMatchesDeltas ItemsBracketed  ReasoningStaysClosed
