SPECIFICATION Spec
CONSTANTS
  NoContent = NoContent
  Contents <- WholeTags
  Tools <- SomeTools
  FinishReasons = {"nil", "length"}
  MaxChunks = 3
INVARIANTS BlocksBracketed NothingLost ThinkSeparated
