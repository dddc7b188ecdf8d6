SPECIFICATION Spec
CONSTANTS
  Texts <- AllTexts
  Outside <- MemoryBytes
INVARIANTS Resynchronises BackUndoesForward ValidMeansEncoded  TextCuts
CHECK_DEADLOCK FALSE
