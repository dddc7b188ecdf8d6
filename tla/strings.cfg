SPECIFICATION Spec
CONSTANTS
  Chars <- AllChars
  Spaces <- SpaceChars
  CR = "cr"
  LF = "lf"
  UpperOf <- Upper
  LowerOf <- Lower
  NUL = "nul"
  Junk = "junk"
  Words <- SomeWords
  Sizes <- SmallSizes
  Rank <- CharRank
  Counts <- SomeCounts
  SizeMod = 16
  MaxLen = 4
  SelfGrow = FALSE
INVARIANTS WellFormed SplitInverse ReplaceEverywhere LookingAgrees
PROPERTIES KeepsPromises
