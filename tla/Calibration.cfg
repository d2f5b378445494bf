SPECIFICATION Spec
CONSTANTS
  HalfWord = 128
  Threshold = 9
  Scale = 4
  LongIsWide = TRUE
  Raw = {8, 9, 15}
  Typed <- MCTyped
  Default <- MCDefault
  ByteRange = 4
  NoPage = NoPage
  MaxSets = 2
INVARIANTS UsesStored AnswerIsUsed VoltsExact
PROPERTY RestartKeeps
