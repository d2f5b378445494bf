SPECIFICATION Spec
CONSTANTS
  NumPages = 1
  TokenSize = 2
  PageSize = 2
  CountMax = 3
  MaxWrite = 3
  Byte <- TwoBytes
  Blank = 255
  NoPage = 65535
  NoSlot = NoSlot
PROPERTY SplitOnlyAtPageLimit
