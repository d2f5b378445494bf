SPECIFICATION FairSpec
CONSTANTS
  NumPages = 2
  TokenSize = 3
  PageSize = 1
  CountMax = 3
  MaxWrite = 2
  Byte <- TwoBytes
  Blank = 255
  NoPage = 65535
  NoSlot = NoSlot
INVARIANTS TypeOK NoAlias Coherent
PROPERTIES ImplementsStore VictimNotLatest WritesReachFlash
