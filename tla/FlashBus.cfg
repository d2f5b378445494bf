SPECIFICATION FairSpec
CONSTANTS
  Page = {62, 63, 64, 65}
  Offset = {255, 256}
  Byte = {0, 1}
  FirstPage = 63
  Size = 2
  NoPage = NoPage
  None = None
  MaxResets = 1
INVARIANTS OneSelected FreshVolts
PROPERTIES ImplementsPages CallsReturn
