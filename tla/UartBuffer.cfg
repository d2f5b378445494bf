SPECIFICATION FairSpec
CONSTANTS
  Size = 4
  MaxChars = 5
  MaxPuts = 3
\* The main loop may wait in usart_getchar for a character that never comes.
CHECK_DEADLOCK FALSE
INVARIANTS NothingLost WaitsOnlyIfRaced SentInOrder
PROPERTY CharsReachMain
