SPECIFICATION FairSpec
CONSTANTS
  Capacity = 7
  MaxLines = 4
  MaxFaults = 1
  MaxJunk = 1
CHECK_DEADLOCK FALSE
INVARIANTS InOrder NoneSkipped FullOnlyByFault
PROPERTY TtyDrained
