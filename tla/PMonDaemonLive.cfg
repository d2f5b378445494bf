SPECIFICATION FairSpec
CONSTANTS
  Client = {c1}
  Daemon = daemon
  Reading = {12}
  Sent <- AnyLine
  MaxWire = 1
  MaxBacklog = 2
  MaxStarts = 1
PROPERTIES SignalEnds LossNoticed LinesAreRead
