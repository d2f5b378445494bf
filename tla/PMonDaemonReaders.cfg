SPECIFICATION Spec
CONSTANTS
  Client = {c1, c2}
  Daemon = daemon
  Reading = {12}
  Sent <- Answers
  MaxWire = 1
  MaxBacklog = 1
  MaxStarts = 2
SYMMETRY ClientSymmetry
INVARIANTS MutualExclusion SnapshotWhole ConnectedIsTrue NoUseAfterDetach
