SPECIFICATION ScriptSpec
CONSTANTS
  MaxDaemon = 3
  MaxCalls = 4
CHECK_DEADLOCK FALSE
INVARIANTS RunningIsTold FlagHasOwner
