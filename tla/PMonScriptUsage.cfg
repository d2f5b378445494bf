SPECIFICATION ScriptSpec
CONSTANTS
  MaxDaemon = 2
  MaxCalls = 2
INVARIANT RestartOffered
CHECK_DEADLOCK FALSE
