SPECIFICATION UnitFairSpec
CONSTANTS
  Size = 6
  MaxLines = 3
  MaxFaults = 1
CHECK_DEADLOCK FALSE
INVARIANTS AnswersMatch ZeroOnlyUnfinished
PROPERTY RestartObeyed
