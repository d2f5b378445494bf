SPECIFICATION FairSpec
CONSTANTS
  TenMs = 8
  Second = 32
  CounterRange = 14
  WdtPeriod = 96
  MaxStart = 2
  MaxAsked = 4
  MaxAnswer = 1
  MaxFlash = 1
  MaxConvert = 1
  RoundsPerTick = 3
INVARIANTS TicksConserved NoTickLost FedInTime
PROPERTIES RestartResets CacheChecked
