SPECIFICATION FairSpec
CONSTANTS
  MAX_RECOVERY_ATTEMPTS = 1
  KIdleConsecutiveNoData = 2
  ConfiguredBufferHns = 100
  LowerBuffersHns = {20}
  UsPerMs = 2
  Waits = {1, 2}
  MaxTime = 4
  MaxResets = 2
INVARIANTS TypeOK ProbeFigures StraysOnlyInRace
PROPERTIES TotalIdleMonotone StopReturns
