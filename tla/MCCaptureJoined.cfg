SPECIFICATION Spec
CONSTANTS
  MAX_RECOVERY_ATTEMPTS = 1
  KIdleConsecutiveNoData = 2
  ConfiguredBufferHns = 100
  LowerBuffersHns = {20}
  UsPerMs = 2
  Waits = {1, 2}
  MaxTime = 5
  MaxResets = 1
INVARIANT JoinedBeforeDestroyed
