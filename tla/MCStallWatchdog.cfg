SPECIFICATION Spec
CONSTANTS
  Thresholds = {3, 10}
  GraceCap = 2
  Word = 256
  Latency = 1
  MaxPending = 2
  MaxTime = 20
INVARIANTS DetectedInTime
PROPERTIES NoHastyVerdict
