SPECIFICATION Spec
CONSTANTS
  Sessions = {s1}
  IoThreads = 1
  MaxMessages = 2
INVARIANT StreamingAlive
