SPECIFICATION FairSpec
CONSTANTS
  Sessions = {s1}
  IoThreads = 1
  MaxMessages = 2
PROPERTIES ClosedIsDestroyed ShutdownEnds
