SPECIFICATION Spec
CONSTANTS
  Sessions = {s1, s2}
  IoThreads = 2
  MaxMessages = 2
SYMMETRY Symmetry
INVARIANTS TypeOK RegisteredAlive CaptureSafe DisconnectedOnce ZombieCount StreamingBooks
