SPECIFICATION Spec
CONSTANTS
  Capacity = 4
  Packets = {1, 3}
  Quanta = {2, 5}
  MaxSamples = 8
INVARIANTS TypeOK OverflowKeepsNewest
PROPERTIES ImplementsFifo
