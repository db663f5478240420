SPECIFICATION Spec
CONSTANTS
  Kinds = {"worklet", "native"}
  StartSamples = 8
  ResumeSamples = 5
  Fade = 3
  Quanta = {1, 2, 3}
  Capacity = 11
  Jitter = 3
  Burst = 11
  MaxGaps = 2
INVARIANTS SilentPrefill
PROPERTIES NoOscillation NativePlaysOn WorkletEscapes
