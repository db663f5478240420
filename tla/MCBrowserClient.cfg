SPECIFICATION Spec
CONSTANTS
  Calls = {c1, c2}
INVARIANTS OneChain StopIsFinal
PROPERTIES NoStallStorm Resumes
