CONSTANTS
  Layouts <- MCLayouts
  SynthList <- MCSynth
SPECIFICATION Spec
INVARIANTS Offered OneList
CHECK_DEADLOCK FALSE
