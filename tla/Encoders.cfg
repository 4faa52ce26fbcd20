CONSTANTS
  Clocks = {10, 150, 165, 166, 350}
  Nubs = 2
SPECIFICATION Spec
INVARIANTS Driven Dark Clocked
