CONSTANT
  Nubs = {n1, n2}
SPECIFICATION Spec
INVARIANTS Owned
CHECK_DEADLOCK FALSE
