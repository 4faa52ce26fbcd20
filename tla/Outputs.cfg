CONSTANTS
  Cards <- MCCards
  Nubs = 2
  Unset = {"atomNone", "CRT2"}
SPECIFICATION Spec
INVARIANTS Routed ScratchTells InternalFirst
