SPECIFICATION Spec
CONSTANTS
  ByteBits = 2
  Programs <- Images
  PS <- MCPS
  Params = 9
  MaxPS = 2
  MaxDepth = 4
CHECK_DEADLOCK FALSE
INVARIANTS Balanced
PROPERTIES CallersKept FieldsKept
