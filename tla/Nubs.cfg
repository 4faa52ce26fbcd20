\* A card with a panel that scales, and where everything may time out; two
\* without.
SPECIFICATION Spec
CONSTANTS
  m1 = m1
  m2 = m2
  NoMode = NoMode
  Modes <- MCModes
  Cards <- MCCards
CHECK_DEADLOCK FALSE
INVARIANTS SetupQuiet ShowsCurrentMode SurfaceMapped VgaOff CacheFresh
PROPERTY LitOnlyByPower
