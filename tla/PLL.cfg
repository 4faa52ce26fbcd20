\* Both CRTCs; a clock no dividers are found for.
SPECIFICATION MCSpec
CONSTANTS
  Family = "RV620"
  Active = {0, 1}
  Clocks = {k1, k2, bad}
  NoClock = NoClock
  Computable = {k1, k2}
  KeepRunning = {1}
INVARIANTS TypeOK PllAsSet DccgRuns
