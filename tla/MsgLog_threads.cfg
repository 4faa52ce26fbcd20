\* Two threads and one controller; every allocation may fail.
SPECIFICATION Spec
CONSTANTS
  Threads = {t1, t2}
  Controllers = {c1}
  Messages <- MCTwoMessages
  FirstMsg <- MCFirstMsg
  RepeatLine <- MCRepeatLine
  Chars <- MCChars
  Nul = "0"
  LineSize = 3
  BufSize = 4
  Verbose = 1
  MaxRepeat = 1
  MaxClient = 2
  Faults = {"buffer", "lock"}
  NoThread = NoThread
  NoController = NoController
SYMMETRY Symmetry
INVARIANTS TypeOK Mutex Terminated
PROPERTY OnlyRepeatOverwrites
