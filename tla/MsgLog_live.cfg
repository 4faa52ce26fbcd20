\* Progress: two threads, one controller.
SPECIFICATION FairSpec
CONSTANTS
  Threads = {t1, t2}
  Controllers = {c1}
  Messages <- MCLetters
  FirstMsg <- MCFirstMsg
  RepeatLine <- MCRepeatLine
  Chars <- MCChars
  Nul = "0"
  LineSize = 3
  BufSize = 3
  Verbose = 2
  MaxRepeat = 1
  MaxClient = 1
  Faults = {}
  NoThread = NoThread
  NoController = NoController
PROPERTY CallReturns
