\* One thread, two controllers: what ends up in the buffer, and who still uses it.
SPECIFICATION Spec
CONSTANTS
  Threads = {t1}
  Controllers = {c1, c2}
  Messages <- MCMessages
  FirstMsg <- MCFirstMsg
  RepeatLine <- MCRepeatLine
  Chars <- MCChars
  Nul = "0"
  LineSize = 3
  BufSize = 8
  Verbose = 1
  MaxRepeat = 2
  MaxClient = 2
  Faults = {"lock"}
  NoThread = NoThread
  NoController = NoController
INVARIANTS NoGap DumpSafe LogSafe
PROPERTY AppendOnly
