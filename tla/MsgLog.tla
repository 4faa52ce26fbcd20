------------------------------- MODULE MsgLog -------------------------------
(***************************************************************************)
(* The message log of the DEBUG kernel extension: the text buffer of       *)
(* src/log/logMsg.c, which every RadeonController that starts shares       *)
(* (src/RadeonController.cpp counts them) and the RadeonDump user client   *)
(* copies out (src/log/RadeonDumpClient.cpp).                              *)
(*                                                                         *)
(* logMsg() copies the fields of DumpMsg BEFORE it takes mMessageLock and  *)
(* uses most of these copies under the lock.  One call is four steps: the  *)
(* unlocked copy, the wait for the lock, and the two halves of the         *)
(* section, since other callers read mMsgBufferPos without the lock while  *)
(* the section has written it once.  mVerbose and mMsgBufferSize keep one  *)
(* value, and mMsgBufferEnabled is TRUE whenever the buffer exists (its    *)
(* only caller, start, enables it), so hasBuf stands for it too.           *)
(*                                                                         *)
(* Nothing holds a controller while somebody logs for it: its nubs attach  *)
(* to the PCI device, and the user client opens RadeonDump, a service of   *)
(* its own.  So a controller may be freed under a call, and a call may be  *)
(* made when none is left.  A copy from NULL, or a write to freed memory,  *)
(* ends the real machine; here it changes nothing and the run goes on.     *)
(*                                                                         *)
(* A message is a sequence of characters over a small alphabet: only its   *)
(* prefixes and its length matter to the code.                             *)
(***************************************************************************)
EXTENDS Integers, Sequences, FiniteSets

CONSTANTS Threads,        \* kernel threads that log or serve a user client
          Controllers,    \* instances of RadeonController
          Messages,       \* the texts logged: non-empty sequences of characters
          FirstMsg,       \* what lastMsg is initialised with: "/0"
          RepeatLine,     \* the text of "Last message repeated %d times.\n"
          Chars, Nul,     \* the characters, and the terminating one
          LineSize,       \* sizeof(newMsg) = sizeof(lastMsg)
          BufSize,        \* DumpMsg.mMsgBufferSize
          Verbose,        \* DumpMsg.mVerbose
          MaxRepeat,      \* bound on lastMsgRepeat
          MaxClient,      \* bound: with a larger count none is left uncounted
          Faults,         \* the allocations of start that may fail
          NoThread,
          NoController    \* that of a caller whose controller is gone

Texts == Messages \cup {RepeatLine, FirstMsg}

ASSUME SizeAssumption == BufSize \in Nat /\ BufSize >= 3 /\ LineSize \in Nat \ {0}
ASSUME VerboseAssumption == Verbose \in Nat /\ MaxRepeat \in Nat /\ MaxClient \in Nat
ASSUME TextAssumption == Texts \subseteq Seq(Chars) /\ Nul \notin Chars
ASSUME ThreadAssumption == NoThread \notin Threads
ASSUME FaultAssumption == Faults \subseteq {"buffer", "lock"}
\* DumpMsg.client is a UInt8.
ASSUME ControllerAssumption ==
  /\ IsFiniteSet(Controllers) /\ Cardinality(Controllers) < 256
  /\ NoController \notin Controllers

VARIABLES ready,      \* the registry property RadeonDumpReady
          client,     \* DumpMsg.client
          hasBuf,     \* DumpMsg.mMsgBuffer # NULL
          hasLock,    \* DumpMsg.mMessageLock # NULL
          ctl,        \* off, on, or in the middle of free(), per controller
          counted,    \* ghost: the controllers start counted in this session
          miscount,   \* ghost: the count was changed by one it does not count
          stray,      \* ghost: the session began while a call was under way
          owner,      \* the thread that holds mMessageLock, or NoThread
          pos,        \* DumpMsg.mMsgBufferPos
          buf,        \* *DumpMsg.mMsgBuffer, blank when there is none
          lastMsg,    \* the text in the static lastMsg
          repeat,     \* the static lastMsgRepeat
          pc,         \* where each thread is in its call
          call        \* the call: its controller, arguments and copied fields

session == <<ready, client, hasBuf, hasLock, ctl, counted, miscount, stray>>
text    == <<pos, buf, lastMsg, repeat>>
threads == <<owner, pc, call>>
vars    == <<session, text, threads>>

Index == 0 .. BufSize - 1
Kinds == {"General", "Error", "Dump"}
NoCall == [op |-> "none"]
DumpCall == [op |-> "dump"]
\* wanted: its kind is logged at the mVerbose it copied; current: the buffer
\* whose address it copied is still DumpMsg's.
LogCall == [op : {"log"}, ctl : Controllers \cup {NoController}, wanted : BOOLEAN,
            msg : Messages, pos : Nat, locks : BOOLEAN, current : BOOLEAN]

Blank == [i \in Index |-> Nul]

Init ==
  /\ ready = FALSE /\ client = 0 /\ hasBuf = FALSE /\ hasLock = FALSE
  /\ ctl = [c \in Controllers |-> "off"]
  /\ counted = {} /\ miscount = FALSE /\ stray = FALSE
  /\ pos = 0 /\ buf = Blank /\ lastMsg = FirstMsg /\ repeat = 0
  /\ owner = NoThread
  /\ pc = [t \in Threads |-> "idle"]
  /\ call = [t \in Threads |-> NoCall]

(* A hung thread sleeps for ever on a lock that was freed.                 *)
Calling(t) == pc[t] \notin {"idle", "hung"}
Inside(t)  == pc[t] \in {"locked", "flushed"}
Freeing    == \E c \in Controllers : ctl[c] = "freeing"
-----------------------------------------------------------------------------
(* vsnprintf(newMsg, 256): what does not fit is cut off, but the length    *)
(* it returns is that of the whole message.                                *)
Line(new) == SubSeq(new, 1, IF Len(new) < LineSize THEN Len(new) ELSE LineSize - 1)

(* strncmp(newMsg, lastMsg, length) = 0: a message that fits is compared   *)
(* as far as it goes, one that was cut off with its terminator.            *)
IsRepeat(new, last) ==
  IF Len(new) < LineSize
    THEN Len(new) <= Len(last) /\ \A i \in 1..Len(new) : last[i] = new[i]
  ELSE last = Line(new)

CopyAll(new, last) == Append(new, Nul)      \* mutant: strcpy() for strncpy()

(* strncpy(lastMsg, newMsg, length): no terminator is copied, the tail of  *)
(* a longer old message stays.  For a message that was cut off the rest of *)
(* lastMsg, and the bytes behind it, are padded with zeros: those bytes    *)
(* are newMsg, which every call formats anew before it reads it.           *)
CopyOver(new, last) ==
  IF Len(new) >= Len(last) THEN Line(new)
  ELSE [i \in 1..Len(last) |-> IF i <= Len(new) THEN new[i] ELSE last[i]]

(* The guards in front of both snprintf calls.                             *)
HasRoom(p) == p < BufSize - 1 /\ p # BufSize - 2

WrittenRaw(b, p, txt) ==      \* mutant: memcpy() for snprintf()
  [i \in Index |-> IF i \in p .. p + Len(txt) - 1 THEN txt[i - p + 1] ELSE b[i]]

(* snprintf(&mMsgBuffer[p], mMsgBufferSize - p, txt): as much of the text  *)
(* as fits, and the terminator.                                            *)
Written(b, p, txt) ==
  LET room == BufSize - 1 - p
      end  == p + IF Len(txt) < room THEN Len(txt) ELSE room
  IN  [i \in Index |-> IF i \in p .. end - 1 THEN txt[i - p + 1]
                       ELSE IF i = end THEN Nul ELSE b[i]]

(* The switch over the message type, which falls through from Dump to      *)
(* General to Error.                                                       *)
Selected(kind) ==
  \/ kind = "Error"
  \/ kind = "General" /\ Verbose >= 1
  \/ kind = "Dump" /\ Verbose >= 2
-----------------------------------------------------------------------------
(* A controller that exists and was not counted: its start was not called, *)
(* or left before it came to DumpMsg.                                      *)
NotStarted(c) ==
  /\ ctl[c] = "off" /\ client <= MaxClient
  /\ ctl' = [ctl EXCEPT ![c] = "on"]
  /\ UNCHANGED <<ready, client, hasBuf, hasLock, counted, miscount, stray, text, threads>>

(* Every log call under way has copied the address of another buffer.      *)
Detached == [t \in Threads |-> IF call[t].op = "log"
                               THEN [call[t] EXCEPT !.current = FALSE] ELSE call[t]]

(* RadeonController::start.  The starts of two controllers are taken to    *)
(* follow each other; the first one of a session makes the buffer.  Start  *)
(* may fail later on, or for want of the buffer: the controller is counted *)
(* all the same.                                                           *)
StartFirst(c) ==
  /\ ctl[c] = "off"
  /\ ~ready
  /\ \E gotBuf, gotLock \in BOOLEAN :
       /\ gotBuf \/ "buffer" \in Faults
       /\ gotLock \/ "lock" \in Faults
       /\ hasBuf' = gotBuf
       /\ hasLock' = gotLock
       /\ buf' = IF gotBuf THEN Blank ELSE buf
  /\ ready' = TRUE /\ client' = 1 /\ pos' = 0
  /\ ctl' = [ctl EXCEPT ![c] = "on"]
  /\ counted' = {c} /\ miscount' = Freeing
  /\ stray' = \E t \in Threads : Calling(t)
  /\ call' = Detached
  /\ UNCHANGED <<lastMsg, repeat, owner, pc>>

StartUncounted(c) ==      \* mutant: client is not incremented
  /\ ctl[c] = "off" /\ ready
  /\ ctl' = [ctl EXCEPT ![c] = "on"]
  /\ counted' = counted \cup {c}
  /\ UNCHANGED <<ready, client, hasBuf, hasLock, miscount, stray, text, threads>>

StartEnables(c) ==        \* mutant: every start enables the buffer anew
  /\ ctl[c] = "off" /\ ready
  /\ client' = (client + 1) % 256
  /\ ctl' = [ctl EXCEPT ![c] = "on"]
  /\ counted' = counted \cup {c}
  /\ pos' = 0 /\ buf' = IF hasBuf THEN Blank ELSE buf
  /\ UNCHANGED <<ready, hasBuf, hasLock, miscount, stray, lastMsg, repeat, threads>>

StartMore(c) ==
  /\ ctl[c] = "off"
  /\ ready
  /\ client' = (client + 1) % 256
  /\ ctl' = [ctl EXCEPT ![c] = "on"]
  /\ counted' = counted \cup {c}
  /\ miscount' = (miscount \/ Freeing)
  /\ UNCHANGED <<ready, hasBuf, hasLock, stray, text, threads>>

(* The calls under way once c is gone: theirs is no controller any more.   *)
Orphaned(c, calls) ==
  [t \in Threads |-> IF calls[t].op = "log" /\ calls[t].ctl = c
                     THEN [calls[t] EXCEPT !.ctl = NoController] ELSE calls[t]]

(* RadeonController::free: it takes one from the count whether start added *)
(* one or not, and the last one frees the buffer before it asks for the    *)
(* lock.                                                                   *)
Free(c) ==
  /\ ctl[c] = "on"
  /\ client' = (client - 1) % 256
  /\ counted' = counted \ {c}
  /\ miscount' = (miscount \/ (ready /\ c \notin counted))
  /\ IF client' = 0
       THEN /\ ctl' = [ctl EXCEPT ![c] = "freeing"]
            /\ hasBuf' = FALSE /\ buf' = Blank
            /\ call' = Orphaned(c, Detached)
       ELSE /\ ctl' = [ctl EXCEPT ![c] = "off"]
            /\ UNCHANGED <<hasBuf, buf>>
            /\ call' = Orphaned(c, call)
  /\ UNCHANGED <<ready, hasLock, stray, pos, lastMsg, repeat, owner, pc>>

(* IOLockLock(), IOLockFree(): a thread that waits for the lock may have   *)
(* gone to sleep on it, or come to lockMsgBuffer() when it is NULL.        *)
FreeLock(c) ==
  /\ ctl[c] = "freeing"
  /\ hasLock => owner = NoThread
  /\ hasLock' = FALSE /\ ready' = FALSE
  /\ counted' = {}
  /\ ctl' = [ctl EXCEPT ![c] = "off"]
  /\ \E asleep \in SUBSET {t \in Threads : hasLock /\ pc[t] = "wait"} :
       pc' = [t \in Threads |-> IF t \in asleep THEN "hung" ELSE pc[t]]
  /\ UNCHANGED <<client, hasBuf, miscount, stray, text, owner, call>>
-----------------------------------------------------------------------------
(* logMsg() up to line 47: the unlocked copies, made for a controller that *)
(* runs or for one that is gone.  Without a buffer the call returns here   *)
(* and changes nothing.                                                    *)
LogEnter(t, c) ==
  /\ pc[t] = "idle"
  /\ c \in counted \cup {NoController}
  /\ hasBuf
  /\ \E k \in Kinds, m \in Messages :
       call' = [call EXCEPT ![t] = [op |-> "log", ctl |-> c, wanted |-> Selected(k),
                                    msg |-> m, pos |-> pos, locks |-> hasLock,
                                    current |-> TRUE]]
  /\ pc' = [pc EXCEPT ![t] = "wait"]
  /\ UNCHANGED <<session, text, owner>>

(* logMsg() calls lockMsgBuffer() and unlockMsgBuffer() only if there was  *)
(* a lock when it made its copies; both look for it again.                 *)
UsesLock(t) == hasLock /\ (call[t].op = "log" => call[t].locks)

AcquireTry(t) ==          \* mutant: IOLockTryLock(), whatever it returns
  /\ pc[t] = "wait"
  /\ owner' = IF UsesLock(t) THEN t ELSE owner
  /\ pc' = [pc EXCEPT ![t] = "locked"]
  /\ UNCHANGED <<session, text, call>>

Acquire(t) ==
  /\ pc[t] = "wait"
  /\ IF UsesLock(t) THEN owner = NoThread /\ owner' = t ELSE UNCHANGED owner
  /\ pc' = [pc EXCEPT ![t] = "locked"]
  /\ UNCHANGED <<session, text, call>>

(* unlockMsgBuffer() and the return to the caller.                         *)
Return(t) ==
  /\ owner' = IF UsesLock(t) THEN NoThread ELSE owner
  /\ pc' = [pc EXCEPT ![t] = "idle"]
  /\ call' = [call EXCEPT ![t] = NoCall]

(* What newMsg holds when it is compared: the text of any call that is     *)
(* formatting into it, taken whole.  With the lock that is the caller's.   *)
NewMsg(t) ==
  {call[u].msg : u \in {v \in Threads : pc[v] = "locked" /\ call[v].op = "log"}}

(* Writes go to the buffer whose address was copied.                       *)
Put(t, b, p, txt) == IF call[t].current THEN Written(b, p, txt) ELSE b

FlushAlways(t) ==      \* mutant: the position moves even without room
  /\ repeat' = 0
  /\ pos' = IF repeat > 0 THEN pos + Len(RepeatLine) ELSE pos
  /\ buf' = IF repeat > 0 /\ HasRoom(call[t].pos)
              THEN Put(t, buf, call[t].pos, RepeatLine) ELSE buf

(* The pending repeat line goes to the position copied before the lock was *)
(* taken.                                                                  *)
Flush(t) ==
  /\ repeat' = 0
  /\ IF repeat > 0 /\ HasRoom(call[t].pos)
       THEN /\ pos' = pos + Len(RepeatLine)
            /\ buf' = Put(t, buf, call[t].pos, RepeatLine)
       ELSE UNCHANGED <<pos, buf>>

(* The critical section of logMsg(), by what it does with the message.     *)
LogFiltered(t) ==
  /\ pc[t] = "locked" /\ call[t].op = "log"
  /\ ~call[t].wanted
  /\ Return(t)
  /\ UNCHANGED <<session, text>>

LogRepeatKeeps(t) ==      \* mutant: this path returns without the unlock
  /\ pc[t] = "locked" /\ call[t].op = "log"
  /\ call[t].wanted
  /\ \E new \in NewMsg(t) : IsRepeat(new, lastMsg)
  /\ repeat' = IF repeat < MaxRepeat THEN repeat + 1 ELSE repeat
  /\ pc' = [pc EXCEPT ![t] = "idle"]
  /\ call' = [call EXCEPT ![t] = NoCall]
  /\ UNCHANGED <<session, owner, pos, buf, lastMsg>>

LogRepeat(t) ==
  /\ pc[t] = "locked" /\ call[t].op = "log"
  /\ call[t].wanted
  /\ \E new \in NewMsg(t) : IsRepeat(new, lastMsg)
  /\ repeat' = IF repeat < MaxRepeat THEN repeat + 1 ELSE repeat
  /\ Return(t)
  /\ UNCHANGED <<session, pos, buf, lastMsg>>

(* A new message is remembered; without a lock it is not put in the buffer. *)
LogNew(t) ==
  /\ pc[t] = "locked" /\ call[t].op = "log"
  /\ call[t].wanted
  /\ \E new \in NewMsg(t) :
       /\ ~IsRepeat(new, lastMsg)
       /\ lastMsg' = CopyOver(new, lastMsg)
  /\ IF call[t].locks
       THEN /\ Flush(t)
            /\ pc' = [pc EXCEPT ![t] = "flushed"]
            /\ UNCHANGED <<owner, call>>
       ELSE Return(t) /\ UNCHANGED <<pos, buf, repeat>>
  /\ UNCHANGED session

LogAppendStale(t) ==      \* mutant: the copied position for the message, too
  /\ pc[t] = "flushed"
  /\ IF HasRoom(call[t].pos)
       THEN /\ pos' = pos + Len(call[t].msg)
            /\ buf' = Put(t, buf, call[t].pos, call[t].msg)
       ELSE UNCHANGED <<pos, buf>>
  /\ Return(t)
  /\ UNCHANGED <<session, lastMsg, repeat>>

(* The message itself goes to the position read now.                       *)
LogAppend(t) ==
  /\ pc[t] = "flushed"
  /\ IF HasRoom(pos)
       THEN /\ pos' = pos + Len(call[t].msg)
            /\ buf' = Put(t, buf, pos, call[t].msg)
       ELSE UNCHANGED <<pos, buf>>
  /\ Return(t)
  /\ UNCHANGED <<session, lastMsg, repeat>>

(* RadeonDumpClient::clientMemoryForType, whatever controllers there are;  *)
(* the copy is made under the lock.                                        *)
DumpEnter(t) ==
  /\ pc[t] = "idle"
  /\ call' = [call EXCEPT ![t] = DumpCall]
  /\ pc' = [pc EXCEPT ![t] = "wait"]
  /\ UNCHANGED <<session, text, owner>>

DumpCopy(t) ==
  /\ pc[t] = "locked" /\ call[t].op = "dump"
  /\ Return(t)
  /\ UNCHANGED <<session, text>>

Body(t) == LogFiltered(t) \/ LogRepeat(t) \/ LogNew(t) \/ LogAppend(t) \/ DumpCopy(t)

Next ==
  \/ \E c \in Controllers :
       NotStarted(c) \/ StartFirst(c) \/ StartMore(c) \/ Free(c) \/ FreeLock(c)
  \/ \E t \in Threads, c \in Controllers \cup {NoController} : LogEnter(t, c)
  \/ \E t \in Threads : DumpEnter(t) \/ Acquire(t) \/ Body(t)

Spec == Init /\ [][Next]_vars

(* A thread in its critical section runs on (it takes no other lock), and  *)
(* IOLockLock hands a lock that is released again and again to each of its *)
(* waiters.  Nothing obliges a thread to log or a controller to leave.     *)
Fairness == \A t \in Threads : WF_vars(Body(t)) /\ SF_vars(Acquire(t))

FairSpec == Spec /\ Fairness
-----------------------------------------------------------------------------
TypeOK ==
  /\ ready \in BOOLEAN /\ hasBuf \in BOOLEAN /\ hasLock \in BOOLEAN
  /\ client \in 0..255
  /\ ctl \in [Controllers -> {"off", "on", "freeing"}]
  /\ counted \in SUBSET Controllers /\ miscount \in BOOLEAN /\ stray \in BOOLEAN
  /\ pos \in Nat
  /\ buf \in [Index -> Chars \cup {Nul}]
  /\ lastMsg \in Seq(Chars)
  /\ repeat \in 0..MaxRepeat
  /\ owner \in Threads \cup {NoThread}
  /\ pc \in [Threads -> {"idle", "wait", "locked", "flushed", "hung"}]
  /\ call \in [Threads -> LogCall \cup {DumpCall, NoCall}]

(* A call of logMsg() made for a controller that start counted, and that   *)
(* is still there, uses mMsgBuffer and mMessageLock through the copies it  *)
(* made before locking: neither may be freed, or appear, by then,          *)
(* whichever other controllers come and go.  It holds until free() of one  *)
(* that start never counted takes from the count, or a start falls between *)
(* the two halves of the last free() (miscount).                           *)
LogSafe ==
  ~miscount => \A t \in Threads :
    Calling(t) /\ call[t].op = "log" /\ call[t].ctl \in counted
      => call[t].current /\ hasBuf /\ hasLock = call[t].locks

(* The user client copies from mMsgBuffer without a check for NULL: while  *)
(* a controller that start counted is left, and the count is right, the    *)
(* buffer is there when the client is inside, if it could be allocated.    *)
(* Once the last one is gone it is not, for mMsgBufferSize, which the      *)
(* client does check, is never reset.                                      *)
DumpSafe ==
  ~miscount /\ counted # {} =>
    \A t \in Threads : Inside(t) /\ call[t].op = "dump" => hasBuf

(* Two threads are never both between lockMsgBuffer() and                  *)
(* unlockMsgBuffer(), where the statics newMsg, lastMsg and the buffer are *)
(* used, and the thread inside is the owner, unless there is no lock or    *)
(* the session began while a call of the one before was under way.         *)
Mutex ==
  hasLock /\ ~stray => \A t \in Threads : Inside(t) => owner = t

(* RadeonDump prints the copied buffer as a C string: its last byte is     *)
(* never anything but the terminator.                                      *)
Terminated == buf[BufSize - 1] = Nul

(* The text printed is everything that was logged: no terminator in front  *)
(* of the append position, unless a call of the last session moved it.     *)
NoGap ==
  hasBuf /\ ~stray => \A i \in Index : i < pos /\ i < BufSize - 1 => buf[i] # Nul

(* A logged line stays: within one session no step changes a character in  *)
(* front of the append position, or moves it back.                         *)
AppendOnly ==
  [][ready /\ hasBuf /\ hasBuf' =>
       pos' >= pos /\ \A i \in Index : i < pos => buf'[i] = buf[i]]_vars

(* With any number of threads the only thing that damages a logged line is *)
(* a repeat line: it is written at the position its caller copied before   *)
(* it waited for the lock, over what was logged meanwhile.  The position   *)
(* never moves back.                                                       *)
OnlyRepeatOverwrites ==
  [][ready /\ hasBuf /\ hasBuf' =>
       /\ pos' >= pos
       /\ \A i \in Index : i < pos /\ buf'[i] # buf[i] =>
            repeat > 0 /\ \E t \in Threads :
              /\ pc[t] = "locked" /\ call[t].op = "log"
              /\ i \in call[t].pos .. call[t].pos + Len(RepeatLine)]_vars

(* Every call returns, since no path through the critical section keeps    *)
(* the lock; only who sleeps on it when free() takes and frees it does not. *)
CallReturns == \A t \in Threads : pc[t] # "idle" ~> pc[t] \in {"idle", "hung"}
=============================================================================
