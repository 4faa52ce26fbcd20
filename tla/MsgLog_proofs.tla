--------------------------- MODULE MsgLog_proofs ---------------------------
(***************************************************************************)
(* What holds of the message log for every number of threads and           *)
(* controllers, every buffer size and every set of messages.  The          *)
(* invariants of MsgLog are not inductive by themselves: that no buffer is *)
(* freed under a logMsg() whose controller is counted rests on the client  *)
(* count being the number of counted controllers for as long as nothing    *)
(* else took from it, and on a call's controller being there.  IInv says   *)
(* so.                                                                     *)
(***************************************************************************)
EXTENDS MsgLog, FiniteSetTheorems, TLAPS

USE DEF Index, Kinds

Counted == ready /\ ~miscount => client = Cardinality(counted)

SessionOK ==
  /\ ~ready => counted = {} /\ ~hasLock
  /\ \A c \in counted : ctl[c] = "on"
  /\ ~miscount /\ counted # {} => ~Freeing
  /\ ~miscount /\ ready /\ ~Freeing /\ "buffer" \notin Faults => hasBuf

(* A call under way has its arguments, and its controller, if it has one   *)
(* left, is there; in a session no call was carried into, it works with    *)
(* the buffer and the lock of the session.                                 *)
CallsOK ==
  \A t \in Threads : Calling(t) =>
    /\ call[t].op = "log" \/ (pc[t] # "flushed" /\ call[t].op = "dump")
    /\ call[t].op = "log" =>
         /\ call[t].ctl \in Controllers => ctl[call[t].ctl] = "on"
         /\ hasLock /\ ~stray => call[t].locks
         /\ hasBuf /\ ~stray => call[t].current

IInv == TypeOK /\ Counted /\ SessionOK /\ CallsOK /\ LogSafe /\ Mutex

-----------------------------------------------------------------------------
(* A text written at p leaves the buffer an array of characters; its last  *)
(* byte is touched by nothing but the terminator, what lies in front of p  *)
(* stays, and from p on there is text up to the end of the text or of the  *)
(* buffer (snprintf at logMsg.c:79 and :92).                               *)
LEMMA WrittenLemma ==
  ASSUME NEW b \in [Index -> Chars \cup {Nul}], NEW p \in Nat, p < BufSize - 1,
         NEW txt \in Seq(Chars)
  PROVE  /\ Written(b, p, txt) \in [Index -> Chars \cup {Nul}]
         /\ b[BufSize - 1] = Nul => Written(b, p, txt)[BufSize - 1] = Nul
         /\ \A i \in Index : i < p => Written(b, p, txt)[i] = b[i]
         /\ \A i \in Index : p <= i /\ i < p + Len(txt) /\ i < BufSize - 1
                             => Written(b, p, txt)[i] # Nul
<1> DEFINE room == BufSize - 1 - p
           end  == p + IF Len(txt) < room THEN Len(txt) ELSE room
<1>1. BufSize \in Nat /\ BufSize >= 3 /\ Len(txt) \in Nat
  BY SizeAssumption
<1>2. end \in Nat /\ p <= end /\ end <= BufSize - 1 /\ end - p <= Len(txt)
  BY <1>1
<1> HIDE DEF end
<1>3. \A i \in Index : i \in p .. end - 1 => txt[i - p + 1] \in Chars
  <2> SUFFICES ASSUME NEW i \in Index, i \in p .. end - 1
               PROVE  txt[i - p + 1] \in Chars
    OBVIOUS
  <2>1. i - p + 1 \in 1 .. Len(txt)
    BY <1>1, <1>2
  <2> QED
    BY <2>1
<1>4. Written(b, p, txt) = [i \in Index |-> IF i \in p .. end - 1 THEN txt[i - p + 1]
                                            ELSE IF i = end THEN Nul ELSE b[i]]
  BY DEF Written, end
<1>5. BufSize - 1 \in Index /\ BufSize - 1 \notin p .. end - 1
  BY <1>1, <1>2
<1>6. \A i \in Index : i < p => i # end /\ i \notin p .. end - 1
  BY <1>1, <1>2
<1>7. \A i \in Index : p <= i /\ i < p + Len(txt) /\ i < BufSize - 1
                      => i \in p .. end - 1
  BY <1>1, <1>2 DEF end
<1> QED
  BY <1>3, <1>4, <1>5, <1>6, <1>7, TextAssumption

(* Line and CopyOver yield strings of characters.                          *)
LEMMA CopyOverLemma ==
  ASSUME NEW new \in Seq(Chars), NEW last \in Seq(Chars)
  PROVE  CopyOver(new, last) \in Seq(Chars)
<1>0. Line(new) \in Seq(Chars)
  <2> DEFINE n == IF Len(new) < LineSize THEN Len(new) ELSE LineSize - 1
  <2>1. Len(new) \in Nat /\ LineSize \in Nat \ {0}
    BY SizeAssumption
  <2>2. n \in Nat /\ n <= Len(new)
    BY <2>1
  <2> HIDE DEF n
  <2>3. SubSeq(new, 1, n) \in Seq(Chars)
    BY <2>1, <2>2
  <2> QED
    BY <2>3 DEF Line, n
<1>1. CASE Len(new) >= Len(last)
  BY <1>0, <1>1 DEF CopyOver
<1>2. CASE ~(Len(new) >= Len(last))
  <2>1. CopyOver(new, last) =
          [i \in 1..Len(last) |-> IF i <= Len(new) THEN new[i] ELSE last[i]]
    BY <1>2 DEF CopyOver
  <2>2. Len(new) \in Nat /\ Len(last) \in Nat
    OBVIOUS
  <2>3. \A i \in 1..Len(last) : (IF i <= Len(new) THEN new[i] ELSE last[i]) \in Chars
    BY <2>2
  <2>4. \E n \in Nat : CopyOver(new, last) \in [1..n -> Chars]
    BY <2>1, <2>2, <2>3
  <2> QED
    BY <2>4
<1> QED
  BY <1>1, <1>2

(* What is put at p by a call, or nowhere if its buffer is gone.           *)
LEMMA PutLemma ==
  ASSUME NEW t \in Threads, NEW b \in [Index -> Chars \cup {Nul}], NEW p \in Nat,
         HasRoom(p), NEW txt \in Seq(Chars)
  PROVE  /\ Put(t, b, p, txt) \in [Index -> Chars \cup {Nul}]
         /\ b[BufSize - 1] = Nul => Put(t, b, p, txt)[BufSize - 1] = Nul
         /\ \A i \in Index : i < p => Put(t, b, p, txt)[i] = b[i]
         /\ call[t].current => \A i \in Index :
              p <= i /\ i < p + Len(txt) /\ i < BufSize - 1 => Put(t, b, p, txt)[i] # Nul
<1>1. p < BufSize - 1
  BY DEF HasRoom
<1>2. CASE call[t].current
  <2>1. Put(t, b, p, txt) = Written(b, p, txt)
    BY <1>2 DEF Put
  <2>2. /\ Written(b, p, txt) \in [Index -> Chars \cup {Nul}]
        /\ b[BufSize - 1] = Nul => Written(b, p, txt)[BufSize - 1] = Nul
        /\ \A i \in Index : i < p => Written(b, p, txt)[i] = b[i]
        /\ \A i \in Index : p <= i /\ i < p + Len(txt) /\ i < BufSize - 1
                            => Written(b, p, txt)[i] # Nul
    BY <1>1, WrittenLemma
  <2> QED
    BY <2>1, <2>2
<1>3. CASE ~call[t].current
  <2>1. Put(t, b, p, txt) = b
    BY <1>3 DEF Put
  <2> QED
    BY <1>3, <2>1
<1> QED
  BY <1>2, <1>3
-----------------------------------------------------------------------------
(* The number of controllers counted stays within a UInt8; one that starts *)
(* adds one to it, one that is freed takes one from it.                    *)
LEMMA CountLemma ==
  ASSUME NEW S \in SUBSET Controllers
  PROVE  /\ IsFiniteSet(S) /\ Cardinality(S) \in 0..255
         /\ Cardinality(S) = 0 <=> S = {}
<1>1. IsFiniteSet(S) /\ Cardinality(S) <= Cardinality(Controllers)
  BY FS_Subset, ControllerAssumption
<1>2. Cardinality(S) \in Nat /\ Cardinality(Controllers) \in Nat
  BY <1>1, FS_CardinalityType, ControllerAssumption
<1> QED
  BY <1>1, <1>2, FS_EmptySet, ControllerAssumption

LEMMA OneMore ==
  ASSUME NEW S \in SUBSET Controllers, NEW c \in Controllers, c \notin S
  PROVE  Cardinality(S \cup {c}) = Cardinality(S) + 1 /\ Cardinality(S \cup {c}) \in 0..255
<1>1. S \cup {c} \in SUBSET Controllers
  OBVIOUS
<1> QED
  BY <1>1, CountLemma, FS_AddElement

LEMMA OneLess ==
  ASSUME NEW S \in SUBSET Controllers, NEW c \in S
  PROVE  Cardinality(S \ {c}) = Cardinality(S) - 1
BY CountLemma, FS_RemoveElement

(* What becomes of the records of the calls when a controller or the       *)
(* buffer goes.                                                            *)
LEMMA DetachedLemma ==
  ASSUME TypeOK
  PROVE  /\ Detached \in [Threads -> LogCall \cup {DumpCall, NoCall}]
         /\ \A t \in Threads :
              /\ Detached[t].op = call[t].op
              /\ call[t].op = "log" => /\ Detached[t].ctl = call[t].ctl
                                       /\ Detached[t].locks = call[t].locks
                                       /\ Detached[t].current = FALSE
<1> SUFFICES ASSUME NEW t \in Threads
             PROVE  /\ Detached[t] \in LogCall \cup {DumpCall, NoCall}
                    /\ Detached[t].op = call[t].op
                    /\ call[t].op = "log" => /\ Detached[t].ctl = call[t].ctl
                                             /\ Detached[t].locks = call[t].locks
                                             /\ Detached[t].current = FALSE
  BY DEF Detached
<1>1. CASE call[t].op = "log"
  <2>1. call[t] \in LogCall
    BY <1>1 DEF TypeOK, DumpCall, NoCall
  <2>2. Detached[t] = [call[t] EXCEPT !.current = FALSE]
    BY <1>1 DEF Detached
  <2> QED
    BY <1>1, <2>1, <2>2 DEF LogCall
<1>2. CASE call[t].op # "log"
  BY <1>2 DEF Detached, TypeOK
<1> QED
  BY <1>1, <1>2

LEMMA OrphanedLemma ==
  ASSUME NEW calls \in [Threads -> LogCall \cup {DumpCall, NoCall}], NEW c \in Controllers
  PROVE  /\ Orphaned(c, calls) \in [Threads -> LogCall \cup {DumpCall, NoCall}]
         /\ \A t \in Threads :
              /\ Orphaned(c, calls)[t].op = calls[t].op
              /\ calls[t].op = "log" =>
                   /\ Orphaned(c, calls)[t].ctl =
                        IF calls[t].ctl = c THEN NoController ELSE calls[t].ctl
                   /\ Orphaned(c, calls)[t].locks = calls[t].locks
                   /\ Orphaned(c, calls)[t].current = calls[t].current
                   /\ Orphaned(c, calls)[t].pos = calls[t].pos
<1> SUFFICES ASSUME NEW t \in Threads
             PROVE  /\ Orphaned(c, calls)[t] \in LogCall \cup {DumpCall, NoCall}
                    /\ Orphaned(c, calls)[t].op = calls[t].op
                    /\ calls[t].op = "log" =>
                         /\ Orphaned(c, calls)[t].ctl =
                              IF calls[t].ctl = c THEN NoController ELSE calls[t].ctl
                         /\ Orphaned(c, calls)[t].locks = calls[t].locks
                         /\ Orphaned(c, calls)[t].current = calls[t].current
                         /\ Orphaned(c, calls)[t].pos = calls[t].pos
  BY DEF Orphaned
<1>1. CASE calls[t].op = "log" /\ calls[t].ctl = c
  <2>1. calls[t] \in LogCall
    BY <1>1 DEF DumpCall, NoCall
  <2>2. Orphaned(c, calls)[t] = [calls[t] EXCEPT !.ctl = NoController]
    BY <1>1 DEF Orphaned
  <2> QED
    BY <1>1, <2>1, <2>2 DEF LogCall
<1>2. CASE ~(calls[t].op = "log" /\ calls[t].ctl = c)
  BY <1>2 DEF Orphaned
<1> QED
  BY <1>1, <1>2
-----------------------------------------------------------------------------
LEMMA InitIInv == Init => IInv
<1> SUFFICES ASSUME Init PROVE IInv
  OBVIOUS
<1>1. TypeOK
  <2>1. FirstMsg \in Seq(Chars) /\ 0 \in 0..MaxRepeat /\ 0 \in 0..255
    BY VerboseAssumption, TextAssumption DEF Texts
  <2>2. Blank \in [Index -> Chars \cup {Nul}]
    BY DEF Blank
  <2> HIDE DEF Index
  <2>3. ctl \in [Controllers -> {"off", "on", "freeing"}]
    BY DEF Init
  <2>4. pc \in [Threads -> {"idle", "wait", "locked", "flushed", "hung"}]
    BY DEF Init
  <2>5. call \in [Threads -> LogCall \cup {DumpCall, NoCall}]
    BY DEF Init
  <2> QED
    BY <2>1, <2>2, <2>3, <2>4, <2>5 DEF Init, TypeOK
<1>2. Counted /\ SessionOK
  BY FS_EmptySet DEF Init, Counted, SessionOK
<1>3. CallsOK /\ LogSafe /\ Mutex
  BY DEF Init, CallsOK, LogSafe, Mutex, Calling, Inside
<1> QED
  BY <1>1, <1>2, <1>3 DEF IInv

(* unlockMsgBuffer() and the return keep the types of the thread's state.  *)
LEMMA ReturnType ==
  ASSUME TypeOK, NEW t \in Threads, Return(t)
  PROVE  /\ owner' \in Threads \cup {NoThread}
         /\ pc' \in [Threads -> {"idle", "wait", "locked", "flushed", "hung"}]
         /\ call' \in [Threads -> LogCall \cup {DumpCall, NoCall}]
BY DEF TypeOK, Return

(* The texts a call puts in the buffer.                                    *)
LEMMA CallTexts ==
  ASSUME TypeOK, NEW t \in Threads, call[t].op = "log"
  PROVE  /\ call[t] \in LogCall
         /\ call[t].msg \in Seq(Chars) /\ call[t].pos \in Nat /\ RepeatLine \in Seq(Chars)
         /\ Len(call[t].msg) \in Nat /\ Len(RepeatLine) \in Nat
<1>1. call[t] \in LogCall
  BY DEF TypeOK, DumpCall, NoCall
<1> QED
  BY <1>1, TextAssumption DEF LogCall, Texts

LEMMA FlushType ==
  ASSUME TypeOK, NEW t \in Threads, call[t].op = "log", Flush(t)
  PROVE  /\ repeat' \in 0..MaxRepeat
         /\ pos' \in Nat /\ buf' \in [Index -> Chars \cup {Nul}]
         /\ buf[BufSize - 1] = Nul => buf'[BufSize - 1] = Nul
<1>0. repeat' \in 0..MaxRepeat
  BY VerboseAssumption DEF Flush
<1>1. CASE repeat > 0 /\ HasRoom(call[t].pos)
  <2>1. pos' = pos + Len(RepeatLine) /\ buf' = Put(t, buf, call[t].pos, RepeatLine)
    BY <1>1 DEF Flush
  <2>2. pos \in Nat /\ buf \in [Index -> Chars \cup {Nul}]
    BY DEF TypeOK
  <2>3. /\ Put(t, buf, call[t].pos, RepeatLine) \in [Index -> Chars \cup {Nul}]
        /\ buf[BufSize - 1] = Nul
             => Put(t, buf, call[t].pos, RepeatLine)[BufSize - 1] = Nul
    <3>1. call[t].pos \in Nat /\ RepeatLine \in Seq(Chars)
      BY CallTexts
    <3> QED
      BY <1>1, <2>2, <3>1, PutLemma
  <2> QED
    BY <1>0, <2>1, <2>2, <2>3, CallTexts
<1>2. CASE ~(repeat > 0 /\ HasRoom(call[t].pos))
  <2>1. pos' = pos /\ buf' = buf
    BY <1>2 DEF Flush
  <2> QED
    BY <1>0, <2>1 DEF TypeOK
<1> QED
  BY <1>1, <1>2

LEMMA AppendType ==
  ASSUME TypeOK, NEW t \in Threads, call[t].op = "log", LogAppend(t)
  PROVE  /\ pos' \in Nat
         /\ buf' \in [Index -> Chars \cup {Nul}]
         /\ buf[BufSize - 1] = Nul => buf'[BufSize - 1] = Nul
<1>1. CASE HasRoom(pos)
  <2>1. pos' = pos + Len(call[t].msg) /\ buf' = Put(t, buf, pos, call[t].msg)
    BY <1>1 DEF LogAppend
  <2>2. pos \in Nat /\ buf \in [Index -> Chars \cup {Nul}]
    BY DEF TypeOK
  <2>3. /\ Put(t, buf, pos, call[t].msg) \in [Index -> Chars \cup {Nul}]
        /\ buf[BufSize - 1] = Nul => Put(t, buf, pos, call[t].msg)[BufSize - 1] = Nul
    <3>1. call[t].msg \in Seq(Chars)
      BY CallTexts
    <3> QED
      BY <1>1, <2>2, <3>1, PutLemma
  <2> QED
    BY <2>1, <2>2, <2>3, CallTexts
<1>2. CASE ~HasRoom(pos)
  BY <1>2 DEF LogAppend, TypeOK
<1> QED
  BY <1>1, <1>2

(* Every step keeps the types; the buffer stays an array of BufSize        *)
(* characters wherever the repeat line and the message are written.        *)
LEMMA TypeStep ==
  ASSUME IInv, [Next]_vars
  PROVE  TypeOK'
<1> USE DEF IInv
<1>0. Blank \in [Index -> Chars \cup {Nul}]
  BY DEF Blank
<1>1. ASSUME NEW c \in Controllers, StartFirst(c)
      PROVE  TypeOK'
  <2>1. hasBuf' \in BOOLEAN /\ hasLock' \in BOOLEAN /\ buf' \in [Index -> Chars \cup {Nul}]
    BY <1>0, <1>1 DEF TypeOK, StartFirst
  <2>2. miscount' \in BOOLEAN /\ stray' \in BOOLEAN
    BY <1>1 DEF StartFirst, Freeing
  <2>3. call' \in [Threads -> LogCall \cup {DumpCall, NoCall}]
    BY <1>1, DetachedLemma DEF StartFirst
  <2>4. ctl' \in [Controllers -> {"off", "on", "freeing"}] /\ counted' \in SUBSET Controllers
    BY <1>1 DEF TypeOK, StartFirst
  <2> QED
    BY <1>1, <2>1, <2>2, <2>3, <2>4 DEF TypeOK, StartFirst
<1>2. ASSUME NEW c \in Controllers, StartMore(c)
      PROVE  TypeOK'
  BY <1>2 DEF TypeOK, StartMore, text, threads, Freeing
<1>3. ASSUME NEW c \in Controllers, Free(c)
      PROVE  TypeOK'
  <2>1. client' \in 0..255
    BY <1>3 DEF TypeOK, Free
  <2>2. ctl' \in [Controllers -> {"off", "on", "freeing"}]
    BY <1>3 DEF TypeOK, Free
  <2>3. call' \in [Threads -> LogCall \cup {DumpCall, NoCall}]
    <3>1. call' = Orphaned(c, Detached) \/ call' = Orphaned(c, call)
      BY <1>3 DEF Free
    <3>2. call \in [Threads -> LogCall \cup {DumpCall, NoCall}]
      BY DEF TypeOK
    <3> QED
      BY <3>1, <3>2, DetachedLemma, OrphanedLemma
  <2>4. counted' \in SUBSET Controllers /\ miscount' \in BOOLEAN /\ hasBuf' \in BOOLEAN
    BY <1>3 DEF TypeOK, Free
  <2>5. buf' \in [Index -> Chars \cup {Nul}]
    BY <1>0, <1>3 DEF TypeOK, Free
  <2> QED
    BY <1>3, <2>1, <2>2, <2>3, <2>4, <2>5 DEF TypeOK, Free
<1>4. ASSUME NEW c \in Controllers, FreeLock(c)
      PROVE  TypeOK'
  <2>1. pc' \in [Threads -> {"idle", "wait", "locked", "flushed", "hung"}]
    BY <1>4 DEF TypeOK, FreeLock
  <2> QED
    BY <1>4, <2>1 DEF TypeOK, FreeLock, text
<1>5. ASSUME NEW c \in Controllers, NotStarted(c)
      PROVE  TypeOK'
  BY <1>5 DEF TypeOK, NotStarted, text, threads
<1>6. ASSUME NEW t \in Threads, NEW c \in Controllers \cup {NoController}, LogEnter(t, c)
      PROVE  TypeOK'
  <2>1. PICK k \in Kinds, m \in Messages :
          call' = [call EXCEPT ![t] = [op |-> "log", ctl |-> c, wanted |-> Selected(k),
                                       msg |-> m, pos |-> pos, locks |-> hasLock,
                                       current |-> TRUE]]
    BY <1>6 DEF LogEnter
  <2>2. [op |-> "log", ctl |-> c, wanted |-> Selected(k), msg |-> m, pos |-> pos,
         locks |-> hasLock, current |-> TRUE] \in LogCall
    BY DEF LogCall, TypeOK, Selected
  <2> QED
    BY <1>6, <2>1, <2>2 DEF TypeOK, LogEnter, session, text
<1>7. ASSUME NEW t \in Threads, DumpEnter(t)
      PROVE  TypeOK'
  BY <1>7 DEF TypeOK, DumpEnter, session, text
<1>8. ASSUME NEW t \in Threads, Acquire(t)
      PROVE  TypeOK'
  BY <1>8 DEF TypeOK, Acquire, session, text
<1>9. ASSUME NEW t \in Threads, LogFiltered(t) \/ DumpCopy(t)
      PROVE  TypeOK'
  <2>1. Return(t) /\ UNCHANGED <<session, text>>
    BY <1>9 DEF LogFiltered, DumpCopy
  <2> QED
    BY <2>1, ReturnType DEF TypeOK, session, text
<1>10. ASSUME NEW t \in Threads, LogRepeat(t)
       PROVE  TypeOK'
  BY <1>10, ReturnType, VerboseAssumption DEF TypeOK, LogRepeat, session
<1>11. ASSUME NEW t \in Threads, LogNew(t)
       PROVE  TypeOK'
  <2>1. lastMsg' \in Seq(Chars)
    <3>1. PICK new \in NewMsg(t) : lastMsg' = CopyOver(new, lastMsg)
      BY <1>11 DEF LogNew
    <3>2. new \in Messages
      <4>1. PICK u \in Threads : call[u].op = "log" /\ new = call[u].msg
        BY <3>1 DEF NewMsg
      <4> QED
        BY <4>1, CallTexts DEF LogCall
    <3> QED
      BY <3>1, <3>2, CopyOverLemma, TextAssumption DEF TypeOK, Texts
  <2>2. CASE call[t].locks
    <3>1. /\ repeat' \in 0..MaxRepeat /\ pos' \in Nat
          /\ buf' \in [Index -> Chars \cup {Nul}]
      BY <1>11, <2>2, FlushType DEF LogNew
    <3>2. pc' \in [Threads -> {"idle", "wait", "locked", "flushed", "hung"}]
      BY <1>11, <2>2 DEF LogNew, TypeOK
    <3> QED
      BY <1>11, <2>1, <2>2, <3>1, <3>2 DEF TypeOK, LogNew, session
  <2>3. CASE ~call[t].locks
    BY <1>11, <2>1, <2>3, ReturnType DEF TypeOK, LogNew, session
  <2> QED
    BY <2>2, <2>3
<1>12. ASSUME NEW t \in Threads, LogAppend(t)
       PROVE  TypeOK'
  <2>1. call[t].op = "log"
    BY <1>12 DEF LogAppend, CallsOK, Calling
  <2> QED
    BY <1>12, <2>1, ReturnType, AppendType DEF TypeOK, LogAppend, session
<1>13. CASE UNCHANGED vars
  BY <1>13 DEF TypeOK, vars, session, text, threads
<1> QED
  BY <1>1, <1>2, <1>3, <1>4, <1>5, <1>6, <1>7, <1>8, <1>9, <1>10, <1>11, <1>12, <1>13
  DEF Next, Body
-----------------------------------------------------------------------------
(* The end of a call leaves the count, the session and the other calls as  *)
(* they were, and takes the lock from no thread but its own.               *)
LEMMA ReturnStep ==
  ASSUME IInv, NEW t \in Threads, Inside(t), Return(t), UNCHANGED session
  PROVE  Counted' /\ SessionOK' /\ CallsOK' /\ LogSafe' /\ Mutex'
<1> USE DEF IInv
<1>1. UNCHANGED <<ready, client, hasBuf, hasLock, ctl, counted, miscount, stray>>
  BY DEF session
<1>2. /\ \A u \in Threads : u # t => pc'[u] = pc[u] /\ call'[u] = call[u]
      /\ pc'[t] = "idle"
  BY DEF Return, TypeOK
<1>3. Counted' /\ SessionOK'
  BY <1>1 DEF Counted, SessionOK, Freeing
<1>4. CallsOK' /\ LogSafe'
  BY <1>1, <1>2 DEF CallsOK, LogSafe, Calling
<1>5. Mutex'
  <2> SUFFICES ASSUME hasLock, ~stray, NEW u \in Threads, Inside(u)'
               PROVE  FALSE
    BY <1>1 DEF Mutex
  <2>1. u # t /\ Inside(u)
    BY <1>2 DEF Inside
  <2> QED
    BY <2>1 DEF Mutex
<1> QED
  BY <1>3, <1>4, <1>5

(* The inductive step.  A session that begins has no call to go wrong but  *)
(* those carried over (stray); free empties the session only when it takes *)
(* the last one from the count, and then no controller is counted.         *)
LEMMA InvStep ==
  ASSUME IInv, [Next]_vars
  PROVE  Counted' /\ SessionOK' /\ CallsOK' /\ LogSafe' /\ Mutex'
<1> USE DEF IInv
<1>0. TypeOK'
  BY TypeStep
<1>1. ASSUME NEW c \in Controllers, StartFirst(c)
      PROVE  Counted' /\ SessionOK' /\ CallsOK' /\ LogSafe' /\ Mutex'
  <2>1. Cardinality({c}) = 1
    BY FS_Singleton
  <2>2. ctl' = [ctl EXCEPT ![c] = "on"] /\ ctl[c] = "off" /\ counted' = {c}
    BY <1>1 DEF StartFirst
  <2>3. Counted'
    BY <1>1, <2>1 DEF Counted, StartFirst
  <2>4. Freeing' <=> Freeing
    BY <2>2 DEF Freeing, TypeOK
  <2>5. SessionOK'
    <3>1. ready' /\ ctl'[c] = "on" /\ miscount' = Freeing
      BY <1>1, <2>2 DEF StartFirst, TypeOK
    <3>2. "buffer" \notin Faults => hasBuf'
      BY <1>1 DEF StartFirst
    <3> QED
      BY <2>2, <2>4, <3>1, <3>2 DEF SessionOK
  <2>6. call' = Detached /\ pc' = pc /\ stray' = \E t \in Threads : Calling(t)
    BY <1>1 DEF StartFirst
  <2>7. CallsOK' /\ LogSafe'
    <3> SUFFICES ASSUME NEW t \in Threads, Calling(t)
                 PROVE  /\ (call[t].op = "log" \/ (pc[t] # "flushed" /\ call[t].op = "dump"))'
                        /\ (call[t].op = "log" =>
                              /\ call[t].ctl \in Controllers => ctl[call[t].ctl] = "on"
                              /\ call[t].ctl \notin counted)'
                        /\ stray'
      BY <2>6 DEF CallsOK, LogSafe, Calling
    <3>1. stray'
      BY <2>6
    <3>2. call'[t].op = call[t].op /\ (call[t].op = "log" => call'[t].ctl = call[t].ctl)
      BY <2>6, DetachedLemma
    <3>3. call[t].op = "log" =>
            /\ call[t].ctl # c
            /\ call[t].ctl \in Controllers => ctl[call[t].ctl] = "on"
      BY <2>2 DEF CallsOK
    <3>4. call[t].op = "log" =>
            (call[t].ctl \in Controllers => ctl'[call[t].ctl] = "on")
      BY <2>2, <3>3 DEF TypeOK
    <3>5. (call[t].op = "log" \/ (pc[t] # "flushed" /\ call[t].op = "dump"))'
      BY <2>6, <3>2 DEF CallsOK
    <3> QED
      BY <2>2, <3>1, <3>2, <3>3, <3>4, <3>5
  <2>8. Mutex'
    BY <2>6 DEF Mutex, Inside, Calling
  <2> QED
    BY <2>3, <2>5, <2>7, <2>8
<1>2. ASSUME NEW c \in Controllers, StartMore(c)
      PROVE  Counted' /\ SessionOK' /\ CallsOK' /\ LogSafe' /\ Mutex'
  <2>1. /\ ctl' = [ctl EXCEPT ![c] = "on"] /\ ctl[c] = "off" /\ counted' = counted \cup {c}
        /\ ready /\ UNCHANGED <<ready, hasBuf, hasLock, stray, owner, pc, call>>
        /\ miscount' = (miscount \/ Freeing)
    BY <1>2 DEF StartMore, threads
  <2>2. c \notin counted
    BY <2>1 DEF SessionOK
  <2>3. Counted'
    <3>1. /\ Cardinality(counted \cup {c}) = Cardinality(counted) + 1
          /\ Cardinality(counted \cup {c}) \in 0..255
      BY <2>2, OneMore DEF TypeOK
    <3>2. client' = (client + 1) % 256
      BY <1>2 DEF StartMore
    <3>3. ~miscount' => client = Cardinality(counted)
      BY <2>1 DEF Counted
    <3>4. ~miscount' => client' = Cardinality(counted')
      BY <2>1, <3>1, <3>2, <3>3
    <3> QED
      BY <3>4 DEF Counted
  <2>4. Freeing' <=> Freeing
    BY <2>1 DEF Freeing, TypeOK
  <2>5. SessionOK'
    <3>1. \A d \in counted' : ctl'[d] = "on"
      BY <2>1 DEF SessionOK, TypeOK
    <3> QED
      BY <2>1, <2>4, <3>1 DEF SessionOK
  <2>6. CallsOK' /\ LogSafe'
    <3> SUFFICES ASSUME NEW t \in Threads, Calling(t)
                 PROVE  /\ call[t].op = "log" /\ call[t].ctl \in Controllers
                             => ctl'[call[t].ctl] = "on" /\ call[t].ctl # c
      BY <2>1 DEF CallsOK, LogSafe, Calling
    <3> QED
      BY <2>1 DEF CallsOK, TypeOK
  <2>7. Mutex'
    BY <2>1 DEF Mutex, Inside
  <2> QED
    BY <2>3, <2>5, <2>6, <2>7
<1>3. ASSUME NEW c \in Controllers, Free(c)
      PROVE  Counted' /\ SessionOK' /\ CallsOK' /\ LogSafe' /\ Mutex'
  <2>1. /\ ctl[c] = "on" /\ client' = (client - 1) % 256 /\ counted' = counted \ {c}
        /\ miscount' = (miscount \/ (ready /\ c \notin counted))
        /\ UNCHANGED <<ready, hasLock, stray, owner, pc>>
    BY <1>3 DEF Free
  <2>2. /\ counted \in SUBSET Controllers /\ Cardinality(counted) \in 0..255
        /\ counted' \in SUBSET Controllers
        /\ client \in 0..255 /\ client' \in 0..255
    <3>1. counted \in SUBSET Controllers /\ counted' \in SUBSET Controllers
      BY <2>1 DEF TypeOK
    <3>2. client \in 0..255 /\ client' \in 0..255
      BY <1>0 DEF TypeOK
    <3> QED
      BY <3>1, <3>2, CountLemma
  <2>3. Counted'
    <3> SUFFICES ASSUME ready, ~miscount' PROVE client' = Cardinality(counted')
      BY <2>1 DEF Counted
    <3>1. c \in counted /\ client = Cardinality(counted)
      BY <2>1 DEF Counted
    <3>2. Cardinality(counted') = Cardinality(counted) - 1
      BY <2>1, <2>2, <3>1, OneLess
    <3>3. Cardinality(counted') \in 0..255
      BY <2>2, CountLemma
    <3> QED
      BY <2>1, <2>2, <3>1, <3>2, <3>3
  <2>4. client' = 0 /\ ~miscount' => counted' = {}
    <3>1. Cardinality(counted') = 0 <=> counted' = {}
      BY <2>2, CountLemma
    <3>2. ~ready => counted' = {}
      BY <2>1 DEF SessionOK
    <3> QED
      BY <2>1, <2>3, <3>1, <3>2 DEF Counted
  <2>5. ctl' \in [Controllers -> {"off", "on", "freeing"}]
        /\ \A d \in Controllers : d # c => ctl'[d] = ctl[d]
    BY <1>3 DEF Free, TypeOK
  <2>6. \A t \in Threads :
          /\ call'[t].op = call[t].op
          /\ call[t].op = "log" =>
               /\ call'[t].ctl = IF call[t].ctl = c THEN NoController ELSE call[t].ctl
               /\ call'[t].locks = call[t].locks
               /\ client' # 0 => call'[t].current = call[t].current
    <3>1. CASE client' = 0
      <4>1. call' = Orphaned(c, Detached)
        BY <1>3, <3>1 DEF Free
      <4>2. Detached \in [Threads -> LogCall \cup {DumpCall, NoCall}]
        BY DetachedLemma
      <4>3. ASSUME NEW t \in Threads
            PROVE  /\ call'[t].op = call[t].op
                   /\ call[t].op = "log" =>
                        /\ call'[t].ctl = IF call[t].ctl = c THEN NoController ELSE call[t].ctl
                        /\ call'[t].locks = call[t].locks
        <5>1. /\ Detached[t].op = call[t].op
              /\ call[t].op = "log" => /\ Detached[t].ctl = call[t].ctl
                                       /\ Detached[t].locks = call[t].locks
          BY DetachedLemma
        <5>2. /\ call'[t].op = Detached[t].op
              /\ Detached[t].op = "log" =>
                   /\ call'[t].ctl = IF Detached[t].ctl = c THEN NoController ELSE Detached[t].ctl
                   /\ call'[t].locks = Detached[t].locks
          BY <4>1, <4>2, OrphanedLemma
        <5> QED
          BY <5>1, <5>2
      <4> QED
        BY <3>1, <4>3
    <3>2. CASE client' # 0
      <4>1. call' = Orphaned(c, call)
        BY <1>3, <3>2 DEF Free
      <4>2. call \in [Threads -> LogCall \cup {DumpCall, NoCall}]
        BY DEF TypeOK
      <4> QED
        BY <4>1, <4>2, OrphanedLemma
    <3> QED
      BY <3>1, <3>2
  <2>7. client' # 0 => hasBuf' = hasBuf /\ (Freeing' <=> Freeing)
    BY <1>3, <2>1 DEF Free, Freeing, TypeOK
  <2>8. client' = 0 => ~hasBuf' /\ Freeing'
    <3>1. client' = 0 => ctl'[c] = "freeing"
      BY <1>3 DEF Free, TypeOK
    <3> QED
      BY <1>3, <3>1 DEF Free, Freeing
  <2>9. SessionOK'
    <3>1. ~ready => counted' = {} /\ ~hasLock'
      BY <2>1 DEF SessionOK
    <3>2. \A d \in counted' : ctl'[d] = "on"
      BY <2>1, <2>2, <2>5 DEF SessionOK
    <3>3. ~miscount' /\ counted' # {} => ~Freeing'
      BY <2>1, <2>4, <2>7 DEF SessionOK
    <3>4. ~miscount' /\ ready' /\ ~Freeing' /\ "buffer" \notin Faults => hasBuf'
      BY <2>1, <2>7, <2>8 DEF SessionOK
    <3> QED
      BY <2>1, <3>1, <3>2, <3>3, <3>4 DEF SessionOK
  <2>10. CallsOK'
    <3> SUFFICES ASSUME NEW t \in Threads, Calling(t)
                 PROVE  /\ (call[t].op = "log" \/ (pc[t] # "flushed" /\ call[t].op = "dump"))'
                        /\ (call[t].op = "log" =>
                              /\ call[t].ctl \in Controllers => ctl[call[t].ctl] = "on"
                              /\ hasLock /\ ~stray => call[t].locks
                              /\ hasBuf /\ ~stray => call[t].current)'
      BY <2>1 DEF CallsOK, Calling
    <3>1. (call[t].op = "log" \/ (pc[t] # "flushed" /\ call[t].op = "dump"))'
      BY <2>1, <2>6 DEF CallsOK
    <3>2. call[t].op = "log" => (call'[t].ctl \in Controllers => ctl'[call'[t].ctl] = "on")
      BY <2>5, <2>6, ControllerAssumption DEF CallsOK
    <3>3. call[t].op = "log" => (hasLock' /\ ~stray' => call'[t].locks)
      BY <2>1, <2>6 DEF CallsOK
    <3>4. call[t].op = "log" => (hasBuf' /\ ~stray' => call'[t].current)
      BY <2>1, <2>6, <2>7, <2>8 DEF CallsOK
    <3> QED
      BY <2>6, <3>1, <3>2, <3>3, <3>4
  <2>11. LogSafe'
    <3> SUFFICES ASSUME ~miscount', NEW t \in Threads, Calling(t),
                        call'[t].op = "log", call'[t].ctl \in counted'
                 PROVE  call'[t].current /\ hasBuf' /\ hasLock = call'[t].locks
      BY <2>1 DEF LogSafe, Calling
    <3>1. ~miscount /\ client' # 0
      BY <2>1, <2>4
    <3>2. call[t].op = "log" /\ call[t].ctl \in counted
      BY <2>1, <2>2, <2>6, ControllerAssumption
    <3>3. call[t].current /\ hasBuf /\ hasLock = call[t].locks
      BY <3>1, <3>2 DEF LogSafe
    <3> QED
      BY <2>6, <2>7, <3>1, <3>2, <3>3
  <2>12. Mutex'
    BY <2>1 DEF Mutex, Inside
  <2> QED
    BY <2>3, <2>9, <2>10, <2>11, <2>12
<1>4. ASSUME NEW c \in Controllers, FreeLock(c)
      PROVE  Counted' /\ SessionOK' /\ CallsOK' /\ LogSafe' /\ Mutex'
  <2>1. /\ ctl[c] = "freeing" /\ ctl' = [ctl EXCEPT ![c] = "off"]
        /\ hasLock' = FALSE /\ ready' = FALSE /\ counted' = {}
        /\ UNCHANGED <<hasBuf, stray, call>>
    BY <1>4 DEF FreeLock
  <2>2. \A t \in Threads : pc'[t] = "hung" \/ pc'[t] = pc[t]
    BY <1>4 DEF FreeLock
  <2>3. \A t \in Threads : Calling(t)' => Calling(t) /\ pc'[t] = pc[t]
    BY <2>2 DEF Calling
  <2>4. Counted' /\ SessionOK' /\ Mutex'
    BY <2>1 DEF Counted, SessionOK, Mutex
  <2>5. LogSafe'
    BY <2>1 DEF LogSafe
  <2>6. CallsOK'
    <3> SUFFICES ASSUME NEW t \in Threads, Calling(t), pc'[t] = pc[t],
                        call[t].op = "log", call[t].ctl \in Controllers
                 PROVE  ctl'[call[t].ctl] = "on"
      BY <2>1, <2>3 DEF CallsOK
    <3>1. ctl[call[t].ctl] = "on"
      BY DEF CallsOK
    <3> QED
      BY <2>1, <3>1 DEF TypeOK
  <2> QED
    BY <2>4, <2>5, <2>6
<1>5. ASSUME NEW c \in Controllers, NotStarted(c)
      PROVE  Counted' /\ SessionOK' /\ CallsOK' /\ LogSafe' /\ Mutex'
  <2>1. /\ ctl[c] = "off" /\ ctl' = [ctl EXCEPT ![c] = "on"]
        /\ UNCHANGED <<ready, client, hasBuf, hasLock, counted, miscount, stray, owner, pc, call>>
    BY <1>5 DEF NotStarted, threads
  <2>2. (Freeing' <=> Freeing) /\ \A d \in Controllers : ctl[d] = "on" => ctl'[d] = "on"
    BY <2>1 DEF Freeing, TypeOK
  <2>3. Counted' /\ SessionOK'
    BY <2>1, <2>2 DEF Counted, SessionOK, TypeOK
  <2>4. CallsOK' /\ LogSafe' /\ Mutex'
    BY <2>1, <2>2 DEF CallsOK, LogSafe, Mutex, Calling, Inside
  <2> QED
    BY <2>3, <2>4
<1>6. ASSUME NEW t \in Threads, NEW c \in Controllers \cup {NoController}, LogEnter(t, c)
      PROVE  Counted' /\ SessionOK' /\ CallsOK' /\ LogSafe' /\ Mutex'
  <2>1. UNCHANGED <<ready, client, hasBuf, hasLock, ctl, counted, miscount, stray, owner>>
    BY <1>6 DEF LogEnter, session
  <2>2. /\ \A u \in Threads : u # t => pc'[u] = pc[u] /\ call'[u] = call[u]
        /\ pc'[t] = "wait" /\ call'[t].ctl = c /\ call'[t].locks = hasLock
        /\ call'[t].op = "log" /\ call'[t].current = TRUE
        /\ hasBuf /\ c \in counted \cup {NoController}
    BY <1>6 DEF LogEnter, TypeOK
  <2>3. Counted' /\ SessionOK'
    BY <2>1 DEF Counted, SessionOK, Freeing
  <2>4. CallsOK'
    <3>1. c \in Controllers => ctl[c] = "on"
      BY <2>2, ControllerAssumption DEF SessionOK
    <3> SUFFICES ASSUME NEW u \in Threads, Calling(u)'
                 PROVE  /\ (call[u].op = "log" \/ (pc[u] # "flushed" /\ call[u].op = "dump"))'
                        /\ (call[u].op = "log" =>
                              /\ call[u].ctl \in Controllers => ctl[call[u].ctl] = "on"
                              /\ hasLock /\ ~stray => call[u].locks
                              /\ hasBuf /\ ~stray => call[u].current)'
      BY DEF CallsOK
    <3>2. CASE u = t
      <4>1. (hasLock => call[t].locks)' /\ call'[t].current
        BY <2>1, <2>2
      <4> QED
        BY <2>1, <2>2, <3>1, <3>2, <4>1
    <3>3. CASE u # t
      <4>1. Calling(u) /\ pc'[u] = pc[u] /\ call'[u] = call[u]
        BY <2>2, <3>3 DEF Calling
      <4> QED
        BY <2>1, <4>1 DEF CallsOK
    <3> QED
      BY <3>2, <3>3
  <2>5. LogSafe' /\ Mutex'
    BY <2>1, <2>2 DEF LogSafe, Mutex, Calling, Inside
  <2> QED
    BY <2>3, <2>4, <2>5
<1>7. ASSUME NEW t \in Threads, DumpEnter(t)
      PROVE  Counted' /\ SessionOK' /\ CallsOK' /\ LogSafe' /\ Mutex'
  <2>1. UNCHANGED <<ready, client, hasBuf, hasLock, ctl, counted, miscount, stray, owner>>
    BY <1>7 DEF DumpEnter, session
  <2>2. /\ \A u \in Threads : u # t => pc'[u] = pc[u] /\ call'[u] = call[u]
        /\ pc'[t] = "wait" /\ call'[t].op = "dump"
    BY <1>7 DEF DumpEnter, TypeOK, DumpCall
  <2>3. Counted' /\ SessionOK'
    BY <2>1 DEF Counted, SessionOK, Freeing
  <2>4. CallsOK' /\ LogSafe' /\ Mutex'
    BY <2>1, <2>2 DEF CallsOK, LogSafe, Mutex, Calling, Inside
  <2> QED
    BY <2>3, <2>4
<1>8. ASSUME NEW t \in Threads, Acquire(t)
      PROVE  Counted' /\ SessionOK' /\ CallsOK' /\ LogSafe' /\ Mutex'
  <2>1. UNCHANGED <<ready, client, hasBuf, hasLock, ctl, counted, miscount, stray, call>>
    BY <1>8 DEF Acquire, session
  <2>2. /\ \A u \in Threads : u # t => pc'[u] = pc[u]
        /\ pc[t] = "wait" /\ pc'[t] = "locked"
    BY <1>8 DEF Acquire, TypeOK
  <2>3. Counted' /\ SessionOK'
    BY <2>1 DEF Counted, SessionOK, Freeing
  <2>4. CallsOK' /\ LogSafe'
    BY <2>1, <2>2 DEF CallsOK, LogSafe, Calling
  <2>5. Mutex'
    <3> SUFFICES ASSUME hasLock, ~stray, NEW u \in Threads, Inside(u)'
                 PROVE  owner' = u
      BY <2>1 DEF Mutex
    <3>1. UsesLock(t)
      BY <2>2 DEF UsesLock, CallsOK, Calling
    <3>2. owner = NoThread /\ owner' = t
      BY <1>8, <3>1 DEF Acquire
    <3>3. CASE u # t
      BY <2>2, <3>2, <3>3, ThreadAssumption DEF Mutex, Inside
    <3> QED
      BY <3>2, <3>3
  <2> QED
    BY <2>3, <2>4, <2>5
<1>9. ASSUME NEW t \in Threads, LogNew(t), call[t].locks
      PROVE  Counted' /\ SessionOK' /\ CallsOK' /\ LogSafe' /\ Mutex'
  <2>1. UNCHANGED <<ready, client, hasBuf, hasLock, ctl, counted, miscount, stray, call, owner>>
    BY <1>9 DEF LogNew, session
  <2>2. /\ \A u \in Threads : u # t => pc'[u] = pc[u]
        /\ pc[t] = "locked" /\ pc'[t] = "flushed" /\ call[t].op = "log"
    BY <1>9 DEF LogNew, TypeOK
  <2>3. Counted' /\ SessionOK'
    BY <2>1 DEF Counted, SessionOK, Freeing
  <2>4. CallsOK' /\ LogSafe' /\ Mutex'
    BY <2>1, <2>2 DEF CallsOK, LogSafe, Mutex, Calling, Inside
  <2> QED
    BY <2>3, <2>4
<1>10. ASSUME NEW t \in Threads, Body(t), ~(LogNew(t) /\ call[t].locks)
       PROVE  Counted' /\ SessionOK' /\ CallsOK' /\ LogSafe' /\ Mutex'
  <2>1. Inside(t) /\ Return(t) /\ UNCHANGED session
    BY <1>10 DEF Body, LogFiltered, LogRepeat, LogNew, LogAppend, DumpCopy, session, Inside
  <2> QED
    BY <2>1, ReturnStep
<1>11. CASE UNCHANGED vars
  BY <1>11 DEF vars, session, threads, Counted, SessionOK, Freeing, CallsOK, LogSafe, Mutex,
     Calling, Inside
<1> QED
  BY <1>1, <1>2, <1>3, <1>4, <1>5, <1>6, <1>7, <1>8, <1>9, <1>10, <1>11 DEF Next, Body
-----------------------------------------------------------------------------
LEMMA SpecIInv == Spec => []IInv
<1>1. IInv /\ [Next]_vars => IInv'
  BY TypeStep, InvStep DEF IInv
<1> QED
  BY InitIInv, <1>1, PTL DEF Spec

(* Type correctness, for every instance: the client count stays a UInt8    *)
(* and the buffer an array of characters of BufSize bytes.                 *)
THEOREM TypeCorrect == Spec => []TypeOK
<1>1. IInv => TypeOK
  BY DEF IInv
<1> QED
  BY SpecIInv, <1>1, PTL

(* The buffer and the lock that a logMsg() of a counted controller works   *)
(* with stay allocated, however many other controllers start and are freed *)
(* meanwhile, until one that start did not count is freed                  *)
(* (RadeonController.cpp:384).                                             *)
THEOREM LogIsSafe == Spec => []LogSafe
<1>1. IInv => LogSafe
  BY DEF IInv
<1> QED
  BY SpecIInv, <1>1, PTL

(* lockMsgBuffer() and unlockMsgBuffer() exclude any number of threads     *)
(* from each other, in a session that no call was carried into.            *)
THEOREM MutualExclusion == Spec => []Mutex
<1>1. IInv => Mutex
  BY DEF IInv
<1> QED
  BY SpecIInv, <1>1, PTL

(* With a buffer that was allocated, the user client does not copy from a  *)
(* NULL buffer (RadeonDumpClient.cpp:48) while a counted controller is     *)
(* left and the count is right, although the client holds no controller.   *)
THEOREM DumpIsSafe == "buffer" \notin Faults /\ Spec => []DumpSafe
<1>1. ASSUME IInv, "buffer" \notin Faults PROVE DumpSafe
  <2> SUFFICES ASSUME ~miscount, counted # {} PROVE hasBuf
    BY DEF DumpSafe
  <2> QED
    BY <1>1 DEF IInv, SessionOK
<1>2. CASE "buffer" \notin Faults
  <2>1. IInv => DumpSafe
    BY <1>1, <1>2
  <2> QED
    BY SpecIInv, <2>1, PTL
<1> QED
  BY <1>2
-----------------------------------------------------------------------------
(* The position logMsg() copied before it took the lock is at most wrong,  *)
(* never out of the buffer: HasRoom is asked of it, so the last byte stays *)
(* the terminator even when lines of several threads overwrite each other. *)
LEMMA TerminatedStep ==
  ASSUME IInv, Terminated, [Next]_vars
  PROVE  Terminated'
<1> USE DEF IInv
<1>1. ASSUME buf' = buf \/ buf' = Blank
      PROVE  Terminated'
  BY <1>1, SizeAssumption DEF Terminated, Blank
<1>2. ASSUME NEW c \in Controllers, StartFirst(c) \/ Free(c)
      PROVE  Terminated'
  <2>1. buf' = buf \/ buf' = Blank
    BY <1>2 DEF StartFirst, Free
  <2> QED
    BY <1>1, <2>1
<1>3. ASSUME NEW t \in Threads, LogNew(t), call[t].locks
      PROVE  Terminated'
  BY <1>3, FlushType DEF LogNew, Terminated
<1>4. ASSUME NEW t \in Threads, LogAppend(t)
      PROVE  Terminated'
  <2>1. call[t].op = "log"
    BY <1>4 DEF LogAppend, CallsOK, Calling
  <2> QED
    BY <1>4, <2>1, AppendType DEF Terminated
<1>5. CASE buf' = buf
  BY <1>1, <1>5
<1>6. CASE UNCHANGED vars
  BY <1>5, <1>6 DEF vars, text
<1> QED
  BY <1>2, <1>3, <1>4, <1>5, <1>6 DEF Next, Body, NotStarted, StartMore, FreeLock, LogEnter,
     DumpEnter, Acquire, LogFiltered, LogRepeat, LogNew, DumpCopy, text

(* What RadeonDump maps and prints is always a terminated string.          *)
THEOREM AlwaysTerminated == Spec => []Terminated
<1>1. Init => Terminated
  BY SizeAssumption DEF Init, Blank, Terminated
<1>2. IInv /\ Terminated /\ [Next]_vars => Terminated'
  BY TerminatedStep
<1> QED
  BY SpecIInv, <1>1, <1>2, PTL DEF Spec
-----------------------------------------------------------------------------
(* What does fail with several threads holds with one: the position a call *)
(* copied before the lock is still the position when it has the lock, or   *)
(* its buffer is gone.                                                     *)
Alone == \E t : Threads = {t}

Fresh ==
  \A t \in Threads : pc[t] \in {"wait", "locked"} /\ call[t].op = "log" /\ call[t].current
                      => call[t].pos = pos

(* A text put at the position leaves no hole and keeps what lies before.   *)
LEMMA PutStep ==
  ASSUME TypeOK, NoGap, NEW t \in Threads, NEW txt \in Seq(Chars),
         call[t].current => HasRoom(pos),
         call[t].current => buf' = Put(t, buf, pos, txt),
         ~call[t].current => buf' = buf,
         pos' = pos + Len(txt),
         hasBuf /\ ~stray => call[t].current,
         UNCHANGED <<hasBuf, stray>>
  PROVE  /\ NoGap' /\ pos' >= pos
         /\ \A i \in Index : i < pos => buf'[i] = buf[i]
<1>1. /\ pos \in Nat /\ buf \in [Index -> Chars \cup {Nul}]
      /\ Len(txt) \in Nat /\ BufSize \in Nat
  BY SizeAssumption DEF TypeOK
<1>2. pos' >= pos
  BY <1>1
<1>3. CASE call[t].current
  <2>1. /\ \A i \in Index : i < pos => buf'[i] = buf[i]
        /\ \A i \in Index : pos <= i /\ i < pos + Len(txt) /\ i < BufSize - 1
                            => buf'[i] # Nul
    BY <1>1, <1>3, PutLemma
  <2>2. \A i \in Index : i \in Nat /\ (i < pos \/ pos <= i)
    BY <1>1
  <2>3. NoGap'
    <3> SUFFICES ASSUME hasBuf, ~stray, NEW i \in Index, i < pos', i < BufSize - 1
                 PROVE  buf'[i] # Nul
      BY DEF NoGap
    <3>1. CASE i < pos
      BY <2>1, <3>1 DEF NoGap
    <3>2. CASE pos <= i
      BY <2>1, <3>2
    <3> QED
      BY <2>2, <3>1, <3>2
  <2> QED
    BY <1>2, <2>1, <2>3
<1>4. CASE ~call[t].current
  BY <1>2, <1>4 DEF NoGap
<1> QED
  BY <1>3, <1>4

LEMMA AloneStep ==
  ASSUME IInv, Alone, Fresh, NoGap, [Next]_vars
  PROVE  /\ Fresh' /\ NoGap'
         /\ ready /\ hasBuf /\ hasBuf' =>
              pos' >= pos /\ \A i \in Index : i < pos => buf'[i] = buf[i]
<1> USE DEF IInv
<1>0. pos \in Nat
  BY DEF TypeOK
<1>1. ASSUME NEW c \in Controllers, StartFirst(c)
      PROVE  Fresh' /\ NoGap' /\ ~ready
  <2>1. call' = Detached /\ pos' = 0 /\ ~ready
    BY <1>1 DEF StartFirst
  <2>2. Fresh'
    BY <2>1, DetachedLemma DEF Fresh
  <2> QED
    BY <2>1, <2>2 DEF NoGap
<1>2. ASSUME NEW c \in Controllers, Free(c)
      PROVE  /\ Fresh' /\ NoGap'
             /\ ~hasBuf' \/ UNCHANGED <<pos, buf>>
  <2>1. CASE client' = 0
    <3>1. call' = Orphaned(c, Detached) /\ ~hasBuf'
      BY <1>2, <2>1 DEF Free
    <3>2. Detached \in [Threads -> LogCall \cup {DumpCall, NoCall}]
      BY DetachedLemma
    <3>3. \A t \in Threads : call'[t].op = "log" => call'[t].current = FALSE
      <4> SUFFICES ASSUME NEW t \in Threads, call'[t].op = "log"
                   PROVE  call'[t].current = FALSE
        OBVIOUS
      <4>1. /\ Orphaned(c, Detached)[t].op = Detached[t].op
            /\ Detached[t].op = "log" =>
                 Orphaned(c, Detached)[t].current = Detached[t].current
        BY <3>2, OrphanedLemma
      <4>2. /\ Detached[t].op = call[t].op
            /\ call[t].op = "log" => Detached[t].current = FALSE
        BY DetachedLemma
      <4> QED
        BY <3>1, <4>1, <4>2
    <3> QED
      BY <3>1, <3>3 DEF Fresh, NoGap
  <2>2. CASE client' # 0
    <3>1. call' = Orphaned(c, call) /\ UNCHANGED <<hasBuf, stray, pos, buf, pc>>
      BY <1>2, <2>2 DEF Free
    <3>2. call \in [Threads -> LogCall \cup {DumpCall, NoCall}]
      BY DEF TypeOK
    <3>3. \A t \in Threads :
            /\ call'[t].op = call[t].op
            /\ call[t].op = "log" => /\ call'[t].current = call[t].current
                                     /\ call'[t].pos = call[t].pos
      <4> SUFFICES ASSUME NEW t \in Threads
                   PROVE  /\ call'[t].op = call[t].op
                          /\ call[t].op = "log" => /\ call'[t].current = call[t].current
                                                   /\ call'[t].pos = call[t].pos
        OBVIOUS
      <4>1. call'[t] = Orphaned(c, call)[t]
        BY <3>1
      <4> QED
        BY <3>2, <4>1, OrphanedLemma
    <3> QED
      BY <3>1, <3>3 DEF Fresh, NoGap
  <2> QED
    BY <2>1, <2>2
<1>3. ASSUME NEW t \in Threads, LogNew(t)
      PROVE  /\ Fresh' /\ NoGap' /\ pos' >= pos
             /\ \A i \in Index : i < pos => buf'[i] = buf[i]
  <2>1. \A u \in Threads : u = t
    BY DEF Alone
  <2>2. pc'[t] \notin {"wait", "locked"}
    BY <1>3 DEF LogNew, Return, TypeOK
  <2>3. Fresh'
    BY <2>1, <2>2 DEF Fresh
  <2>4. /\ call[t].op = "log" /\ UNCHANGED <<hasBuf, stray>>
        /\ call[t].current => call[t].pos = pos
        /\ hasBuf /\ ~stray => call[t].current
    BY <1>3 DEF LogNew, session, CallsOK, Calling, Fresh
  <2>5. CASE call[t].locks /\ repeat > 0 /\ HasRoom(call[t].pos)
    <3>1. pos' = pos + Len(RepeatLine) /\ buf' = Put(t, buf, call[t].pos, RepeatLine)
      BY <1>3, <2>5 DEF LogNew, Flush
    <3>2. /\ call[t].current => HasRoom(pos) /\ buf' = Put(t, buf, pos, RepeatLine)
          /\ ~call[t].current => buf' = buf
      BY <2>4, <2>5, <3>1 DEF Put
    <3>3. RepeatLine \in Seq(Chars)
      BY <2>4, CallTexts
    <3> QED
      BY <2>3, <2>4, <3>1, <3>2, <3>3, PutStep
  <2>6. CASE ~(call[t].locks /\ repeat > 0 /\ HasRoom(call[t].pos))
    <3>1. UNCHANGED <<pos, buf>>
      BY <1>3, <2>6 DEF LogNew, Flush
    <3> QED
      BY <1>0, <2>3, <2>4, <3>1 DEF NoGap
  <2> QED
    BY <2>5, <2>6
<1>4. ASSUME NEW t \in Threads, LogAppend(t)
      PROVE  /\ Fresh' /\ NoGap' /\ pos' >= pos
             /\ \A i \in Index : i < pos => buf'[i] = buf[i]
  <2>1. \A u \in Threads : u = t
    BY DEF Alone
  <2>2. Fresh'
    BY <1>4, <2>1 DEF Fresh, LogAppend, Return, TypeOK
  <2>3. /\ call[t].op = "log" /\ UNCHANGED <<hasBuf, stray>>
        /\ hasBuf /\ ~stray => call[t].current
    BY <1>4 DEF LogAppend, session, CallsOK, Calling
  <2>4. CASE HasRoom(pos)
    <3>1. pos' = pos + Len(call[t].msg) /\ buf' = Put(t, buf, pos, call[t].msg)
      BY <1>4, <2>4 DEF LogAppend
    <3>2. ~call[t].current => buf' = buf
      BY <3>1 DEF Put
    <3>3. call[t].msg \in Seq(Chars)
      BY <2>3, CallTexts
    <3> QED
      BY <2>2, <2>3, <2>4, <3>1, <3>2, <3>3, PutStep
  <2>5. CASE ~HasRoom(pos)
    BY <1>0, <1>4, <2>2, <2>3, <2>5 DEF LogAppend, NoGap
  <2> QED
    BY <2>4, <2>5
<1>5. ASSUME NEW t \in Threads, NEW c \in Controllers \cup {NoController}, LogEnter(t, c)
      PROVE  Fresh' /\ UNCHANGED <<hasBuf, stray, pos, buf>>
  <2>1. \A u \in Threads : u = t
    BY DEF Alone
  <2>2. call'[t].pos = pos /\ UNCHANGED <<hasBuf, stray, pos, buf>>
    BY <1>5 DEF LogEnter, TypeOK, text, session
  <2> QED
    BY <2>1, <2>2 DEF Fresh
<1>6. ASSUME NEW t \in Threads, DumpEnter(t)
      PROVE  Fresh' /\ UNCHANGED <<hasBuf, stray, pos, buf>>
  <2>1. \A u \in Threads : u = t
    BY DEF Alone
  <2>2. call'[t].op = "dump" /\ UNCHANGED <<hasBuf, stray, pos, buf>>
    BY <1>6 DEF DumpEnter, DumpCall, TypeOK, text, session
  <2> QED
    BY <2>1, <2>2 DEF Fresh
<1>7. ASSUME NEW t \in Threads, Acquire(t)
      PROVE  Fresh' /\ UNCHANGED <<hasBuf, stray, pos, buf>>
  BY <1>7 DEF Acquire, TypeOK, text, session, Fresh
<1>8. ASSUME NEW t \in Threads, LogFiltered(t) \/ LogRepeat(t) \/ DumpCopy(t)
      PROVE  Fresh' /\ UNCHANGED <<hasBuf, stray, pos, buf>>
  <2>1. \A u \in Threads : u = t
    BY DEF Alone
  <2>2. pc'[t] = "idle" /\ UNCHANGED <<hasBuf, stray, pos, buf>>
    BY <1>8 DEF LogFiltered, LogRepeat, DumpCopy, Return, TypeOK, text, session
  <2> QED
    BY <2>1, <2>2 DEF Fresh
<1>9. ASSUME NEW c \in Controllers, NotStarted(c) \/ StartMore(c) \/ FreeLock(c)
      PROVE  Fresh' /\ UNCHANGED <<hasBuf, stray, pos, buf>>
  <2>1. UNCHANGED <<hasBuf, stray, pos, buf, call>>
    BY <1>9 DEF NotStarted, StartMore, FreeLock, text, threads
  <2>2. \A t \in Threads : pc'[t] \in {"wait", "locked"} => pc'[t] = pc[t]
    BY <1>9 DEF NotStarted, StartMore, FreeLock, threads
  <2> QED
    BY <2>1, <2>2 DEF Fresh
<1>11. Fresh' /\ UNCHANGED <<hasBuf, stray, pos, buf>>
        => /\ Fresh' /\ NoGap' /\ pos' >= pos
           /\ \A i \in Index : i < pos => buf'[i] = buf[i]
  BY <1>0 DEF NoGap
<1>10. CASE UNCHANGED vars
  <2>1. Fresh' /\ UNCHANGED <<hasBuf, stray, pos, buf>>
    BY <1>10 DEF vars, text, threads, session, Fresh
  <2> QED
    BY <1>11, <2>1
<1>12. ASSUME NEW c \in Controllers,
              NotStarted(c) \/ StartFirst(c) \/ StartMore(c) \/ Free(c) \/ FreeLock(c)
       PROVE  /\ Fresh' /\ NoGap'
              /\ ready /\ hasBuf /\ hasBuf' =>
                   pos' >= pos /\ \A i \in Index : i < pos => buf'[i] = buf[i]
  <2>1. CASE StartFirst(c)
    BY <1>1, <2>1
  <2>2. CASE Free(c)
    <3>1. UNCHANGED <<pos, buf>>
            => pos' >= pos /\ \A i \in Index : i < pos => buf'[i] = buf[i]
      BY <1>0
    <3>2. Fresh' /\ NoGap' /\ (~hasBuf' \/ UNCHANGED <<pos, buf>>)
      BY <1>2, <2>2
    <3> QED
      BY <3>1, <3>2
  <2>3. CASE NotStarted(c) \/ StartMore(c) \/ FreeLock(c)
    BY <1>9, <1>11, <2>3
  <2> QED
    BY <1>12, <2>1, <2>2, <2>3
<1>13. ASSUME NEW t \in Threads, Body(t)
       PROVE  /\ Fresh' /\ NoGap' /\ pos' >= pos
              /\ \A i \in Index : i < pos => buf'[i] = buf[i]
  BY <1>3, <1>4, <1>8, <1>11, <1>13 DEF Body
<1>14. ASSUME NEW t \in Threads,
              DumpEnter(t) \/ Acquire(t) \/ \E c \in Controllers \cup {NoController} : LogEnter(t, c)
       PROVE  /\ Fresh' /\ NoGap' /\ pos' >= pos
              /\ \A i \in Index : i < pos => buf'[i] = buf[i]
  BY <1>5, <1>6, <1>7, <1>11, <1>14
<1> QED
  BY <1>10, <1>12, <1>13, <1>14 DEF Next

(* With a single logging thread the printed text has no hole, whatever     *)
(* repeats, controller restarts and full buffers come: the only writers    *)
(* that lose text are a second thread (logMsg.c:79) and a call carried     *)
(* over from another session.                                              *)
THEOREM AloneLeavesNoGap == Alone /\ Spec => []NoGap
<1> SUFFICES ASSUME Alone PROVE Spec => []NoGap
  OBVIOUS
<1>1. Init => Fresh /\ NoGap
  BY DEF Init, Fresh, NoGap
<1>2. IInv /\ Fresh /\ NoGap /\ [Next]_vars => Fresh' /\ NoGap'
  BY AloneStep
<1> QED
  BY SpecIInv, <1>1, <1>2, PTL DEF Spec

(* And every line it logged stays where it was written.                    *)
THEOREM AloneAppends == Alone /\ Spec => AppendOnly
<1> SUFFICES ASSUME Alone PROVE Spec => AppendOnly
  OBVIOUS
<1>1. Init => Fresh /\ NoGap
  BY DEF Init, Fresh, NoGap
<1>2. IInv /\ Fresh /\ NoGap /\ [Next]_vars => Fresh' /\ NoGap'
  BY AloneStep
<1>3. IInv /\ Fresh /\ NoGap /\ [Next]_vars =>
        [ready /\ hasBuf /\ hasBuf' =>
           pos' >= pos /\ \A i \in Index : i < pos => buf'[i] = buf[i]]_vars
  BY AloneStep
<1> QED
  BY SpecIInv, <1>1, <1>2, <1>3, PTL DEF Spec, AppendOnly
=============================================================================
