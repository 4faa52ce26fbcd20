------------------------------ MODULE DdcPins ------------------------------
(***************************************************************************)
(* The bit-banged DDC of RadeonHDDoCommunication (src/rhd/rhd_i2c.c): the  *)
(* transfers TransferI2C and TransferBYDDCci, down to the pins.            *)
(*                                                                         *)
(* Both lines are wired-and: a line is high when the driver and the        *)
(* monitor release it.  The driver does pin operations, those of one bit,  *)
(* start or stop after another; the monitor (external) reacts to the edges *)
(* it sees, may refuse a byte, and may hold the clock after a falling      *)
(* edge, for longer than the 500 polls of DDCWaitClockHigh when Slow.      *)
(* Delays are left out.  The outputs of one call are those of a connector, *)
(* which share its line.                                                   *)
(***************************************************************************)
EXTENDS Integers, Sequences

CONSTANTS Bits,      \* bits of a byte
          Recoveries,\* stops that ErrorRecovery tries
          Slow,      \* may the monitor hold the clock past the timeout
          SizeLimit, \* the sizes are those below it, and wrap there
          HighBit,   \* the value of the first bit of a byte
          MaxOutputs \* bound: active outputs of a call

(* The code tries 9 stops, for bytes of 8 bits; sizes are of 32 bits.      *)
ASSUME SizesAssumption ==
  /\ Bits \in Nat \ {0, 1} /\ Recoveries \in Nat
  /\ SizeLimit \in Nat \ {0} /\ HighBit \in Nat \ {0} /\ MaxOutputs \in Nat
ASSUME RecoveriesAssumption == Recoveries > Bits
ASSUME SlowAssumption == Slow \in BOOLEAN

VARIABLES c, d,      \* the driver releases the clock, the data line
          hold,      \* the monitor holds the clock
          slave,     \* the monitor: what it does, bits and edges of this byte
          outputs,   \* active outputs that the call has not done yet
          call,      \* the arguments of a transfer, and the bytes left
          stage,     \* where the transfer is
          bit,       \* the bit, start or stop of this stage, 0 if it is done
          op,        \* its pin operation
          failed,    \* DDCWaitClockHigh failed in this stage
          got,       \* bits sampled in this stage
          rec,       \* ErrorRecovery: its stops, and (not in the code) whether
                     \* it ran, began after the address, and no stop failed
          ret,       \* ret
          late       \* not in the code: the driver has gone on although the
                     \* clock was held, since the bus was last found free

wires == <<c, d, hold, slave>>
pins == <<wires, late>>
vars == <<pins, outputs, call, stage, bit, op, failed, got, rec, ret>>

Asleep == [mode |-> "idle", bits |-> <<>>, k |-> 0, sda |-> TRUE]

Init ==
  /\ c = TRUE /\ d = TRUE /\ hold = FALSE /\ slave = Asleep
  /\ call = [kind |-> "i2c", read |-> FALSE, sub |-> FALSE, comb |-> FALSE, head |-> 0, left |-> 0]
  /\ rec = [stops |-> 0, sure |-> FALSE]
  /\ outputs = 0 /\ stage = "idle" /\ bit = 0 /\ op = 1 /\ failed = FALSE /\ got = <<>> /\ ret = FALSE
  /\ late = FALSE

Clock == c /\ ~hold
Data == d /\ slave.sda
-----------------------------------------------------------------------------
(* The monitor.  k counts the rising edges of the byte: the one after the  *)
(* last bit is the acknowledge.  bits are those it took, or drove.         *)

(* It drives a bit of its own choice.                                      *)
Drives(s) ==
  {[s EXCEPT !.sda = b, !.bits = Append(IF s.k < Bits THEN s.bits ELSE <<>>, b),
             !.k = IF s.k < Bits THEN s.k ELSE 0] : b \in BOOLEAN}

(* A byte it takes: it acknowledges the byte or sleeps, and then goes on   *)
(* with the next, or drives one if the address says so.                    *)
Takes(s) ==
  CASE s.k < Bits -> {s}
    [] s.k = Bits -> {[s EXCEPT !.sda = FALSE], Asleep}
    [] s.k > Bits -> IF s.mode = "addr" /\ s.bits[Bits] THEN Drives([s EXCEPT !.mode = "send"])
                     ELSE {[mode |-> "recv", bits |-> <<>>, k |-> 0, sda |-> TRUE]}
AfterFall(s) ==
  CASE s.mode = "idle" -> {s}
    [] s.mode = "send" -> IF s.k = Bits THEN {[s EXCEPT !.sda = TRUE]} ELSE Drives(s)
    [] s.mode \in {"addr", "recv"} -> Takes(s)

AfterRise(s, data) ==
  CASE s.mode = "idle" -> s
    [] s.mode = "send" -> IF s.k = Bits /\ data THEN Asleep ELSE [s EXCEPT !.k = @ + 1]
    [] s.mode \in {"addr", "recv"} ->
         [s EXCEPT !.bits = IF s.k < Bits THEN Append(@, data) ELSE @, !.k = @ + 1]

Addressed == [mode |-> "addr", bits |-> <<>>, k |-> 0, sda |-> TRUE]

(* The driver's pins: DDCSetClock and DDCSetData.                          *)
LowerClock ==
  /\ c' = FALSE /\ d' = d
  /\ IF Clock THEN /\ slave' \in AfterFall(slave)
                   /\ hold' \in IF slave'.mode = "idle" THEN {FALSE} ELSE BOOLEAN
              ELSE UNCHANGED <<slave, hold>>
RaiseClock ==
  /\ c' = TRUE /\ UNCHANGED <<d, hold>>
  /\ slave' = IF ~c /\ ~hold THEN AfterRise(slave, Data) ELSE slave
LowerData ==
  /\ d' = FALSE /\ UNCHANGED <<c, hold>>
  /\ slave' = IF Clock /\ Data THEN Addressed ELSE slave
RaiseData ==
  /\ d' = TRUE /\ UNCHANGED <<c, hold>>
  /\ slave' = IF Clock /\ ~d /\ slave.sda THEN Asleep ELSE slave

Release ==
  /\ hold /\ hold' = FALSE
  /\ slave' = IF c THEN AfterRise(slave, Data) ELSE slave
  /\ UNCHANGED <<c, d, late, outputs, call, stage, bit, op, failed, got, rec, ret>>
-----------------------------------------------------------------------------
(* Pin operations.  "poll" ends DDCWaitClockHigh.                          *)
DDCInit == <<"C1", "D1">>
DDCSetStart == <<"D1", "C1", "poll", "D0", "C0">>
DDCSetStop == <<"C0", "D0", "C1", "poll", "D1">>
DDCReceiveBit == <<"C0", "D1", "C1", "sample", "C0">>
DDCSendBitLate(b) ==      \* mutant: the data after the clock
  <<"C0", "C1", "poll", IF b THEN "D1" ELSE "D0", "C0">>
DDCSendBit(b) == <<"C0", IF b THEN "D1" ELSE "D0", "C1", "poll", "C0">>

(* Bit n of a byte; the one after the last is the acknowledge.             *)
DDCSendByte(byte, n) == IF n <= Bits THEN DDCSendBit(byte[n]) ELSE DDCReceiveBit
DDCReceiveByteAcked(last, n) ==      \* mutant: the last byte is acknowledged too
  IF n <= Bits THEN DDCReceiveBit ELSE DDCSendBit(FALSE)
DDCReceiveByte(last, n) == IF n <= Bits THEN DDCReceiveBit ELSE DDCSendBit(last)

(* The bytes sent: an address ends in the direction, data is a pattern.    *)
Address(read) == [i \in 1..Bits |-> IF i = Bits THEN read ELSE i = 1]
Payload == [i \in 1..Bits |-> i % 2 = 0]
Byte == CASE stage = "addr" -> Address(call.read /\ ~call.comb)
          [] stage = "addr2" -> Address(call.read)
          [] OTHER -> Payload
Last == call.head = 0 /\ call.left = 1

(* What a stage does on the pins.                                          *)
Sending == stage \in {"addr", "sub", "addr2"} \/ (stage = "block" /\ ~call.read)
Receiving == stage = "block" /\ call.read
Routine(n) ==
  CASE stage = "start" -> IF n = 1 THEN DDCInit ELSE DDCSetStart
    [] stage = "restart" -> DDCSetStart
    [] Sending -> DDCSendByte(Byte, n)
    [] Receiving -> DDCReceiveByte(Last, n)
    [] OTHER -> DDCSetStop
Routines == CASE Sending \/ Receiving -> Bits + 1 [] stage = "start" -> 2 [] OTHER -> 1

Done == bit = 0
Acked == ~failed /\ got = <<FALSE>>

Poll == (Clock \/ Slow) /\ UNCHANGED wires
DoPin(o) ==
  \/ o = "C1" /\ RaiseClock
  \/ o = "C0" /\ LowerClock
  \/ o = "D1" /\ RaiseData
  \/ o = "D0" /\ LowerData
  \/ o \in {"poll", "sample"} /\ Poll
Advance ==
  IF op < Len(Routine(bit)) THEN op' = op + 1 /\ bit' = bit
  ELSE op' = 1 /\ bit' = IF bit < Routines THEN bit + 1 ELSE 0
Perform(o) ==
  /\ DoPin(o)
  /\ late' = (late \/ (o \in {"poll", "sample"} /\ ~Clock))
  /\ failed' = (failed \/ (o = "poll" /\ ~Clock))
  /\ got' = IF o = "sample" THEN Append(got, Data) ELSE got
PinOp ==
  /\ ~Done /\ Perform(Routine(bit)[op])
  /\ IF failed' THEN bit' = 0 /\ op' = 1 ELSE Advance
  /\ UNCHANGED <<outputs, call, stage, rec, ret>>
-----------------------------------------------------------------------------
Begins(st, b) ==
  stage' = st /\ bit' = b /\ op' = 1 /\ failed' = FALSE /\ got' = <<>>
Goto(st) == Begins(st, 1)
Enter(st) == Begins(st, 0)

(* RadeonHDDoCommunication goes through the outputs up to the first that   *)
(* is not active.                                                          *)
Communicate ==
  /\ stage = "idle"
  /\ outputs' \in 0..MaxOutputs
  /\ Enter("output") /\ ret' = FALSE
  /\ UNCHANGED <<pins, call, rec>>

(* The bytes that DDCReadBlock reads: size - 1 is unsigned.  What those of *)
(* a size 0 overwrite is not followed.                                     *)
BytesRead(size) == IF size = 0 THEN SizeLimit ELSE size

(* TransferI2C or TransferBYDDCci begins.  The arguments are chosen anew   *)
(* for each transfer of a call; size is less the first two bytes of a      *)
(* DDC/CI answer, and wraps.                                               *)
Transfer(kind, read) ==
  /\ \E sub, comb \in BOOLEAN, size \in 0 .. SizeLimit - 1 :
       /\ kind = "ddcci" => ~sub /\ ~comb
       /\ call' = [kind |-> kind, read |-> read, sub |-> sub, comb |-> comb,
                   head |-> IF kind = "ddcci" THEN 2 ELSE 0,
                   left |-> IF read THEN BytesRead(size) ELSE size]
  /\ Goto("start") /\ ret' = TRUE
  /\ rec' = [stops |-> 0, sure |-> FALSE]
  /\ late' = (late /\ ~(Clock /\ Data /\ slave = Asleep))
  /\ UNCHANGED <<wires, outputs>>

(* An output with a DDC line, and a request that has something to send.    *)
Send == stage = "output" /\ outputs > 0 /\ Transfer("i2c", FALSE)

(* Nothing to send: ret is FALSE, and there is no reply either.            *)
NextOutput ==
  /\ stage = "output" /\ outputs > 0
  /\ outputs' = outputs - 1
  /\ Enter("output")
  /\ UNCHANGED <<pins, call, rec, ret>>

(* The end of the list, or no buffer to send.                              *)
Leave ==
  /\ stage = "output" /\ Enter("idle")
  /\ outputs' = 0
  /\ UNCHANGED <<pins, call, rec, ret>>

(* An output without a DDC line is looked at again and again; on a line    *)
(* that hwGetSenseConfig does not know no pin moves and the clock reads 0, *)
(* so TransferI2C tries its start for ever.                                *)
GetStuck ==
  /\ stage = "output" /\ outputs > 0
  /\ Enter("stuck")
  /\ UNCHANGED <<pins, outputs, call, rec, ret>>
Spin == stage = "stuck" /\ UNCHANGED vars

(* The address, as a write when the transfer is combined.  Without a       *)
(* start TransferI2C begins again; TransferBYDDCci leaves, ret still TRUE. *)
Started ==
  /\ stage = "start" /\ Done
  /\ IF failed
       THEN IF call.kind = "i2c" THEN Goto("start")
                                 ELSE Goto("stop")
       ELSE Goto("addr")
  /\ UNCHANGED <<pins, outputs, call, rec, ret>>

Recover ==
  /\ Enter("recover") /\ ret' = FALSE
  /\ rec' = [stops |-> 0, sure |-> slave.mode # "addr"]

(* After the addressing, TransferI2C sets another start, and without one   *)
(* goes on with the block; there may be nothing to send.                   *)
Block == IF call.left > 0 THEN Goto("block") ELSE Goto("stop")
Addressing == IF call.comb THEN Goto("restart") ELSE Block

(* An address that is not acknowledged leaves ret TRUE.                    *)
AddressSent ==
  /\ stage = "addr" /\ Done
  /\ \/ Acked /\ call.sub /\ Goto("sub")
     \/ Acked /\ ~call.sub /\ Addressing
     \/ ~Acked /\ Goto("stop")
  /\ UNCHANGED <<pins, outputs, call, rec, ret>>

SubSent ==
  /\ stage = "sub" /\ Done
  /\ \/ Acked /\ Addressing /\ UNCHANGED <<rec, ret>>
     \/ ~Acked /\ Recover
  /\ UNCHANGED <<pins, outputs, call>>

Restarted ==
  /\ stage = "restart" /\ Done
  /\ IF failed THEN Block ELSE Goto("addr2")
  /\ UNCHANGED <<pins, outputs, call, rec, ret>>

AddressAgain ==
  /\ stage = "addr2" /\ Done
  /\ \/ Acked /\ Block /\ UNCHANGED <<rec, ret>>
     \/ ~Acked /\ Recover
  /\ UNCHANGED <<pins, outputs, call>>

(* Before its block a DDC/CI answer has two bytes.  The second one's       *)
(* length, data[1] & 0x7F + 1, is its first bit: 128 or 0.                 *)
AnswerLeft(left, high) ==
  IF ~high THEN BytesRead(0)
  ELSE IF left < HighBit \/ left = BytesRead(0) THEN left ELSE HighBit
HeadDone == [call EXCEPT !.head = @ - 1,
                         !.left = IF call.head = 1 THEN AnswerLeft(@, got[1]) ELSE @]

(* One byte of DDCReadBlock or DDCSendBlock, or of that head, is done; ret *)
(* stays TRUE when one of the head fails.                                  *)
ByteDone ==
  /\ stage = "block" /\ Done
  /\ LET good == IF call.read THEN ~failed ELSE Acked
         next == IF call.head > 0 THEN HeadDone ELSE [call EXCEPT !.left = @ - 1]
     IN  \/ /\ good /\ next.left > 0 /\ call' = next
            /\ Goto("block") /\ UNCHANGED <<rec, ret>>
         \/ /\ good /\ next.left = 0 /\ call' = next
            /\ Goto("stop") /\ UNCHANGED <<rec, ret>>
         \/ /\ ~good /\ UNCHANGED call
            /\ IF call.kind = "i2c" THEN Recover
               ELSE /\ Goto("stop")
                    /\ ret' = (call.head > 0) /\ UNCHANGED rec
  /\ UNCHANGED <<pins, outputs>>

(* The stop: its result is the result of TransferI2C.                      *)
Stopped ==
  /\ stage = "stop" /\ Done
  /\ \/ call.kind = "i2c" /\ Enter("return") /\ ret' = ~failed /\ UNCHANGED rec
     \/ call.kind = "ddcci" /\ ret /\ Enter("return") /\ UNCHANGED <<rec, ret>>
     \/ call.kind = "ddcci" /\ ~ret /\ Recover
  /\ UNCHANGED <<pins, outputs, call>>

(* ErrorRecovery: stops until both lines are high.                         *)
RecoverableLess(n) == n < Recoveries - 1      \* mutant: one stop fewer
Recoverable(n) == n < Recoveries
StopAgain(n) == n      \* mutant: until both lines are high
StopDone(n) == n + 1

ErrorRecovery ==
  /\ stage = "recover" /\ Done
  /\ rec' = [rec EXCEPT !.sure = @ /\ ~failed,
                        !.stops = IF (Data /\ Clock) \/ ~Recoverable(@) THEN @ ELSE StopDone(@)]
  /\ IF (Data /\ Clock) \/ ~Recoverable(rec.stops) THEN Enter("return") ELSE Goto("recover")
  /\ UNCHANGED <<pins, outputs, call, ret>>

(* A reply follows only a send that went well; it ends the call when it    *)
(* has no buffer.                                                          *)
Reply ==
  /\ stage = "return" /\ ret /\ ~call.read
  /\ \E kind \in {"i2c", "ddcci"} : Transfer(kind, TRUE)
NoReplyBuffer ==
  /\ stage = "return" /\ ret /\ ~call.read
  /\ Enter("idle") /\ outputs' = 0
  /\ UNCHANGED <<pins, call, rec, ret>>

(* On to the next output.                                                  *)
Return ==
  /\ stage = "return" /\ Enter("output")
  /\ outputs' = outputs - 1
  /\ UNCHANGED <<pins, call, rec, ret>>

Next ==
  \/ Communicate \/ Send \/ NextOutput \/ Leave \/ GetStuck \/ Spin
  \/ Release \/ PinOp \/ Started \/ AddressSent \/ SubSent \/ Restarted
  \/ AddressAgain \/ ByteDone \/ Stopped \/ ErrorRecovery
  \/ Reply \/ NoReplyBuffer \/ Return

Spec == Init /\ [][Next]_vars

(* The driver runs on, and a monitor lets go of the clock some time.       *)
Running == Next /\ ~Release /\ ~Communicate
FairSpec == Spec /\ WF_vars(Running) /\ WF_vars(Release)
-----------------------------------------------------------------------------
(* While the clock is high the data line only changes in a start or a stop *)
(* that is meant as one: no bit of a transfer is taken for a start or a    *)
(* stop by the monitor, however long it stretches the clock.               *)
DataStable ==
  [][Clock /\ Clock' /\ Data # Data'
       => stage' \in {"start", "restart", "stop", "recover"}]_vars

(* What the monitor has taken when it acknowledges is the byte the driver  *)
(* sends in this stage: the two never lose step over a restart, a refused  *)
(* byte or a clock held for less than the timeout.                         *)
WrittenAsSent ==
  ~late /\ slave.mode \in {"addr", "recv"} /\ slave.k = Bits =>
    Sending /\ slave.bits = Byte

(* A byte read is the byte the monitor drove, unless it held the clock     *)
(* past the timeout.                                                       *)
ReadAsDriven ==
  ~late /\ Receiving /\ bit = Bits + 1 /\ op = 1
    => slave.mode = "send" /\ got = slave.bits

(* A transfer leaves the bus free and the monitor idle, also when it       *)
(* failed, as long as no clock was held past the timeout.                  *)
BusFree == stage = "return" /\ ~late => Clock /\ Data /\ slave.mode = "idle"

(* After an error in the middle of a byte the stops of ErrorRecovery get   *)
(* the data line back from a monitor that drives it: one for each bit of   *)
(* the byte and one for its acknowledge.  Not so when the monitor holds    *)
(* the clock past the timeout again, or is still taking its address: then  *)
(* the stops clock it into another byte and are used up before its end.    *)
RecoveryFrees ==
  stage = "return" /\ ~ret /\ rec.sure => Clock /\ Data

(* A call returns: neither the loop over the start nor ErrorRecovery goes  *)
(* on for ever with a monitor that always lets go of the clock.  It is the *)
(* loop over the outputs that may: stuck at one without a DDC line, or on  *)
(* an unknown one.                                                         *)
CallReturns == stage \notin {"idle", "stuck"} ~> stage \in {"idle", "stuck"}
=============================================================================
