--------------------------- MODULE DdcPins_proofs ---------------------------
(***************************************************************************)
(* Proofs about the bit-banged DDC transfers, for bytes of any length,     *)
(* transfers of any size, and a monitor that holds the clock as long as it *)
(* likes.  The invariant has two halves.  While no poll has ended with the *)
(* clock held (~late), monitor and driver are at the same bit: InStep says *)
(* of every pin operation where the monitor is.  Afterwards only what a    *)
(* monitor may be doing at all is known (MonitorOK); Freeing counts what   *)
(* the stops of ErrorRecovery make of it.                                  *)
(***************************************************************************)
EXTENDS DdcPins, SequenceTheorems, TLAPS

Stages == {"idle", "output", "stuck", "start", "addr", "sub", "restart", "addr2", "block",
           "stop", "recover", "return"}
(* No transfer, and no transfer or one that is over.                       *)
Waiting == {"idle", "output", "stuck"}
Resting == {"idle", "output", "stuck", "return"}
Calls == [kind : {"i2c", "ddcci"}, read : BOOLEAN, sub : BOOLEAN, comb : BOOLEAN,
          head : 0..2, left : Nat]
Monitors == [mode : {"idle", "addr", "recv", "send"}, bits : Seq(BOOLEAN),
             k : 0 .. Bits + 1, sda : BOOLEAN]
Listening == slave.mode \in {"addr", "recv"}
Talking == slave.mode = "send"

TypeOK ==
  /\ c \in BOOLEAN /\ d \in BOOLEAN /\ hold \in BOOLEAN /\ slave \in Monitors
  /\ call \in Calls /\ stage \in Stages /\ failed \in BOOLEAN /\ got \in Seq(BOOLEAN)
  /\ rec \in [stops : Nat, sure : BOOLEAN] /\ ret \in BOOLEAN /\ late \in BOOLEAN

(* What a monitor can be doing, whatever the driver did.                   *)
MonitorOK ==
  /\ slave.mode = "idle" => slave = Asleep /\ ~hold
  /\ Listening =>
       /\ Len(slave.bits) = IF slave.k <= Bits THEN slave.k ELSE Bits
       /\ slave.sda <=> ~(slave.k > Bits \/ (slave.k = Bits /\ ~Clock))
       /\ slave.k > Bits => Clock
  /\ Talking =>
       /\ slave.k > Bits => Clock /\ slave.sda
       /\ slave.k = Bits => Len(slave.bits) = Bits /\ (~Clock => slave.sda)
       /\ ~Clock /\ slave.k < Bits =>
            Len(slave.bits) = slave.k + 1 /\ slave.bits[slave.k + 1] = slave.sda
       /\ Clock /\ slave.k <= Bits =>
            slave.k > 0 /\ Len(slave.bits) = slave.k /\ slave.bits[slave.k] = slave.sda

(* Which pin operation comes next.                                         *)
PlaceOK ==
  /\ bit \in 0 .. Routines /\ op \in 1..5
  /\ bit = 0 => op = 1
  /\ stage = "start" /\ bit = 1 => op <= 2
  /\ stage \in Resting => bit = 0
  /\ failed => bit = 0
ClockLow == (Sending \/ Receiving) /\ bit # 0 /\ op = 2 => ~c

CallOK ==
  /\ call.kind = "ddcci" => call.read /\ ~call.sub /\ ~call.comb
  /\ stage = "sub" => call.sub
  /\ stage \in {"restart", "addr2"} => call.comb
  /\ stage \in {"start", "addr", "sub", "restart", "addr2"} /\ call.read => call.left > 0
  /\ stage = "block" => call.left > 0
-----------------------------------------------------------------------------
(* Where the monitor is while it has kept up.  A sub address is sent even  *)
(* to a monitor that was addressed for reading: both then drive the line.  *)
Crossed == stage = "sub" /\ call.read /\ ~call.comb
Taker == IF stage \in {"addr", "addr2"} THEN "addr" ELSE "recv"
(* It has taken the k bits of its byte that it saw.                        *)
Follows ==
  IF Crossed THEN Talking /\ slave.k <= Bits
  ELSE /\ slave.mode = Taker
       /\ \A x \in 1..Bits : x <= slave.k => slave.bits[x] = Byte[x]
Refused == slave = Asleep
Answered ==
  \/ Refused /\ got = <<TRUE>>
  \/ Follows /\ slave.k = Bits + 1 /\ got = <<FALSE>>
Turned ==
  /\ slave.mode = IF Taker = "addr" /\ Byte[Bits] THEN "send" ELSE "recv"
  /\ slave.k = 0
Told ==
  \/ Refused /\ got = <<TRUE>>
  \/ ~Crossed /\ Turned /\ got = <<FALSE>>

OnBit ==
  /\ got = <<>> /\ Follows
  /\ op <= 3 => ~c /\ slave.k = bit - 1
  /\ op \in {3, 4} => d = Byte[bit]
  /\ op = 4 => c /\ slave.k = IF hold THEN bit - 1 ELSE bit
  /\ op = 5 => Clock /\ slave.k = bit
OnAck ==
  /\ op <= 4 => got = <<>> /\ (Follows \/ Refused)
  /\ op <= 3 => ~c /\ (Follows => slave.k = Bits)
  /\ op \in {3, 4} => d = TRUE
  /\ op = 4 => c /\ (Follows => slave.k = IF hold THEN Bits ELSE Bits + 1)
  /\ op = 5 => Clock /\ Answered
InSend ==
  /\ bit \in 1..Bits => OnBit
  /\ bit = Bits + 1 => OnAck
  /\ bit = 0 => ~c /\ Told

Sampled == Talking /\ \A x \in 1..Bits : x <= Len(got) => got[x] = slave.bits[x]
OnSample ==
  /\ Sampled /\ Len(got) = IF op = 5 THEN bit ELSE bit - 1
  /\ op <= 3 => ~c /\ slave.k = bit - 1
  /\ op \in {3, 4} => d = TRUE
  /\ op = 4 => c /\ slave.k = IF hold THEN bit - 1 ELSE bit
  /\ op = 5 => Clock /\ slave.k = bit
OnOwnAck ==
  /\ op <= 3 => ~c /\ slave.k = Bits /\ Sampled /\ Len(got) = Bits
  /\ op \in {3, 4} => d = Last
  /\ op \in {4, 5} => c
  /\ op = 4 /\ hold => Talking /\ slave.k = Bits
  /\ op = 5 => ~hold
  /\ op \in {4, 5} /\ ~hold => IF Last THEN Refused ELSE Talking /\ slave.k = Bits + 1
InReceive ==
  /\ bit \in 1..Bits => OnSample
  /\ bit = Bits + 1 => OnOwnAck
  /\ bit = 0 => ~c /\ IF Last THEN Refused ELSE Talking /\ slave.k = 0

Idle == Clock /\ Data /\ Refused
InStart ==
  /\ bit = 1 \/ (bit = 2 /\ op <= 4) => Idle
  /\ bit = 2 /\ op = 5 => Clock /\ ~d /\ slave = Addressed
  /\ bit = 0 => ~c /\ slave = Addressed

Ready == slave.mode = "recv" /\ slave.k = 0
InRestart ==
  /\ bit = 1 =>
       /\ op <= 2 => ~c /\ Ready
       /\ op \in {2, 3, 4} => d
       /\ op = 3 => c /\ (IF hold THEN Ready ELSE slave.mode = "recv" /\ slave.k = 1)
       /\ op = 4 => Clock /\ slave.mode = "recv" /\ slave.k = 1
       /\ op = 5 => Clock /\ ~d /\ slave = Addressed
  /\ bit = 0 => ~c /\ slave = Addressed

InStop ==
  /\ bit = 1 =>
       /\ op <= 3 => ~c /\ (Refused \/ Ready)
       /\ op \in 3..5 => ~d
       /\ op \in {4, 5} => c /\ IF hold THEN op = 4 /\ Ready
                                ELSE Refused \/ (slave.mode = "recv" /\ slave.k = 1)
  /\ bit = 0 => Idle

InRecover ==
  /\ Refused
  /\ bit = 1 => /\ op <= 3 => ~c
                /\ op \in 3..5 => ~d
                /\ op \in {4, 5} => c
                /\ rec.stops > 0
  /\ bit = 0 => IF rec.stops = 0 THEN ~c ELSE c /\ d

InStep ==
  ~late =>
    /\ ~failed /\ (stage \notin Waiting /\ call.kind = "ddcci" => ret)
    /\ Sending => InSend
    /\ Receiving => InReceive
    /\ stage = "start" => InStart
    /\ stage = "restart" => InRestart
    /\ stage = "stop" => InStop
    /\ stage = "recover" => InRecover
    /\ stage \in Resting => Idle
-----------------------------------------------------------------------------
(* What the stops have made of a monitor that keeps its data line low:     *)
(* each takes it on by one bit, or by its acknowledge.                     *)
Stuck ==
  \/ slave.sda
  \/ Talking /\ rec.stops <= slave.k
  \/ slave.mode = "recv" /\ slave.k = Bits + 1 /\ rec.stops = 1
StillStuck ==
  \/ Talking /\ rec.stops <= slave.k + 1
  \/ slave.mode = "recv" /\ slave.k = Bits + 1 /\ rec.stops = 2
Risen ==
  /\ Talking => rec.stops <= slave.k
  /\ slave.mode = "recv" /\ slave.k = Bits + 1 => rec.stops = 1
Fallen ==
  /\ Talking => rec.stops <= slave.k + 1
  /\ slave.mode = "recv" /\ rec.stops > 1 => slave.k = 0

Freeing ==
  rec.sure /\ stage = "recover" /\ ~failed =>
    /\ slave.mode # "addr"
    /\ bit = 0 /\ rec.stops > 0 => Clock /\ d /\ Stuck
    /\ bit = 1 =>
         /\ rec.stops > 0
         /\ op = 1 /\ rec.stops > 1 => Clock /\ ~slave.sda /\ StillStuck
         /\ op \in {2, 3} => ~c /\ Fallen
         /\ op >= 3 => ~d
         /\ op = 4 => c /\ IF hold THEN Fallen ELSE Risen
         /\ op = 5 => Clock /\ Risen
Freed ==
  rec.sure => /\ stage \in {"recover"} \cup Resting
              /\ stage = "return" => Clock /\ Data

IInv ==
  /\ TypeOK /\ MonitorOK /\ PlaceOK /\ ClockLow /\ CallOK
  /\ InStep /\ Freeing /\ Freed
USE DEF Waiting, Resting
-----------------------------------------------------------------------------
(* What an edge of the clock makes of the monitor.                         *)
Fell ==
  /\ slave.mode = "idle" => slave' = Asleep
  /\ Listening /\ slave.k < Bits => slave' = slave
  /\ Listening /\ slave.k = Bits =>
       \/ slave' = Asleep
       \/ slave'.mode = slave.mode /\ slave'.k = Bits /\ slave'.bits = slave.bits
  /\ Listening /\ slave.k > Bits =>
       /\ slave'.mode = IF slave.mode = "addr" /\ slave.bits[Bits] THEN "send" ELSE "recv"
       /\ slave'.k = 0
  /\ Talking => /\ slave'.mode = "send"
                /\ slave'.k = IF slave.k <= Bits THEN slave.k ELSE 0
                /\ slave.k <= Bits => \A x \in 1 .. slave.k : slave'.bits[x] = slave.bits[x]
Rose ==
  /\ slave.mode = "idle" => slave' = Asleep
  /\ Listening => /\ slave'.mode = slave.mode /\ slave'.k = slave.k + 1
                  /\ slave'.bits = IF slave.k < Bits THEN Append(slave.bits, Data) ELSE slave.bits
  /\ Talking => IF slave.k = Bits /\ Data THEN slave' = Asleep
                ELSE slave'.mode = "send" /\ slave'.k = slave.k + 1 /\ slave'.bits = slave.bits

LEMMA AsleepType == Asleep \in Monitors /\ Asleep.mode = "idle" /\ Asleep.sda
                    /\ Asleep.k = 0
BY SizesAssumption DEF Asleep, Monitors

(* A byte that grows by a bit.                                             *)
LEMMA Grown ==
  ASSUME NEW s \in Seq(BOOLEAN), NEW b \in BOOLEAN
  PROVE  /\ Append(s, b) \in Seq(BOOLEAN) /\ Len(Append(s, b)) = Len(s) + 1
         /\ Append(s, b)[Len(s) + 1] = b
         /\ \A x \in 1 .. Len(s) : Append(s, b)[x] = s[x]
BY AppendProperties

LEMMA DrivesIs ==
  ASSUME NEW s \in Monitors, NEW t \in Drives(s)
  PROVE  /\ t.mode = s.mode /\ t.sda \in BOOLEAN
         /\ t.bits = Append(IF s.k < Bits THEN s.bits ELSE <<>>, t.sda)
         /\ t.k = IF s.k < Bits THEN s.k ELSE 0
         /\ t \in Monitors
<1>1. PICK b \in BOOLEAN :
        t = [s EXCEPT !.sda = b, !.bits = Append(IF s.k < Bits THEN s.bits ELSE <<>>, b),
                      !.k = IF s.k < Bits THEN s.k ELSE 0]
  BY DEF Drives
<1>2. Append(IF s.k < Bits THEN s.bits ELSE <<>>, b) \in Seq(BOOLEAN)
  BY Grown, EmptySeq DEF Monitors
<1>3. /\ t.mode = s.mode /\ t.sda = b /\ t.k = IF s.k < Bits THEN s.k ELSE 0
      /\ t.bits = Append(IF s.k < Bits THEN s.bits ELSE <<>>, b)
  BY <1>1 DEF Monitors
<1>4. t = [mode |-> s.mode, bits |-> t.bits, k |-> t.k, sda |-> b]
  BY <1>1, <1>3 DEF Monitors
<1>5. /\ t.bits \in Seq(BOOLEAN) /\ t.k \in 0 .. Bits + 1
      /\ s.mode \in {"idle", "addr", "recv", "send"}
  BY <1>2, <1>3, SizesAssumption DEF Monitors
<1>6. t \in Monitors
  BY <1>4, <1>5 DEF Monitors
<1> QED
  BY <1>3, <1>6

LEMMA FallIs ==
  ASSUME TypeOK, MonitorOK, Clock, LowerClock
  PROVE  /\ slave' \in Monitors /\ hold' \in BOOLEAN /\ ~c' /\ d' = d
         /\ Fell /\ MonitorOK'
<1>1. /\ slave' \in AfterFall(slave) /\ c' = FALSE /\ d' = d /\ c = TRUE /\ hold = FALSE
      /\ hold' \in BOOLEAN /\ (slave'.mode = "idle" => ~hold')
      /\ slave \in Monitors
  BY DEF LowerClock, Clock, TypeOK
<1>2. /\ slave.mode \in {"idle", "addr", "recv", "send"} /\ slave.bits \in Seq(BOOLEAN)
      /\ slave.k \in 0 .. Bits + 1 /\ slave.sda \in BOOLEAN /\ Bits \in Nat /\ Bits > 1
  BY <1>1, SizesAssumption DEF Monitors
<1>3. CASE slave.mode = "idle"
  <2>1. slave' = slave /\ slave = Asleep
    BY <1>1, <1>3 DEF AfterFall, MonitorOK
  <2> QED
    BY <1>1, <1>3, <2>1, AsleepType DEF Fell, MonitorOK, Listening, Talking
<1>4. CASE Talking /\ slave.k = Bits
  <2>1. slave' = [slave EXCEPT !.sda = TRUE]
    BY <1>1, <1>4 DEF AfterFall, Talking
  <2>2. /\ slave'.mode = "send" /\ slave'.k = Bits /\ slave'.bits = slave.bits /\ slave'.sda
        /\ slave' \in Monitors
    BY <1>1, <1>4, <2>1 DEF Talking, Monitors
  <2>3. Len(slave'.bits) = Bits /\ ~Clock'
    BY <1>1, <1>4, <2>2 DEF MonitorOK, Clock
  <2>4. MonitorOK'
    <3>1. slave'.mode # "idle" /\ ~Listening' /\ ~(slave'.k > Bits) /\ ~(slave'.k < Bits)
      BY <1>2, <2>2 DEF Listening
    <3> QED
      BY <2>2, <2>3, <3>1, Zenon DEF MonitorOK
  <2> QED
    BY <1>1, <1>2, <1>4, <2>2, <2>4 DEF Fell, Listening, Talking
<1>5. CASE Talking /\ slave.k # Bits
  <2>1. slave' \in Drives(slave)
    BY <1>1, <1>5 DEF AfterFall, Talking
  <2>2. CASE slave.k < Bits
    <3>1. /\ slave'.mode = "send" /\ slave'.sda \in BOOLEAN /\ slave'.k = slave.k
          /\ slave'.bits = Append(slave.bits, slave'.sda) /\ slave' \in Monitors
      BY <1>1, <1>5, <2>1, <2>2, DrivesIs DEF Talking
    <3>2. Len(slave.bits) = slave.k
      BY <1>1, <1>2, <1>5, <2>2 DEF MonitorOK
    <3>3. /\ Len(slave'.bits) = slave.k + 1 /\ slave'.bits[slave.k + 1] = slave'.sda
          /\ \A x \in 1 .. slave.k : slave'.bits[x] = slave.bits[x]
      BY <1>2, <3>1, <3>2, Grown
    <3> QED
      BY <1>1, <1>2, <1>5, <2>2, <3>1, <3>3 DEF Fell, MonitorOK, Listening, Talking, Clock
  <2>3. CASE slave.k > Bits
    <3>1. /\ slave'.mode = "send" /\ slave'.sda \in BOOLEAN /\ slave'.k = 0
          /\ slave'.bits = Append(<<>>, slave'.sda) /\ slave' \in Monitors
      BY <1>1, <1>2, <1>5, <2>1, <2>3, DrivesIs DEF Talking
    <3>2. Len(slave'.bits) = 1 /\ slave'.bits[1] = slave'.sda
      BY <3>1, Grown, EmptySeq
    <3> QED
      BY <1>1, <1>2, <1>5, <2>3, <3>1, <3>2 DEF Fell, MonitorOK, Listening, Talking, Clock
  <2> QED
    BY <1>2, <1>5, <2>2, <2>3
<1>6. CASE Listening
  <2>1. slave' \in Takes(slave)
    BY <1>1, <1>6 DEF AfterFall, Listening
  <2>2. CASE slave.k < Bits
    <3>1. slave' = slave
      BY <1>2, <2>1, <2>2 DEF Takes
    <3> QED
      BY <1>1, <1>2, <1>6, <2>2, <3>1 DEF Fell, MonitorOK, Listening, Talking, Clock
  <2>3. CASE slave.k = Bits
    <3>1. slave' = [slave EXCEPT !.sda = FALSE] \/ slave' = Asleep
      BY <1>2, <2>1, <2>3 DEF Takes
    <3>2. CASE slave' = Asleep
      BY <1>1, <1>2, <1>6, <2>3, <3>2, AsleepType DEF Fell, MonitorOK, Listening, Talking, Clock
    <3>3. CASE slave' = [slave EXCEPT !.sda = FALSE]
      <4>1. /\ slave'.mode = slave.mode /\ slave'.k = Bits /\ slave'.bits = slave.bits
            /\ ~slave'.sda /\ slave' \in Monitors
        BY <1>1, <2>3, <3>3 DEF Monitors
      <4>2. Len(slave'.bits) = Bits /\ ~Clock' /\ slave.mode \in {"addr", "recv"}
        BY <1>1, <1>2, <1>6, <2>3, <4>1 DEF MonitorOK, Clock, Listening
      <4>3. MonitorOK'
        BY <1>1, <1>2, <4>1, <4>2 DEF MonitorOK, Listening, Talking, Clock
      <4> QED
        BY <1>1, <1>2, <1>6, <2>3, <4>1, <4>3 DEF Fell, Listening, Talking
    <3> QED
      BY <3>1, <3>2, <3>3
  <2>4. CASE slave.k > Bits
    <3>1. CASE slave.mode = "addr" /\ slave.bits[Bits]
      <4> DEFINE s == [slave EXCEPT !.mode = "send"]
      <4>1. slave' \in Drives(s)
        BY <1>2, <2>1, <2>4, <3>1 DEF Takes
      <4>2. s \in Monitors /\ s.mode = "send" /\ s.k = slave.k
        BY <1>1 DEF Monitors
      <4> HIDE DEF s
      <4>3. /\ slave'.mode = "send" /\ slave'.sda \in BOOLEAN /\ slave'.k = 0
            /\ slave'.bits = Append(<<>>, slave'.sda) /\ slave' \in Monitors
        BY <1>2, <2>4, <4>1, <4>2, DrivesIs
      <4>4. Len(slave'.bits) = 1 /\ slave'.bits[1] = slave'.sda
        BY <4>3, Grown, EmptySeq
      <4> QED
        BY <1>1, <1>2, <1>6, <2>4, <3>1, <4>3, <4>4 DEF Fell, MonitorOK, Listening, Talking, Clock
    <3>2. CASE ~(slave.mode = "addr" /\ slave.bits[Bits])
      <4>1. slave' = [mode |-> "recv", bits |-> <<>>, k |-> 0, sda |-> TRUE]
        BY <1>2, <2>1, <2>4, <3>2 DEF Takes
      <4>2. /\ slave'.mode = "recv" /\ slave'.k = 0 /\ slave'.bits = <<>> /\ slave'.sda
            /\ slave' \in Monitors /\ Len(slave'.bits) = 0
        BY <1>2, <4>1, EmptySeq DEF Monitors
      <4>3. MonitorOK'
        BY <1>1, <1>2, <4>2 DEF MonitorOK, Listening, Talking, Clock
      <4> QED
        BY <1>1, <1>2, <1>6, <2>4, <3>2, <4>2, <4>3 DEF Fell, Listening, Talking
    <3> QED
      BY <3>1, <3>2
  <2> QED
    BY <1>2, <2>2, <2>3, <2>4
<1> QED
  BY <1>2, <1>3, <1>4, <1>5, <1>6 DEF Listening, Talking

LEMMA RiseIs ==
  ASSUME TypeOK, MonitorOK, ~Clock, Clock', slave' = AfterRise(slave, Data)
  PROVE  slave' \in Monitors /\ Rose /\ MonitorOK'
<1>1. slave \in Monitors /\ Data \in BOOLEAN /\ (slave.mode = "idle" => ~hold)
  BY DEF TypeOK, Data, MonitorOK
<1>2. /\ slave.mode \in {"idle", "addr", "recv", "send"} /\ slave.bits \in Seq(BOOLEAN)
      /\ slave.k \in 0 .. Bits + 1 /\ slave.sda \in BOOLEAN /\ Bits \in Nat /\ Bits > 1
      /\ ~hold'
  BY <1>1, SizesAssumption DEF Monitors, Clock
<1>3. CASE slave.mode = "idle"
  <2>1. slave' = slave /\ slave = Asleep
    BY <1>3 DEF AfterRise, MonitorOK
  <2> QED
    BY <1>1, <1>2, <1>3, <2>1, AsleepType DEF Rose, MonitorOK, Listening, Talking
<1>4. CASE Talking
  <2>1. slave.k <= Bits /\ (slave.k = Bits => slave.sda)
    BY <1>2, <1>4 DEF MonitorOK
  <2>2. CASE slave.k = Bits /\ Data
    <3>1. slave' = Asleep
      BY <1>4, <2>2 DEF AfterRise, Talking
    <3> QED
      BY <1>2, <1>4, <2>2, <3>1, AsleepType DEF Rose, MonitorOK, Listening, Talking
  <2>3. CASE ~(slave.k = Bits /\ Data)
    <3>1. slave' = [slave EXCEPT !.k = slave.k + 1]
      BY <1>4, <2>3 DEF AfterRise, Talking
    <3>2. /\ slave'.mode = "send" /\ slave'.k = slave.k + 1 /\ slave'.bits = slave.bits
          /\ slave'.sda = slave.sda /\ slave' \in Monitors
      BY <1>1, <1>2, <1>4, <2>1, <3>1 DEF Talking, Monitors
    <3>3. slave.k < Bits => Len(slave.bits) = slave.k + 1 /\ slave.bits[slave.k + 1] = slave.sda
      BY <1>4 DEF MonitorOK
    <3>4. Rose /\ ~Listening' /\ slave'.mode # "idle" /\ Clock'
      BY <1>2, <1>4, <2>3, <3>2 DEF Rose, Listening, Talking
    <3>5. /\ slave'.k > Bits => slave'.sda
          /\ slave'.k = Bits => Len(slave'.bits) = Bits
          /\ slave'.k <= Bits => /\ slave'.k > 0 /\ Len(slave'.bits) = slave'.k
                                 /\ slave'.bits[slave'.k] = slave'.sda
      BY <1>2, <2>1, <3>2, <3>3
    <3>6. MonitorOK'
      BY <3>4, <3>5, Zenon DEF MonitorOK
    <3> QED
      BY <3>2, <3>4, <3>6
  <2> QED
    BY <2>2, <2>3
<1>5. CASE Listening
  <2> DEFINE b == IF slave.k < Bits THEN Append(slave.bits, Data) ELSE slave.bits
  <2>1. slave.k <= Bits /\ Len(slave.bits) = slave.k /\ (slave.sda <=> slave.k # Bits)
    BY <1>2, <1>5 DEF MonitorOK
  <2>2. slave' = [slave EXCEPT !.bits = b, !.k = slave.k + 1]
    BY <1>5 DEF AfterRise, Listening
  <2>3. b \in Seq(BOOLEAN) /\ Len(b) = IF slave.k < Bits THEN slave.k + 1 ELSE Bits
    <3>1. Append(slave.bits, Data) \in Seq(BOOLEAN) /\ Len(Append(slave.bits, Data)) = slave.k + 1
      BY <1>1, <1>2, <2>1, Grown
    <3>2. CASE slave.k < Bits
      BY <3>1, <3>2
    <3>3. CASE ~(slave.k < Bits)
      <4>1. b = slave.bits /\ slave.k = Bits
        BY <1>2, <2>1, <3>3
      <4> QED
        BY <1>2, <2>1, <3>3, <4>1
    <3> QED
      BY <3>2, <3>3
  <2>4. b = IF slave.k < Bits THEN Append(slave.bits, Data) ELSE slave.bits
    OBVIOUS
  <2> HIDE DEF b
  <2>5. /\ slave'.mode = slave.mode /\ slave'.k = slave.k + 1 /\ slave'.bits = b
        /\ slave'.sda = slave.sda /\ slave' \in Monitors
    <3>1. slave'.mode = slave.mode /\ slave'.k = slave.k + 1 /\ slave'.bits = b
      BY <1>1, <2>2 DEF Monitors
    <3>2. slave'.sda = slave.sda
      BY <1>1, <2>2 DEF Monitors
    <3>3. slave.k + 1 \in 0 .. Bits + 1
      BY <1>2, <2>1
    <3> QED
      BY <1>1, <2>2, <2>3, <3>1, <3>2, <3>3 DEF Monitors
  <2>6. Rose /\ Listening' /\ ~Talking' /\ slave'.mode # "idle" /\ Clock'
    BY <1>2, <1>5, <2>4, <2>5 DEF Rose, Listening, Talking
  <2>7. /\ Len(slave'.bits) = IF slave'.k <= Bits THEN slave'.k ELSE Bits
        /\ slave'.sda <=> ~(slave'.k > Bits)
    BY <1>2, <2>1, <2>3, <2>5
  <2>8. MonitorOK'
    BY <2>6, <2>7, Zenon DEF MonitorOK
  <2> QED
    BY <2>5, <2>6, <2>8
<1> QED
  BY <1>2, <1>3, <1>4, <1>5 DEF Listening, Talking

(* The driver's four pin operations, and a monitor that lets go.           *)
LEMMA LowerClockIs ==
  ASSUME TypeOK, MonitorOK, LowerClock
  PROVE  /\ slave' \in Monitors /\ hold' \in BOOLEAN /\ ~c' /\ d' = d /\ MonitorOK'
         /\ IF Clock THEN Fell ELSE slave' = slave
<1>1. CASE Clock
  BY <1>1, FallIs
<1>2. CASE ~Clock
  <2>1. slave' = slave /\ hold' = hold /\ c' = FALSE /\ d' = d /\ ~Clock'
    BY <1>2 DEF LowerClock, Clock
  <2>2. slave \in Monitors /\ hold \in BOOLEAN
    BY DEF TypeOK
  <2>3. MonitorOK'
    BY <1>2, <2>1 DEF MonitorOK, Listening, Talking
  <2> QED
    BY <1>2, <2>1, <2>2, <2>3
<1> QED
  BY <1>1, <1>2

LEMMA RaiseClockIs ==
  ASSUME TypeOK, MonitorOK, RaiseClock
  PROVE  /\ slave' \in Monitors /\ hold' = hold /\ c' /\ d' = d /\ MonitorOK'
         /\ IF ~c /\ ~hold THEN Rose ELSE slave' = slave
<1>1. CASE ~c /\ ~hold
  BY <1>1, RiseIs DEF RaiseClock, Clock
<1>2. CASE ~(~c /\ ~hold)
  <2>1. slave' = slave /\ hold' = hold /\ c' /\ d' = d /\ (Clock' <=> Clock)
    BY <1>2 DEF RaiseClock, Clock
  <2>2. slave \in Monitors
    BY DEF TypeOK
  <2>3. MonitorOK'
    BY <2>1 DEF MonitorOK, Listening, Talking
  <2> QED
    BY <1>2, <2>1, <2>2, <2>3
<1> QED
  BY <1>1, <1>2

LEMMA AddressedType ==
  /\ Addressed \in Monitors /\ Addressed.mode = "addr" /\ Addressed.k = 0 /\ Addressed.sda
  /\ Addressed.bits = <<>> /\ Len(Addressed.bits) = 0
BY SizesAssumption, EmptySeq DEF Addressed, Monitors

LEMMA LowerDataIs ==
  ASSUME TypeOK, MonitorOK, LowerData
  PROVE  /\ slave' \in Monitors /\ hold' = hold /\ c' = c /\ ~d' /\ MonitorOK'
         /\ slave' = IF Clock /\ Data THEN Addressed ELSE slave
<1>1. hold' = hold /\ c' = c /\ d' = FALSE /\ slave \in Monitors /\ (Clock' <=> Clock)
  BY DEF LowerData, TypeOK, Clock
<1>2. slave' = IF Clock /\ Data THEN Addressed ELSE slave
  BY DEF LowerData
<1>3. CASE slave' = slave
  BY <1>1, <1>2, <1>3 DEF MonitorOK, Listening, Talking
<1>4. CASE slave' = Addressed
  <2>1. MonitorOK'
    BY <1>1, <1>4, AddressedType, SizesAssumption DEF MonitorOK, Listening, Talking
  <2> QED
    BY <1>1, <1>2, <1>4, <2>1, AddressedType
<1> QED
  BY <1>2, <1>3, <1>4

LEMMA RaiseDataIs ==
  ASSUME TypeOK, MonitorOK, RaiseData
  PROVE  /\ slave' \in Monitors /\ hold' = hold /\ c' = c /\ d' /\ MonitorOK'
         /\ slave' = IF Clock /\ ~d /\ slave.sda THEN Asleep ELSE slave
<1>1. hold' = hold /\ c' = c /\ d' = TRUE /\ slave \in Monitors /\ (Clock' <=> Clock)
  BY DEF RaiseData, TypeOK, Clock
<1>2. slave' = IF Clock /\ ~d /\ slave.sda THEN Asleep ELSE slave
  BY DEF RaiseData
<1>3. CASE slave' = slave
  BY <1>1, <1>2, <1>3 DEF MonitorOK, Listening, Talking
<1>4. CASE Clock /\ slave' = Asleep
  <2>1. MonitorOK'
    BY <1>1, <1>4, AsleepType DEF MonitorOK, Listening, Talking, Clock
  <2> QED
    BY <1>1, <1>2, <1>4, <2>1, AsleepType
<1> QED
  BY <1>2, <1>3, <1>4

LEMMA ReleaseIs ==
  ASSUME TypeOK, MonitorOK, Release
  PROVE  /\ slave' \in Monitors /\ hold /\ ~hold' /\ c' = c /\ d' = d /\ MonitorOK'
         /\ IF c THEN Rose ELSE slave' = slave
<1>1. hold /\ hold' = FALSE /\ c' = c /\ d' = d /\ ~Clock /\ slave \in Monitors
  BY DEF Release, TypeOK, Clock
<1>2. CASE c
  <2>1. Clock' /\ slave' = AfterRise(slave, Data)
    BY <1>1, <1>2 DEF Release, Clock
  <2> QED
    BY <1>1, <1>2, <2>1, RiseIs
<1>3. CASE ~c
  <2>1. slave' = slave /\ ~Clock'
    BY <1>1, <1>3 DEF Release, Clock
  <2>2. MonitorOK'
    BY <1>1, <2>1 DEF MonitorOK, Listening, Talking
  <2> QED
    BY <1>1, <1>3, <2>1, <2>2
<1> QED
  BY <1>2, <1>3
-----------------------------------------------------------------------------
(* The pin operations one by one.  None starts after a failure.            *)
Quiet == late' = late /\ ~failed' /\ got' = got
Then(o) == op' = o /\ bit' = bit
Waits == UNCHANGED wires /\ (late' <=> late \/ ~Clock)
Polls(o) ==
  /\ Waits /\ got' = got /\ (failed' <=> ~Clock)
  /\ IF Clock THEN Then(o) ELSE bit' = 0 /\ op' = 1
Samples == Waits /\ got' = Append(got, Data) /\ ~failed' /\ Then(5)
SetsData(b) == IF b THEN RaiseData ELSE LowerData

LEMMA PinIs ==
  ASSUME NEW o, Perform(o), TypeOK, ~failed
  PROVE  /\ o = "C1" => RaiseClock /\ Quiet
         /\ o = "C0" => LowerClock /\ Quiet
         /\ o = "D1" => RaiseData /\ Quiet
         /\ o = "D0" => LowerData /\ Quiet
         /\ o = "poll" => Waits /\ got' = got /\ (failed' <=> ~Clock)
         /\ o = "sample" => Waits /\ got' = Append(got, Data) /\ ~failed'
<1> USE DEF Perform, DoPin, Quiet, Waits, Poll
<1>1. late \in BOOLEAN
  BY DEF TypeOK
<1>2. o = "C1" => RaiseClock /\ Quiet
  BY <1>1
<1>3. o = "C0" => LowerClock /\ Quiet
  BY <1>1
<1>4. o = "D1" => RaiseData /\ Quiet
  BY <1>1
<1>5. o = "D0" => LowerData /\ Quiet
  BY <1>1
<1>6. o = "poll" => Waits /\ got' = got /\ (failed' <=> ~Clock)
  BY <1>1
<1>7. o = "sample" => Waits /\ got' = Append(got, Data) /\ ~failed'
  BY <1>1
<1> QED
  BY <1>2, <1>3, <1>4, <1>5, <1>6, <1>7

LEMMA FiveIs ==
  ASSUME NEW a, NEW b, NEW x, NEW y, NEW z
  PROVE  LET s == <<a, b, x, y, z>>
         IN  Len(s) = 5 /\ s[1] = a /\ s[2] = b /\ s[3] = x /\ s[4] = y /\ s[5] = z
OBVIOUS

(* A routine of five operations, as all are but DDCInit.                   *)
LEMMA AdvanceIs ==
  ASSUME TypeOK, PlaceOK, PinOp, Len(Routine(bit)) = 5
  PROVE  /\ failed' => bit' = 0 /\ op' = 1
         /\ ~failed' /\ op < 5 => Then(op + 1)
         /\ ~failed' /\ op = 5 => op' = 1 /\ bit' = IF bit < Routines THEN bit + 1 ELSE 0
BY DEF PinOp, Advance, Then, PlaceOK

Bytes == Sending \/ Receiving
DataBit == IF Sending THEN (IF bit <= Bits THEN Byte[bit] ELSE TRUE)
           ELSE (IF bit <= Bits THEN TRUE ELSE Last)
Sampling == IF Sending THEN bit = Bits + 1 ELSE bit <= Bits

LEMMA BytePin ==
  ASSUME TypeOK, PlaceOK, Bytes, PinOp
  PROVE  /\ ~failed /\ UNCHANGED <<call, stage, rec, ret>> /\ bit \in 1 .. Bits + 1
         /\ op = 1 => LowerClock /\ Quiet /\ Then(2)
         /\ op = 2 => SetsData(DataBit) /\ Quiet /\ Then(3)
         /\ op = 3 => RaiseClock /\ Quiet /\ Then(4)
         /\ op = 4 => IF Sampling THEN Samples ELSE Polls(5)
         /\ op = 5 => /\ LowerClock /\ Quiet
                      /\ op' = 1 /\ bit' = IF bit <= Bits THEN bit + 1 ELSE 0
<1> DEFINE r == <<"C0", IF DataBit THEN "D1" ELSE "D0", "C1",
                  IF Sampling THEN "sample" ELSE "poll", "C0">>
<1>1. /\ bit \in 1 .. Bits + 1 /\ op \in 1..5 /\ ~failed /\ Bits \in Nat
      /\ Perform(Routine(bit)[op]) /\ UNCHANGED <<call, stage, rec, ret>>
  BY SizesAssumption DEF PinOp, PlaceOK, Done, Routines, Bytes
<1>2. Routines = Bits + 1
  BY DEF Routines, Bytes, Sending, Receiving
<1>3. Routine(bit) = r
  <2>1. CASE Sending
    <3>1. Routine(bit) = DDCSendByte(Byte, bit)
      BY <2>1 DEF Routine, Sending, Receiving
    <3> QED
      BY <1>1, <2>1, <3>1 DEF DDCSendByte, DDCSendBit, DDCReceiveBit, DataBit, Sampling
  <2>2. CASE ~Sending
    <3>1. Routine(bit) = DDCReceiveByte(Last, bit)
      BY <2>2 DEF Routine, Sending, Receiving, Bytes
    <3> QED
      BY <1>1, <2>2, <3>1 DEF DDCReceiveByte, DDCSendBit, DDCReceiveBit, DataBit, Sampling
  <2> QED
    BY <2>1, <2>2
<1>4. /\ Len(r) = 5 /\ r[1] = "C0" /\ r[2] = (IF DataBit THEN "D1" ELSE "D0") /\ r[3] = "C1"
      /\ r[4] = (IF Sampling THEN "sample" ELSE "poll") /\ r[5] = "C0"
  BY FiveIs
<1> HIDE DEF r
<1>5. /\ failed' => bit' = 0 /\ op' = 1
      /\ ~failed' /\ op < 5 => Then(op + 1)
      /\ ~failed' /\ op = 5 => op' = 1 /\ bit' = IF bit < Routines THEN bit + 1 ELSE 0
  BY <1>3, <1>4, AdvanceIs
<1>6. Perform(r[op])
  BY <1>1, <1>3
<1>7. op = 1 => LowerClock /\ Quiet /\ Then(2)
  BY <1>1, <1>4, <1>5, <1>6, PinIs DEF Quiet
<1>8. op = 2 => SetsData(DataBit) /\ Quiet /\ Then(3)
  BY <1>1, <1>4, <1>5, <1>6, PinIs DEF Quiet, SetsData
<1>9. op = 3 => RaiseClock /\ Quiet /\ Then(4)
  BY <1>1, <1>4, <1>5, <1>6, PinIs DEF Quiet
<1>10. op = 4 => IF Sampling THEN Samples ELSE Polls(5)
  <2>1. op = 4 /\ Sampling => Samples
    BY <1>1, <1>4, <1>5, <1>6, PinIs DEF Samples
  <2>2. op = 4 /\ ~Sampling => Polls(5)
    BY <1>1, <1>4, <1>5, <1>6, PinIs DEF Polls
  <2> QED
    BY <2>1, <2>2
<1>11. op = 5 => LowerClock /\ Quiet /\ op' = 1 /\ bit' = IF bit <= Bits THEN bit + 1 ELSE 0
  BY <1>1, <1>2, <1>4, <1>5, <1>6, PinIs DEF Quiet
<1> QED
  BY <1>1, <1>7, <1>8, <1>9, <1>10, <1>11

(* DDCSetStart and DDCInit.                                                *)
Starts ==
  /\ op = 1 => RaiseData /\ Quiet /\ Then(2)
  /\ op = 2 => RaiseClock /\ Quiet /\ Then(3)
  /\ op = 3 => Polls(4)
  /\ op = 4 => LowerData /\ Quiet /\ Then(5)
  /\ op = 5 => LowerClock /\ Quiet /\ op' = 1 /\ bit' = 0

LEMMA StartPin ==
  ASSUME TypeOK, PlaceOK, stage \in {"start", "restart"}, PinOp
  PROVE  /\ ~failed /\ UNCHANGED <<call, stage, rec, ret>>
         /\ IF stage = "start" /\ bit = 1
            THEN /\ op = 1 => RaiseClock /\ Quiet /\ Then(2)
                 /\ op = 2 => RaiseData /\ Quiet /\ op' = 1 /\ bit' = 2
                 /\ op \in 1..2
            ELSE Starts /\ bit = Routines
<1> DEFINE r == <<"D1", "C1", "poll", "D0", "C0">>
<1>1. /\ bit \in 1 .. Routines /\ op \in 1..5 /\ ~failed
      /\ Routines = (IF stage = "start" THEN 2 ELSE 1)
      /\ Perform(Routine(bit)[op]) /\ UNCHANGED <<call, stage, rec, ret>>
  BY DEF PinOp, PlaceOK, Done, Routines, Sending, Receiving
<1>2. CASE stage = "start" /\ bit = 1
  <2>1. Routine(bit) = <<"C1", "D1">> /\ op \in 1..2
    BY <1>2 DEF Routine, DDCInit, PlaceOK, Sending, Receiving
  <2>2. Len(Routine(bit)) = 2 /\ Routine(bit)[1] = "C1" /\ Routine(bit)[2] = "D1"
    BY <2>1
  <2>3. /\ ~failed' /\ op = 1 => Then(2)
        /\ ~failed' /\ op = 2 => op' = 1 /\ bit' = 2
    <3>1. ~failed' => Advance
      BY DEF PinOp
    <3>2. bit = 1 /\ Routines = 2
      BY <1>1, <1>2
    <3> QED
      BY <1>1, <2>2, <3>1, <3>2 DEF Advance, Then
  <2>4. op = 1 => RaiseClock /\ Quiet /\ Then(2)
    BY <1>1, <2>2, <2>3, PinIs DEF Quiet
  <2>5. op = 2 => RaiseData /\ Quiet /\ op' = 1 /\ bit' = 2
    BY <1>1, <2>2, <2>3, PinIs DEF Quiet
  <2> QED
    BY <1>1, <1>2, <2>1, <2>4, <2>5
<1>3. CASE ~(stage = "start" /\ bit = 1)
  <2>1. Routine(bit) = r /\ bit = Routines
    BY <1>1, <1>3 DEF Routine, DDCSetStart, Sending, Receiving
  <2>2. /\ Len(r) = 5 /\ r[1] = "D1" /\ r[2] = "C1" /\ r[3] = "poll" /\ r[4] = "D0" /\ r[5] = "C0"
    BY FiveIs
  <2> HIDE DEF r
  <2>3. /\ failed' => bit' = 0 /\ op' = 1
        /\ ~failed' /\ op < 5 => Then(op + 1)
        /\ ~failed' /\ op = 5 => op' = 1 /\ bit' = 0
    BY <2>1, <2>2, AdvanceIs, <1>1
  <2>4. Perform(r[op])
    BY <1>1, <2>1
  <2>5. op = 1 => RaiseData /\ Quiet /\ Then(2)
    BY <1>1, <2>2, <2>3, <2>4, PinIs DEF Quiet
  <2>6. op = 2 => RaiseClock /\ Quiet /\ Then(3)
    BY <1>1, <2>2, <2>3, <2>4, PinIs DEF Quiet
  <2>7. op = 3 => Polls(4)
    BY <1>1, <2>2, <2>3, <2>4, PinIs DEF Polls
  <2>8. op = 4 => LowerData /\ Quiet /\ Then(5)
    BY <1>1, <2>2, <2>3, <2>4, PinIs DEF Quiet
  <2>9. op = 5 => LowerClock /\ Quiet /\ op' = 1 /\ bit' = 0
    BY <1>1, <2>2, <2>3, <2>4, PinIs DEF Quiet
  <2> QED
    BY <1>1, <1>3, <2>1, <2>5, <2>6, <2>7, <2>8, <2>9 DEF Starts
<1> QED
  BY <1>2, <1>3

(* DDCSetStop.                                                             *)
LEMMA StopPin ==
  ASSUME TypeOK, PlaceOK, stage \in {"stop", "recover"}, PinOp
  PROVE  /\ ~failed /\ UNCHANGED <<call, stage, rec, ret>> /\ bit = 1
         /\ op = 1 => LowerClock /\ Quiet /\ Then(2)
         /\ op = 2 => LowerData /\ Quiet /\ Then(3)
         /\ op = 3 => RaiseClock /\ Quiet /\ Then(4)
         /\ op = 4 => Polls(5)
         /\ op = 5 => RaiseData /\ Quiet /\ op' = 1 /\ bit' = 0
<1> DEFINE r == <<"C0", "D0", "C1", "poll", "D1">>
<1>1. /\ Routines = 1 /\ bit = 1 /\ op \in 1..5 /\ ~failed
      /\ Perform(Routine(bit)[op]) /\ UNCHANGED <<call, stage, rec, ret>>
  BY DEF PinOp, PlaceOK, Done, Routines, Sending, Receiving
<1>2. Routine(bit) = r
  BY DEF Routine, DDCSetStop, Sending, Receiving
<1>3. /\ Len(r) = 5 /\ r[1] = "C0" /\ r[2] = "D0" /\ r[3] = "C1" /\ r[4] = "poll" /\ r[5] = "D1"
  BY FiveIs
<1> HIDE DEF r
<1>4. /\ failed' => bit' = 0 /\ op' = 1
      /\ ~failed' /\ op < 5 => Then(op + 1)
      /\ ~failed' /\ op = 5 => op' = 1 /\ bit' = 0
  BY <1>1, <1>2, <1>3, AdvanceIs
<1>5. Perform(r[op])
  BY <1>1, <1>2
<1>6. op = 1 => LowerClock /\ Quiet /\ Then(2)
  BY <1>1, <1>3, <1>4, <1>5, PinIs DEF Quiet
<1>7. op = 2 => LowerData /\ Quiet /\ Then(3)
  BY <1>1, <1>3, <1>4, <1>5, PinIs DEF Quiet
<1>8. op = 3 => RaiseClock /\ Quiet /\ Then(4)
  BY <1>1, <1>3, <1>4, <1>5, PinIs DEF Quiet
<1>9. op = 4 => Polls(5)
  BY <1>1, <1>3, <1>4, <1>5, PinIs DEF Polls
<1>10. op = 5 => RaiseData /\ Quiet /\ op' = 1 /\ bit' = 0
  BY <1>1, <1>3, <1>4, <1>5, PinIs DEF Quiet
<1> QED
  BY <1>1, <1>6, <1>7, <1>8, <1>9, <1>10
-----------------------------------------------------------------------------
(* A byte sent to a monitor that keeps up.                                 *)
LEMMA ByteIs ==
  ASSUME TypeOK, NEW x \in 1 .. Bits
  PROVE  Byte[x] \in BOOLEAN
<1>1. call.read \in BOOLEAN /\ (call.read /\ ~call.comb) \in BOOLEAN
  BY DEF TypeOK, Calls
<1>2. \A r \in BOOLEAN : Address(r)[x] \in BOOLEAN
  BY DEF Address
<1>3. Payload[x] \in BOOLEAN
  BY DEF Payload
<1> QED
  BY <1>1, <1>2, <1>3 DEF Byte

Same == UNCHANGED <<call, stage>>
LEMMA SameIs ==
  ASSUME Same
  PROVE  /\ Sending' = Sending /\ Receiving' = Receiving /\ Crossed' = Crossed
         /\ Taker' = Taker /\ Byte' = Byte /\ Last' = Last
<1>1. call' = call /\ stage' = stage
  BY DEF Same
<1>2. Sending' = Sending /\ Receiving' = Receiving
  BY <1>1 DEF Sending, Receiving
<1>3. Crossed' = Crossed /\ Last' = Last
  BY <1>1 DEF Crossed, Last
<1>4. Taker' = Taker
  BY <1>1 DEF Taker
<1>5. Byte' = Byte
  BY <1>1 DEF Byte
<1> QED
  BY <1>2, <1>3, <1>4, <1>5

LEMMA FollowsSame ==
  ASSUME Same, slave' = slave
  PROVE  Follows' = Follows /\ Refused' = Refused
<1>1. Crossed' = Crossed /\ Taker' = Taker /\ Byte' = Byte
  BY SameIs
<1>2. Talking' = Talking /\ Refused' = Refused
  BY DEF Talking, Refused
<1>3. Follows' = Follows
  BY <1>1, <1>2, Zenon DEF Follows
<1> QED
  BY <1>2, <1>3

LEMMA FollowsIs ==
  ASSUME TypeOK, Follows
  PROVE  /\ IF Crossed THEN Talking ELSE Listening
         /\ slave.mode # "idle" /\ ~Refused
<1>1. CASE Crossed
  <2>1. Talking /\ slave.mode = "send"
    BY <1>1 DEF Follows, Talking
  <2> QED
    BY <1>1, <2>1, AsleepType DEF Refused
<1>2. CASE ~Crossed
  <2>1. slave.mode \in {"addr", "recv"}
    BY <1>2 DEF Follows, Taker
  <2> QED
    BY <1>2, <2>1, AsleepType DEF Refused, Listening
<1> QED
  BY <1>1, <1>2

(* The bits, and the acknowledge.                                          *)
LEMMA FollowsRises ==
  ASSUME TypeOK, MonitorOK, Same, ~Clock, Rose, slave' \in Monitors,
         Follows, slave.k < Bits, d = Byte[slave.k + 1]
  PROVE  Follows' /\ slave'.k = slave.k + 1
<1>1. /\ Bits \in Nat /\ Bits > 1 /\ slave \in Monitors /\ d \in BOOLEAN
      /\ slave.k \in 0 .. Bits + 1 /\ slave.bits \in Seq(BOOLEAN) /\ slave.sda \in BOOLEAN
  BY SizesAssumption DEF TypeOK, Monitors
<1>2. CASE Crossed
  BY <1>1, <1>2, SameIs DEF Follows, Rose, Talking
<1>3. CASE ~Crossed
  <2>1. /\ slave.mode = Taker /\ Listening
        /\ \A x \in 1..Bits : x <= slave.k => slave.bits[x] = Byte[x]
    BY <1>3, FollowsIs DEF Follows
  <2>2. slave.sda /\ Len(slave.bits) = slave.k
    BY <1>1, <2>1 DEF MonitorOK
  <2>3. Data = d /\ Data \in BOOLEAN
    BY <1>1, <2>2 DEF Data
  <2>4. /\ slave'.mode = Taker /\ slave'.k = slave.k + 1
        /\ slave'.bits = Append(slave.bits, Data)
    BY <1>1, <2>1, <2>2 DEF Rose
  <2>5. /\ slave'.bits[slave.k + 1] = Byte[slave.k + 1]
        /\ \A x \in 1 .. slave.k : slave'.bits[x] = slave.bits[x]
    BY <1>1, <2>2, <2>3, <2>4, Grown
  <2>6. \A x \in 1..Bits : x <= slave'.k => slave'.bits[x] = Byte[x]
    <3> TAKE x \in 1..Bits
    <3>1. CASE x = slave.k + 1
      BY <2>5, <3>1
    <3>2. CASE x # slave.k + 1
      <4>1. CASE x <= slave.k
        <5>1. x \in 1 .. slave.k /\ slave.bits[x] = Byte[x]
          BY <1>1, <2>1, <4>1
        <5> QED
          BY <2>5, <5>1
      <4>2. CASE ~(x <= slave.k)
        BY <1>1, <2>4, <3>2, <4>2
      <4> QED
        BY <4>1, <4>2
    <3> QED
      BY <3>1, <3>2
  <2>7. ~Crossed' /\ Byte' = Byte /\ Taker' = Taker
    BY <1>3, SameIs
  <2> QED
    BY <2>4, <2>6, <2>7 DEF Follows
<1> QED
  BY <1>2, <1>3

LEMMA AckRises ==
  ASSUME TypeOK, MonitorOK, Same, ~Clock, Rose, d, (Follows /\ slave.k = Bits) \/ Refused
  PROVE  (Follows' /\ slave'.k = Bits + 1) \/ Refused'
<1>1. Bits \in Nat /\ Bits > 1
  BY SizesAssumption
<1>2. CASE Refused
  BY <1>2, AsleepType DEF Refused, Rose
<1>3. CASE Follows /\ slave.k = Bits /\ Crossed
  <2>1. Talking /\ slave.sda
    BY <1>3, FollowsIs DEF MonitorOK
  <2> QED
    BY <1>3, <2>1 DEF Rose, Refused, Data
<1>4. CASE Follows /\ slave.k = Bits /\ ~Crossed
  <2>1. /\ slave.mode = Taker /\ Listening
        /\ \A x \in 1..Bits : x <= slave.k => slave.bits[x] = Byte[x]
    BY <1>4, FollowsIs DEF Follows
  <2>2. slave'.mode = Taker /\ slave'.k = Bits + 1 /\ slave'.bits = slave.bits
    BY <1>1, <1>4, <2>1 DEF Rose
  <2> QED
    BY <1>1, <1>4, <2>1, <2>2, SameIs DEF Follows
<1> QED
  BY <1>2, <1>3, <1>4

LEMMA FollowsFalls ==
  ASSUME TypeOK, MonitorOK, Same, Fell, Follows, slave.k <= Bits
  PROVE  \/ Follows' /\ slave'.k = slave.k
         \/ slave.k = Bits /\ Refused'
<1>1. Bits \in Nat /\ Bits > 1 /\ slave.k \in 0 .. Bits + 1
  BY SizesAssumption DEF TypeOK, Monitors
<1>2. CASE Crossed
  BY <1>1, <1>2, SameIs DEF Follows, Fell, Talking
<1>3. CASE ~Crossed
  <2>1. /\ slave.mode = Taker /\ Listening
        /\ \A x \in 1..Bits : x <= slave.k => slave.bits[x] = Byte[x]
    BY <1>3, FollowsIs DEF Follows
  <2>2. \/ slave' = slave
        \/ slave.k = Bits /\ Refused'
        \/ slave'.mode = slave.mode /\ slave'.k = slave.k /\ slave'.bits = slave.bits
    BY <1>1, <2>1 DEF Fell, Refused
  <2> QED
    BY <1>3, <2>1, <2>2, SameIs DEF Follows
<1> QED
  BY <1>2, <1>3

LEMMA AckFalls ==
  ASSUME TypeOK, MonitorOK, Same, Fell, Answered, got' = got
  PROVE  Told'
<1>1. Bits \in Nat /\ Bits > 1
  BY SizesAssumption
<1>2. CASE Refused /\ got = <<TRUE>>
  BY <1>2, AsleepType DEF Refused, Fell, Told
<1>3. CASE Follows /\ slave.k = Bits + 1 /\ got = <<FALSE>>
  <2>1. ~Crossed /\ slave.mode = Taker /\ slave.bits[Bits] = Byte[Bits] /\ Listening
    BY <1>1, <1>3, FollowsIs DEF Follows
  <2>2. slave'.k = 0 /\ slave'.mode = IF Taker = "addr" /\ Byte[Bits] THEN "send" ELSE "recv"
    BY <1>1, <1>3, <2>1 DEF Fell
  <2>3. Turned'
    BY <2>2, SameIs DEF Turned
  <2> QED
    BY <1>3, <2>1, <2>3, SameIs DEF Told
<1> QED
  BY <1>2, <1>3 DEF Answered

LEMMA SetsDataIs ==
  ASSUME TypeOK, MonitorOK, NEW b \in BOOLEAN, SetsData(b)
  PROVE  /\ slave' \in Monitors /\ hold' = hold /\ c' = c /\ d' = b /\ MonitorOK'
         /\ ~Clock => slave' = slave
<1>1. CASE b
  BY <1>1, RaiseDataIs DEF SetsData, RaiseData
<1>2. CASE ~b
  BY <1>2, LowerDataIs DEF SetsData, LowerData
<1> QED
  BY <1>1, <1>2

LEMMA DataBitIs ==
  ASSUME TypeOK
  PROVE  /\ Sending /\ bit \in 1..Bits => DataBit = Byte[bit] /\ DataBit \in BOOLEAN
         /\ Sending /\ bit = Bits + 1 => DataBit = TRUE
         /\ ~Sending /\ bit \in 1..Bits => DataBit = TRUE
         /\ ~Sending /\ bit = Bits + 1 => DataBit = Last /\ DataBit \in BOOLEAN
<1>1. Bits \in Nat /\ Last \in BOOLEAN
  BY SizesAssumption DEF Last
<1>2. Sending /\ bit \in 1..Bits => DataBit = Byte[bit] /\ Byte[bit] \in BOOLEAN
  BY <1>1, ByteIs DEF DataBit
<1>3. Sending /\ bit = Bits + 1 => DataBit = TRUE
  BY <1>1 DEF DataBit
<1>4. ~Sending /\ bit \in 1..Bits => DataBit = TRUE
  BY <1>1 DEF DataBit
<1>5. ~Sending /\ bit = Bits + 1 => DataBit = Last /\ Last \in BOOLEAN
  <2>1. bit = Bits + 1 => ~(bit <= Bits)
    BY <1>1
  <2> QED
    BY <1>1, <2>1, Zenon DEF DataBit
<1> QED
  BY <1>2, <1>3, <1>4, <1>5, Zenon

LEMMA SendStep ==
  ASSUME TypeOK, MonitorOK, PlaceOK, Sending, ~late, InSend, PinOp, ~late'
  PROVE  InSend' /\ ~failed'
<1>0. /\ Bits \in Nat /\ Bits > 1 /\ c \in BOOLEAN /\ hold \in BOOLEAN /\ d \in BOOLEAN
      /\ slave.k \in 0 .. Bits + 1
  BY SizesAssumption DEF TypeOK, Monitors
<1>1. /\ ~failed /\ Same /\ bit \in 1 .. Bits + 1 /\ op \in 1..5
      /\ op = 1 => LowerClock /\ Quiet /\ Then(2)
      /\ op = 2 => SetsData(DataBit) /\ Quiet /\ Then(3)
      /\ op = 3 => RaiseClock /\ Quiet /\ Then(4)
      /\ op = 4 => IF bit = Bits + 1 THEN Samples ELSE Polls(5)
      /\ op = 5 => /\ LowerClock /\ Quiet
                   /\ op' = 1 /\ bit' = IF bit <= Bits THEN bit + 1 ELSE 0
  BY BytePin DEF Bytes, Sampling, Same, PlaceOK
<1>2. /\ bit' \in 1..Bits /\ OnBit' => InSend'
      /\ bit' = Bits + 1 /\ OnAck' => InSend'
      /\ bit' = 0 /\ ~c' /\ Told' => InSend'
  BY <1>0 DEF InSend
<1>3. Follows' => ~Refused'
  BY AsleepType DEF Follows, Refused, Talking, Taker
<1>4. CASE bit \in 1 .. Bits
  <2>1. OnBit /\ bit # Bits + 1 /\ bit <= Bits
    BY <1>0, <1>4 DEF InSend
  <2>2. CASE op = 1
    <3>1. ~c /\ op' = 2 /\ bit' = bit /\ got' = got /\ ~failed' /\ LowerClock
      BY <1>1, <2>1, <2>2 DEF OnBit, Quiet, Then
    <3>2. ~c' /\ slave' = slave
      BY <3>1, LowerClockIs DEF Clock
    <3>3. OnBit'
      BY <1>1, <2>1, <2>2, <3>1, <3>2, FollowsSame DEF OnBit
    <3> QED
      BY <1>2, <1>4, <3>1, <3>3
  <2>3. CASE op = 2
    <3>1. ~c /\ op' = 3 /\ bit' = bit /\ got' = got /\ ~failed' /\ SetsData(DataBit)
      BY <1>1, <2>1, <2>3 DEF OnBit, Quiet, Then
    <3>2. ~c' /\ slave' = slave /\ d' = Byte[bit]
      BY <1>4, <3>1, DataBitIs, SetsDataIs DEF Clock
    <3>3. Byte' = Byte /\ Follows' = Follows
      BY <1>1, <3>2, SameIs, FollowsSame
    <3>4. OnBit'
      BY <2>1, <2>3, <3>1, <3>2, <3>3 DEF OnBit
    <3> QED
      BY <1>2, <1>4, <3>1, <3>4
  <2>4. CASE op = 3
    <3>1. ~c /\ op' = 4 /\ bit' = bit /\ got' = got /\ ~failed' /\ RaiseClock /\ ~Clock
      BY <1>1, <2>1, <2>4 DEF OnBit, Quiet, Then, Clock
    <3>2. /\ c' /\ d' = d /\ hold' = hold /\ slave' \in Monitors
          /\ IF hold THEN slave' = slave ELSE Rose
      BY <3>1, RaiseClockIs
    <3>3. Byte' = Byte /\ (hold => Follows' = Follows)
      BY <1>1, <3>2, SameIs, FollowsSame
    <3>4. Follows /\ slave.k = bit - 1 /\ d = Byte[bit] /\ got = <<>>
      BY <2>1, <2>4 DEF OnBit
    <3>5. CASE hold
      <4>1. OnBit'
        BY <3>1, <3>2, <3>3, <3>4, <3>5 DEF OnBit
      <4> QED
        BY <1>2, <1>4, <3>1, <4>1
    <3>6. CASE ~hold
      <4>1. slave.k < Bits /\ d = Byte[slave.k + 1] /\ slave.k + 1 = bit
        BY <1>0, <1>4, <3>4
      <4>2. Follows' /\ slave'.k = bit
        BY <1>1, <3>1, <3>2, <3>4, <3>6, <4>1, FollowsRises
      <4>3. OnBit'
        BY <3>1, <3>2, <3>3, <3>4, <3>6, <4>2 DEF OnBit
      <4> QED
        BY <1>2, <1>4, <3>1, <4>3
    <3> QED
      BY <3>5, <3>6
  <2>5. CASE op = 4
    <3>1. Waits /\ Clock /\ ~failed' /\ op' = 5 /\ bit' = bit /\ got' = got
      BY <1>1, <2>1, <2>5 DEF Polls, Waits, Then
    <3>2. slave' = slave /\ Clock' = Clock
      BY <3>1 DEF Waits, wires, Clock
    <3>3. Follows' = Follows /\ slave.k = bit /\ Follows /\ got = <<>>
      BY <1>1, <2>1, <2>5, <3>1, <3>2, FollowsSame DEF OnBit, Clock
    <3>4. OnBit'
      BY <3>1, <3>2, <3>3 DEF OnBit
    <3> QED
      BY <1>2, <1>4, <3>1, <3>4
  <2>6. CASE op = 5
    <3>1. /\ Clock /\ LowerClock /\ ~failed' /\ op' = 1 /\ got' = got /\ bit' = bit + 1
          /\ Follows /\ slave.k = bit /\ got = <<>>
      BY <1>1, <2>1, <2>6 DEF OnBit, Quiet
    <3>2. ~c' /\ Fell
      BY <3>1, LowerClockIs
    <3>3. \/ Follows' /\ slave'.k = bit
          \/ bit = Bits /\ Refused'
      BY <1>1, <2>1, <3>1, <3>2, FollowsFalls
    <3>4. CASE bit = Bits
      <4>1. OnAck' /\ bit' = Bits + 1
        BY <1>3, <3>1, <3>2, <3>3, <3>4 DEF OnAck
      <4> QED
        BY <1>2, <3>1, <4>1
    <3>5. CASE bit # Bits
      <4>1. bit' \in 1..Bits /\ slave'.k = bit' - 1 /\ Follows'
        BY <1>0, <1>4, <3>1, <3>3, <3>5
      <4>2. OnBit'
        BY <3>1, <3>2, <4>1 DEF OnBit
      <4> QED
        BY <1>2, <3>1, <4>1, <4>2
    <3> QED
      BY <3>4, <3>5
  <2> QED
    BY <1>1, <2>2, <2>3, <2>4, <2>5, <2>6
<1>5. CASE bit = Bits + 1
  <2>1. OnAck /\ ~(bit <= Bits)
    BY <1>0, <1>5 DEF InSend
  <2>2. CASE op = 1
    <3>1. ~c /\ op' = 2 /\ bit' = bit /\ got' = got /\ ~failed' /\ LowerClock
      BY <1>1, <2>1, <2>2 DEF OnAck, Quiet, Then
    <3>2. ~c' /\ slave' = slave
      BY <3>1, LowerClockIs DEF Clock
    <3>3. OnAck'
      BY <1>1, <2>1, <2>2, <3>1, <3>2, FollowsSame DEF OnAck
    <3> QED
      BY <1>2, <1>5, <3>1, <3>3
  <2>3. CASE op = 2
    <3>1. ~c /\ op' = 3 /\ bit' = bit /\ got' = got /\ ~failed' /\ SetsData(DataBit)
      BY <1>1, <2>1, <2>3 DEF OnAck, Quiet, Then
    <3>2. ~c' /\ slave' = slave /\ d' = TRUE
      BY <1>5, <3>1, DataBitIs, SetsDataIs DEF Clock
    <3>3. OnAck'
      BY <1>1, <2>1, <2>3, <3>1, <3>2, FollowsSame DEF OnAck
    <3> QED
      BY <1>2, <1>5, <3>1, <3>3
  <2>4. CASE op = 3
    <3>1. /\ ~c /\ op' = 4 /\ bit' = bit /\ got' = got /\ ~failed' /\ RaiseClock /\ ~Clock
          /\ ((Follows /\ slave.k = Bits) \/ Refused) /\ d = TRUE /\ got = <<>>
      BY <1>1, <2>1, <2>4 DEF OnAck, Quiet, Then, Clock
    <3>2. /\ c' /\ d' = d /\ hold' = hold /\ slave' \in Monitors
          /\ IF hold THEN slave' = slave ELSE Rose
      BY <3>1, RaiseClockIs
    <3>3. CASE hold
      <4>1. (Follows' /\ slave'.k = Bits) \/ Refused'
        BY <1>1, <3>1, <3>2, <3>3, FollowsSame
      <4>2. OnAck'
        BY <1>3, <3>1, <3>2, <3>3, <4>1 DEF OnAck
      <4> QED
        BY <1>2, <1>5, <3>1, <4>2
    <3>4. CASE ~hold
      <4>1. (Follows' /\ slave'.k = Bits + 1) \/ Refused'
        BY <1>1, <3>1, <3>2, <3>4, AckRises
      <4>2. OnAck'
        BY <1>3, <3>1, <3>2, <3>4, <4>1 DEF OnAck
      <4> QED
        BY <1>2, <1>5, <3>1, <4>2
    <3> QED
      BY <3>3, <3>4
  <2>5. CASE op = 4
    <3>1. /\ Waits /\ Clock /\ ~failed' /\ op' = 5 /\ bit' = bit
          /\ got = <<>> /\ got' = Append(got, Data) /\ d = TRUE
      BY <1>1, <1>5, <2>1, <2>5 DEF OnAck, Samples, Waits, Then
    <3>2. slave' = slave /\ Clock' = Clock
      BY <3>1 DEF Waits, wires, Clock
    <3>3. (Follows /\ slave.k = Bits + 1) \/ Refused
      BY <2>1, <2>5, <3>1 DEF OnAck, Clock
    <3>4. \/ Follows /\ slave.k = Bits + 1 /\ ~slave.sda
          \/ Refused /\ slave.sda
      <4>1. Follows /\ slave.k = Bits + 1 => Listening
        BY <1>0, FollowsIs DEF Follows
      <4>2. Refused => slave.sda
        BY AsleepType DEF Refused
      <4> QED
        BY <1>0, <3>3, <4>1, <4>2 DEF MonitorOK
    <3>5. Data = slave.sda /\ slave.sda \in BOOLEAN
      <4>1. slave.sda \in BOOLEAN
        BY DEF TypeOK, Monitors
      <4>2. CASE slave.sda
        BY <3>1, <4>1, <4>2 DEF Data
      <4>3. CASE ~slave.sda
        BY <4>1, <4>3 DEF Data
      <4> QED
        BY <4>1, <4>2, <4>3
    <3>6. Answered'
      <4>1. got' = <<slave.sda>>
        BY <3>1, <3>5
      <4>2. Follows' = Follows /\ Refused' = Refused
        BY <1>1, <3>2, FollowsSame
      <4>3. CASE Follows /\ slave.k = Bits + 1 /\ ~slave.sda
        BY <3>2, <3>5, <4>1, <4>2, <4>3 DEF Answered
      <4>4. CASE Refused /\ slave.sda
        BY <3>2, <3>5, <4>1, <4>2, <4>4 DEF Answered
      <4> QED
        BY <3>4, <4>3, <4>4
    <3>7. OnAck'
      BY <3>1, <3>2, <3>6 DEF OnAck
    <3> QED
      BY <1>2, <1>5, <3>1, <3>7
  <2>6. CASE op = 5
    <3>1. /\ Clock /\ LowerClock /\ ~failed' /\ got' = got /\ bit' = 0 /\ Answered
      BY <1>1, <2>1, <2>6 DEF OnAck, Quiet
    <3>2. ~c' /\ Fell
      BY <3>1, LowerClockIs
    <3>3. Told'
      BY <1>1, <3>1, <3>2, AckFalls
    <3> QED
      BY <1>2, <3>1, <3>2, <3>3
  <2> QED
    BY <1>1, <2>2, <2>3, <2>4, <2>5, <2>6
<1> QED
  BY <1>0, <1>1, <1>4, <1>5
-----------------------------------------------------------------------------
(* A byte read from a monitor that keeps up, and its acknowledge.          *)
LEMMA SampledSame ==
  ASSUME slave' = slave, got' = got
  PROVE  Sampled' = Sampled /\ Talking' = Talking /\ Refused' = Refused
BY DEF Sampled, Talking, Refused

LEMMA SampledRises ==
  ASSUME TypeOK, MonitorOK, ~Clock, Rose, Sampled, slave.k < Bits, got' = got
  PROVE  Sampled' /\ slave'.k = slave.k + 1
<1>1. Talking /\ ~(slave.k = Bits /\ Data)
  BY SizesAssumption DEF Sampled, TypeOK, Monitors
<1>2. slave'.mode = "send" /\ slave'.k = slave.k + 1 /\ slave'.bits = slave.bits
  BY <1>1 DEF Rose
<1> QED
  BY <1>2 DEF Sampled, Talking

LEMMA SampledTakes ==
  ASSUME TypeOK, MonitorOK, Clock, Sampled, slave.k \in 1..Bits, Len(got) = slave.k - 1,
         d = TRUE, slave' = slave, got' = Append(got, Data)
  PROVE  Sampled' /\ Len(got') = slave.k
<1>1. /\ Bits \in Nat /\ slave.sda \in BOOLEAN /\ got \in Seq(BOOLEAN) /\ slave.k \in Nat
      /\ Talking
  BY SizesAssumption DEF TypeOK, Monitors, Sampled
<1>2. slave.bits[slave.k] = slave.sda
  BY <1>1 DEF MonitorOK
<1>3. Data = slave.sda
  <2>1. CASE slave.sda
    BY <1>1, <2>1 DEF Data
  <2>2. CASE ~slave.sda
    BY <1>1, <2>2 DEF Data
  <2> QED
    BY <2>1, <2>2
<1>4. /\ Len(got') = slave.k /\ got'[slave.k] = slave.sda
      /\ \A x \in 1 .. Len(got) : got'[x] = got[x]
  BY <1>1, <1>3, Grown
<1>5. ASSUME NEW x \in 1..Bits, x <= slave.k
      PROVE  got'[x] = slave.bits[x]
  <2>1. CASE x = slave.k
    BY <1>2, <1>4, <2>1
  <2>2. CASE x # slave.k
    <3>1. x \in 1 .. Len(got) /\ x <= Len(got)
      BY <1>1, <1>5, <2>2
    <3> QED
      BY <1>4, <3>1 DEF Sampled
  <2> QED
    BY <2>1, <2>2
<1> QED
  BY <1>1, <1>4, <1>5 DEF Sampled, Talking

LEMMA SampledFalls ==
  ASSUME TypeOK, MonitorOK, Fell, Sampled, slave.k \in 1..Bits, Len(got) = slave.k, got' = got
  PROVE  Sampled' /\ slave'.k = slave.k
<1>1. Talking /\ Bits \in Nat /\ slave.k \in Nat
  BY SizesAssumption DEF Sampled
<1>2. /\ slave'.mode = "send" /\ slave'.k = slave.k
      /\ \A x \in 1 .. slave.k : slave'.bits[x] = slave.bits[x]
  BY <1>1 DEF Fell
<1>3. ASSUME NEW x \in 1..Bits, x <= Len(got)
      PROVE  got[x] = slave'.bits[x]
  <2>1. x \in 1 .. slave.k /\ got[x] = slave.bits[x]
    BY <1>1, <1>3 DEF Sampled
  <2> QED
    BY <1>2, <2>1
<1> QED
  BY <1>2, <1>3 DEF Sampled, Talking

LEMMA ReceiveStep ==
  ASSUME TypeOK, MonitorOK, PlaceOK, Receiving, ~late, InReceive, PinOp, ~late'
  PROVE  InReceive' /\ ~failed'
<1>0. /\ Bits \in Nat /\ Bits > 1 /\ c \in BOOLEAN /\ hold \in BOOLEAN /\ d \in BOOLEAN
      /\ slave.k \in 0 .. Bits + 1
  BY SizesAssumption DEF TypeOK, Monitors
<1>1. /\ ~Sending /\ ~failed /\ Same /\ bit \in 1 .. Bits + 1 /\ op \in 1..5
      /\ op = 1 => LowerClock /\ Quiet /\ Then(2)
      /\ op = 2 => SetsData(DataBit) /\ Quiet /\ Then(3)
      /\ op = 3 => RaiseClock /\ Quiet /\ Then(4)
      /\ op = 4 => IF bit <= Bits THEN Samples ELSE Polls(5)
      /\ op = 5 => /\ LowerClock /\ Quiet
                   /\ op' = 1 /\ bit' = IF bit <= Bits THEN bit + 1 ELSE 0
  BY BytePin DEF Bytes, Sampling, Same, PlaceOK, Sending, Receiving
<1>2. /\ bit' \in 1..Bits /\ OnSample' => InReceive'
      /\ bit' = Bits + 1 /\ OnOwnAck' => InReceive'
  BY <1>0 DEF InReceive
<1>3. Last' = Last /\ Last \in BOOLEAN
  BY <1>1, SameIs DEF Last
<1>4. CASE bit \in 1 .. Bits
  <2>1. OnSample /\ bit <= Bits
    BY <1>0, <1>4 DEF InReceive
  <2>2. CASE op = 1
    <3>1. ~c /\ op' = 2 /\ bit' = bit /\ got' = got /\ ~failed' /\ LowerClock
      BY <1>1, <2>1, <2>2 DEF OnSample, Quiet, Then
    <3>2. ~c' /\ slave' = slave
      BY <3>1, LowerClockIs DEF Clock
    <3>3. OnSample'
      BY <2>1, <2>2, <3>1, <3>2, SampledSame DEF OnSample
    <3> QED
      BY <1>2, <1>4, <3>1, <3>3
  <2>3. CASE op = 2
    <3>1. ~c /\ op' = 3 /\ bit' = bit /\ got' = got /\ ~failed' /\ SetsData(DataBit)
      BY <1>1, <2>1, <2>3 DEF OnSample, Quiet, Then
    <3>2. DataBit = TRUE
      BY <1>1, <1>4, DataBitIs
    <3>3. ~c' /\ slave' = slave /\ d' = TRUE
      BY <3>1, <3>2, SetsDataIs DEF Clock
    <3>4. OnSample'
      BY <2>1, <2>3, <3>1, <3>3, SampledSame DEF OnSample
    <3> QED
      BY <1>2, <1>4, <3>1, <3>4
  <2>4. CASE op = 3
    <3>1. /\ ~c /\ op' = 4 /\ bit' = bit /\ got' = got /\ ~failed' /\ RaiseClock /\ ~Clock
          /\ Sampled /\ Len(got) = bit - 1 /\ slave.k = bit - 1 /\ d = TRUE
      BY <1>1, <2>1, <2>4 DEF OnSample, Quiet, Then, Clock
    <3>2. /\ c' /\ d' = d /\ hold' = hold
          /\ IF hold THEN slave' = slave ELSE Rose
      BY <3>1, RaiseClockIs
    <3>3. CASE hold
      <4>1. OnSample'
        BY <3>1, <3>2, <3>3, SampledSame DEF OnSample
      <4> QED
        BY <1>2, <1>4, <3>1, <4>1
    <3>4. CASE ~hold
      <4>1. Sampled' /\ slave'.k = bit
        BY <1>0, <1>4, <3>1, <3>2, <3>4, SampledRises
      <4>2. OnSample'
        BY <3>1, <3>2, <3>4, <4>1 DEF OnSample
      <4> QED
        BY <1>2, <1>4, <3>1, <4>2
    <3> QED
      BY <3>3, <3>4
  <2>5. CASE op = 4
    <3>1. /\ Waits /\ Clock /\ ~failed' /\ op' = 5 /\ bit' = bit /\ got' = Append(got, Data)
          /\ Sampled /\ Len(got) = bit - 1 /\ slave.k = bit /\ d = TRUE
      BY <1>1, <2>1, <2>5 DEF OnSample, Samples, Waits, Then, Clock
    <3>2. slave' = slave /\ Clock' = Clock
      BY <3>1 DEF Waits, wires, Clock
    <3>3. Sampled' /\ Len(got') = bit
      BY <1>4, <3>1, <3>2, SampledTakes
    <3>4. OnSample'
      BY <3>1, <3>2, <3>3 DEF OnSample
    <3> QED
      BY <1>2, <1>4, <3>1, <3>4
  <2>6. CASE op = 5
    <3>1. /\ Clock /\ LowerClock /\ ~failed' /\ got' = got /\ op' = 1 /\ bit' = bit + 1
          /\ Sampled /\ slave.k = bit /\ Len(got) = bit
      BY <1>1, <2>1, <2>6 DEF OnSample, Quiet
    <3>2. ~c' /\ Fell
      BY <3>1, LowerClockIs
    <3>3. Sampled' /\ slave'.k = bit
      BY <1>4, <3>1, <3>2, SampledFalls
    <3>4. CASE bit = Bits
      <4>1. OnOwnAck'
        BY <3>1, <3>2, <3>3, <3>4 DEF OnOwnAck
      <4> QED
        BY <1>2, <3>1, <3>4, <4>1
    <3>5. CASE bit # Bits
      <4>1. bit' \in 1..Bits /\ slave'.k = bit' - 1 /\ Len(got') = bit' - 1
        BY <1>0, <1>4, <3>1, <3>3, <3>5
      <4>2. OnSample'
        BY <3>1, <3>2, <3>3, <4>1 DEF OnSample
      <4> QED
        BY <1>2, <4>1, <4>2, <3>1
    <3> QED
      BY <3>4, <3>5
  <2> QED
    BY <1>1, <2>2, <2>3, <2>4, <2>5, <2>6
<1>5. CASE bit = Bits + 1
  <2>1. OnOwnAck /\ ~(bit <= Bits)
    BY <1>0, <1>5 DEF InReceive
  <2>2. CASE op = 1
    <3>1. ~c /\ op' = 2 /\ bit' = bit /\ got' = got /\ ~failed' /\ LowerClock
      BY <1>1, <2>1, <2>2 DEF OnOwnAck, Quiet, Then
    <3>2. ~c' /\ slave' = slave
      BY <3>1, LowerClockIs DEF Clock
    <3>3. OnOwnAck'
      BY <2>1, <2>2, <3>1, <3>2, SampledSame DEF OnOwnAck
    <3> QED
      BY <1>2, <1>5, <3>1, <3>3
  <2>3. CASE op = 2
    <3>1. ~c /\ op' = 3 /\ bit' = bit /\ got' = got /\ ~failed' /\ SetsData(DataBit)
      BY <1>1, <2>1, <2>3 DEF OnOwnAck, Quiet, Then
    <3>2. ~c' /\ slave' = slave /\ d' = Last
      BY <1>1, <1>5, <3>1, DataBitIs, SetsDataIs DEF Clock
    <3>3. OnOwnAck'
      BY <1>3, <2>1, <2>3, <3>1, <3>2, SampledSame DEF OnOwnAck
    <3> QED
      BY <1>2, <1>5, <3>1, <3>3
  <2>4. CASE op = 3
    <3>1. /\ ~c /\ op' = 4 /\ bit' = bit /\ got' = got /\ ~failed' /\ RaiseClock /\ ~Clock
          /\ Sampled /\ slave.k = Bits /\ d = Last
      BY <1>1, <2>1, <2>4 DEF OnOwnAck, Quiet, Then, Clock
    <3>2. /\ c' /\ d' = Last /\ hold' = hold
          /\ IF hold THEN slave' = slave ELSE Rose
      BY <3>1, RaiseClockIs
    <3>3. Talking /\ slave.sda
      BY <3>1 DEF Sampled, MonitorOK
    <3>4. CASE hold
      <4>1. Talking' /\ slave'.k = Bits
        BY <3>1, <3>2, <3>3, <3>4 DEF Talking
      <4>2. OnOwnAck'
        BY <1>3, <3>1, <3>2, <3>4, <4>1 DEF OnOwnAck
      <4> QED
        BY <1>2, <1>5, <3>1, <4>2
    <3>5. CASE ~hold
      <4>1. Data = Last
        BY <1>3, <3>1, <3>3, Zenon DEF Data
      <4>2. IF Last THEN Refused' ELSE Talking' /\ slave'.k = Bits + 1
        BY <1>3, <3>1, <3>2, <3>3, <3>5, <4>1 DEF Rose, Talking, Refused
      <4>3. OnOwnAck'
        BY <1>3, <3>1, <3>2, <3>5, <4>2 DEF OnOwnAck
      <4> QED
        BY <1>2, <1>5, <3>1, <4>3
    <3> QED
      BY <3>4, <3>5
  <2>5. CASE op = 4
    <3>1. Waits /\ Clock /\ ~failed' /\ op' = 5 /\ bit' = bit
      BY <1>1, <2>1, <2>5 DEF Polls, Waits, Then
    <3>2. slave' = slave /\ c' = c /\ hold' = hold /\ c /\ ~hold
      BY <3>1 DEF Waits, wires, Clock
    <3>3. Talking' = Talking /\ Refused' = Refused
      BY <3>2 DEF Talking, Refused
    <3>4. IF Last THEN Refused ELSE Talking /\ slave.k = Bits + 1
      BY <2>1, <2>5, <3>2 DEF OnOwnAck
    <3>5. OnOwnAck'
      BY <1>3, <3>1, <3>2, <3>3, <3>4 DEF OnOwnAck
    <3> QED
      BY <1>2, <1>5, <3>1, <3>5
  <2>6. CASE op = 5
    <3>1. /\ Clock /\ LowerClock /\ ~failed' /\ bit' = 0
          /\ IF Last THEN Refused ELSE Talking /\ slave.k = Bits + 1
      BY <1>1, <2>1, <2>6 DEF OnOwnAck, Quiet, Clock
    <3>2. ~c' /\ Fell
      BY <3>1, LowerClockIs
    <3>3. IF Last THEN Refused' ELSE Talking' /\ slave'.k = 0
      BY <1>0, <3>1, <3>2, AsleepType DEF Fell, Refused, Talking
    <3>4. InReceive'
      BY <1>0, <1>3, <3>1, <3>2, <3>3 DEF InReceive
    <3> QED
      BY <3>1, <3>4
  <2> QED
    BY <1>1, <2>2, <2>3, <2>4, <2>5, <2>6
<1> QED
  BY <1>0, <1>1, <1>4, <1>5
-----------------------------------------------------------------------------
(* Starts and stops before a monitor that keeps up.                        *)
LEMMA IdleKeeps ==
  ASSUME TypeOK, MonitorOK, Idle, RaiseClock \/ RaiseData \/ Waits
  PROVE  Idle'
<1>1. /\ c /\ ~hold /\ d /\ slave = Asleep /\ slave.sda /\ Clock
      /\ c \in BOOLEAN /\ d \in BOOLEAN /\ hold \in BOOLEAN
  BY AsleepType DEF Idle, Clock, Data, Refused, TypeOK
<1>2. c' /\ ~hold' /\ d' /\ slave' = Asleep
  <2>1. CASE RaiseClock
    BY <1>1, <2>1, RaiseClockIs
  <2>2. CASE RaiseData
    BY <1>1, <2>2, RaiseDataIs
  <2>3. CASE Waits
    BY <1>1, <2>3 DEF Waits, wires
  <2> QED
    BY <2>1, <2>2, <2>3
<1> QED
  BY <1>2, AsleepType DEF Idle, Clock, Data, Refused

LEMMA AddressedFalls ==
  ASSUME TypeOK, MonitorOK, LowerClock, slave = Addressed
  PROVE  ~c' /\ slave' = Addressed
<1>1. Listening /\ slave.k < Bits
  BY SizesAssumption, AddressedType DEF Listening
<1> QED
  BY <1>1, LowerClockIs DEF Fell

LEMMA StartStep ==
  ASSUME TypeOK, MonitorOK, PlaceOK, stage = "start", ~late, InStart, PinOp, ~late'
  PROVE  InStart' /\ ~failed'
<1>1. ~failed /\ op \in 1..5 /\ bit \in 1..2
  BY StartPin DEF PlaceOK, PinOp, Done, Routines, Sending, Receiving
<1>2. CASE bit = 1
  <2>1. /\ op \in 1..2
        /\ op = 1 => RaiseClock /\ Quiet /\ Then(2)
        /\ op = 2 => RaiseData /\ Quiet /\ op' = 1 /\ bit' = 2
    BY <1>2, StartPin
  <2>2. Idle' /\ ~failed'
    BY <1>2, <2>1, IdleKeeps DEF InStart, Quiet
  <2>3. bit' = 1 \/ (bit' = 2 /\ op' = 1)
    BY <1>2, <2>1 DEF Then
  <2> QED
    BY <2>2, <2>3 DEF InStart
<1>3. CASE bit = 2
  <2>1. Starts
    BY <1>3, StartPin
  <2>2. CASE op = 1
    BY <1>3, <2>1, <2>2, IdleKeeps DEF InStart, Starts, Quiet, Then
  <2>3. CASE op = 2
    BY <1>3, <2>1, <2>3, IdleKeeps DEF InStart, Starts, Quiet, Then
  <2>4. CASE op = 3
    <3>1. Waits /\ Clock /\ ~failed' /\ bit' = 2 /\ op' = 4
      BY <1>3, <2>1, <2>4 DEF Starts, Polls, Waits, Then
    <3> QED
      BY <1>3, <2>4, <3>1, IdleKeeps DEF InStart
  <2>5. CASE op = 4
    <3>1. LowerData /\ ~failed' /\ bit' = 2 /\ op' = 5 /\ Clock /\ Data
      BY <1>3, <2>1, <2>5 DEF Starts, Quiet, Then, InStart, Idle
    <3>2. slave' = Addressed /\ ~d' /\ Clock'
      BY <3>1, LowerDataIs DEF Clock
    <3> QED
      BY <3>1, <3>2 DEF InStart
  <2>6. CASE op = 5
    <3>1. LowerClock /\ ~failed' /\ bit' = 0 /\ slave = Addressed
      BY <1>3, <2>1, <2>6 DEF Starts, Quiet, InStart
    <3> QED
      BY <3>1, AddressedFalls DEF InStart
  <2> QED
    BY <1>1, <2>2, <2>3, <2>4, <2>5, <2>6
<1> QED
  BY <1>1, <1>2, <1>3

(* A monitor that awaits a byte sees a rising clock: a bit it then drops.  *)
Dropped == slave.mode = "recv" /\ slave.k = 1
LEMMA ReadyRises ==
  ASSUME TypeOK, MonitorOK, RaiseClock, ~c, Ready
  PROVE  IF hold' THEN Ready' ELSE Dropped'
<1>1. Listening
  BY DEF Ready, Listening
<1>2. hold' = hold /\ IF hold THEN slave' = slave ELSE Rose
  BY RaiseClockIs
<1> QED
  BY <1>1, <1>2 DEF Rose, Ready, Dropped

LEMMA DroppedIs ==
  ASSUME TypeOK, MonitorOK, Dropped
  PROVE  slave.sda /\ ~Refused
BY SizesAssumption, AsleepType DEF Dropped, MonitorOK, Listening, Refused

LEMMA RestartStep ==
  ASSUME TypeOK, MonitorOK, PlaceOK, stage = "restart", ~late, InRestart, PinOp, ~late'
  PROVE  InRestart' /\ ~failed'
<1>1. ~failed /\ op \in 1..5 /\ bit = 1 /\ Starts
  BY StartPin DEF PlaceOK, Routines, Sending, Receiving
<1>2. CASE op = 1
  <2>1. ~c /\ Ready /\ RaiseData /\ ~failed' /\ bit' = 1 /\ op' = 2
    BY <1>1, <1>2 DEF Starts, Quiet, Then, InRestart
  <2>2. slave' = slave /\ ~c' /\ d'
    BY <2>1, RaiseDataIs DEF Clock
  <2> QED
    BY <2>1, <2>2 DEF InRestart, Ready
<1>3. CASE op = 2
  <2>1. ~c /\ d /\ Ready /\ RaiseClock /\ ~failed' /\ bit' = 1 /\ op' = 3
    BY <1>1, <1>3 DEF Starts, Quiet, Then, InRestart
  <2>2. c' /\ d' /\ IF hold' THEN Ready' ELSE Dropped'
    BY <2>1, ReadyRises, RaiseClockIs
  <2> QED
    BY <2>1, <2>2 DEF InRestart, Dropped
<1>4. CASE op = 3
  <2>1. Waits /\ Clock /\ ~failed' /\ bit' = 1 /\ op' = 4
    BY <1>1, <1>4 DEF Starts, Polls, Waits, Then
  <2>2. d /\ Dropped
    BY <1>1, <1>4, <2>1 DEF InRestart, Dropped, Clock
  <2>3. Clock' /\ d' /\ Dropped'
    BY <2>1, <2>2 DEF Waits, wires, Clock, Dropped
  <2> QED
    BY <2>1, <2>3 DEF InRestart, Dropped
<1>5. CASE op = 4
  <2>1. LowerData /\ ~failed' /\ bit' = 1 /\ op' = 5 /\ Clock /\ d /\ Dropped
    BY <1>1, <1>5 DEF Starts, Quiet, Then, InRestart, Dropped
  <2>2. Data
    BY <2>1, DroppedIs DEF Data
  <2>3. slave' = Addressed /\ ~d' /\ Clock'
    BY <2>1, <2>2, LowerDataIs DEF Clock
  <2> QED
    BY <2>1, <2>3 DEF InRestart
<1>6. CASE op = 5
  <2>1. LowerClock /\ ~failed' /\ bit' = 0 /\ slave = Addressed
    BY <1>1, <1>6 DEF Starts, Quiet, InRestart
  <2> QED
    BY <2>1, AddressedFalls DEF InRestart
<1> QED
  BY <1>1, <1>2, <1>3, <1>4, <1>5, <1>6

LEMMA StopStep ==
  ASSUME TypeOK, MonitorOK, PlaceOK, stage = "stop", ~late, InStop, PinOp, ~late'
  PROVE  InStop' /\ ~failed'
<1>1. /\ bit = 1 /\ op \in 1..5
      /\ op = 1 => LowerClock /\ Quiet /\ Then(2)
      /\ op = 2 => LowerData /\ Quiet /\ Then(3)
      /\ op = 3 => RaiseClock /\ Quiet /\ Then(4)
      /\ op = 4 => Polls(5)
      /\ op = 5 => RaiseData /\ Quiet /\ op' = 1 /\ bit' = 0
  BY StopPin DEF PlaceOK
<1>2. CASE op = 1
  <2>1. ~c /\ (Refused \/ Ready) /\ LowerClock /\ ~failed' /\ bit' = 1 /\ op' = 2
    BY <1>1, <1>2 DEF Quiet, Then, InStop
  <2>2. slave' = slave /\ ~c'
    BY <2>1, LowerClockIs DEF Clock
  <2> QED
    BY <2>1, <2>2 DEF InStop, Refused, Ready
<1>3. CASE op = 2
  <2>1. ~c /\ (Refused \/ Ready) /\ LowerData /\ ~failed' /\ bit' = 1 /\ op' = 3
    BY <1>1, <1>3 DEF Quiet, Then, InStop
  <2>2. slave' = slave /\ ~c' /\ ~d'
    BY <2>1, LowerDataIs DEF Clock
  <2> QED
    BY <2>1, <2>2 DEF InStop, Refused, Ready
<1>4. CASE op = 3
  <2>1. ~c /\ ~d /\ (Refused \/ Ready) /\ RaiseClock /\ ~failed' /\ bit' = 1 /\ op' = 4
    BY <1>1, <1>4 DEF Quiet, Then, InStop
  <2>2. c' /\ ~d' /\ hold' = hold /\ IF hold THEN slave' = slave ELSE Rose
    BY <2>1, RaiseClockIs
  <2>3. CASE Refused
    <3>1. ~hold /\ slave.mode = "idle"
      BY <2>3, AsleepType DEF Refused, MonitorOK
    <3>2. Refused'
      BY <2>2, <3>1 DEF Rose, Refused
    <3> QED
      BY <2>1, <2>2, <3>1, <3>2 DEF InStop
  <2>4. CASE Ready
    <3>1. IF hold' THEN Ready' ELSE Dropped'
      BY <2>1, <2>4, ReadyRises
    <3> QED
      BY <2>1, <2>2, <3>1 DEF InStop, Dropped
  <2> QED
    BY <2>1, <2>3, <2>4
<1>5. CASE op = 4
  <2>1. Waits /\ Clock /\ ~failed' /\ bit' = 1 /\ op' = 5
    BY <1>1, <1>5 DEF Polls, Waits, Then
  <2>2. ~d /\ (Refused \/ Dropped) /\ c /\ ~hold
    BY <1>1, <1>5, <2>1 DEF InStop, Clock, Dropped
  <2>3. ~d' /\ (Refused' \/ Dropped') /\ c' /\ ~hold'
    BY <2>1, <2>2 DEF Waits, wires, Refused, Dropped
  <2> QED
    BY <2>1, <2>3 DEF InStop, Dropped
<1>6. CASE op = 5
  <2>1. /\ RaiseData /\ ~failed' /\ bit' = 0 /\ ~d /\ c /\ ~hold /\ (Refused \/ Dropped)
    BY <1>1, <1>6 DEF Quiet, InStop, Dropped
  <2>2. slave.sda
    BY <2>1, AsleepType, DroppedIs DEF Refused
  <2>3. slave' = Asleep /\ c' /\ ~hold' /\ d'
    BY <2>1, <2>2, RaiseDataIs DEF Clock
  <2>4. Idle'
    BY <2>3, AsleepType DEF Idle, Clock, Data, Refused
  <2> QED
    BY <2>1, <2>4 DEF InStop
<1> QED
  BY <1>1, <1>2, <1>3, <1>4, <1>5, <1>6

LEMMA RefusedKeeps ==
  ASSUME TypeOK, MonitorOK, Refused, ~(Clock /\ Data),
         LowerClock \/ RaiseClock \/ LowerData \/ RaiseData \/ Waits
  PROVE  Refused'
<1>1. slave.mode = "idle"
  BY AsleepType DEF Refused
<1>2. CASE LowerClock
  BY <1>1, <1>2, LowerClockIs DEF Fell, Refused
<1>3. CASE RaiseClock
  BY <1>1, <1>3, RaiseClockIs DEF Rose, Refused
<1>4. CASE LowerData
  BY <1>4, LowerDataIs DEF Refused
<1>5. CASE RaiseData
  BY <1>5, RaiseDataIs DEF Refused
<1>6. CASE Waits
  BY <1>6 DEF Waits, wires, Refused
<1> QED
  BY <1>2, <1>3, <1>4, <1>5, <1>6

LEMMA RecoverStep ==
  ASSUME TypeOK, MonitorOK, PlaceOK, stage = "recover", ~late, InRecover, PinOp, ~late'
  PROVE  InRecover' /\ ~failed'
<1>1. /\ bit = 1 /\ op \in 1..5 /\ rec' = rec
      /\ op = 1 => LowerClock /\ Quiet /\ Then(2)
      /\ op = 2 => LowerData /\ Quiet /\ Then(3)
      /\ op = 3 => RaiseClock /\ Quiet /\ Then(4)
      /\ op = 4 => Polls(5)
      /\ op = 5 => RaiseData /\ Quiet /\ op' = 1 /\ bit' = 0
  BY StopPin DEF PlaceOK
<1>2. /\ Refused /\ rec.stops > 0 /\ (op <= 3 => ~c) /\ (op \in 3..5 => ~d) /\ (op \in {4, 5} => c)
  BY <1>1 DEF InRecover
<1>3. ~(Clock /\ Data)
  BY <1>1, <1>2 DEF Clock, Data
<1>4. CASE op = 1
  <2>1. LowerClock /\ ~failed' /\ bit' = 1 /\ op' = 2
    BY <1>1, <1>4 DEF Quiet, Then
  <2> QED
    BY <1>1, <1>2, <1>3, <2>1, RefusedKeeps, LowerClockIs DEF InRecover
<1>5. CASE op = 2
  <2>1. LowerData /\ ~failed' /\ bit' = 1 /\ op' = 3 /\ ~c
    BY <1>1, <1>2, <1>5 DEF Quiet, Then
  <2> QED
    BY <1>1, <1>2, <1>3, <2>1, RefusedKeeps, LowerDataIs DEF InRecover
<1>6. CASE op = 3
  <2>1. RaiseClock /\ ~failed' /\ bit' = 1 /\ op' = 4 /\ ~d
    BY <1>1, <1>2, <1>6 DEF Quiet, Then
  <2> QED
    BY <1>1, <1>2, <1>3, <2>1, RefusedKeeps, RaiseClockIs DEF InRecover
<1>7. CASE op = 4
  <2>1. Waits /\ ~failed' /\ bit' = 1 /\ op' = 5 /\ c /\ ~d
    BY <1>1, <1>2, <1>7 DEF Polls, Waits, Then
  <2>2. c' /\ ~d'
    BY <2>1 DEF Waits, wires
  <2> QED
    BY <1>1, <1>2, <1>3, <2>1, <2>2, RefusedKeeps DEF InRecover
<1>8. CASE op = 5
  <2>1. RaiseData /\ ~failed' /\ bit' = 0 /\ c
    BY <1>1, <1>2, <1>8 DEF Quiet
  <2> QED
    BY <1>1, <1>2, <1>3, <2>1, RefusedKeeps, RaiseDataIs DEF InRecover
<1> QED
  BY <1>1, <1>4, <1>5, <1>6, <1>7, <1>8
-----------------------------------------------------------------------------
(* What every pin operation keeps, late or not.                            *)
LEMMA PinWires ==
  ASSUME TypeOK, MonitorOK, PinOp
  PROVE  /\ slave' \in Monitors /\ c' \in BOOLEAN /\ d' \in BOOLEAN /\ hold' \in BOOLEAN
         /\ MonitorOK'
<1>1. c \in BOOLEAN /\ d \in BOOLEAN /\ hold \in BOOLEAN /\ slave \in Monitors
  BY DEF TypeOK
<1>2. LowerClock \/ RaiseClock \/ LowerData \/ RaiseData \/ UNCHANGED wires
  BY DEF PinOp, Perform, DoPin, Poll
<1>3. CASE LowerClock
  <2>1. c' = FALSE /\ d' = d
    BY <1>3 DEF LowerClock
  <2> QED
    BY <1>1, <1>3, <2>1, LowerClockIs
<1>4. CASE RaiseClock
  <2>1. c' = TRUE /\ d' = d /\ hold' = hold
    BY <1>4 DEF RaiseClock
  <2> QED
    BY <1>1, <1>4, <2>1, RaiseClockIs
<1>5. CASE LowerData
  <2>1. d' = FALSE /\ c' = c /\ hold' = hold
    BY <1>5 DEF LowerData
  <2> QED
    BY <1>1, <1>5, <2>1, LowerDataIs
<1>6. CASE RaiseData
  <2>1. d' = TRUE /\ c' = c /\ hold' = hold
    BY <1>6 DEF RaiseData
  <2> QED
    BY <1>1, <1>6, <2>1, RaiseDataIs
<1>7. CASE UNCHANGED wires
  <2>1. c' = c /\ d' = d /\ hold' = hold /\ slave' = slave
    BY <1>7 DEF wires
  <2> QED
    BY <1>1, <2>1 DEF MonitorOK, Clock, Listening, Talking
<1> QED
  BY <1>2, <1>3, <1>4, <1>5, <1>6, <1>7

LEMMA PinType ==
  ASSUME TypeOK, MonitorOK, PinOp
  PROVE  TypeOK'
<1>1. got \in Seq(BOOLEAN) /\ failed \in BOOLEAN /\ late \in BOOLEAN /\ Data \in BOOLEAN
  BY DEF TypeOK, Monitors, Data
<1>2. PICK o : Perform(o)
  BY DEF PinOp
<1>3. got' \in Seq(BOOLEAN)
  BY <1>1, <1>2, Grown DEF Perform
<1>4. failed' \in BOOLEAN /\ late' \in BOOLEAN
  BY <1>1, <1>2 DEF Perform
<1>5. UNCHANGED <<call, stage, rec, ret>>
  BY DEF PinOp
<1> QED
  BY <1>3, <1>4, <1>5, PinWires DEF TypeOK

LEMMA PinStages ==
  ASSUME TypeOK, PlaceOK, PinOp
  PROVE  Bytes \/ stage \in {"start", "restart"} \/ stage \in {"stop", "recover"}
BY DEF TypeOK, Stages, PlaceOK, PinOp, Done, Bytes, Sending, Receiving

LEMMA PinPlace ==
  ASSUME TypeOK, MonitorOK, PlaceOK, CallOK, PinOp
  PROVE  PlaceOK' /\ ClockLow' /\ CallOK'
<1>1. /\ Bits \in Nat /\ Bits > 1 /\ Same /\ op \in 1..5 /\ stage' = stage /\ ~failed
      /\ stage \notin Resting
  BY SizesAssumption DEF PinOp, Same, PlaceOK, Done
<1>2. Routines' = Routines /\ Sending' = Sending /\ Receiving' = Receiving
  BY <1>1, SameIs DEF Routines
<1>3. CASE Bytes
  <2>1. /\ bit \in 1 .. Bits + 1 /\ Routines = Bits + 1 /\ stage # "start"
        /\ op = 1 => LowerClock /\ Quiet /\ Then(2)
        /\ op = 2 => Quiet /\ Then(3)
        /\ op = 3 => Quiet /\ Then(4)
        /\ op = 4 => Then(5) \/ (bit' = 0 /\ op' = 1)
        /\ op = 4 /\ failed' => bit' = 0
        /\ op = 5 => Quiet /\ op' = 1 /\ bit' = IF bit <= Bits THEN bit + 1 ELSE 0
    BY <1>3, BytePin DEF Routines, Bytes, Sending, Receiving, Samples, Polls
  <2>2. bit' \in 0 .. Bits + 1 /\ op' \in 1..5 /\ (bit' = 0 => op' = 1) /\ (failed' => bit' = 0)
    BY <1>1, <2>1 DEF Quiet, Then
  <2>3. op' = 2 => LowerClock
    BY <1>1, <2>1 DEF Then
  <2>4. PlaceOK'
    BY <1>1, <1>2, <2>1, <2>2 DEF PlaceOK
  <2>5. ClockLow'
    BY <2>3, LowerClockIs DEF ClockLow
  <2> QED
    BY <1>1, <2>4, <2>5 DEF CallOK, Same
<1>4. CASE stage \in {"start", "restart"}
  <2>1. ~Bytes /\ bit \in 1 .. Routines /\ Routines \in {1, 2} /\ (stage = "start" => Routines = 2)
    BY <1>4 DEF PlaceOK, PinOp, Done, Routines, Bytes, Sending, Receiving
  <2>2. /\ bit' \in 0 .. Routines /\ op' \in 1..5 /\ (bit' = 0 => op' = 1)
        /\ (failed' => bit' = 0) /\ (stage = "start" /\ bit' = 1 => op' <= 2)
    <3>1. CASE stage = "start" /\ bit = 1
      <4>1. Then(2) \/ (op' = 1 /\ bit' = 2)
        BY <1>4, <3>1, StartPin
      <4>2. ~failed'
        BY <1>4, <3>1, StartPin DEF Quiet
      <4> QED
        BY <2>1, <3>1, <4>1, <4>2 DEF Then
    <3>2. CASE ~(stage = "start" /\ bit = 1)
      <4>1. Starts /\ bit = Routines
        BY <1>4, <3>2, StartPin
      <4> QED
        BY <1>1, <2>1, <3>2, <4>1 DEF Starts, Quiet, Polls, Then
    <3> QED
      BY <3>1, <3>2
  <2>3. PlaceOK'
    BY <1>1, <1>2, <2>2 DEF PlaceOK
  <2>4. ClockLow'
    BY <1>2, <2>1 DEF ClockLow, Bytes
  <2> QED
    BY <1>1, <2>3, <2>4 DEF CallOK, Same
<1>5. CASE stage \in {"stop", "recover"}
  <2>1. ~Bytes /\ Routines = 1 /\ bit = 1
    BY <1>5, StopPin DEF Routines, Bytes, Sending, Receiving
  <2>2. bit' \in 0 .. Routines /\ op' \in 1..5 /\ (bit' = 0 => op' = 1) /\ (failed' => bit' = 0)
    BY <1>1, <1>5, <2>1, StopPin DEF Quiet, Then, Polls
  <2>3. PlaceOK'
    BY <1>1, <1>2, <1>5, <2>2 DEF PlaceOK
  <2>4. ClockLow'
    BY <1>2, <2>1 DEF ClockLow, Bytes
  <2> QED
    BY <1>1, <2>3, <2>4 DEF CallOK, Same
<1> QED
  BY <1>3, <1>4, <1>5, PinStages
-----------------------------------------------------------------------------
(* A stop of ErrorRecovery: it takes the monitor one bit on.               *)
LEMMA FellKeepsRecv ==
  ASSUME Fell, TypeOK, slave.mode # "addr"
  PROVE  slave'.mode # "addr"
<1>1. /\ slave.mode \in {"idle", "recv", "send"} /\ Bits \in Nat /\ slave.k \in 0 .. Bits + 1
  BY SizesAssumption DEF TypeOK, Monitors
<1> QED
  BY <1>1, AsleepType DEF Fell, Listening, Talking

LEMMA StuckFalls ==
  ASSUME Fell, TypeOK, MonitorOK, Clock, ~slave.sda, rec.stops > 1, StillStuck, rec' = rec
  PROVE  Fallen'
<1>1. Bits \in Nat /\ slave.k \in 0 .. Bits + 1
  BY SizesAssumption DEF TypeOK, Monitors
<1>2. CASE Talking /\ rec.stops <= slave.k + 1
  <2>1. slave.k <= Bits
    BY <1>1, <1>2 DEF MonitorOK
  <2>2. slave'.mode = "send" /\ slave'.k = slave.k
    BY <1>2, <2>1 DEF Fell
  <2> QED
    BY <1>2, <2>2 DEF Fallen, Talking
<1>3. CASE slave.mode = "recv" /\ slave.k = Bits + 1
  <2>1. slave'.mode = "recv" /\ slave'.k = 0
    BY <1>1, <1>3 DEF Fell, Listening
  <2> QED
    BY <2>1 DEF Fallen, Talking
<1> QED
  BY <1>2, <1>3 DEF StillStuck

LEMMA FallenRises ==
  ASSUME Rose, TypeOK, slave.mode # "addr", rec.stops \in Nat, rec.stops > 0, Fallen, rec' = rec
  PROVE  Risen' /\ slave'.mode # "addr"
<1>1. /\ slave.mode \in {"idle", "recv", "send"} /\ Bits \in Nat /\ Bits > 1
      /\ slave.k \in 0 .. Bits + 1
  BY SizesAssumption DEF TypeOK, Monitors
<1>2. CASE slave' = Asleep
  BY <1>2, AsleepType DEF Risen, Talking
<1>3. CASE slave.mode = "recv"
  <2>1. slave'.mode = "recv" /\ slave'.k = slave.k + 1
    BY <1>3 DEF Rose, Listening
  <2> QED
    BY <1>1, <1>3, <2>1 DEF Risen, Fallen, Talking
<1>4. CASE slave.mode = "send" /\ slave' # Asleep
  <2>1. slave'.mode = "send" /\ slave'.k = slave.k + 1
    BY <1>4 DEF Rose, Talking
  <2> QED
    BY <1>1, <1>4, <2>1 DEF Risen, Fallen, Talking
<1> QED
  BY <1>1, <1>2, <1>3, <1>4 DEF Rose

LEMMA WiresSame ==
  ASSUME slave' = slave, rec' = rec
  PROVE  Fallen' = Fallen /\ Risen' = Risen /\ Stuck' = Stuck
BY DEF Fallen, Risen, Stuck, Talking

LEMMA PinFrees ==
  ASSUME TypeOK, MonitorOK, PlaceOK, Freeing, PinOp
  PROVE  Freeing'
<1> SUFFICES ASSUME rec'.sure, stage' = "recover", ~failed'
             PROVE  Freeing'
  BY DEF Freeing
<1>1. rec' = rec /\ stage' = stage /\ rec.stops \in Nat
  BY DEF PinOp, TypeOK
<1>2. /\ bit = 1 /\ op \in 1..5 /\ ~failed
      /\ op = 1 => LowerClock /\ Quiet /\ Then(2)
      /\ op = 2 => LowerData /\ Quiet /\ Then(3)
      /\ op = 3 => RaiseClock /\ Quiet /\ Then(4)
      /\ op = 4 => Polls(5)
      /\ op = 5 => RaiseData /\ Quiet /\ op' = 1 /\ bit' = 0
  BY <1>1, StopPin DEF PlaceOK
<1>3. /\ slave.mode # "addr" /\ rec.stops > 0
      /\ op = 1 /\ rec.stops > 1 => Clock /\ ~slave.sda /\ StillStuck
      /\ op \in {2, 3} => ~c /\ Fallen
      /\ op >= 3 => ~d
      /\ op = 4 => c /\ IF hold THEN Fallen ELSE Risen
      /\ op = 5 => Clock /\ Risen
  BY <1>1, <1>2 DEF Freeing
<1>4. CASE op = 1
  <2>1. LowerClock /\ bit' = 1 /\ op' = 2
    BY <1>2, <1>4 DEF Then
  <2>2. ~c' /\ IF Clock THEN Fell ELSE slave' = slave
    BY <2>1, LowerClockIs
  <2>3. slave'.mode # "addr"
    BY <1>3, <2>2, FellKeepsRecv
  <2>4. Fallen'
    <3>1. CASE rec.stops > 1
      BY <1>1, <1>3, <1>4, <2>2, <3>1, StuckFalls
    <3>2. CASE ~(rec.stops > 1)
      <4>1. rec'.stops = 1
        BY <1>1, <1>3, <3>2
      <4>2. slave' \in Monitors
        BY <2>1, LowerClockIs
      <4> QED
        BY <4>1, <4>2, SizesAssumption DEF Fallen, Monitors
    <3> QED
      BY <3>1, <3>2
  <2> QED
    BY <1>1, <1>3, <2>1, <2>2, <2>3, <2>4 DEF Freeing
<1>5. CASE op = 2
  <2>1. LowerData /\ bit' = 1 /\ op' = 3 /\ ~Clock /\ ~c
    BY <1>2, <1>3, <1>5 DEF Then, Clock
  <2>2. slave' = slave /\ ~c' /\ ~d'
    BY <2>1, LowerDataIs
  <2> QED
    BY <1>1, <1>3, <1>5, <2>1, <2>2, WiresSame DEF Freeing
<1>6. CASE op = 3
  <2>1. RaiseClock /\ bit' = 1 /\ op' = 4 /\ ~c /\ ~d /\ Fallen
    BY <1>2, <1>3, <1>6 DEF Then
  <2>2. c' /\ ~d' /\ hold' = hold /\ IF hold THEN slave' = slave ELSE Rose
    BY <2>1, RaiseClockIs
  <2>3. CASE hold
    BY <1>1, <1>3, <2>1, <2>2, <2>3, WiresSame DEF Freeing
  <2>4. CASE ~hold
    <3>1. Risen' /\ slave'.mode # "addr"
      BY <1>1, <1>3, <2>1, <2>2, <2>4, FallenRises
    <3> QED
      BY <1>1, <1>3, <2>1, <2>2, <2>4, <3>1 DEF Freeing
  <2> QED
    BY <2>3, <2>4
<1>7. CASE op = 4
  <2>1. Waits /\ Clock /\ bit' = 1 /\ op' = 5
    BY <1>2, <1>7 DEF Polls, Then
  <2>2. slave' = slave /\ Clock' = Clock /\ d' = d /\ ~d /\ Risen
    BY <1>3, <1>7, <2>1 DEF Waits, wires, Clock
  <2> QED
    BY <1>1, <1>3, <2>1, <2>2, WiresSame DEF Freeing
<1>8. CASE op = 5
  <2>1. RaiseData /\ bit' = 0 /\ Clock /\ Risen /\ ~d
    BY <1>2, <1>3, <1>8
  <2>2. d' /\ Clock' /\ slave' = IF slave.sda THEN Asleep ELSE slave
    BY <2>1, RaiseDataIs DEF Clock
  <2>3. slave'.mode # "addr"
    BY <1>3, <2>2, AsleepType
  <2>4. Stuck'
    <3>1. CASE slave.sda
      BY <2>2, <3>1, AsleepType DEF Stuck
    <3>2. CASE ~slave.sda
      <4>1. slave.mode \in {"recv", "send"} /\ slave.k \in 0 .. Bits + 1 /\ Bits \in Nat
        BY <1>3, <3>2, AsleepType, SizesAssumption DEF TypeOK, Monitors, MonitorOK
      <4>2. slave.mode = "recv" => slave.k = Bits + 1
        BY <2>1, <3>2, <4>1 DEF MonitorOK, Listening
      <4>3. Stuck
        BY <2>1, <4>1, <4>2 DEF Risen, Stuck, Talking
      <4> QED
        BY <1>1, <2>2, <3>2, <4>3, WiresSame
    <3> QED
      BY <3>1, <3>2
  <2> QED
    BY <1>1, <1>3, <2>1, <2>2, <2>3, <2>4 DEF Freeing
<1> QED
  BY <1>2, <1>4, <1>5, <1>6, <1>7, <1>8
-----------------------------------------------------------------------------
LEMMA PinStep ==
  ASSUME IInv, PinOp
  PROVE  IInv'
<1>1. /\ TypeOK /\ MonitorOK /\ PlaceOK /\ ClockLow /\ CallOK /\ InStep /\ Freeing /\ Freed
      /\ Same /\ UNCHANGED <<call, stage, rec, ret>> /\ bit # 0
      /\ stage \notin Resting
  BY DEF IInv, PinOp, Same, Done, PlaceOK
<1>2. TypeOK' /\ MonitorOK' /\ PlaceOK' /\ ClockLow' /\ CallOK' /\ Freeing'
  BY <1>1, PinWires, PinType, PinPlace, PinFrees
<1>3. Freed'
  BY <1>1 DEF Freed
<1>4. InStep'
  <2> SUFFICES ASSUME ~late'
               PROVE  InStep'
    BY DEF InStep
  <2>1. ~late
    BY <1>1 DEF PinOp, Perform, TypeOK
  <2>2. Sending' = Sending /\ Receiving' = Receiving
    BY <1>1, SameIs
  <2>3. CASE Sending
    <3>1. InSend' /\ ~failed'
      BY <1>1, <2>1, <2>3, SendStep DEF InStep
    <3> QED
      BY <1>1, <2>1, <2>2, <2>3, <3>1 DEF InStep, Sending, Receiving
  <2>4. CASE Receiving
    <3>1. InReceive' /\ ~failed'
      BY <1>1, <2>1, <2>4, ReceiveStep DEF InStep
    <3> QED
      BY <1>1, <2>1, <2>2, <2>4, <3>1 DEF InStep, Sending, Receiving
  <2>5. CASE stage = "start"
    <3>1. InStart' /\ ~failed'
      BY <1>1, <2>1, <2>5, StartStep DEF InStep
    <3> QED
      BY <1>1, <2>1, <2>2, <2>5, <3>1 DEF InStep, Sending, Receiving
  <2>6. CASE stage = "restart"
    <3>1. InRestart' /\ ~failed'
      BY <1>1, <2>1, <2>6, RestartStep DEF InStep
    <3> QED
      BY <1>1, <2>1, <2>2, <2>6, <3>1 DEF InStep, Sending, Receiving
  <2>7. CASE stage = "stop"
    <3>1. InStop' /\ ~failed'
      BY <1>1, <2>1, <2>7, StopStep DEF InStep
    <3> QED
      BY <1>1, <2>1, <2>2, <2>7, <3>1 DEF InStep, Sending, Receiving
  <2>8. CASE stage = "recover"
    <3>1. InRecover' /\ ~failed'
      BY <1>1, <2>1, <2>8, RecoverStep DEF InStep
    <3> QED
      BY <1>1, <2>1, <2>2, <2>8, <3>1 DEF InStep, Sending, Receiving
  <2> QED
    BY <1>1, <2>3, <2>4, <2>5, <2>6, <2>7, <2>8, PinStages DEF Bytes
<1> QED
  BY <1>2, <1>3, <1>4 DEF IInv

(* The monitor lets go of the clock: the edge the driver has been waiting  *)
(* for, or none when the driver holds it too.                              *)
LEMMA ReleaseFrees ==
  ASSUME TypeOK, MonitorOK, Freeing, Release
  PROVE  Freeing'
<1> SUFFICES ASSUME rec'.sure, stage' = "recover", ~failed'
             PROVE  Freeing'
  BY DEF Freeing
<1>1. UNCHANGED <<stage, rec, failed, bit, op>> /\ rec.stops \in Nat /\ ~Clock
  BY DEF Release, TypeOK, Clock
<1>2. /\ slave.mode # "addr" /\ ~(bit = 0 /\ rec.stops > 0)
      /\ bit = 1 => /\ rec.stops > 0 /\ ~(op = 1 /\ rec.stops > 1)
                    /\ op \in {2, 3} => ~c /\ Fallen
                    /\ op >= 3 => ~d
                    /\ op = 4 => c /\ (hold => Fallen)
                    /\ op # 5
  BY <1>1 DEF Freeing
<1>3. hold /\ ~hold' /\ c' = c /\ d' = d /\ IF c THEN Rose ELSE slave' = slave
  BY ReleaseIs
<1>4. CASE c
  <2>1. slave'.mode # "addr"
    <3>1. slave.mode \in {"idle", "recv", "send"}
      BY <1>2 DEF TypeOK, Monitors
    <3> QED
      BY <1>3, <1>4, <3>1, AsleepType DEF Rose, Listening, Talking
  <2>2. bit = 1 /\ op = 4 => Risen'
    BY <1>1, <1>2, <1>3, <1>4, FallenRises
  <2> QED
    BY <1>1, <1>2, <1>3, <1>4, <2>1, <2>2 DEF Freeing
<1>5. CASE ~c
  BY <1>1, <1>2, <1>3, <1>5, WiresSame DEF Freeing
<1> QED
  BY <1>4, <1>5

LEMMA ReleaseSend ==
  ASSUME TypeOK, MonitorOK, PlaceOK, InSend, Release
  PROVE  InSend'
<1>1. /\ UNCHANGED <<bit, op, got>> /\ Same /\ ~Clock /\ Bits \in Nat /\ Bits > 1
  BY SizesAssumption DEF Release, Clock, Same
<1>2. /\ hold /\ ~hold' /\ c' = c /\ d' = d /\ slave' \in Monitors
      /\ IF c THEN Rose ELSE slave' = slave
  BY ReleaseIs
<1>3. Byte' = Byte /\ Crossed' = Crossed /\ Taker' = Taker
  BY <1>1, SameIs
<1>4. slave' = slave => /\ Follows' = Follows /\ Refused' = Refused /\ Turned' = Turned
                        /\ Told' = Told
  BY <1>1, <1>3, FollowsSame DEF Turned, Told
<1>5. ASSUME bit \in 1..Bits
      PROVE  OnBit'
  <2>1. OnBit /\ op # 5
    BY <1>1, <1>5 DEF InSend, OnBit
  <2>2. CASE op = 4 /\ c
    <3>1. Follows /\ slave.k = bit - 1 /\ d = Byte[bit]
      BY <1>2, <2>1, <2>2 DEF OnBit
    <3>2. slave.k < Bits /\ d = Byte[slave.k + 1] /\ slave.k + 1 = bit
      BY <1>1, <1>5, <3>1
    <3>3. Follows' /\ slave'.k = bit
      BY <1>1, <1>2, <2>2, <3>1, <3>2, FollowsRises
    <3> QED
      BY <1>1, <1>2, <1>3, <2>1, <2>2, <3>3 DEF OnBit
  <2>3. CASE ~c
    BY <1>1, <1>2, <1>3, <1>4, <2>1, <2>3 DEF OnBit
  <2>4. CASE c /\ op # 4
    <3>1. op \notin 1..5
      BY <2>1, <2>4 DEF OnBit
    <3> QED
      BY <3>1 DEF PlaceOK
  <2> QED
    BY <2>2, <2>3, <2>4
<1>6. ASSUME bit = Bits + 1
      PROVE  OnAck'
  <2>1. OnAck /\ op # 5
    BY <1>1, <1>6 DEF InSend, OnAck
  <2>2. CASE op = 4 /\ c
    <3>1. ((Follows /\ slave.k = Bits) \/ Refused) /\ d = TRUE
      BY <1>2, <2>1, <2>2 DEF OnAck
    <3>2. (Follows' /\ slave'.k = Bits + 1) \/ Refused'
      BY <1>1, <1>2, <2>2, <3>1, AckRises
    <3>3. Follows' => ~Refused'
      BY AsleepType DEF Follows, Refused, Talking, Taker
    <3> QED
      BY <1>1, <1>2, <2>1, <2>2, <3>2, <3>3 DEF OnAck
  <2>3. CASE ~c
    BY <1>1, <1>2, <1>4, <2>1, <2>3 DEF OnAck
  <2>4. CASE c /\ op # 4
    <3>1. op \notin 1..5
      BY <2>1, <2>4 DEF OnAck
    <3> QED
      BY <3>1 DEF PlaceOK
  <2> QED
    BY <2>2, <2>3, <2>4
<1>7. ASSUME bit = 0
      PROVE  ~c' /\ Told'
  BY <1>1, <1>2, <1>4, <1>7 DEF InSend
<1> QED
  BY <1>1, <1>5, <1>6, <1>7 DEF InSend

LEMMA ReleaseReceive ==
  ASSUME TypeOK, MonitorOK, PlaceOK, InReceive, Release
  PROVE  InReceive'
<1>1. /\ UNCHANGED <<bit, op, got>> /\ Same /\ ~Clock /\ Bits \in Nat /\ Bits > 1
  BY SizesAssumption DEF Release, Clock, Same
<1>2. /\ hold /\ ~hold' /\ c' = c /\ d' = d /\ slave' \in Monitors
      /\ IF c THEN Rose ELSE slave' = slave
  BY ReleaseIs
<1>3. Last' = Last /\ Last \in BOOLEAN
  BY <1>1, SameIs DEF Last
<1>4. slave' = slave => Sampled' = Sampled /\ Refused' = Refused /\ Talking' = Talking
  BY <1>1, SampledSame
<1>5. ASSUME bit \in 1..Bits
      PROVE  OnSample'
  <2>1. OnSample /\ op # 5
    BY <1>1, <1>5 DEF InReceive, OnSample
  <2>2. CASE op = 4 /\ c
    <3>1. Sampled /\ slave.k = bit - 1 /\ slave.k < Bits
      BY <1>1, <1>2, <1>5, <2>1, <2>2 DEF OnSample
    <3>2. Sampled' /\ slave'.k = bit
      BY <1>1, <1>2, <1>5, <2>2, <3>1, SampledRises
    <3> QED
      BY <1>1, <1>2, <2>1, <2>2, <3>2 DEF OnSample
  <2>3. CASE ~c
    BY <1>1, <1>2, <1>4, <2>1, <2>3 DEF OnSample
  <2>4. CASE c /\ op # 4
    <3>1. op \notin 1..5
      BY <2>1, <2>4 DEF OnSample
    <3> QED
      BY <3>1 DEF PlaceOK
  <2> QED
    BY <2>2, <2>3, <2>4
<1>6. ASSUME bit = Bits + 1
      PROVE  OnOwnAck'
  <2>1. OnOwnAck /\ op # 5
    BY <1>1, <1>2, <1>6 DEF InReceive, OnOwnAck
  <2>2. CASE op = 4 /\ c
    <3>1. Talking /\ slave.k = Bits /\ d = Last
      BY <1>2, <2>1, <2>2 DEF OnOwnAck
    <3>2. slave.sda
      BY <1>1, <3>1 DEF MonitorOK
    <3>3. Data = Last
      BY <1>3, <3>1, <3>2, Zenon DEF Data
    <3>4. IF Last THEN Refused' ELSE Talking' /\ slave'.k = Bits + 1
      BY <1>2, <1>3, <2>2, <3>1, <3>3 DEF Rose, Refused, Talking
    <3> QED
      BY <1>1, <1>2, <1>3, <2>1, <2>2, <3>4 DEF OnOwnAck
  <2>3. CASE ~c
    <3>1. op <= 3
      BY <2>1, <2>3 DEF OnOwnAck, PlaceOK
    <3> QED
      BY <1>1, <1>2, <1>3, <1>4, <2>1, <2>3, <3>1 DEF OnOwnAck
  <2>4. CASE c /\ op # 4
    <3>1. op \notin 1..5
      BY <2>1, <2>4 DEF OnOwnAck
    <3> QED
      BY <3>1 DEF PlaceOK
  <2> QED
    BY <2>2, <2>3, <2>4
<1>7. ASSUME bit = 0
      PROVE  ~c' /\ IF Last' THEN Refused' ELSE Talking' /\ slave'.k = 0
  BY <1>1, <1>2, <1>3, <1>4, <1>7 DEF InReceive
<1> QED
  BY <1>1, <1>5, <1>6, <1>7 DEF InReceive

LEMMA ReleaseStep ==
  ASSUME IInv, Release
  PROVE  IInv'
<1>1. /\ TypeOK /\ MonitorOK /\ PlaceOK /\ ClockLow /\ CallOK /\ InStep /\ Freeing /\ Freed
      /\ UNCHANGED <<d, late, call, stage, bit, op, failed, got, rec, ret>> /\ Same
      /\ ~Clock /\ hold /\ op \in 1..5
  BY DEF IInv, Release, Clock, Same, PlaceOK
<1>2. /\ slave' \in Monitors /\ ~hold' /\ c' = c /\ MonitorOK'
      /\ IF c THEN Rose ELSE slave' = slave
  BY <1>1, ReleaseIs
<1>3. TypeOK'
  <2>1. hold' = FALSE /\ c' = c
    BY DEF Release
  <2> QED
    BY <1>1, <1>2, <2>1 DEF TypeOK
<1>4. Sending' = Sending /\ Receiving' = Receiving /\ Routines' = Routines
  BY <1>1, SameIs DEF Routines
<1>5. PlaceOK' /\ ClockLow' /\ CallOK'
  <2>1. PlaceOK'
    BY <1>1, <1>4 DEF PlaceOK
  <2>2. ClockLow'
    BY <1>1, <1>2, <1>4 DEF ClockLow
  <2>3. CallOK'
    BY <1>1 DEF CallOK
  <2> QED
    BY <2>1, <2>2, <2>3
<1>6. Freeing'
  BY <1>1, ReleaseFrees
<1>7. Freed'
  BY <1>1 DEF Freed
<1>8. ~Refused /\ ~Idle
  BY <1>1, AsleepType DEF Refused, Idle, MonitorOK
<1>9. InStep'
  <2> SUFFICES ASSUME ~late
               PROVE  InStep'
    BY <1>1 DEF InStep
  <2>1. Sending => InSend'
    BY <1>1, ReleaseSend DEF InStep
  <2>2. Receiving => InReceive'
    BY <1>1, ReleaseReceive DEF InStep
  <2>3. ASSUME stage = "start" PROVE InStart'
    <3>1. bit \in 0..2
      BY <1>1, <2>3 DEF PlaceOK, Routines, Sending, Receiving
    <3>2. bit = 0 /\ ~c /\ slave = Addressed
      BY <1>1, <1>8, <2>3, <3>1 DEF InStep, InStart
    <3> QED
      BY <1>1, <1>2, <3>2 DEF InStart
  <2>4. ASSUME stage = "restart" PROVE InRestart'
    <3>1. bit \in 0..1 /\ InRestart
      BY <1>1, <2>4 DEF PlaceOK, Routines, Sending, Receiving, InStep
    <3>2. CASE ~c
      BY <1>1, <1>2, <3>1, <3>2 DEF InRestart, Ready
    <3>3. CASE c
      <4>1. bit = 1 /\ op = 3 /\ Ready /\ d
        BY <1>1, <3>1, <3>3 DEF InRestart
      <4>2. slave'.mode = "recv" /\ slave'.k = 1
        BY <1>2, <3>3, <4>1 DEF Rose, Ready, Listening
      <4> QED
        BY <1>1, <1>2, <3>3, <4>1, <4>2 DEF InRestart
    <3> QED
      BY <3>2, <3>3
  <2>5. ASSUME stage = "stop" PROVE InStop'
    <3>1. bit \in 0..1 /\ InStop
      BY <1>1, <2>5 DEF PlaceOK, Routines, Sending, Receiving, InStep
    <3>2. CASE ~c
      BY <1>1, <1>2, <1>8, <3>1, <3>2 DEF InStop, Ready
    <3>3. CASE c
      <4>1. bit = 1 /\ op = 4 /\ Ready /\ ~d
        BY <1>1, <1>8, <3>1, <3>3 DEF InStop
      <4>2. slave'.mode = "recv" /\ slave'.k = 1
        BY <1>2, <3>3, <4>1 DEF Rose, Ready, Listening
      <4> QED
        BY <1>1, <1>2, <3>3, <4>1, <4>2 DEF InStop
    <3> QED
      BY <3>2, <3>3
  <2>6. stage \notin {"recover"} \cup Resting
    BY <1>1, <1>8 DEF InStep, InRecover
  <2> QED
    BY <1>1, <1>4, <2>1, <2>2, <2>3, <2>4, <2>5, <2>6 DEF InStep
<1> QED
  BY <1>2, <1>3, <1>5, <1>6, <1>7, <1>9 DEF IInv
-----------------------------------------------------------------------------
(* From one stage to the next: the lines stay as they are.                 *)
LEMMA WiresKept ==
  ASSUME UNCHANGED wires
  PROVE  /\ c' = c /\ d' = d /\ hold' = hold /\ slave' = slave /\ Clock' = Clock /\ Data' = Data
         /\ Idle' = Idle /\ Refused' = Refused /\ Ready' = Ready /\ Talking' = Talking
         /\ MonitorOK' = MonitorOK
<1>1. c' = c /\ d' = d /\ hold' = hold /\ slave' = slave
  BY DEF wires
<1>2. Clock' = Clock /\ Data' = Data /\ Refused' = Refused /\ Ready' = Ready /\ Talking' = Talking
      /\ Listening' = Listening
  BY <1>1 DEF Clock, Data, Refused, Ready, Talking, Listening
<1>3. Idle' = Idle
  BY <1>2 DEF Idle
<1>4. MonitorOK' = MonitorOK
  BY <1>1, <1>2 DEF MonitorOK
<1> QED
  BY <1>1, <1>2, <1>3, <1>4

Recoverings == [stops : Nat, sure : BOOLEAN]
LEMMA Moves ==
  ASSUME TypeOK, MonitorOK, UNCHANGED wires, late' \in BOOLEAN,
         NEW st \in Stages, NEW b \in {0, 1}, Begins(st, b),
         st \in Resting => b = 0,
         call' \in Calls, rec' \in Recoverings, ret' \in BOOLEAN
  PROVE  TypeOK' /\ MonitorOK' /\ PlaceOK' /\ ClockLow'
<1>1. stage' = st /\ bit' = b /\ op' = 1 /\ failed' = FALSE /\ got' = <<>>
  BY DEF Begins
<1>2. TypeOK'
  BY <1>1, WiresKept, EmptySeq DEF TypeOK, Recoverings
<1>3. MonitorOK'
  BY WiresKept
<1>4. Routines' \in Nat /\ Routines' >= 1
  BY SizesAssumption DEF Routines
<1>5. PlaceOK'
  BY <1>1, <1>4 DEF PlaceOK
<1>6. ClockLow'
  BY <1>1 DEF ClockLow
<1> QED
  BY <1>2, <1>3, <1>5, <1>6

LEMMA EntersSend ==
  ASSUME \/ Goto("addr") \/ Goto("sub") \/ Goto("addr2") \/ (Goto("block") /\ ~call'.read),
         ~c', slave'.k = 0, IF Crossed' THEN Talking' ELSE slave'.mode = Taker',
         call'.kind = "ddcci" => ret'
  PROVE  InStep'
<1>1. Bits \in Nat /\ Bits > 1
  BY SizesAssumption
<1>2. Follows'
  BY <1>1 DEF Follows
<1>3. /\ stage' \in {"addr", "sub", "addr2"} \/ (stage' = "block" /\ ~call'.read)
      /\ bit' = 1 /\ op' = 1 /\ ~failed' /\ got' = <<>>
  BY DEF Goto, Begins
<1>4. OnBit'
  BY <1>2, <1>3 DEF OnBit
<1>5. InSend' /\ ~Receiving'
  BY <1>1, <1>3, <1>4 DEF InSend, Receiving
<1> QED
  BY <1>3, <1>5 DEF InStep

LEMMA EntersReceive ==
  ASSUME Goto("block"), call'.read, ~c', slave'.k = 0, Talking',
         call'.kind = "ddcci" => ret'
  PROVE  InStep'
<1>1. Bits \in Nat /\ Bits > 1
  BY SizesAssumption
<1>2. stage' = "block" /\ bit' = 1 /\ op' = 1 /\ ~failed' /\ got' = <<>> /\ Len(got') = 0
  BY DEF Goto, Begins
<1>3. Sampled'
  BY <1>1, <1>2 DEF Sampled
<1>4. OnSample'
  BY <1>2, <1>3 DEF OnSample
<1>5. InReceive' /\ ~Sending'
  BY <1>1, <1>2, <1>4 DEF InReceive, Sending
<1> QED
  BY <1>2, <1>5 DEF InStep

LEMMA EntersOther ==
  ASSUME stage' \notin Waiting /\ call'.kind = "ddcci" => ret',
         \/ Goto("start") /\ Idle'
         \/ Goto("restart") /\ ~c' /\ Ready'
         \/ Goto("stop") /\ ~c' /\ (Refused' \/ Ready')
         \/ Enter("recover") /\ rec'.stops = 0 /\ ~c' /\ Refused'
         \/ Goto("recover") /\ rec'.stops > 0 /\ ~c' /\ Refused'
         \/ (\E st \in Resting : Enter(st)) /\ Idle'
  PROVE  InStep'
<1> USE DEF InStep, Sending, Receiving, Goto, Enter, Begins
<1>1. CASE Goto("start") /\ Idle'
  BY <1>1 DEF InStart
<1>2. CASE Goto("restart") /\ ~c' /\ Ready'
  BY <1>2 DEF InRestart
<1>3. CASE Goto("stop") /\ ~c' /\ (Refused' \/ Ready')
  BY <1>3 DEF InStop
<1>4. CASE Enter("recover") /\ rec'.stops = 0 /\ ~c' /\ Refused'
  BY <1>4 DEF InRecover
<1>5. CASE Goto("recover") /\ rec'.stops > 0 /\ ~c' /\ Refused'
  BY <1>5 DEF InRecover
<1>6. CASE (\E st \in Resting : Enter(st)) /\ Idle'
  BY <1>6
<1> QED
  BY <1>1, <1>2, <1>3, <1>4, <1>5, <1>6

(* The address says who drives the next byte.                              *)
LEMMA ToldIs ==
  ASSUME TypeOK, Sending, Told, got = <<FALSE>>
  PROVE  /\ ~Crossed /\ slave.k = 0
         /\ stage = "addr" => slave.mode = IF call.read /\ ~call.comb THEN "send" ELSE "recv"
         /\ stage = "addr2" => slave.mode = IF call.read THEN "send" ELSE "recv"
         /\ stage \in {"sub", "block"} => slave.mode = "recv"
<1>1. ~Crossed /\ Turned
  <2>1. <<FALSE>>[1] # <<TRUE>>[1]
    OBVIOUS
  <2> QED
    BY <2>1 DEF Told
<1>2. \A r \in BOOLEAN : Address(r)[Bits] = r
  BY SizesAssumption DEF Address
<1>3. call.read \in BOOLEAN /\ call.comb \in BOOLEAN
  BY DEF TypeOK, Calls
<1>4. CASE stage = "addr"
  <2>1. Byte[Bits] = (call.read /\ ~call.comb) /\ Taker = "addr"
    BY <1>2, <1>3, <1>4 DEF Byte, Taker
  <2> QED
    BY <1>1, <1>4, <2>1 DEF Turned
<1>5. CASE stage = "addr2"
  <2>1. Byte[Bits] = call.read /\ Taker = "addr"
    BY <1>2, <1>3, <1>5 DEF Byte, Taker
  <2> QED
    BY <1>1, <1>5, <2>1 DEF Turned
<1>6. CASE stage \in {"sub", "block"}
  BY <1>1, <1>6 DEF Turned, Taker
<1> QED
  BY <1>4, <1>5, <1>6 DEF Sending

LEMMA NotToldIs ==
  ASSUME Told, got # <<FALSE>>
  PROVE  Refused
BY DEF Told
GoesOn ==
  \/ \E st \in Stages \ Resting : Goto(st)
  \/ \E st \in {"recover"} \cup Resting : Enter(st)

LEMMA Settles ==
  ASSUME TypeOK, MonitorOK, UNCHANGED wires, late' \in BOOLEAN, GoesOn,
         call' \in Calls, rec' \in Recoverings, ret' \in BOOLEAN
  PROVE  TypeOK' /\ MonitorOK' /\ PlaceOK' /\ ClockLow'
<1>1. CASE \E st \in Stages \ Resting : Goto(st)
  <2>1. PICK st \in Stages \ Resting : Begins(st, 1)
    BY <1>1 DEF Goto
  <2> QED
    BY <2>1, Moves
<1>2. CASE \E st \in {"recover"} \cup Resting : Enter(st)
  <2>1. PICK st \in {"recover"} \cup Resting : Begins(st, 0)
    BY <1>2 DEF Enter
  <2>2. st \in Stages
    BY DEF Stages
  <2> QED
    BY <2>1, <2>2, Moves
<1> QED
  BY <1>1, <1>2 DEF GoesOn

LEMMA StaysUnsure ==
  ASSUME Freed, stage \notin {"recover"} \cup Resting, rec' = rec
  PROVE  Freeing' /\ Freed'
BY DEF Freed, Freeing

LEMMA RecoverIs ==
  ASSUME TypeOK, Recover, UNCHANGED wires
  PROVE  /\ Freeing' /\ Freed' /\ rec' \in Recoverings /\ rec'.stops = 0 /\ GoesOn
         /\ ret' = FALSE /\ stage' = "recover"
<1>1. rec' = [stops |-> 0, sure |-> slave.mode # "addr"]
  BY DEF Recover
<1>2. stage' = "recover" /\ bit' = 0 /\ slave' = slave /\ ret' = FALSE /\ GoesOn
  BY WiresKept DEF Recover, Enter, Begins, GoesOn
<1>3. rec' \in Recoverings /\ rec'.stops = 0 /\ (rec'.sure => slave.mode # "addr")
  BY <1>1 DEF Recoverings
<1>4. Freeing'
  BY <1>2, <1>3 DEF Freeing
<1>5. Freed'
  BY <1>2 DEF Freed
<1> QED
  BY <1>2, <1>3, <1>4, <1>5

LEMMA BytesReadIs ==
  ASSUME NEW n \in Nat
  PROVE  BytesRead(n) \in Nat /\ BytesRead(n) > 0
BY SizesAssumption DEF BytesRead

(* A call of RadeonHDDoCommunication, and what it does between transfers.  *)
LEMMA WaitingStep ==
  ASSUME IInv, UNCHANGED pins, UNCHANGED <<call, rec>>, stage \in Resting,
         NEW st \in Waiting, Enter(st), ret' \in BOOLEAN
  PROVE  IInv'
<1>1. /\ TypeOK /\ MonitorOK /\ CallOK /\ InStep
      /\ UNCHANGED wires /\ UNCHANGED <<late, call, rec>> /\ stage' = st
  BY DEF IInv, pins, Enter, Begins
<1>2. TypeOK' /\ MonitorOK' /\ PlaceOK' /\ ClockLow'
  <2>1. late' \in BOOLEAN /\ call' \in Calls /\ rec' \in Recoverings
    BY <1>1 DEF TypeOK, Recoverings
  <2> QED
    BY <1>1, <2>1, Settles DEF GoesOn
<1>3. CallOK' /\ Freeing' /\ Freed'
  BY <1>1 DEF CallOK, Freeing, Freed
<1>4. InStep'
  <2> SUFFICES ASSUME ~late
               PROVE  InStep'
    BY <1>1 DEF InStep
  <2>1. Idle'
    BY <1>1, WiresKept DEF InStep
  <2> QED
    BY <1>1, <2>1, EntersOther
<1> QED
  BY <1>2, <1>3, <1>4 DEF IInv

LEMMA CommunicateStep ==
  ASSUME IInv, Communicate
  PROVE  IInv'
BY WaitingStep DEF Communicate

LEMMA RestsOn ==
  ASSUME IInv, NextOutput \/ Leave \/ GetStuck \/ NoReplyBuffer \/ Return
  PROVE  IInv'
<1>1. ret' = ret /\ ret \in BOOLEAN /\ stage \in Resting /\ UNCHANGED pins
      /\ UNCHANGED <<call, rec>>
  BY DEF IInv, TypeOK, NextOutput, Leave, GetStuck, NoReplyBuffer, Return
<1>2. \E st \in Waiting : Enter(st)
  BY DEF NextOutput, Leave, GetStuck, NoReplyBuffer, Return
<1> QED
  BY <1>1, <1>2, WaitingStep

(* A transfer begins, and addresses the monitor.                           *)
LEMMA TransferStep ==
  ASSUME IInv, stage \in Resting, NEW kind \in {"i2c", "ddcci"}, NEW read \in BOOLEAN,
         kind = "ddcci" => read, Transfer(kind, read)
  PROVE  IInv'
<1>1. /\ TypeOK /\ MonitorOK /\ InStep /\ UNCHANGED wires
      /\ Goto("start") /\ ret' = TRUE
  BY DEF IInv, Transfer
<1>2. PICK sub \in BOOLEAN, comb \in BOOLEAN, size \in 0 .. SizeLimit - 1 :
        /\ kind = "ddcci" => ~sub /\ ~comb
        /\ call' = [kind |-> kind, read |-> read, sub |-> sub, comb |-> comb,
                    head |-> IF kind = "ddcci" THEN 2 ELSE 0,
                    left |-> IF read THEN BytesRead(size) ELSE size]
  BY Zenon DEF Transfer
<1>3. size \in Nat /\ BytesRead(size) \in Nat /\ BytesRead(size) > 0
  BY SizesAssumption, BytesReadIs
<1>4. /\ call'.kind = kind /\ call'.read = read /\ call'.sub = sub /\ call'.comb = comb
      /\ call'.left \in Nat /\ (read => call'.left > 0) /\ call' \in Calls
  BY <1>2, <1>3 DEF Calls
<1>5. rec' \in Recoverings /\ ~rec'.sure
  BY DEF Transfer, Recoverings
<1>6. late' \in BOOLEAN /\ GoesOn /\ stage' = "start"
  BY <1>1 DEF Transfer, GoesOn, Stages, Goto, Begins, TypeOK
<1>7. TypeOK' /\ MonitorOK' /\ PlaceOK' /\ ClockLow'
  BY <1>1, <1>4, <1>5, <1>6, Settles
<1>8. CallOK'
  BY <1>2, <1>4, <1>6 DEF CallOK
<1>9. Freeing' /\ Freed'
  BY <1>5 DEF Freeing, Freed
<1>10. InStep'
  <2> SUFFICES ASSUME ~late'
               PROVE  InStep'
    BY DEF InStep
  <2>1. ~late \/ (Clock /\ Data /\ slave = Asleep)
    BY DEF Transfer
  <2>2. Idle
    BY <1>1, <2>1 DEF InStep, Idle, Refused
  <2>3. Idle'
    BY <1>1, <2>2, WiresKept
  <2> QED
    BY <1>1, <2>3, EntersOther
<1> QED
  BY <1>7, <1>8, <1>9, <1>10 DEF IInv

LEMMA TransfersStep ==
  ASSUME IInv, Send \/ Reply
  PROVE  IInv'
<1>1. CASE Send
  BY <1>1, TransferStep DEF Send
<1>2. CASE Reply
  BY <1>2, TransferStep DEF Reply
<1> QED
  BY <1>1, <1>2

(* The block follows, unless there is nothing to send.                     *)
LEMMA BlockIs ==
  ASSUME TypeOK, Block
  PROVE  (Goto("block") /\ call.left > 0) \/ (Goto("stop") /\ call.left = 0)
BY DEF Block, TypeOK, Calls

LEMMA StartedStep ==
  ASSUME IInv, Started
  PROVE  IInv'
<1>1. /\ TypeOK /\ MonitorOK /\ CallOK /\ InStep /\ Freed /\ stage = "start" /\ bit = 0
      /\ UNCHANGED wires /\ UNCHANGED <<late, call, rec, ret>>
      /\ IF failed THEN Goto("start") \/ Goto("stop") ELSE Goto("addr")
  BY DEF IInv, Started, Done, pins
<1>2. GoesOn /\ stage' \in {"start", "stop", "addr"}
  BY <1>1 DEF GoesOn, Stages, Goto, Begins
<1>3. TypeOK' /\ MonitorOK' /\ PlaceOK' /\ ClockLow'
  <2>1. late' \in BOOLEAN /\ call' \in Calls /\ rec' \in Recoverings /\ ret' \in BOOLEAN
    BY <1>1 DEF TypeOK, Recoverings
  <2> QED
    BY <1>1, <1>2, <2>1, Settles
<1>4. CallOK' /\ Freeing' /\ Freed'
  BY <1>1, <1>2, StaysUnsure DEF CallOK
<1>5. InStep'
  <2> SUFFICES ASSUME ~late
               PROVE  InStep'
    BY <1>1 DEF InStep
  <2>1. Goto("addr") /\ ~c /\ slave = Addressed /\ (call'.kind = "ddcci" => ret')
    BY <1>1 DEF InStep, InStart
  <2>2. ~c' /\ slave' = Addressed
    BY <1>1, <2>1, WiresKept
  <2>3. ~Crossed' /\ Taker' = "addr"
    BY <2>1 DEF Goto, Begins, Crossed, Taker
  <2> QED
    BY <2>1, <2>2, <2>3, AddressedType, EntersSend
<1> QED
  BY <1>3, <1>4, <1>5 DEF IInv

LEMMA AddressSentStep ==
  ASSUME IInv, AddressSent
  PROVE  IInv'
<1>1. /\ TypeOK /\ MonitorOK /\ CallOK /\ InStep /\ Freed /\ stage = "addr" /\ bit = 0
      /\ UNCHANGED wires /\ UNCHANGED <<late, call, rec, ret>>
      /\ \/ Acked /\ call.sub /\ Goto("sub")
         \/ Acked /\ ~call.sub /\ call.comb /\ Goto("restart")
         \/ Acked /\ ~call.sub /\ ~call.comb /\ Block
         \/ ~Acked /\ Goto("stop")
  BY DEF IInv, AddressSent, Addressing, Done, pins
<1>2. /\ GoesOn /\ stage' \in {"sub", "restart", "block", "stop"}
      /\ (stage' = "sub" => call.sub) /\ (stage' = "restart" => call.comb)
      /\ (stage' = "block" => call.left > 0)
  BY <1>1 DEF GoesOn, Stages, Goto, Begins, Block
<1>3. TypeOK' /\ MonitorOK' /\ PlaceOK' /\ ClockLow'
  <2>1. late' \in BOOLEAN /\ call' \in Calls /\ rec' \in Recoverings /\ ret' \in BOOLEAN
    BY <1>1 DEF TypeOK, Recoverings
  <2> QED
    BY <1>1, <1>2, <2>1, Settles
<1>4. CallOK' /\ Freeing' /\ Freed'
  BY <1>1, <1>2, StaysUnsure DEF CallOK
<1>5. InStep'
  <2> SUFFICES ASSUME ~late
               PROVE  InStep'
    BY <1>1 DEF InStep
  <2>1. Sending /\ ~c /\ Told /\ ~failed /\ (call.kind = "ddcci" => ret)
    BY <1>1 DEF InStep, InSend, Sending
  <2>2. ~c' /\ slave' = slave /\ (call'.kind = "ddcci" => ret')
    BY <1>1, <2>1, WiresKept
  <2>3. CASE Acked
    <3>1. slave.k = 0 /\ slave.mode = IF call.read /\ ~call.comb THEN "send" ELSE "recv"
      BY <1>1, <2>1, <2>3, ToldIs DEF Acked
    <3>2. CASE Goto("sub")
      <4>1. (Crossed' <=> call.read /\ ~call.comb) /\ Taker' = "recv"
        BY <1>1, <3>2 DEF Goto, Begins, Crossed, Taker
      <4> QED
        BY <2>2, <3>1, <3>2, <4>1, EntersSend DEF Talking
    <3>3. CASE Goto("restart") /\ call.comb
      BY <2>2, <3>1, <3>3, EntersOther DEF Ready
    <3>4. CASE Goto("block") /\ ~call.comb /\ call.read
      BY <1>1, <2>2, <3>1, <3>4, EntersReceive DEF Talking
    <3>5. CASE Goto("stop") /\ ~call.comb /\ call.left = 0
      <4>1. ~call.read
        BY <1>1, <3>5 DEF CallOK
      <4> QED
        BY <1>1, <2>2, <3>1, <3>5, <4>1, EntersOther DEF Ready
    <3>6. CASE Goto("block") /\ ~call.comb /\ ~call.read
      <4>1. ~Crossed' /\ Taker' = "recv"
        BY <3>6 DEF Goto, Begins, Crossed, Taker
      <4> QED
        BY <1>1, <2>2, <3>1, <3>6, <4>1, EntersSend
    <3> QED
      BY <1>1, <2>3, <3>2, <3>3, <3>4, <3>5, <3>6, BlockIs
  <2>4. CASE ~Acked
    <3>1. Refused /\ Goto("stop")
      BY <1>1, <2>1, <2>4, NotToldIs DEF Acked
    <3> QED
      BY <1>1, <2>2, <3>1, WiresKept, EntersOther
  <2> QED
    BY <2>3, <2>4
<1> QED
  BY <1>3, <1>4, <1>5 DEF IInv

LEMMA SubSentStep ==
  ASSUME IInv, SubSent
  PROVE  IInv'
<1>1. /\ TypeOK /\ MonitorOK /\ CallOK /\ InStep /\ Freed /\ stage = "sub" /\ bit = 0
      /\ UNCHANGED wires /\ UNCHANGED <<late, call>>
      /\ \/ Acked /\ call.comb /\ Goto("restart") /\ UNCHANGED <<rec, ret>>
         \/ Acked /\ ~call.comb /\ Block /\ UNCHANGED <<rec, ret>>
         \/ ~Acked /\ Recover
  BY DEF IInv, SubSent, Addressing, Done, pins
<1>2. /\ GoesOn /\ stage' \in {"restart", "block", "stop", "recover"}
      /\ (stage' = "restart" => call.comb) /\ (stage' = "block" => call.left > 0)
  BY <1>1 DEF GoesOn, Stages, Goto, Enter, Begins, Recover, Block
<1>3. rec' \in Recoverings /\ ret' \in BOOLEAN /\ Freeing' /\ Freed'
  BY <1>1, RecoverIs, StaysUnsure DEF TypeOK, Recoverings
<1>4. TypeOK' /\ MonitorOK' /\ PlaceOK' /\ ClockLow'
  <2>1. late' \in BOOLEAN /\ call' \in Calls
    BY <1>1 DEF TypeOK
  <2> QED
    BY <1>1, <1>2, <1>3, <2>1, Settles
<1>5. CallOK'
  BY <1>1, <1>2 DEF CallOK
<1>6. InStep'
  <2> SUFFICES ASSUME ~late
               PROVE  InStep'
    BY <1>1 DEF InStep
  <2>1. Sending /\ ~c /\ Told /\ ~failed /\ (call.kind = "ddcci" => ret) /\ call.kind # "ddcci"
    BY <1>1 DEF InStep, InSend, Sending, CallOK
  <2>2. ~c' /\ slave' = slave /\ (call'.kind = "ddcci" => ret')
    BY <1>1, <2>1, WiresKept
  <2>3. CASE Acked
    <3>1. slave.k = 0 /\ slave.mode = "recv" /\ ~Crossed
      BY <1>1, <2>1, <2>3, ToldIs DEF Acked
    <3>2. CASE Goto("restart")
      BY <2>2, <3>1, <3>2, EntersOther DEF Ready
    <3>3. CASE Goto("block") /\ ~call.comb
      <4>1. ~Crossed' /\ Taker' = "recv" /\ ~call'.read
        BY <1>1, <3>1, <3>3 DEF Goto, Begins, Crossed, Taker
      <4> QED
        BY <2>2, <3>1, <3>3, <4>1, EntersSend
    <3>4. CASE Goto("stop")
      BY <2>2, <3>1, <3>4, EntersOther DEF Ready
    <3> QED
      BY <1>1, <2>3, <3>2, <3>3, <3>4, BlockIs
  <2>4. CASE ~Acked
    <3>1. Refused /\ Enter("recover") /\ rec'.stops = 0
      BY <1>1, <2>1, <2>4, NotToldIs, RecoverIs DEF Acked, Recover
    <3> QED
      BY <1>1, <2>2, <3>1, WiresKept, EntersOther
  <2> QED
    BY <2>3, <2>4
<1> QED
  BY <1>3, <1>4, <1>5, <1>6 DEF IInv

LEMMA RestartedStep ==
  ASSUME IInv, Restarted
  PROVE  IInv'
<1>1. /\ TypeOK /\ MonitorOK /\ CallOK /\ InStep /\ Freed /\ stage = "restart" /\ bit = 0
      /\ UNCHANGED wires /\ UNCHANGED <<late, call, rec, ret>>
      /\ IF failed THEN Block ELSE Goto("addr2")
  BY DEF IInv, Restarted, Done, pins
<1>2. /\ GoesOn /\ stage' \in {"block", "stop", "addr2"}
      /\ (stage' = "block" => call.left > 0)
  BY <1>1 DEF GoesOn, Stages, Goto, Begins, Block
<1>3. TypeOK' /\ MonitorOK' /\ PlaceOK' /\ ClockLow'
  <2>1. late' \in BOOLEAN /\ call' \in Calls /\ rec' \in Recoverings /\ ret' \in BOOLEAN
    BY <1>1 DEF TypeOK, Recoverings
  <2> QED
    BY <1>1, <1>2, <2>1, Settles
<1>4. CallOK' /\ Freeing' /\ Freed'
  BY <1>1, <1>2, StaysUnsure DEF CallOK
<1>5. InStep'
  <2> SUFFICES ASSUME ~late
               PROVE  InStep'
    BY <1>1 DEF InStep
  <2>1. Goto("addr2") /\ ~c /\ slave = Addressed /\ (call'.kind = "ddcci" => ret')
    BY <1>1 DEF InStep, InRestart
  <2>2. ~c' /\ slave' = Addressed
    BY <1>1, <2>1, WiresKept
  <2>3. ~Crossed' /\ Taker' = "addr"
    BY <2>1 DEF Goto, Begins, Crossed, Taker
  <2> QED
    BY <2>1, <2>2, <2>3, AddressedType, EntersSend
<1> QED
  BY <1>3, <1>4, <1>5 DEF IInv

LEMMA AddressAgainStep ==
  ASSUME IInv, AddressAgain
  PROVE  IInv'
<1>1. /\ TypeOK /\ MonitorOK /\ CallOK /\ InStep /\ Freed /\ stage = "addr2" /\ bit = 0
      /\ UNCHANGED wires /\ UNCHANGED <<late, call>>
      /\ \/ Acked /\ Block /\ UNCHANGED <<rec, ret>>
         \/ ~Acked /\ Recover
  BY DEF IInv, AddressAgain, Done, pins
<1>2. /\ GoesOn /\ stage' \in {"block", "stop", "recover"}
      /\ (stage' = "block" => call.left > 0)
  BY <1>1 DEF GoesOn, Stages, Goto, Enter, Begins, Recover, Block
<1>3. rec' \in Recoverings /\ ret' \in BOOLEAN /\ Freeing' /\ Freed'
  BY <1>1, RecoverIs, StaysUnsure DEF TypeOK, Recoverings
<1>4. TypeOK' /\ MonitorOK' /\ PlaceOK' /\ ClockLow'
  <2>1. late' \in BOOLEAN /\ call' \in Calls
    BY <1>1 DEF TypeOK
  <2> QED
    BY <1>1, <1>2, <1>3, <2>1, Settles
<1>5. CallOK'
  BY <1>1, <1>2 DEF CallOK
<1>6. InStep'
  <2> SUFFICES ASSUME ~late
               PROVE  InStep'
    BY <1>1 DEF InStep
  <2>1. Sending /\ ~c /\ Told /\ ~failed /\ call.kind # "ddcci"
    BY <1>1 DEF InStep, InSend, Sending, CallOK
  <2>2. ~c' /\ slave' = slave /\ (call'.kind = "ddcci" => ret')
    BY <1>1, <2>1, WiresKept
  <2>3. CASE Acked
    <3>1. slave.k = 0 /\ slave.mode = IF call.read THEN "send" ELSE "recv"
      BY <1>1, <2>1, <2>3, ToldIs DEF Acked
    <3>2. CASE Goto("block") /\ call.read
      BY <1>1, <2>2, <3>1, <3>2, EntersReceive DEF Talking
    <3>3. CASE Goto("block") /\ ~call.read
      <4>1. ~Crossed' /\ Taker' = "recv"
        BY <3>3 DEF Goto, Begins, Crossed, Taker
      <4> QED
        BY <1>1, <2>2, <3>1, <3>3, <4>1, EntersSend
    <3>4. CASE Goto("stop") /\ call.left = 0
      <4>1. ~call.read
        BY <1>1, <3>4 DEF CallOK
      <4> QED
        BY <1>1, <2>2, <3>1, <3>4, <4>1, EntersOther DEF Ready
    <3> QED
      BY <1>1, <2>3, <3>2, <3>3, <3>4, BlockIs
  <2>4. CASE ~Acked
    <3>1. Refused /\ Enter("recover") /\ rec'.stops = 0
      BY <1>1, <2>1, <2>4, NotToldIs, RecoverIs DEF Acked, Recover
    <3> QED
      BY <1>1, <2>2, <3>1, WiresKept, EntersOther
  <2> QED
    BY <2>3, <2>4
<1> QED
  BY <1>3, <1>4, <1>5, <1>6 DEF IInv

(* A byte of the block is done.                                            *)
Good == IF call.read THEN ~failed ELSE Acked
Rest == IF call.head > 0 THEN HeadDone ELSE [call EXCEPT !.left = @ - 1]

LEMMA AnswerLeftIs ==
  ASSUME NEW left \in Nat, left > 0, NEW high
  PROVE  AnswerLeft(left, high) \in Nat /\ AnswerLeft(left, high) > 0
BY SizesAssumption, BytesReadIs DEF AnswerLeft

LEMMA RestIs ==
  ASSUME TypeOK, call.left > 0
  PROVE  /\ Rest \in Calls /\ Rest.kind = call.kind /\ Rest.read = call.read
         /\ Rest.sub = call.sub /\ Rest.comb = call.comb
         /\ Rest.left > 0 => ~Last
         /\ Rest.left = 0 => Last
<1>1. /\ call \in Calls /\ call.head \in 0..2 /\ call.left \in Nat
  BY DEF TypeOK, Calls
<1>2. CASE call.head > 0
  <2> DEFINE left == IF call.head = 1 THEN AnswerLeft(call.left, got[1]) ELSE call.left
  <2>1. Rest = [call EXCEPT !.head = call.head - 1, !.left = left]
    BY <1>2 DEF Rest, HeadDone
  <2>2. call.head - 1 \in 0..2 /\ left \in Nat /\ left > 0
    BY <1>1, <1>2, AnswerLeftIs
  <2> HIDE DEF left
  <2>3. /\ Rest \in Calls /\ Rest.kind = call.kind /\ Rest.read = call.read
        /\ Rest.sub = call.sub /\ Rest.comb = call.comb /\ Rest.left = left
    BY <1>1, <2>1, <2>2 DEF Calls
  <2> QED
    BY <1>1, <1>2, <2>2, <2>3 DEF Last
<1>3. CASE ~(call.head > 0)
  <2>1. Rest = [call EXCEPT !.left = call.left - 1]
    BY <1>3 DEF Rest
  <2>2. call.left - 1 \in Nat
    BY <1>1
  <2>3. /\ Rest \in Calls /\ Rest.kind = call.kind /\ Rest.read = call.read
        /\ Rest.sub = call.sub /\ Rest.comb = call.comb /\ Rest.left = call.left - 1
    BY <1>1, <2>1, <2>2 DEF Calls
  <2> QED
    BY <1>1, <1>3, <2>3 DEF Last
<1> QED
  BY <1>2, <1>3

LEMMA ByteDoneStep ==
  ASSUME IInv, ByteDone
  PROVE  IInv'
<1>1. /\ TypeOK /\ MonitorOK /\ CallOK /\ InStep /\ Freed /\ stage = "block" /\ bit = 0
      /\ UNCHANGED wires /\ UNCHANGED late
      /\ \/ Good /\ Rest.left > 0 /\ call' = Rest /\ Goto("block") /\ UNCHANGED <<rec, ret>>
         \/ Good /\ Rest.left = 0 /\ call' = Rest /\ Goto("stop") /\ UNCHANGED <<rec, ret>>
         \/ ~Good /\ call' = call /\ call.kind = "i2c" /\ Recover
         \/ ~Good /\ call' = call /\ call.kind # "i2c" /\ Goto("stop")
            /\ ret' = (call.head > 0) /\ UNCHANGED rec
  BY DEF IInv, ByteDone, Good, Rest, Done, pins
<1>2. /\ GoesOn /\ stage' \in {"block", "stop", "recover"}
      /\ (stage' = "block" => call' = Rest /\ Rest.left > 0)
  BY <1>1 DEF GoesOn, Stages, Goto, Enter, Begins, Recover
<1>3. /\ Rest \in Calls /\ Rest.kind = call.kind /\ Rest.read = call.read
      /\ Rest.sub = call.sub /\ Rest.comb = call.comb
      /\ (Rest.left > 0 => ~Last) /\ (Rest.left = 0 => Last)
  BY <1>1, RestIs DEF CallOK
<1>4. rec' \in Recoverings /\ ret' \in BOOLEAN /\ Freeing' /\ Freed'
  <2>1. rec \in Recoverings /\ ret \in BOOLEAN /\ (call.head > 0) \in BOOLEAN
    BY <1>1 DEF TypeOK, Recoverings
  <2>2. CASE Recover
    BY <1>1, <2>2, RecoverIs
  <2>3. CASE rec' = rec /\ ret' \in {ret, (call.head > 0)}
    BY <1>1, <2>1, <2>3, StaysUnsure
  <2> QED
    BY <1>1, <2>2, <2>3
<1>5. call' \in Calls /\ UNCHANGED <<call.kind, call.read, call.sub, call.comb>>
  BY <1>1, <1>3 DEF TypeOK
<1>6. TypeOK' /\ MonitorOK' /\ PlaceOK' /\ ClockLow'
  <2>1. late' \in BOOLEAN
    BY <1>1 DEF TypeOK
  <2> QED
    BY <1>1, <1>2, <1>4, <1>5, <2>1, Settles
<1>7. CallOK'
  BY <1>1, <1>2, <1>5 DEF CallOK
<1>8. InStep'
  <2> SUFFICES ASSUME ~late
               PROVE  InStep'
    BY <1>1 DEF InStep
  <2>1. ~failed /\ (call.kind = "ddcci" => ret) /\ call.kind \in {"i2c", "ddcci"}
    BY <1>1 DEF InStep, TypeOK, Calls
  <2>2. CASE call.read
    <3>1. ~c /\ IF Last THEN Refused ELSE Talking /\ slave.k = 0
      BY <1>1, <2>2 DEF InStep, Receiving, InReceive
    <3>2. ~c' /\ slave' = slave /\ Refused' = Refused /\ Talking' = Talking
      BY <1>1, <3>1, WiresKept
    <3>3. Good
      BY <2>1, <2>2 DEF Good
    <3>4. CASE Rest.left > 0 /\ Goto("block")
      <4>1. Talking /\ slave.k = 0 /\ call'.read /\ (call'.kind = "ddcci" => ret')
        BY <1>1, <1>3, <1>5, <2>1, <2>2, <3>1, <3>3, <3>4
      <4> QED
        BY <3>2, <3>4, <4>1, EntersReceive
    <3>5. CASE Rest.left = 0 /\ Goto("stop")
      <4>1. Refused /\ (call'.kind = "ddcci" => ret')
        BY <1>1, <1>3, <1>5, <2>1, <3>1, <3>3, <3>5
      <4> QED
        BY <3>2, <3>5, <4>1, EntersOther
    <3> QED
      BY <1>1, <3>3, <3>4, <3>5
  <2>3. CASE ~call.read
    <3>1. Sending /\ ~c /\ Told /\ call.kind # "ddcci"
      BY <1>1, <2>3 DEF InStep, InSend, Sending, CallOK
    <3>2. ~c' /\ slave' = slave /\ call'.kind # "ddcci" /\ ~call'.read
      BY <1>1, <1>5, <2>3, <3>1, WiresKept
    <3>3. CASE Good
      <4>1. slave.k = 0 /\ slave.mode = "recv"
        BY <1>1, <2>3, <3>1, <3>3, ToldIs DEF Good, Acked
      <4>2. CASE Goto("block")
        <5>1. ~Crossed' /\ Taker' = "recv"
          BY <4>2 DEF Goto, Begins, Crossed, Taker
        <5> QED
          BY <3>2, <4>1, <4>2, <5>1, EntersSend
      <4>3. CASE Goto("stop")
        BY <3>2, <4>1, <4>3, EntersOther DEF Ready
      <4> QED
        BY <1>1, <3>3, <4>2, <4>3
    <3>4. CASE ~Good
      <4>1. Refused /\ Enter("recover") /\ rec'.stops = 0
        BY <1>1, <2>1, <2>3, <3>1, <3>4, NotToldIs, RecoverIs DEF Good, Acked, Recover
      <4> QED
        BY <1>1, <3>2, <4>1, WiresKept, EntersOther
    <3> QED
      BY <3>3, <3>4
  <2> QED
    BY <2>2, <2>3
<1> QED
  BY <1>4, <1>6, <1>7, <1>8 DEF IInv

(* The end of a call.                                                      *)
LEMMA StoppedStep ==
  ASSUME IInv, Stopped
  PROVE  IInv'
<1>1. /\ TypeOK /\ MonitorOK /\ CallOK /\ InStep /\ Freed /\ stage = "stop" /\ bit = 0
      /\ UNCHANGED wires /\ UNCHANGED <<late, call>>
      /\ \/ call.kind = "i2c" /\ Enter("return") /\ ret' = ~failed /\ UNCHANGED rec
         \/ call.kind = "ddcci" /\ ret /\ Enter("return") /\ UNCHANGED <<rec, ret>>
         \/ call.kind = "ddcci" /\ ~ret /\ Recover
  BY DEF IInv, Stopped, Done, pins
<1>2. GoesOn /\ stage' \in {"return", "recover"}
  BY <1>1 DEF GoesOn, Enter, Begins, Recover
<1>3. rec' \in Recoverings /\ ret' \in BOOLEAN /\ Freeing' /\ Freed'
  <2>1. rec \in Recoverings /\ ret \in BOOLEAN /\ (~failed) \in BOOLEAN
    BY <1>1 DEF TypeOK, Recoverings
  <2>2. CASE Recover
    BY <1>1, <2>2, RecoverIs
  <2>3. CASE rec' = rec /\ ret' \in {ret, ~failed}
    BY <1>1, <2>1, <2>3, StaysUnsure
  <2> QED
    BY <1>1, <2>2, <2>3
<1>4. TypeOK' /\ MonitorOK' /\ PlaceOK' /\ ClockLow'
  <2>1. late' \in BOOLEAN /\ call' \in Calls
    BY <1>1 DEF TypeOK
  <2> QED
    BY <1>1, <1>2, <1>3, <2>1, Settles
<1>5. CallOK'
  BY <1>1, <1>2 DEF CallOK
<1>6. InStep'
  <2> SUFFICES ASSUME ~late
               PROVE  InStep'
    BY <1>1 DEF InStep
  <2>1. Idle /\ (call.kind = "ddcci" => ret)
    BY <1>1 DEF InStep, InStop
  <2>2. Enter("return") /\ "return" \in Resting /\ (call'.kind = "ddcci" => ret')
    BY <1>1, <2>1
  <2> QED
    BY <1>1, <2>1, <2>2, WiresKept, EntersOther
<1> QED
  BY <1>3, <1>4, <1>5, <1>6 DEF IInv

(* There are more stops than bits in a byte: the monitor has run out of    *)
(* them, and of its acknowledge, before ErrorRecovery gives up.            *)
LEMMA RunsOut ==
  ASSUME TypeOK, MonitorOK, Clock, d, Stuck, ~Recoverable(rec.stops)
  PROVE  Data
<1>1. /\ Bits \in Nat /\ Bits > 1 /\ Recoveries \in Nat /\ Recoveries > Bits /\ rec.stops \in Nat
      /\ slave.k \in 0 .. Bits + 1
  BY SizesAssumption, RecoveriesAssumption DEF TypeOK, Monitors
<1>2. rec.stops > Bits
  BY <1>1 DEF Recoverable
<1>3. slave.sda
  <2>1. CASE Talking /\ rec.stops <= slave.k
    BY <1>1, <1>2, <2>1 DEF MonitorOK
  <2> QED
    BY <1>1, <1>2, <2>1 DEF Stuck
<1> QED
  BY <1>3 DEF Data

LEMMA ErrorRecoveryStep ==
  ASSUME IInv, ErrorRecovery
  PROVE  IInv'
<1> DEFINE up == Data /\ Clock
           n == IF up \/ ~Recoverable(rec.stops) THEN rec.stops ELSE rec.stops + 1
<1>1. /\ TypeOK /\ MonitorOK /\ CallOK /\ InStep /\ Freeing /\ Freed
      /\ stage = "recover" /\ bit = 0 /\ UNCHANGED wires /\ UNCHANGED <<late, call, ret>>
      /\ rec' = [rec EXCEPT !.sure = rec.sure /\ ~failed, !.stops = n]
      /\ IF up \/ ~Recoverable(rec.stops) THEN Enter("return") ELSE Goto("recover")
  BY DEF IInv, ErrorRecovery, Done, pins, StopDone
<1> HIDE DEF up, n
<1>2. /\ rec.stops \in Nat /\ n \in Nat /\ rec \in Recoverings /\ Bits \in Nat /\ Bits > 1
      /\ (rec.sure /\ ~failed) \in BOOLEAN /\ slave \in Monitors
  BY <1>1, SizesAssumption DEF TypeOK, Recoverings, n
<1>3. rec' \in Recoverings /\ rec'.stops = n /\ (rec'.sure <=> rec.sure /\ ~failed)
  BY <1>1, <1>2 DEF Recoverings
<1>4. /\ c' = c /\ d' = d /\ slave' = slave /\ Clock' = Clock /\ Data' = Data /\ Refused' = Refused
      /\ Idle' = Idle
  BY <1>1, WiresKept
<1>5. GoesOn /\ stage' \in {"return", "recover"}
  BY <1>1 DEF GoesOn, Stages, Goto, Enter, Begins
<1>6. TypeOK' /\ MonitorOK' /\ PlaceOK' /\ ClockLow'
  <2>1. late' \in BOOLEAN /\ call' \in Calls /\ ret' \in BOOLEAN
    BY <1>1 DEF TypeOK
  <2> QED
    BY <1>1, <1>3, <1>5, <2>1, Settles
<1>7. CallOK'
  BY <1>1, <1>5 DEF CallOK
<1>8. Recoverable(0)
  BY RecoveriesAssumption, SizesAssumption DEF Recoverable
<1>9. Freed'
  <2> SUFFICES ASSUME rec'.sure, stage' = "return"
               PROVE  Clock' /\ Data'
    BY <1>5 DEF Freed
  <2>1. rec.sure /\ ~failed /\ (rec.stops > 0 => Clock /\ d /\ Stuck)
    BY <1>1, <1>3 DEF Freeing
  <2>2. up \/ ~Recoverable(rec.stops)
    BY <1>1 DEF Goto, Begins
  <2>3. CASE up
    BY <1>4, <2>3 DEF up
  <2>4. CASE ~Recoverable(rec.stops)
    <3>1. rec.stops > 0
      BY <1>2, <1>8, <2>4
    <3> QED
      BY <1>1, <1>4, <2>1, <2>4, <3>1, RunsOut
  <2> QED
    BY <2>2, <2>3, <2>4
<1>10. Freeing'
  <2> SUFFICES ASSUME rec'.sure, stage' = "recover"
               PROVE  Freeing'
    BY DEF Freeing
  <2>1. /\ rec.sure /\ ~failed /\ slave.mode # "addr"
        /\ rec.stops > 0 => Clock /\ d /\ Stuck
    BY <1>1, <1>3 DEF Freeing
  <2>2. /\ ~up /\ bit' = 1 /\ op' = 1 /\ rec'.stops = rec.stops + 1
    BY <1>1, <1>3 DEF Goto, Enter, Begins, n
  <2>3. rec.stops > 0 => Clock' /\ ~slave'.sda /\ StillStuck'
    <3> SUFFICES ASSUME rec.stops > 0
                 PROVE  Clock' /\ ~slave'.sda /\ StillStuck'
      OBVIOUS
    <3>1. Clock /\ d /\ Stuck /\ ~slave.sda
      BY <2>1, <2>2 DEF up, Data
    <3>2. \/ slave.mode = "send" /\ rec.stops <= slave.k
          \/ slave.mode = "recv" /\ slave.k = Bits + 1 /\ rec.stops = 1
      BY <3>1 DEF Stuck, Talking
    <3>3. slave.k \in 0 .. Bits + 1
      BY <1>2 DEF Monitors
    <3>4. StillStuck'
      BY <1>2, <1>4, <2>2, <3>2, <3>3 DEF StillStuck, Talking
    <3> QED
      BY <1>4, <3>1, <3>4
  <2> QED
    BY <1>2, <1>4, <2>1, <2>2, <2>3 DEF Freeing
<1>11. InStep'
  <2> SUFFICES ASSUME ~late
               PROVE  InStep'
    BY <1>1 DEF InStep
  <2>1. /\ Refused /\ (call'.kind = "ddcci" => ret')
        /\ IF rec.stops = 0 THEN ~c ELSE c /\ d
    BY <1>1 DEF InStep, InRecover
  <2>2. ~hold /\ slave.sda
    BY <1>1, <2>1, AsleepType DEF Refused, MonitorOK
  <2>3. CASE rec.stops = 0
    <3>1. ~c /\ ~up
      BY <2>1, <2>3 DEF up, Clock
    <3>2. Goto("recover") /\ rec'.stops > 0
      BY <1>1, <1>3, <1>8, <2>3, <3>1 DEF n
    <3> QED
      BY <1>4, <2>1, <3>1, <3>2, EntersOther
  <2>4. CASE rec.stops # 0
    <3>1. up /\ Idle
      BY <2>1, <2>2, <2>4 DEF up, Idle, Clock, Data
    <3> QED
      BY <1>1, <1>4, <2>1, <3>1, EntersOther
  <2> QED
    BY <2>3, <2>4
<1> QED
  BY <1>6, <1>7, <1>9, <1>10, <1>11 DEF IInv
-----------------------------------------------------------------------------
LEMMA InitHolds ==
  Init => IInv
<1> SUFFICES ASSUME Init
             PROVE  IInv
  OBVIOUS
<1>1. /\ c = TRUE /\ d = TRUE /\ hold = FALSE /\ slave = Asleep
      /\ call = [kind |-> "i2c", read |-> FALSE, sub |-> FALSE, comb |-> FALSE,
                 head |-> 0, left |-> 0]
      /\ rec = [stops |-> 0, sure |-> FALSE]
      /\ stage = "idle" /\ bit = 0 /\ op = 1 /\ failed = FALSE /\ got = <<>>
      /\ ret = FALSE /\ late = FALSE
  BY DEF Init
<1>2. call \in Calls /\ call.kind = "i2c" /\ rec \in [stops : Nat, sure : BOOLEAN] /\ ~rec.sure
  BY <1>1 DEF Calls
<1>3. TypeOK
  BY <1>1, <1>2, AsleepType, EmptySeq DEF TypeOK, Stages
<1>4. MonitorOK
  BY <1>1, AsleepType DEF MonitorOK, Listening, Talking
<1>5. PlaceOK /\ ClockLow /\ CallOK
  BY <1>1, <1>2 DEF PlaceOK, ClockLow, CallOK, Routines, Sending, Receiving
<1>6. Idle /\ InStep
  BY <1>1, <1>2, AsleepType DEF InStep, Sending, Receiving, Idle, Clock, Data, Refused
<1>7. Freeing /\ Freed
  BY <1>2 DEF Freeing, Freed
<1> QED
  BY <1>3, <1>4, <1>5, <1>6, <1>7 DEF IInv

LEMMA StutterStep ==
  ASSUME IInv, UNCHANGED vars
  PROVE  IInv'
<1>1. /\ UNCHANGED wires /\ UNCHANGED <<late, call, stage, bit, op, failed, got, rec, ret>>
      /\ Same
  BY DEF vars, pins, Same
<1>2. c' = c /\ d' = d /\ hold' = hold /\ slave' = slave
  BY <1>1 DEF wires
<1>3. TypeOK' /\ MonitorOK' /\ PlaceOK' /\ ClockLow' /\ CallOK'
  BY <1>1, <1>2, WiresKept, SameIs DEF IInv, TypeOK, PlaceOK, ClockLow, CallOK, Routines
<1>4. Freeing' /\ Freed'
  <2>1. Fallen' = Fallen /\ Risen' = Risen /\ Stuck' = Stuck /\ StillStuck' = StillStuck
    BY <1>1, <1>2 DEF Fallen, Risen, Stuck, StillStuck, Talking
  <2> QED
    BY <1>1, <1>2, <2>1, WiresKept DEF IInv, Freeing, Freed
<1>5. InStep'
  <2>1. /\ Follows' = Follows /\ Refused' = Refused /\ Turned' = Turned /\ Sampled' = Sampled
        /\ Idle' = Idle /\ Ready' = Ready /\ Talking' = Talking /\ Clock' = Clock
        /\ Crossed' = Crossed /\ Byte' = Byte /\ Last' = Last
        /\ Sending' = Sending /\ Receiving' = Receiving
    BY <1>1, <1>2, FollowsSame, SampledSame, WiresKept, SameIs DEF Turned
  <2>2. Answered' = Answered /\ Told' = Told
    BY <1>1, <1>2, <2>1 DEF Answered, Told
  <2>3. OnBit' = OnBit /\ OnAck' = OnAck
    BY <1>1, <1>2, <2>1, <2>2 DEF OnBit, OnAck
  <2>4. OnSample' = OnSample /\ OnOwnAck' = OnOwnAck
    BY <1>1, <1>2, <2>1 DEF OnSample, OnOwnAck
  <2>5. InSend' = InSend /\ InReceive' = InReceive
    BY <1>1, <1>2, <2>1, <2>2, <2>3, <2>4 DEF InSend, InReceive
  <2>6. InStart' = InStart /\ InRestart' = InRestart /\ InStop' = InStop /\ InRecover' = InRecover
    BY <1>1, <1>2, <2>1 DEF InStart, InRestart, InStop, InRecover
  <2> QED
    BY <1>1, <2>1, <2>5, <2>6 DEF IInv, InStep
<1> QED
  BY <1>3, <1>4, <1>5 DEF IInv

LEMMA Inductive ==
  IInv /\ [Next]_vars => IInv'
BY CommunicateStep, TransfersStep, RestsOn, PinStep, ReleaseStep, StartedStep, AddressSentStep, SubSentStep, RestartedStep,
   AddressAgainStep, ByteDoneStep, StoppedStep, ErrorRecoveryStep, StutterStep
   DEF Next, Spin

(* The monitor and the driver stay at the same bit as long as no clock is  *)
(* held past the timeout of DDCWaitClockHigh, every pin operation is one   *)
(* of the routine that its stage runs, and the stops of ErrorRecovery move *)
(* a monitor that drives the data line on towards the end of its byte.     *)
THEOREM InvariantHolds == Spec => []IInv
<1>1. Init => IInv
  BY InitHolds
<1>2. IInv /\ [Next]_vars => IInv'
  BY Inductive
<1> QED
  BY <1>1, <1>2, PTL DEF Spec

(* A monitor takes the last bit of a byte only from a driver that sends.   *)
LEMMA TakesWhenSent ==
  ASSUME TypeOK, MonitorOK, PlaceOK, InStep, ~late, Listening, slave.k = Bits
  PROVE  Sending /\ Follows
<1>1. Bits \in Nat /\ Bits > 1 /\ ~Refused /\ ~Talking /\ ~Idle /\ slave # Addressed /\ ~Ready
      /\ op \in 1..5 /\ bit \in 0 .. Routines
  BY AsleepType, AddressedType, SizesAssumption
     DEF Listening, Refused, Talking, Idle, Ready, PlaceOK
<1>2. slave.k # 0 /\ slave.k # Bits + 1 /\ ~Turned /\ ~Told /\ ~Answered
  <2>1. slave.k # 0 /\ slave.k # Bits + 1
    BY SizesAssumption
  <2> QED
    BY <1>1, <2>1, Zenon DEF Turned, Told, Answered
<1>3. CASE Sending
  <2>1. InSend /\ bit \in 0 .. Bits + 1
    BY <1>1, <1>3 DEF InStep, Routines
  <2>2. CASE bit = 0
    BY <1>2, <2>1, <2>2 DEF InSend
  <2>3. CASE bit \in 1..Bits
    BY <1>3, <2>1, <2>3 DEF InSend, OnBit
  <2>4. CASE bit = Bits + 1
    <3>1. OnAck
      BY <2>1, <2>4 DEF InSend
    <3> QED
      BY <1>2, <1>1, <1>3, <3>1 DEF OnAck
  <2> QED
    BY <1>1, <2>1, <2>2, <2>3, <2>4
<1>4. ~Receiving
  <2> SUFFICES ASSUME Receiving
               PROVE  FALSE
    OBVIOUS
  <2>1. InReceive /\ bit \in 0 .. Bits + 1 /\ ~Sampled
    BY <1>1 DEF InStep, Routines, Sampled
  <2>2. CASE bit = 0
    BY <1>1, <2>1, <2>2 DEF InReceive
  <2>3. CASE bit \in 1..Bits
    BY <2>1, <2>3 DEF InReceive, OnSample
  <2>4. CASE bit = Bits + 1
    <3>1. OnOwnAck
      BY <2>1, <2>4 DEF InReceive
    <3> QED
      BY <1>1, <2>1, <3>1 DEF OnOwnAck
  <2> QED
    BY <1>1, <2>1, <2>2, <2>3, <2>4
<1>5. stage # "start"
  BY <1>1 DEF InStep, InStart, Routines, Sending, Receiving
<1>6. stage # "restart"
  BY <1>1 DEF InStep, InRestart, Routines, Sending, Receiving
<1>7. stage # "stop"
  BY <1>1 DEF InStep, InStop, Routines, Sending, Receiving
<1>8. stage \notin {"recover"} \cup Resting
  BY <1>1 DEF InStep, InRecover
<1> QED
  BY <1>3, <1>4, <1>5, <1>6, <1>7, <1>8 DEF TypeOK, Stages, Sending, Receiving

(* What the monitor takes is what DDCSendByte is sending: address,         *)
(* subaddress and data, over restarts, refusals and stretched clocks.      *)
THEOREM WrittenHolds == Spec => []WrittenAsSent
<1>1. IInv => WrittenAsSent
  <2> SUFFICES ASSUME IInv, ~late, slave.mode \in {"addr", "recv"}, slave.k = Bits
               PROVE  Sending /\ slave.bits = Byte
    BY DEF WrittenAsSent
  <2>1. TypeOK /\ MonitorOK /\ Listening /\ Sending /\ Follows
    BY TakesWhenSent DEF IInv, Listening
  <2>2. /\ Bits \in Nat /\ slave.bits \in Seq(BOOLEAN) /\ Len(slave.bits) = Bits
    BY <2>1, SizesAssumption DEF MonitorOK, TypeOK, Monitors
  <2>3. \A x \in 1..Bits : slave.bits[x] = Byte[x]
    BY <2>1, <2>2, FollowsIs DEF Follows, Talking, Listening
  <2>4. Byte = [x \in 1..Bits |-> Byte[x]]
    <3>1. \A r \in BOOLEAN : Address(r) = [x \in 1..Bits |-> Address(r)[x]]
      BY DEF Address
    <3>2. Payload = [x \in 1..Bits |-> Payload[x]]
      BY DEF Payload
    <3>3. call.read \in BOOLEAN /\ (call.read /\ ~call.comb) \in BOOLEAN
      BY <2>1 DEF TypeOK, Calls
    <3> QED
      BY <3>1, <3>2, <3>3 DEF Byte
  <2>5. slave.bits = [x \in 1..Bits |-> slave.bits[x]]
    BY <2>2
  <2>6. slave.bits = Byte
    BY <2>3, <2>4, <2>5
  <2> QED
    BY <2>1, <2>6
<1> QED
  BY <1>1, InvariantHolds, PTL

(* What DDCReceiveByte samples is the byte that the monitor drove.         *)
THEOREM ReadHolds == Spec => []ReadAsDriven
<1>1. IInv => ReadAsDriven
  <2> SUFFICES ASSUME IInv, ~late, Receiving, bit = Bits + 1, op = 1
               PROVE  slave.mode = "send" /\ got = slave.bits
    BY DEF ReadAsDriven
  <2>1. Bits \in Nat /\ TypeOK /\ MonitorOK /\ InStep
    BY SizesAssumption DEF IInv
  <2>2. slave.k = Bits /\ Sampled /\ Len(got) = Bits
    BY <2>1 DEF InStep, InReceive, OnOwnAck
  <2>3. /\ Talking /\ Len(slave.bits) = Bits /\ slave.bits \in Seq(BOOLEAN) /\ got \in Seq(BOOLEAN)
        /\ \A x \in 1..Bits : got[x] = slave.bits[x]
    BY <2>1, <2>2 DEF Sampled, MonitorOK, TypeOK, Monitors
  <2>4. got = slave.bits
    BY <2>2, <2>3, SeqEqual
  <2> QED
    BY <2>3, <2>4 DEF Talking
<1> QED
  BY <1>1, InvariantHolds, PTL

(* TransferI2C and TransferBYDDCci leave both lines high and the monitor   *)
(* idle, whichever byte of the transfer was refused.                       *)
THEOREM BusLeftFree == Spec => []BusFree
<1>1. IInv => BusFree
  BY AsleepType DEF IInv, InStep, Idle, Refused, BusFree
<1> QED
  BY <1>1, InvariantHolds, PTL

(* After its stops ErrorRecovery has the data line back from a monitor     *)
(* that was in the middle of a byte.                                       *)
THEOREM RecoveryWorks == Spec => []RecoveryFrees
<1>1. IInv => RecoveryFrees
  BY DEF IInv, Freed, RecoveryFrees
<1> QED
  BY <1>1, InvariantHolds, PTL

(* Within a byte DDCSetData never moves the data line while the clock is   *)
(* high, and neither does the monitor.                                     *)
THEOREM DataHoldsStable == Spec => DataStable
<1>1. ASSUME IInv, [Next]_vars, Clock, Clock', Data # Data'
      PROVE  stage' \in {"start", "restart", "stop", "recover"}
  <2>1. TypeOK /\ MonitorOK /\ PlaceOK /\ ClockLow /\ c /\ ~hold /\ c' /\ ~hold'
    BY <1>1 DEF IInv, Clock
  <2>2. ~UNCHANGED wires
    BY <1>1, WiresKept
  <2>3. PinOp
    BY <1>1, <2>1, <2>2
       DEF Next, vars, pins, Release, Communicate, Send, Reply, Transfer, NextOutput, Leave,
           GetStuck, Spin, NoReplyBuffer, Started, AddressSent, SubSent, Restarted,
           AddressAgain, ByteDone, Stopped, ErrorRecovery, Return
  <2>4. ~Bytes
    <3> SUFFICES ASSUME Bytes
                 PROVE  FALSE
      OBVIOUS
    <3>1. ~LowerClock
      BY <2>1, LowerClockIs
    <3>2. op = 3 \/ op = 4
      BY <2>1, <2>3, <3>1, BytePin DEF ClockLow, Bytes, PlaceOK
    <3>3. op = 4 => UNCHANGED wires
      BY <2>1, <2>3, BytePin DEF Samples, Polls, Waits
    <3>4. op = 3 => RaiseClock
      BY <2>1, <2>3, BytePin
    <3>5. RaiseClock => UNCHANGED wires
      BY <2>1, RaiseClockIs DEF RaiseClock, wires
    <3> QED
      BY <2>2, <3>2, <3>3, <3>4, <3>5
  <2>5. stage' = stage
    BY <2>3 DEF PinOp
  <2> QED
    BY <2>1, <2>3, <2>4, <2>5, PinStages
<1>2. IInv /\ [Next]_vars
        => [Clock /\ Clock' /\ Data # Data'
              => stage' \in {"start", "restart", "stop", "recover"}]_vars
  BY <1>1
<1> QED
  BY <1>2, InvariantHolds, PTL DEF Spec, DataStable
=============================================================================
