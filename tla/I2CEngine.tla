----------------------------- MODULE I2CEngine -----------------------------
(***************************************************************************)
(* Reading an EDID block through the hardware I2C engine of the card:      *)
(* DDCRead_DDC2 (src/rhd/xf86/xf86DDC.c) with its retries, over the        *)
(* WriteRead function of the chip family (src/rhd/rhd_i2c.c).              *)
(*                                                                         *)
(* The four families cut a read into engine transactions in four ways:     *)
(*   R500   the buffer holds ChunkMax bytes; every chunk sends its own     *)
(*          offset, then reads;                                            *)
(*   RS690, R600   one transaction, write and read; the data is taken from *)
(*          a fixed index of the engine's FIFO;                            *)
(*   RV620  the write and the chunks of the read are transactions; the     *)
(*          later chunks go on without a start.                            *)
(* A transaction is one step: the registers are set up, GO is written and  *)
(* the status is polled until it is done, refused (a NACK) or the loop     *)
(* ends.  Then the engine is still running; it may end by itself later, or *)
(* be reset.  Pins, speed and bus selection are left out.                  *)
(***************************************************************************)
EXTENDS Integers, Sequences

CONSTANTS Block,       \* the monitor's EDID block: a sequence of bytes
          ChunkMax,    \* bytes of one transaction: 15 (R500), MAX (RV620)
          Retries,     \* RETRIES of xf86DDC.c
          Faults       \* "nack", "timeout", "denied": what may go wrong

ASSUME BlockAssumption == Block \in Seq(Nat) /\ Len(Block) \in 1..256
ASSUME LimitAssumption == ChunkMax \in Nat \ {0} /\ Retries \in Nat \ {0}
ASSUME FaultAssumption == Faults \subseteq {"nack", "timeout", "denied"}

VARIABLES family,    \* the engine of the card; it does not change
          reader,    \* DDCRead_DDC2: where it is
          tries,     \* the counter of its loop
          rbuf,      \* R_Buffer
          offset,    \* the offset of the next chunk
          running,   \* GO was written and the engine is not done nor reset
          granted,   \* SW_CAN_USE_I2C at the last transaction (R500)
          slave,     \* the monitor's address pointer
          late       \* not in the code: in this attempt the end of an earlier
                     \* transaction was taken for that of a new one

vars == <<family, reader, tries, rbuf, offset, running, granted, slave, late>>

Junk == -1           \* a byte that did not come from the monitor
Size == Len(Block)

Init ==
  /\ family \in {"R500", "RS690", "R600", "RV620"}
  /\ reader = "idle" /\ tries = 0 /\ rbuf = <<>> /\ offset = 0
  /\ running = FALSE /\ granted = TRUE /\ late = FALSE
  /\ slave \in 0..Size - 1
-----------------------------------------------------------------------------
(* What the monitor sends for n bytes from its pointer on.                 *)
Sent(from, n) == [i \in 1..n |-> Block[((from + i - 1) % Size) + 1]]

(* How a transaction ends, as the status function reports it.  When the    *)
(* engine was still running, the done bit may be the old one's.            *)
Outcomes ==
  {"done"} \cup (Faults \cap {"nack", "timeout"})
           \cup (IF running THEN {"stale"} ELSE {})

(* Is the engine still running when WriteRead returns: R500 aborts and     *)
(* resets it, RS690 and R600 reset it, RV620 leaves it as it is.           *)
RunsOnTimeout(how) == how = "timeout"      \* mutant: return before the reset
RunsOn(how) == family = "RV620" /\ how = "timeout"

(* DDCRead_DDC2 up to its loop.                                            *)
StartRead ==
  /\ reader = "idle"
  /\ reader' = "try" /\ tries' = 0
  /\ rbuf' = [i \in 1..Size |-> 0]
  /\ offset' = 0 /\ late' = FALSE
  /\ UNCHANGED <<family, running, granted, slave>>

(* The loop gives the next attempt, or gives up.                           *)
FailedUncounted ==                   \* mutant: the attempts are not counted
  /\ reader' = "try" /\ UNCHANGED tries
  /\ offset' = 0
Failed ==
  /\ reader' = IF tries + 1 < Retries THEN "try" ELSE "failed"
  /\ tries' = tries + 1
  /\ offset' = 0

(* A transaction that was refused, or not answered in time: the monitor    *)
(* may have seen none of it, or some.                                      *)
Unanswered(how) ==
  /\ how \in {"nack", "timeout"}
  /\ running' = RunsOn(how)
  /\ slave' \in 0..Size - 1
  /\ Failed /\ late' = FALSE
  /\ UNCHANGED rbuf

Answered(how) ==
  /\ how \in {"done", "stale"}
  /\ running' = FALSE
  /\ late' = (how = "stale" \/ (late /\ ~(reader = "try" /\ offset = 0)))

(* What is in the engine's buffer after it reported done.                  *)
Got(how, bytes) == IF how = "stale" THEN [i \in DOMAIN bytes |-> Junk] ELSE bytes

ReadIntoStart(first, bytes) ==      \* mutant: ReadBuffer is not advanced
  [i \in 1..Size |-> IF i <= Len(bytes) THEN bytes[i] ELSE rbuf[i]]
ReadInto(first, bytes) ==
  [i \in 1..Size |-> IF i \in first .. first + Len(bytes) - 1
                       THEN bytes[i - first + 1] ELSE rbuf[i]]

(* A read that succeeded: DDCRead_DDC2 looks at the checksum, which is     *)
(* right for the block itself and may or may not be for anything else.     *)
Finish ==
  \/ reader' = "success" /\ UNCHANGED <<tries, offset>>
  \/ rbuf' # Block /\ Failed

ChunkSize == IF Size - offset > ChunkMax THEN ChunkMax ELSE Size - offset

(* rhd5xxWriteRead, one chunk.  The arbitration test of                    *)
(* rhd5xxWriteReadChunk is !(reg) & CAN_USE, which is never true: the      *)
(* chunk is transferred whether the bus was granted or not.  offset is a   *)
(* CARD8.                                                                  *)
NextOffset(o, n) == (o + n) % 256

R500Chunk ==
  /\ family = "R500" /\ reader = "try"
  /\ granted' \in IF "denied" \in Faults THEN BOOLEAN ELSE {TRUE}
  /\ \E how \in Outcomes :
       \/ Unanswered(how)
       \/ /\ Answered(how)
          /\ rbuf' = ReadInto(offset + 1, Got(how, Sent(offset, ChunkSize)))
          /\ slave' = (offset + ChunkSize) % Size
          /\ IF offset + ChunkSize < Size
               THEN /\ offset' = NextOffset(offset, ChunkSize)
                    /\ UNCHANGED <<reader, tries>>
               ELSE Finish
  /\ UNCHANGED family

(* rhdRS69WriteRead, rhd6xxWriteRead.  In the FIFO are the slave address   *)
(* at index 0, the nWrite bytes from 1 on, the address for the read, and   *)
(* then the data; it is read from a fixed index on.                        *)
DataIndexMoved(nWrite) == nWrite + 1      \* mutant: idx without the second address
DataIndex(nWrite) == 3

Fifo(nWrite, data) == [i \in 1..nWrite + 2 |-> Junk] \o data

FifoRead ==
  /\ family \in {"RS690", "R600"} /\ reader = "try"
  /\ \E how \in Outcomes :
       \/ Unanswered(how)
       \/ /\ Answered(how)
          /\ LET fifo == Fifo(1, Got(how, Sent(0, Size)))
             IN  rbuf' = [i \in 1..Size |-> fifo[DataIndex(1) + i]]
          /\ slave' = 0
          /\ Finish
  /\ UNCHANGED <<family, granted>>

(* rhdRV620WriteRead: the offset is written, which sets the pointer.       *)
RV620Write ==
  /\ family = "RV620" /\ reader = "try"
  /\ \E how \in Outcomes :
       \/ Unanswered(how)
       \/ /\ Answered(how)
          /\ slave' \in IF how = "stale" THEN 0..Size - 1 ELSE {0}
          /\ reader' = "chunks"
          /\ UNCHANGED <<tries, rbuf, offset>>
  /\ UNCHANGED <<family, granted>>

(* rhdRV620Transaction, reading: one round of its loop.  COUNT is one less *)
(* than the bytes on the wire, and the slave address is one of them when   *)
(* the round has a start.                                                  *)
CountSame(start, n) == n      \* mutant: always as with a start
Count(start, n) == IF start THEN n ELSE n - 1
WireData(start, count) == IF start THEN count ELSE count + 1

RV620Chunk ==
  /\ family = "RV620" /\ reader = "chunks"
  /\ \E how \in Outcomes :
       \/ Unanswered(how)
       \/ /\ Answered(how)
          /\ LET wire == WireData(offset = 0, Count(offset = 0, ChunkSize))
             IN  /\ rbuf' = ReadInto(offset + 1, Got(how, Sent(slave, ChunkSize)))
                 /\ slave' = (slave + wire) % Size
          /\ IF Size - offset > ChunkMax
               THEN /\ offset' = offset + ChunkSize
                    /\ UNCHANGED <<reader, tries>>
               ELSE Finish
  /\ UNCHANGED <<family, granted>>

(* The caller takes the block, or NULL, and may read again later.          *)
Return ==
  /\ reader \in {"success", "failed"}
  /\ reader' = "idle" /\ tries' = 0 /\ rbuf' = <<>> /\ offset' = 0
  /\ late' = FALSE
  /\ UNCHANGED <<family, running, granted, slave>>

(* An engine left running ends by itself.                                  *)
EngineEnds ==
  /\ running /\ running' = FALSE
  /\ UNCHANGED <<family, reader, tries, rbuf, offset, granted, slave, late>>

Transact == R500Chunk \/ FifoRead \/ RV620Write \/ RV620Chunk

Next == StartRead \/ Transact \/ Return \/ EngineEnds

Spec == Init /\ [][Next]_vars

(* The reader runs on: its polling loops are bounded.                      *)
FairSpec == Spec /\ WF_vars(Transact)
-----------------------------------------------------------------------------
(* The buffer that DDCRead_DDC2 hands out is the monitor's EDID block,     *)
(* byte for byte, whatever the checksum lets through: after any mix of     *)
(* refused and unanswered attempts, and however the engine cuts the read.  *)
(* The exception is an attempt that went over a transaction still running. *)
ReadsBlock == reader = "success" /\ ~late => rbuf = Block

(* Only RV620 can start an attempt, or a chunk, while the engine still     *)
(* runs an earlier one that was given up, whose late answer is then taken  *)
(* for the new one's: the others reset the engine.                         *)
StartsIdle == family # "RV620" => ~running /\ ~late

(* What its callers see of it.                                             *)
Read ==
  INSTANCE EdidRead
    WITH reader <- CASE reader \in {"try", "chunks"} -> "reading"
                     [] reader \in {"success", "failed"} -> "done"
                     [] OTHER -> "idle",
         result <- IF reader = "success" THEN rbuf ELSE <<>>,
         broken <- late,
         NoBlock <- <<>>

(* The refinement: with its retries, chunks and engines hidden, reading a  *)
(* block is EdidRead: it ends with the monitor's block or with none.       *)
ImplementsEdidRead == Read!SafeSpec

(* Each request is answered, however often the checksum fails and the      *)
(* engine does not answer (xf86DDC.c:271).                                 *)
AnswersEach == Read!Answers
=============================================================================
