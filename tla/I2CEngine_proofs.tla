-------------------------- MODULE I2CEngine_proofs --------------------------
(***************************************************************************)
(* What I2CEngine's runs check, for every EDID block, chunk size, number   *)
(* of retries and kind of fault.  The length of the block matters: the     *)
(* offset of a chunk is a CARD8, and 256 bytes are the most it reaches.    *)
(***************************************************************************)
EXTENDS I2CEngine, SequenceTheorems, TLAPS

USE LimitAssumption

(* A pointer inside of the block is not wrapped.                           *)
LEMMA NotWrapped == ASSUME NEW n \in Nat \ {0}, NEW a \in 0..n - 1 PROVE a % n = a
  BY SMT

(* The pointer of the monitor stays inside of the block.                   *)
LEMMA Wrapped == ASSUME NEW n \in Nat \ {0}, NEW a \in Nat PROVE a % n \in 0..n - 1
  BY SMT

(* The block is a function on 1..Size.                                     *)
LEMMA BlockIs ==
  /\ Size \in 1..256 /\ Size \in Nat \ {0}
  /\ Block \in [1..Size -> Int]
<1>1. Len(Block) \in 1..256 /\ Block \in Seq(Nat)
  BY BlockAssumption
<1>2. Block \in [1..Len(Block) -> Nat]
  BY <1>1, LenProperties
<1>3. Size = Len(Block)
  BY DEF Size
<1>4. Size \in 1..256 /\ Block \in [1..Size -> Nat]
  BY <1>1, <1>2, <1>3
<1>5. Size \in Nat \ {0}
  BY <1>4
<1>6. Block \in [1..Size -> Int]
  BY <1>4
<1> QED
  BY <1>4, <1>5, <1>6

(* Behind a first sequence comes the second.                               *)
LEMMA Behind ==
  ASSUME NEW s \in Seq(Int), NEW t \in Seq(Int), NEW i \in 1..Len(t)
  PROVE  (s \o t)[Len(s) + i] = t[i]
<1>1. Len(s) \in Nat /\ Len(t) \in Nat
  BY LenProperties
<1> QED
  BY <1>1, ConcatProperties

(* What the monitor sends from an offset on are the bytes of the block     *)
(* from there on.                                                          *)
LEMMA SentIs ==
  ASSUME NEW from \in Nat, NEW n \in Nat, from + n <= Size
  PROVE  /\ Sent(from, n) \in Seq(Int)
         /\ Len(Sent(from, n)) = n
         /\ \A i \in 1..n : Sent(from, n)[i] = Block[from + i]
<1>1. ASSUME NEW i \in 1..n PROVE ((from + i - 1) % Size) + 1 = from + i
  <2>1. from + i - 1 \in 0..Size - 1
    BY BlockIs
  <2>2. (from + i - 1) % Size = from + i - 1
    BY <2>1, BlockIs, NotWrapped
  <2> QED
    BY <2>2
<1>2. \A i \in 1..n : Sent(from, n)[i] = Block[from + i]
  BY <1>1 DEF Sent
<1>3. Sent(from, n) = [i \in 1..n |-> Block[from + i]]
  BY <1>1 DEF Sent
<1>4. \A i \in 1..n : Block[from + i] \in Int
  BY BlockIs
<1> QED
  BY <1>2, <1>3, <1>4

(* The first n bytes of a buffer are the block's.                          *)
Begins(buffer, n) == \A i \in 1..n : buffer[i] = Block[i]

(* A buffer is filled.                                                     *)
IsBuffer(buffer) == buffer \in [1..Size -> Int]

(* A buffer that begins as the block does in all its bytes is the block.   *)
LEMMA WholeBlock ==
  ASSUME NEW buffer, IsBuffer(buffer), Begins(buffer, Size)
  PROVE  buffer = Block
  BY BlockIs DEF IsBuffer, Begins

(* A chunk put at its offset is more of the block.                         *)
LEMMA ReadIntoBegins ==
  ASSUME IsBuffer(rbuf), NEW o \in Nat, NEW n \in Nat, o + n <= Size, Begins(rbuf, o)
  PROVE  Begins(ReadInto(o + 1, Sent(o, n)), o + n)
<1>1. /\ Len(Sent(o, n)) = n
      /\ \A i \in 1..n : Sent(o, n)[i] = Block[o + i]
  BY SentIs
<1> SUFFICES ASSUME NEW i \in 1..o + n
             PROVE  ReadInto(o + 1, Sent(o, n))[i] = Block[i]
  BY DEF Begins
<1>2. i \in 1..Size
  BY BlockIs
<1>3. CASE i <= o
  BY <1>1, <1>2, <1>3 DEF ReadInto, Begins
<1>4. CASE i > o
  <2>1. i - o \in 1..n /\ i - (o + 1) + 1 = i - o /\ o + (i - o) = i
    BY <1>4
  <2>2. ReadInto(o + 1, Sent(o, n))[i] = Sent(o, n)[i - (o + 1) + 1]
    BY <1>1, <1>2, <1>4 DEF ReadInto
  <2> QED
    BY <1>1, <2>1, <2>2
<1> QED
  BY <1>3, <1>4

(* A chunk, whatever came of it, leaves a filled buffer.                   *)
LEMMA ReadIntoIsBuffer ==
  ASSUME IsBuffer(rbuf), NEW o \in Nat, NEW bytes \in Seq(Int)
  PROVE  IsBuffer(ReadInto(o + 1, bytes))
<1> SUFFICES ASSUME NEW i \in 1..Size, i \in o + 1 .. o + 1 + Len(bytes) - 1
             PROVE  bytes[i - (o + 1) + 1] \in Int
  BY DEF ReadInto, IsBuffer
<1> QED
  BY BlockIs
-----------------------------------------------------------------------------
(* The invariant.  An attempt that took no old transaction's end for its   *)
(* own holds the block up to its offset; RV620 has the monitor's pointer   *)
(* at that offset; the others send the offset with each transaction.       *)
TypeOK ==
  /\ family \in {"R500", "RS690", "R600", "RV620"}
  /\ reader \in {"idle", "try", "chunks", "success", "failed"}
  /\ tries \in Nat /\ offset \in Nat /\ slave \in 0..Size - 1
  /\ running \in BOOLEAN /\ late \in BOOLEAN

Filled == reader # "idle" => IsBuffer(rbuf)

AtOffset ==
  /\ reader \in {"try", "chunks"} => offset \in 0..Size - 1
  /\ reader = "chunks" => family = "RV620"
  /\ reader = "try" /\ family # "R500" => offset = 0
  /\ reader = "chunks" /\ ~late => slave = offset

SoFar == reader \in {"try", "chunks"} /\ ~late => Begins(rbuf, offset)

IInv == TypeOK /\ Filled /\ AtOffset /\ SoFar /\ StartsIdle /\ ReadsBlock

(* A chunk is neither empty nor reaches over the end of the block.         *)
LEMMA ChunkFits ==
  ASSUME offset \in 0..Size - 1
  PROVE  /\ ChunkSize \in Nat \ {0}
         /\ offset + ChunkSize <= Size
         /\ Size - offset > ChunkMax => offset + ChunkSize < Size
         /\ ~(Size - offset > ChunkMax) => offset + ChunkSize = Size
  BY BlockIs DEF ChunkSize

(* A transaction that came to nothing: the next attempt starts over.       *)
LEMMA UnansweredInv ==
  ASSUME IInv, NEW how \in Outcomes, Unanswered(how), UNCHANGED family,
         reader \in {"try", "chunks"}
  PROVE  IInv'
<1>1. TypeOK'
  <2>1. running' \in BOOLEAN
    BY Zenon DEF Unanswered, RunsOn
  <2>2. tries \in Nat /\ Retries \in Nat
    BY DEF IInv, TypeOK
  <2>3. /\ tries' \in Nat /\ offset' \in Nat /\ slave' \in 0..Size - 1
    BY <2>2 DEF Unanswered, Failed
  <2>4. /\ family' \in {"R500", "RS690", "R600", "RV620"}
        /\ reader' \in {"idle", "try", "chunks", "success", "failed"}
    BY DEF IInv, TypeOK, Unanswered, Failed
  <2>5. late' \in BOOLEAN
    BY Zenon DEF Unanswered
  <2> QED
    BY <2>1, <2>3, <2>4, <2>5, Zenon DEF TypeOK
<1>2. Filled'
  BY BlockIs DEF IInv, Filled, Unanswered, Failed, IsBuffer
<1>3. AtOffset'
  BY BlockIs DEF IInv, TypeOK, AtOffset, Unanswered, Failed
<1>4. SoFar'
  BY DEF SoFar, Begins, Unanswered, Failed
<1>5. StartsIdle'
  BY DEF IInv, StartsIdle, Unanswered, RunsOn
<1>6. ReadsBlock'
  BY DEF ReadsBlock, Unanswered, Failed
<1> QED
  BY <1>1, <1>2, <1>3, <1>4, <1>5, <1>6 DEF IInv

(* Only an engine that runs on takes an old transaction's end for a new    *)
(* one's: the engine stands still after an answer, and the attempt is good *)
(* as before unless RV620 erred.                                           *)
LEMMA AnsweredIdle ==
  ASSUME IInv, NEW how \in Outcomes, Answered(how), UNCHANGED family
  PROVE  /\ running' = FALSE /\ late' \in BOOLEAN
         /\ StartsIdle'
         /\ how = "stale" => late'
         /\ ~late' /\ ~(reader = "try" /\ offset = 0) => ~late
<1>1. running' = FALSE /\ late' \in BOOLEAN
  BY DEF Answered, IInv, TypeOK
<1>2. family # "RV620" => how # "stale"
  BY DEF IInv, StartsIdle, Outcomes, Answered
<1> QED
  BY <1>1, <1>2 DEF IInv, StartsIdle, Answered

(* The last transaction of an attempt, with all of the block in the buffer *)
(* if it was a good one: it is handed out, or thrown away.                 *)
LEMMA FinishInv ==
  ASSUME IInv, NEW how \in Outcomes, Answered(how), UNCHANGED family,
         IsBuffer(rbuf'), slave' \in 0..Size - 1, Finish,
         ~late' => Begins(rbuf', Size)
  PROVE  IInv'
<1> USE AnsweredIdle
<1>1. TypeOK'
  <2>1. /\ family' \in {"R500", "RS690", "R600", "RV620"}
        /\ reader' \in {"idle", "try", "chunks", "success", "failed"}
    BY DEF IInv, TypeOK, Finish, Failed
  <2>2. tries' \in Nat /\ offset' \in Nat
    BY DEF IInv, TypeOK, Finish, Failed
  <2>3. running' \in BOOLEAN /\ late' \in BOOLEAN
    BY AnsweredIdle, Zenon
  <2> QED
    BY <2>1, <2>2, <2>3, Zenon DEF TypeOK
<1>2. Filled'
  BY DEF Filled
<1>3. AtOffset'
  BY BlockIs DEF IInv, TypeOK, AtOffset, Finish, Failed
<1>4. SoFar'
  BY DEF SoFar, Begins, Finish, Failed
<1>5. ReadsBlock'
  BY WholeBlock DEF ReadsBlock
<1> QED
  BY <1>1, <1>2, <1>3, <1>4, <1>5 DEF IInv

(* What is left in the buffer is numbers, whatever came.                   *)
LEMMA GotIs ==
  ASSUME NEW how, NEW bytes \in Seq(Int)
  PROVE  /\ Got(how, bytes) \in Seq(Int)
         /\ how # "stale" => Got(how, bytes) = bytes
  BY DEF Got, Junk

(* The engines of the families, one transaction each.                      *)
LEMMA R500ChunkInv == ASSUME IInv, R500Chunk PROVE IInv'
<1>1. family = "R500" /\ reader = "try" /\ UNCHANGED family
  BY DEF R500Chunk
<1>2. PICK how \in Outcomes :
        \/ Unanswered(how)
        \/ /\ Answered(how)
           /\ rbuf' = ReadInto(offset + 1, Got(how, Sent(offset, ChunkSize)))
           /\ slave' = (offset + ChunkSize) % Size
           /\ IF offset + ChunkSize < Size
                THEN /\ offset' = NextOffset(offset, ChunkSize)
                     /\ UNCHANGED <<reader, tries>>
                ELSE Finish
  BY DEF R500Chunk
<1>3. CASE Unanswered(how)
  BY <1>1, <1>3, UnansweredInv
<1>4. CASE ~Unanswered(how)
  <2>1. /\ offset \in 0..Size - 1 /\ offset \in Nat /\ tries \in Nat
        /\ IsBuffer(rbuf) /\ StartsIdle
        /\ ~late => Begins(rbuf, offset)
    BY <1>1 DEF IInv, TypeOK, Filled, AtOffset, SoFar
  <2>2. /\ ChunkSize \in Nat \ {0} /\ offset + ChunkSize <= Size
        /\ ~(offset + ChunkSize < Size) => offset + ChunkSize = Size
    BY <2>1, ChunkFits
  <2> DEFINE bytes == Sent(offset, ChunkSize)
  <2>3. /\ Answered(how) /\ rbuf' = ReadInto(offset + 1, Got(how, bytes))
        /\ slave' \in 0..Size - 1
    <3>1. offset + ChunkSize \in Nat
      BY <2>1, <2>2
    <3>2. (offset + ChunkSize) % Size \in 0..Size - 1
      BY <3>1, Wrapped, BlockIs
    <3> QED
      BY <1>2, <1>4, <3>2
  <2>4. /\ bytes \in Seq(Int) /\ Got(how, bytes) \in Seq(Int)
        /\ how # "stale" => Got(how, bytes) = bytes
    BY <2>1, <2>2, SentIs, GotIs
  <2>5. IsBuffer(rbuf')
    BY <2>1, <2>3, <2>4, ReadIntoIsBuffer
  <2>6. how # "stale" /\ ~late
    BY <1>1, <2>1 DEF StartsIdle, Outcomes
  <2>7. Begins(rbuf', offset + ChunkSize)
    BY <2>1, <2>2, <2>3, <2>4, <2>6, ReadIntoBegins
  <2>8. StartsIdle' /\ running' = FALSE /\ late' \in BOOLEAN
    BY <1>1, <2>3, AnsweredIdle
  <2>9. CASE offset + ChunkSize < Size
    <3>1. offset' = (offset + ChunkSize) % 256 /\ UNCHANGED <<reader, tries>>
      BY <1>2, <1>4, <2>9 DEF NextOffset
    <3>2. offset + ChunkSize \in 0..256 - 1
      BY <2>1, <2>2, <2>9, BlockIs
    <3>3. offset' = offset + ChunkSize
      BY SMTT(30), <3>1, <3>2, NotWrapped
    <3> HIDE DEF bytes
    <3>4. offset' \in Nat /\ offset' \in 0..Size - 1
      BY <2>1, <2>2, <2>9, <3>3, BlockIs
    <3>5. TypeOK'
      BY <1>1, <2>1, <2>3, <2>8, <3>1, <3>4, Zenon DEF TypeOK
    <3>6. AtOffset'
      BY <1>1, <3>1, <3>4, Zenon DEF AtOffset
    <3>7. Filled' /\ SoFar' /\ ReadsBlock'
      BY <1>1, <2>5, <2>7, <3>1, <3>3 DEF Filled, SoFar, ReadsBlock
    <3> QED
      BY <2>8, <3>5, <3>6, <3>7 DEF IInv
  <2>10. CASE ~(offset + ChunkSize < Size)
    <3>1. Finish /\ Begins(rbuf', Size)
      BY <1>2, <1>4, <2>2, <2>7, <2>10
    <3> QED
      BY <1>1, <2>3, <2>5, <3>1, FinishInv
  <2> QED
    BY <2>9, <2>10
<1> QED
  BY <1>3, <1>4

LEMMA FifoReadInv == ASSUME IInv, FifoRead PROVE IInv'
<1>1. family \in {"RS690", "R600"} /\ reader = "try" /\ UNCHANGED family
  BY DEF FifoRead
<1>2. PICK how \in Outcomes :
        \/ Unanswered(how)
        \/ /\ Answered(how)
           /\ rbuf' = [i \in 1..Size |-> Fifo(1, Got(how, Sent(0, Size)))[DataIndex(1) + i]]
           /\ slave' = 0
           /\ Finish
  BY DEF FifoRead
<1>3. CASE Unanswered(how)
  BY <1>1, <1>3, UnansweredInv
<1>4. CASE ~Unanswered(how)
  <2>1. how # "stale"
    BY <1>1 DEF IInv, StartsIdle, Outcomes
  <2> DEFINE data == Sent(0, Size)
  <2>2. /\ data \in Seq(Int) /\ Len(data) = Size
        /\ \A i \in 1..Size : data[i] = Block[i]
    <3>1. 0 + Size <= Size /\ Size \in Nat
      BY BlockIs
    <3>2. /\ data \in Seq(Int) /\ Len(data) = Size
          /\ \A i \in 1..Size : data[i] = Block[0 + i]
      BY <3>1, SentIs
    <3> QED
      BY <3>2, BlockIs
  <2>3. /\ Answered(how) /\ slave' = 0 /\ Finish
        /\ rbuf' = [i \in 1..Size |-> Fifo(1, data)[3 + i]]
    BY <1>2, <1>4, <2>1, <2>2, GotIs DEF DataIndex
  <2> DEFINE head == [i \in 1..3 |-> Junk]
  <2>4. head \in Seq(Int) /\ Len(head) = 3
    BY DEF Junk
  <2>5. Fifo(1, data) = head \o data
    BY DEF Fifo
  <2> HIDE DEF data, head
  <2>6. \A i \in 1..Size : (head \o data)[3 + i] = data[i]
    <3> TAKE i \in 1..Size
    <3>1. i \in 1..Len(data)
      BY <2>2
    <3>2. (head \o data)[Len(head) + i] = data[i]
      BY <2>2, <2>4, <3>1, Behind
    <3> QED
      BY <2>4, <3>2
  <2>7. \A i \in 1..Size : rbuf'[i] = Block[i]
    BY <2>2, <2>3, <2>5, <2>6
  <2>8. IsBuffer(rbuf') /\ Begins(rbuf', Size)
    BY <2>3, <2>7, BlockIs DEF IsBuffer, Begins
  <2>9. slave' \in 0..Size - 1
    BY <2>3, BlockIs
  <2> QED
    BY <1>1, <2>3, <2>8, <2>9, FinishInv
<1> QED
  BY <1>3, <1>4

LEMMA RV620WriteInv == ASSUME IInv, RV620Write PROVE IInv'
<1>1. family = "RV620" /\ reader = "try" /\ UNCHANGED family
  BY DEF RV620Write
<1>2. PICK how \in Outcomes :
        \/ Unanswered(how)
        \/ /\ Answered(how)
           /\ slave' \in IF how = "stale" THEN 0..Size - 1 ELSE {0}
           /\ reader' = "chunks"
           /\ UNCHANGED <<tries, rbuf, offset>>
  BY DEF RV620Write
<1>3. CASE Unanswered(how)
  BY <1>1, <1>3, UnansweredInv
<1>4. CASE ~Unanswered(how)
  <2>1. /\ Answered(how) /\ reader' = "chunks" /\ UNCHANGED <<tries, rbuf, offset>>
        /\ slave' \in 0..Size - 1
        /\ how # "stale" => slave' = 0
    BY <1>2, <1>4, BlockIs
  <2>2. /\ running' = FALSE /\ late' \in BOOLEAN /\ StartsIdle'
        /\ how = "stale" => late'
    BY <1>1, <2>1, AnsweredIdle
  <2>3. offset = 0
    BY <1>1 DEF IInv, AtOffset
  <2>4. TypeOK'
    <3>1. /\ family \in {"R500", "RS690", "R600", "RV620"}
          /\ tries \in Nat /\ offset \in Nat
      BY Zenon DEF IInv, TypeOK
    <3>2. tries' \in Nat /\ offset' \in Nat /\ family' = "RV620" /\ reader' = "chunks"
      BY <1>1, <2>1, <3>1
    <3> QED
      BY <2>1, <2>2, <3>2, Zenon DEF TypeOK
  <2>5. AtOffset'
    <3>1. offset' \in 0..Size - 1
      BY <2>1, <2>3, BlockIs
    <3>2. ~late' => slave' = offset'
      BY <2>1, <2>2, <2>3
    <3> QED
      BY <1>1, <2>1, <3>1, <3>2, Zenon DEF AtOffset
  <2>6. Filled' /\ SoFar' /\ ReadsBlock'
    BY <1>1, <2>1, <2>3 DEF IInv, Filled, SoFar, ReadsBlock, Begins
  <2> QED
    BY <2>2, <2>4, <2>5, <2>6 DEF IInv
<1> QED
  BY <1>3, <1>4

LEMMA RV620ChunkInv == ASSUME IInv, RV620Chunk PROVE IInv'
<1>1. family = "RV620" /\ reader = "chunks" /\ UNCHANGED family
  BY DEF RV620Chunk
<1> DEFINE wire == WireData(offset = 0, Count(offset = 0, ChunkSize))
<1>2. PICK how \in Outcomes :
        \/ Unanswered(how)
        \/ /\ Answered(how)
           /\ rbuf' = ReadInto(offset + 1, Got(how, Sent(slave, ChunkSize)))
           /\ slave' = (slave + wire) % Size
           /\ IF Size - offset > ChunkMax
                THEN /\ offset' = offset + ChunkSize
                     /\ UNCHANGED <<reader, tries>>
                ELSE Finish
  BY DEF RV620Chunk
<1>3. CASE Unanswered(how)
  BY <1>1, <1>3, UnansweredInv
<1>4. CASE ~Unanswered(how)
  <2>1. /\ offset \in 0..Size - 1 /\ offset \in Nat /\ tries \in Nat
        /\ IsBuffer(rbuf) /\ slave \in 0..Size - 1 /\ slave \in Nat
        /\ ~late => Begins(rbuf, offset) /\ slave = offset
    BY <1>1 DEF IInv, TypeOK, Filled, AtOffset, SoFar
  <2>2. /\ ChunkSize \in Nat \ {0} /\ offset + ChunkSize <= Size
        /\ Size - offset > ChunkMax => offset + ChunkSize < Size
        /\ ~(Size - offset > ChunkMax) => offset + ChunkSize = Size
    BY <2>1, ChunkFits
  <2>3. wire = ChunkSize
    BY <2>2 DEF WireData, Count
  <2> DEFINE bytes == Sent(slave, ChunkSize)
  <2>4. /\ Answered(how) /\ rbuf' = ReadInto(offset + 1, Got(how, bytes))
        /\ slave' = (slave + ChunkSize) % Size
    BY <1>2, <1>4, <2>3
  <2>5. slave' \in 0..Size - 1
    <3>1. slave + ChunkSize \in Nat
      BY <2>1, <2>2
    <3> QED
      BY <2>4, <3>1, Wrapped, BlockIs
  <2>6. bytes \in Seq(Int)
    <3>1. \A i \in 1..ChunkSize : ((slave + i - 1) % Size) + 1 \in 1..Size
      <4> TAKE i \in 1..ChunkSize
      <4>1. slave + i - 1 \in Nat
        BY <2>1, <2>2
      <4>2. (slave + i - 1) % Size \in 0..Size - 1
        BY <4>1, Wrapped, BlockIs
      <4> QED
        BY <4>2, BlockIs
    <3> QED
      BY <2>2, <3>1, BlockIs DEF Sent
  <2>7. Got(how, bytes) \in Seq(Int) /\ (how # "stale" => Got(how, bytes) = bytes)
    BY <2>6, GotIs
  <2>8. IsBuffer(rbuf')
    BY <2>1, <2>4, <2>7, ReadIntoIsBuffer
  <2>9. /\ running' = FALSE /\ late' \in BOOLEAN /\ StartsIdle'
        /\ ~late' => how # "stale" /\ ~late
    BY <1>1, <2>4, AnsweredIdle
  <2>10. ~late' => Begins(rbuf', offset + ChunkSize)
    BY <2>1, <2>2, <2>4, <2>7, <2>9, ReadIntoBegins
  <2> HIDE DEF bytes
  <2>11. CASE Size - offset > ChunkMax
    <3>1. offset' = offset + ChunkSize /\ UNCHANGED <<reader, tries>>
      BY <1>2, <1>4, <2>11
    <3>2. offset' \in 0..Size - 1
      BY <2>1, <2>2, <2>11, <3>1, BlockIs
    <3>3. ~late' => slave' = offset'
      <4>1. offset' % Size = offset'
        BY <3>2, NotWrapped, BlockIs
      <4> QED
        BY <2>1, <2>4, <2>9, <3>1, <4>1
    <3>4. TypeOK' /\ AtOffset'
      <4>1. offset' \in Nat
        BY <3>2
      <4>2. TypeOK'
        BY <1>1, <2>1, <2>5, <2>9, <3>1, <4>1, Zenon DEF TypeOK
      <4> QED
        BY <1>1, <3>1, <3>2, <3>3, <4>2, Zenon DEF AtOffset
    <3>5. Filled' /\ SoFar' /\ ReadsBlock'
      BY <1>1, <2>8, <2>10, <3>1 DEF Filled, SoFar, ReadsBlock
    <3> QED
      BY <2>9, <3>4, <3>5 DEF IInv
  <2>12. CASE ~(Size - offset > ChunkMax)
    <3>1. Finish /\ (~late' => Begins(rbuf', Size))
      BY <1>2, <1>4, <2>2, <2>10, <2>12
    <3> QED
      BY <1>1, <2>4, <2>5, <2>8, <3>1, FinishInv
  <2> QED
    BY <2>11, <2>12
<1> QED
  BY <1>3, <1>4

(* The steps around the transactions.                                      *)
LEMMA StartReadInv == ASSUME IInv, StartRead PROVE IInv'
<1>1. /\ reader' = "try" /\ tries' = 0 /\ offset' = 0 /\ late' = FALSE
      /\ rbuf' = [i \in 1..Size |-> 0] /\ UNCHANGED <<family, running, slave>>
  BY DEF StartRead
<1>2. TypeOK'
  <2>1. tries' \in Nat /\ offset' \in Nat /\ late' \in BOOLEAN
    BY <1>1
  <2> QED
    BY <1>1, <2>1, Zenon DEF IInv, TypeOK
<1>3. AtOffset'
  BY <1>1, BlockIs DEF AtOffset
<1>4. Filled' /\ SoFar' /\ ReadsBlock'
  BY <1>1, BlockIs DEF Filled, IsBuffer, SoFar, Begins, ReadsBlock
<1>5. StartsIdle'
  BY <1>1 DEF IInv, StartsIdle
<1> QED
  BY <1>2, <1>3, <1>4, <1>5 DEF IInv

LEMMA ReturnInv == ASSUME IInv, Return PROVE IInv'
<1>1. /\ reader' = "idle" /\ tries' = 0 /\ offset' = 0 /\ late' = FALSE
      /\ UNCHANGED <<family, running, slave>>
  BY DEF Return
<1>2. TypeOK'
  <2>1. tries' \in Nat /\ offset' \in Nat /\ late' \in BOOLEAN
    BY <1>1
  <2> QED
    BY <1>1, <2>1, Zenon DEF IInv, TypeOK
<1>3. Filled' /\ AtOffset' /\ SoFar' /\ ReadsBlock'
  BY <1>1 DEF Filled, AtOffset, SoFar, ReadsBlock
<1>4. StartsIdle'
  BY <1>1 DEF IInv, StartsIdle
<1> QED
  BY <1>2, <1>3, <1>4 DEF IInv

LEMMA EngineEndsInv == ASSUME IInv, EngineEnds PROVE IInv'
<1>1. running' = FALSE /\ UNCHANGED <<family, reader, tries, rbuf, offset, slave, late>>
  BY DEF EngineEnds
<1>2. TypeOK'
  BY <1>1, Zenon DEF IInv, TypeOK
<1>3. Filled' /\ AtOffset' /\ SoFar' /\ StartsIdle' /\ ReadsBlock'
  BY <1>1 DEF IInv, Filled, IsBuffer, AtOffset, SoFar, Begins, StartsIdle, ReadsBlock
<1> QED
  BY <1>2, <1>3 DEF IInv

LEMMA StutterInv == ASSUME IInv, UNCHANGED vars PROVE IInv'
<1>1. UNCHANGED <<family, reader, tries, rbuf, offset, running, slave, late>>
  BY DEF vars
<1>2. TypeOK'
  BY <1>1, Zenon DEF IInv, TypeOK
<1>3. Filled' /\ AtOffset' /\ SoFar' /\ StartsIdle' /\ ReadsBlock'
  BY <1>1 DEF IInv, Filled, IsBuffer, AtOffset, SoFar, Begins, StartsIdle, ReadsBlock
<1> QED
  BY <1>2, <1>3 DEF IInv

(* The invariant holds of every reachable state.                           *)
THEOREM Invariant == Spec => []IInv
<1>1. Init => IInv
  <2> SUFFICES ASSUME Init PROVE IInv
    OBVIOUS
  <2>1. TypeOK
    BY DEF Init, TypeOK
  <2>2. Filled /\ AtOffset /\ SoFar /\ StartsIdle /\ ReadsBlock
    BY DEF Init, Filled, AtOffset, SoFar, StartsIdle, ReadsBlock
  <2> QED
    BY <2>1, <2>2 DEF IInv
<1>2. IInv /\ [Next]_vars => IInv'
  BY StartReadInv, R500ChunkInv, FifoReadInv, RV620WriteInv, RV620ChunkInv,
     ReturnInv, EngineEndsInv, StutterInv DEF Next, Transact
<1> QED
  BY <1>1, <1>2, PTL DEF Spec

(* A block that is handed out is the monitor's, byte for byte: for every   *)
(* length of block and of chunk, and every number of retries.              *)
THEOREM HandsOutBlock == Spec => []ReadsBlock
<1>1. IInv => ReadsBlock
  BY DEF IInv
<1> QED
  BY <1>1, Invariant, PTL

(* No engine but RV620's starts over a transaction that still runs.        *)
THEOREM EnginesIdle == Spec => []StartsIdle
<1>1. IInv => StartsIdle
  BY DEF IInv
<1> QED
  BY <1>1, Invariant, PTL
-----------------------------------------------------------------------------
(* The refinement, step by step.  In a read, an attempt or a chunk is      *)
(* EdidRead's Work; the last one is its Answer, with the block, with none, *)
(* or broken by RV620's late engine.                                       *)
LEMMA TransactReads ==
  ASSUME IInv, IInv', Transact
  PROVE  Read!Work \/ Read!Answer
<1>1. /\ reader \in {"try", "chunks"}
      /\ reader' \in {"try", "chunks", "success", "failed"}
  BY DEF Transact, R500Chunk, FifoRead, RV620Write, RV620Chunk, Unanswered,
         Failed, Finish
<1>2. CASE reader' \in {"try", "chunks"}
  BY <1>1, <1>2 DEF Read!Work
<1>3. CASE reader' = "failed"
  BY <1>1, <1>3 DEF Read!Answer
<1>4. CASE reader' = "success"
  <2>1. ~late' => rbuf' = Block
    BY <1>4 DEF IInv, ReadsBlock
  <2> QED
    BY <1>1, <1>4, <2>1 DEF Read!Answer
<1> QED
  BY <1>1, <1>2, <1>3, <1>4

LEMMA StepRefines ==
  ASSUME IInv, IInv', [Next]_vars
  PROVE  [Read!Next]_Read!vars
<1> USE DEF Read!Next, Read!vars
<1>1. late' \in BOOLEAN
  BY DEF IInv, TypeOK
<1>2. CASE StartRead
  BY <1>1, <1>2 DEF StartRead, Read!Request
<1>3. CASE Transact
  BY <1>1, <1>3, TransactReads
<1>4. CASE Return
  BY <1>1, <1>4 DEF Return, Read!Return
<1>5. CASE EngineEnds
  BY <1>5 DEF EngineEnds
<1>6. CASE UNCHANGED vars
  BY <1>6 DEF vars
<1> QED
  BY <1>2, <1>3, <1>4, <1>5, <1>6 DEF Next

(* The engines implement EdidRead's safety: whatever goes wrong, a request *)
(* ends with the monitor's block or with none.                             *)
THEOREM Refinement == Spec => ImplementsEdidRead
<1>1. Init => Read!Init
  BY DEF Init, Read!Init
<1>2. IInv /\ IInv' /\ [Next]_vars => [Read!Next]_Read!vars
  BY StepRefines
<1> QED
  BY <1>1, <1>2, Invariant, PTL DEF Spec, ImplementsEdidRead, Read!SafeSpec
=============================================================================
