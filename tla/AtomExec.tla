------------------------------ MODULE AtomExec ------------------------------
(***************************************************************************)
(* The AtomBIOS command interpreter (src/rhd/AtomBios): ParseTable, and    *)
(* the commands of CD_Operations.c, as rhdAtomExec runs them.              *)
(*                                                                         *)
(* A word is the set of its bits that are 1.  A table is a sequence of     *)
(* commands that the end of the table follows; an operand is a cell of the *)
(* parameter space or of the table's workspace, a register, a constant, or *)
(* the quotient or remainder of the last division.  Ports other than the   *)
(* registers, data blocks and delays are left out.                         *)
(***************************************************************************)
EXTENDS Integers, Sequences
LOCAL INSTANCE FiniteSetsExt

CONSTANTS ByteBits,   \* bits of a byte; a word has four
          Programs,   \* the command tables of the BIOS images considered
          PS,         \* dwords of parameter space of each table
          Params,     \* dwords behind the pspace that rhdAtomExec is given
          MaxPS,      \* no table has more, nor reaches further into its own
          MaxDepth    \* bound: workspaces AllocateWorkSpace can hand out

(* The caller of rhdAtomExec provides a pspace for the deepest call.       *)
ASSUME BitsAssumption == ByteBits \in Nat \ {0}
ASSUME SizesAssumption ==
  MaxPS \in Nat /\ MaxDepth \in Nat /\ Params \in Nat /\ MaxPS * MaxDepth < Params

VARIABLES tables,     \* the BIOS image
          stack,      \* the chain of working tables, the running one last
          base,       \* pParameterSpace, in dwords from its start
          param, reg, \* the parameter space, the registers
          div,        \* quotient (or low half of a product) and remainder
          flags,      \* CompareFlags
          callee,     \* CommandSpecific.IndexInMasterTable
          status      \* Status

vars == <<tables, stack, base, param, reg, div, flags, callee, status>>

Bits == 0 .. 4 * ByteBits - 1
Words == SUBSET Bits
Flags == {"below", "equal", "above", "notequal"}
-----------------------------------------------------------------------------
(* Words.  Alignments are numbered as ALIGNMENT_TYPE does.                 *)
Shl(w, n) == {i + n : i \in w} \cap Bits
Shr(w, n) == {i - n : i \in w} \cap Bits
Value(w) == MapThenSumSet(LAMBDA i : 2 ^ i, w)
Word(n) == {i \in Bits : (n \div 2 ^ i) % 2 = 1}

AlignmentMask(sa) == 0 .. ByteBits * (CASE sa = 0 -> 4 [] sa \in 1..3 -> 2 [] OTHER -> 1) - 1
SourceAlignmentShift(sa) == ByteBits * <<0, 0, 1, 2, 0, 1, 2, 3>>[sa + 1]
DestinationAlignmentShift(da) == ByteBits * da

Narrow(s, sa) == Shr(s, SourceAlignmentShift(sa)) \cap AlignmentMask(sa)
CommonSource(s, sa, da) == Shl(Narrow(s, sa), DestinationAlignmentShift(da))
CommonDest(d, sa, da) == Shr(d, DestinationAlignmentShift(da)) \cap AlignmentMask(sa)
DestMask(sa, da) == Shl(AlignmentMask(sa), DestinationAlignmentShift(da))
SourceMask(sa) == Shl(AlignmentMask(sa), SourceAlignmentShift(sa))

-----------------------------------------------------------------------------
(* What the commands with a result write to their destination d.           *)
ProcessMove(d, s, sa, da) ==
  IF sa = 0 THEN s ELSE (d \ DestMask(sa, da)) \cup CommonSource(s, sa, da)
ProcessMask(d, and, or, sa, da) ==
  LET keep == Shl(and, DestinationAlignmentShift(da)) \cup (Bits \ DestMask(sa, da))
  IN (d \cap keep) \cup Shl(or \cap AlignmentMask(sa), DestinationAlignmentShift(da))
ProcessAnd(d, s, sa, da) ==
  d \cap (Shl(Shr(s, SourceAlignmentShift(sa)), DestinationAlignmentShift(da))
          \cup (Bits \ DestMask(sa, da)))
ProcessOr(d, s, sa, da) == d \cup CommonSource(s, sa, da)
ProcessXor(d, s, sa, da) ==
  LET t == CommonSource(s, sa, da) IN (d \cup t) \ (d \cap t)
(* The processor shifts a word by the count modulo the word's width.       *)
Count(n) == n % (4 * ByteBits)
ProcessShl(d, s, sa, da) == Shl(d, Count(Value(CommonSource(s, sa, da))))
ProcessShr(d, s, sa, da) == Shr(d, Count(Value(CommonSource(s, sa, da))))
ProcessADD(d, s, sa, da) == Word(Value(d) + Value(CommonSource(s, sa, da)))
ProcessSUB(d, s, sa, da) == Word(Value(d) - Value(CommonSource(s, sa, da)))
ProcessClear(d, sa) == d \ SourceMask(sa)
ProcessShift(d, left, n, sa) ==
  LET in == d \cap SourceMask(sa)
      out == IF left THEN Shl(in, Count(n)) ELSE Shr(in, Count(n))
  IN (out \cap SourceMask(sa)) \cup (d \ SourceMask(sa))

(* The alignment of the source: a command has one, and GetParametersDirect *)
(* sets it to the first part of the size when it fetches a constant.       *)
GetParametersDirect(sa) == IF sa = 0 THEN 0 ELSE IF sa \in 1 .. 3 THEN 1 ELSE 4
(* A mutant's operator (no part of the specification): the alignment of    *)
(* the command stays.                                                      *)
SrcAlignmentKept(c) == c.sa
SrcAlignment(c) == IF c.source.at = "direct" THEN GetParametersDirect(c.sa) ELSE c.sa

(* Clear and the shifts by a constant have computed their mask before.     *)
Result(c, d, s) ==
  CASE c.op = "move" -> ProcessMove(d, s, SrcAlignment(c), c.da)
    [] c.op = "mask" -> ProcessMask(d, s, c.or, SrcAlignment(c), c.da)
    [] c.op = "and" -> ProcessAnd(d, s, SrcAlignment(c), c.da)
    [] c.op = "or" -> ProcessOr(d, s, SrcAlignment(c), c.da)
    [] c.op = "xor" -> ProcessXor(d, s, SrcAlignment(c), c.da)
    [] c.op = "shl" -> ProcessShl(d, s, SrcAlignment(c), c.da)
    [] c.op = "shr" -> ProcessShr(d, s, SrcAlignment(c), c.da)
    [] c.op = "add" -> ProcessADD(d, s, SrcAlignment(c), c.da)
    [] c.op = "sub" -> ProcessSUB(d, s, SrcAlignment(c), c.da)
    [] c.op = "clear" -> ProcessClear(d, c.sa)
    [] c.op \in {"shiftleft", "shiftright"} ->
         ProcessShift(d, c.op = "shiftleft", Value(s), c.sa)

Writers == {"move", "mask", "and", "or", "xor", "shl", "shr", "add", "sub",
            "clear", "shiftleft", "shiftright"}
Evaluators == {"mul", "div", "compare", "test"}
-----------------------------------------------------------------------------
(* Images are well formed: operands exist, a constant has no more bits     *)
(* than the command fetches (the counts of shifts are bytes), jumps go to  *)
(* a command or behind the last one.                                       *)
IsOperand(o) ==
  \/ o.at = "ps" /\ o.i \in 0 .. MaxPS
  \/ o.at \in {"ws", "reg"} /\ o.i \in {0, 1}
  \/ o.at = "direct" /\ o.word \in Words
  \/ o.at \in {"quotient", "remainder"}
Fetched(c) ==
  IF c.op \in {"shiftleft", "shiftright"} THEN AlignmentMask(4) ELSE AlignmentMask(c.sa)
IsCommand(c) ==
  /\ c.op \in Writers \cup Evaluators \cup {"switch"} =>
       /\ IsOperand(c.source) /\ c.sa \in 0 .. 7
       /\ c.source.at = "direct" => c.source.word \subseteq Fetched(c)
  /\ c.op \in Writers \cup Evaluators =>
       IsOperand(c.dest) /\ c.dest.at # "direct" /\ c.da \in 0 .. 3
  /\ c.op \in {"mask", "shiftleft", "shiftright"} => c.source.at = "direct"
  /\ c.op = "mask" => c.or \in SUBSET Fetched(c)
  /\ c.op \in {"jump", "jumpe", "jumpne"} => c.to \in Nat \ {0}
  /\ c.op = "switch" =>
       \A j \in DOMAIN c.cases :
         /\ j \in Nat /\ c.cases[j].to \in Nat \ {0}
         /\ c.cases[j].value \subseteq Fetched(c)
ASSUME ProgramsAssumption ==
  \A p \in Programs :
    /\ 1 \in DOMAIN p
    /\ \A t \in DOMAIN p :
         /\ PS[t] \in 0 .. MaxPS /\ Len(p[t]) \in Nat
         /\ \A k \in 1 .. Len(p[t]) : IsCommand(p[t][k])
-----------------------------------------------------------------------------
Top == stack[Len(stack)]
AtEnd == Top.ip > Len(tables[Top.table])
Command == tables[Top.table][Top.ip]
Running(ops) ==
  status = "success" /\ ~AtEnd /\ Command.op \in ops

(* GetSource, GetDestination.                                              *)
Read(o) ==
  CASE o.at = "ps" -> param[base + o.i]
    [] o.at = "ws" -> Top.ws[o.i]
    [] o.at = "reg" -> reg[o.i]
    [] o.at = "direct" -> o.word
    [] o.at = "quotient" -> div.quotient
    [] o.at = "remainder" -> div.remainder

Advance == [stack EXCEPT ![Len(stack)].ip = @ + 1]

(* PutDataFunctions.  Register 0 is an index register: what is written     *)
(* there counts bytes.                                                     *)
Put(o, w) ==
  /\ param' = IF o.at = "ps" THEN [param EXCEPT ![base + o.i] = w] ELSE param
  /\ stack' = IF o.at = "ws" THEN [Advance EXCEPT ![Len(stack)].ws[o.i] = w] ELSE Advance
  /\ reg' = IF o.at = "reg" THEN [reg EXCEPT ![o.i] = IF o.i = 0 THEN Shl(w, 2) ELSE w]
            ELSE reg
  /\ div' = IF o.at \in {"quotient", "remainder"} THEN [div EXCEPT ![o.at] = w] ELSE div

Init ==
  /\ tables \in Programs
  /\ stack = <<>> /\ base = 0
  /\ param = [i \in 0 .. Params - 1 |-> {}]
  /\ reg = [i \in {0, 1} |-> {}]
  /\ div = [quotient |-> {}, remainder |-> {}]
  /\ flags \in Flags
  /\ callee = 1 /\ status = "call"

(* The table called gets a workspace of its own; at remembers where its    *)
(* parameters begin.                                                       *)
EnterTable ==
  /\ status = "call"
  /\ IF Len(stack) < MaxDepth
     THEN /\ stack' = Append(stack, [table |-> callee, ip |-> 1, at |-> base,
                                     ws |-> [i \in {0, 1} |-> {}]])
          /\ status' = "success"
     ELSE stack' = stack /\ status' = "unexpected"
  /\ UNCHANGED <<tables, base, param, reg, div, flags, callee>>

(* A mutant's action (no part of the specification): it gives up the       *)
(* parameters of the table that ends.                                      *)
EndOfTableOwn ==
  /\ status = "success" /\ AtEnd
  /\ stack' = SubSeq(stack, 1, Len(stack) - 1)
  /\ IF Len(stack) > 1
     THEN base' = base - PS[Top.table] /\ status' = "success"
     ELSE base' = base /\ status' = "completed"
  /\ UNCHANGED <<tables, param, reg, div, flags, callee>>
(* The workspace is freed, and the caller goes on with its own parameters. *)
EndOfTable ==
  /\ status = "success" /\ AtEnd
  /\ stack' = SubSeq(stack, 1, Len(stack) - 1)
  /\ IF Len(stack) > 1
     THEN base' = base - PS[stack[Len(stack) - 1].table] /\ status' = "success"
     ELSE base' = base /\ status' = "completed"
  /\ UNCHANGED <<tables, param, reg, div, flags, callee>>

Write ==
  /\ Running(Writers)
  /\ Put(Command.dest, Result(Command, Read(Command.dest), Read(Command.source)))
  /\ UNCHANGED <<tables, base, flags, callee, status>>

(* MUL, DIV, Compare and Test take the two fields, and keep the result     *)
(* aside.  The tables do not divide by zero.                               *)
Evaluate ==
  /\ Running(Evaluators)
  /\ LET a == SrcAlignment(Command)
         s == Narrow(Read(Command.source), a)
         d == CommonDest(Read(Command.dest), a, Command.da)
     IN CASE Command.op = "mul" ->
               div' = [div EXCEPT !.quotient = Word(Value(d) * Value(s))] /\ flags' = flags
          [] Command.op = "div" ->
               /\ s # {} /\ flags' = flags
               /\ div' = [quotient |-> Word(Value(d) \div Value(s)),
                          remainder |-> Word(Value(d) % Value(s))]
          [] Command.op = "compare" ->
               /\ div' = div
               /\ flags' = IF d = s THEN "equal" ELSE IF Value(d) < Value(s) THEN "below" ELSE "above"
          [] Command.op = "test" ->
               div' = div /\ flags' = IF d \cap s = {} THEN "equal" ELSE "notequal"
  /\ stack' = Advance
  /\ UNCHANGED <<tables, base, param, reg, callee, status>>

ProcessJump == Command.cond = "always" \/ Command.cond = flags
ProcessJumpE == flags = "equal" \/ flags = Command.cond
ProcessJumpNE == flags # "equal"

(* The first case that has the source's value, or the next command.        *)
ProcessSwitch ==
  LET s == Narrow(Read(Command.source), SrcAlignment(Command))
      hits == {j \in DOMAIN Command.cases : Command.cases[j].value = s}
  IN IF hits = {} THEN Top.ip + 1 ELSE Command.cases[Min(hits)].to

Jump ==
  /\ Running({"jump", "jumpe", "jumpne", "switch"})
  /\ LET go == CASE Command.op = "jump" -> ProcessJump
                 [] Command.op = "jumpe" -> ProcessJumpE
                 [] Command.op = "jumpne" -> ProcessJumpNE
                 [] Command.op = "switch" -> FALSE
         next == CASE Command.op = "switch" -> ProcessSwitch
                   [] go -> Command.to
                   [] OTHER -> Top.ip + 1
     IN stack' = [stack EXCEPT ![Len(stack)].ip = next]
  /\ UNCHANGED <<tables, base, param, reg, div, flags, callee, status>>

(* A mutant's action (no part of the specification): it makes room for the *)
(* parameters of the table it calls.                                       *)
cmdCall_TableCallee ==
  /\ Running({"call"})
  /\ stack' = Advance
  /\ IF Command.table \in DOMAIN tables
     THEN base' = base + PS[Command.table] /\ callee' = Command.table /\ status' = "call"
     ELSE UNCHANGED <<base, callee, status>>
  /\ UNCHANGED <<tables, param, reg, div, flags>>
(* A table that the image does not have is passed over.                    *)
cmdCall_Table ==
  /\ Running({"call"})
  /\ stack' = Advance
  /\ IF Command.table \in DOMAIN tables
     THEN base' = base + PS[Top.table] /\ callee' = Command.table /\ status' = "call"
     ELSE UNCHANGED <<base, callee, status>>
  /\ UNCHANGED <<tables, param, reg, div, flags>>

(* Beep, Repeat, Save_Reg and Restore_Reg, and bytes that are no command.  *)
(* The workspaces of the chain are not freed.                              *)
Fail ==
  /\ Running({"notimplemented", "invalid"})
  /\ status' = Command.op
  /\ stack' = IF Command.op = "invalid" THEN stack ELSE Advance
  /\ UNCHANGED <<tables, base, param, reg, div, flags, callee>>

Next == EnterTable \/ EndOfTable \/ Write \/ Evaluate \/ Jump \/ cmdCall_Table \/ Fail

Spec == Init /\ [][Next]_vars
-----------------------------------------------------------------------------
(* The parameters of each table stand right behind those of its caller,    *)
(* pParameterSpace at those of the running one, or of the one about to     *)
(* run, and it is back at its start, with every workspace freed, when the  *)
(* outermost table has completed.                                          *)
Balanced ==
  /\ stack # <<>> => stack[1].at = 0
  /\ \A j \in 2 .. Len(stack) : stack[j].at = stack[j - 1].at + PS[stack[j - 1].table]
  /\ status = "success" => base = Top.at
  /\ status = "call" => base = IF stack = <<>> THEN 0 ELSE Top.at + PS[Top.table]
  /\ status = "completed" => base = 0 /\ stack = <<>>

(* A table that runs cannot change the workspace of a table that waits for *)
(* it, nor that table's own parameters, nor what stands before them.       *)
CallersKept ==
  [][\A j \in 1 .. Len(stack) - 1 :
       /\ Len(stack') >= Len(stack) => stack'[j] = stack[j]
       /\ \A i \in DOMAIN param :
            i < stack[j].at + PS[stack[j].table] => param'[i] = param[i]]_vars

(* What a command says of each bit: those in the field of its destination  *)
(* come from the field of its source, or from the first bits of a          *)
(* constant, and the others stay.                                          *)
FieldOps == {"move", "and", "or", "xor", "clear"}
Bit(op, d, s) ==
  CASE op = "move" -> s [] op = "and" -> d /\ s [] op = "or" -> d \/ s
    [] op = "xor" -> d # s [] op = "clear" -> FALSE
From(sa) == IF sa = 0 THEN 0 ELSE IF sa <= 3 THEN sa - 1 ELSE sa - 4
Size(sa) == IF sa = 0 THEN 4 ELSE IF sa <= 3 THEN 2 ELSE 1
At(c) ==
  CASE c.op \in {"clear", "shiftleft", "shiftright"} -> From(c.sa)
    [] c.op = "move" /\ c.sa = 0 -> 0
    [] OTHER -> c.da
SourceAt(c) == IF c.source.at = "direct" THEN 0 ELSE From(c.sa)
Field(c) == ByteBits * At(c) .. ByteBits * (At(c) + Size(c.sa)) - 1
ByField(c, d, s) ==
  (d \ Field(c)) \cup
  {i \in Field(c) \cap Bits : Bit(c.op, i \in d, i + ByteBits * (SourceAt(c) - At(c)) \in s)}

(* A command on part of a word changes that part only, and as its name     *)
(* says, whatever parts of its operands it takes.                          *)
FieldsKept ==
  [][LET before == Top.ws[Command.dest.i]
         after == stack'[Len(stack)].ws[Command.dest.i]
     IN /\ Running(FieldOps) /\ Command.dest.at = "ws" =>
             after = ByField(Command, before, Read(Command.source))
        /\ Running({"mask", "shiftleft", "shiftright"}) /\ Command.dest.at = "ws" =>
             after \ Field(Command) = before \ Field(Command)]_vars
=============================================================================
