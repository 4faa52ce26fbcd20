-------------------------- MODULE AtomExec_proofs --------------------------
(***************************************************************************)
(* What AtomExec's run checks, for every width of a byte, every set of     *)
(* well formed images and every depth of calls.                            *)
(***************************************************************************)
EXTENDS AtomExec, SequenceTheorems, WellFoundedInduction, TLAPS
LOCAL INSTANCE FiniteSetsExt

(* Words are sets of bits; what shifts and fields contain.                 *)
LEMMA BitsIs ==
  /\ ByteBits \in Nat \ {0} /\ Bits = 0 .. 4 * ByteBits - 1
  /\ 4 * ByteBits \in Nat /\ Bits \subseteq Int
  BY BitsAssumption DEF Bits

LEMMA InShl ==
  ASSUME NEW w \in SUBSET Int, NEW n \in Int
  PROVE  /\ Shl(w, n) \in Words
         /\ \A i \in Int : i \in Shl(w, n) <=> i \in Bits /\ i - n \in w
<1>1. ASSUME NEW i \in Int, i - n \in w PROVE i \in {j + n : j \in w}
  BY <1>1
<1>2. ASSUME NEW i \in {j + n : j \in w} PROVE i - n \in w
  BY <1>2
<1> QED
  BY <1>1, <1>2 DEF Shl, Words

LEMMA InShr ==
  ASSUME NEW w \in SUBSET Int, NEW n \in Int
  PROVE  /\ Shr(w, n) \in Words
         /\ \A i \in Int : i \in Shr(w, n) <=> i \in Bits /\ i + n \in w
<1>1. ASSUME NEW i \in Int, i + n \in w PROVE i \in {j - n : j \in w}
  <2>1. i = (i + n) - n
    OBVIOUS
  <2> QED
    BY <1>1, <2>1
<1>2. ASSUME NEW i \in {j - n : j \in w} PROVE i + n \in w
  BY <1>2
<1> QED
  BY <1>1, <1>2 DEF Shr, Words

LEMMA PartIs ==
  ASSUME NEW sa \in 0 .. 7
  PROVE  /\ From(sa) \in 0 .. 3 /\ Size(sa) \in {1, 2, 4}
         /\ AlignmentMask(sa) = 0 .. ByteBits * Size(sa) - 1
         /\ SourceAlignmentShift(sa) = ByteBits * From(sa)
         /\ ByteBits * From(sa) \in Nat
         /\ ByteBits * Size(sa) \in Nat /\ ByteBits * Size(sa) <= 4 * ByteBits
<1>1. From(sa) \in 0 .. 3 /\ Size(sa) \in {1, 2, 4}
  BY DEF From, Size
<1>2. (CASE sa = 0 -> 4 [] sa \in 1 .. 3 -> 2 [] OTHER -> 1) = Size(sa)
  BY DEF Size
<1>3. <<0, 0, 1, 2, 0, 1, 2, 3>>[sa + 1] = From(sa)
  BY DEF From
<1>4. AlignmentMask(sa) = 0 .. ByteBits * Size(sa) - 1
  BY <1>2 DEF AlignmentMask
<1>5. SourceAlignmentShift(sa) = ByteBits * From(sa)
  BY <1>3 DEF SourceAlignmentShift
<1>6. ASSUME NEW k \in 0 .. 4 PROVE ByteBits * k \in Nat /\ ByteBits * k <= 4 * ByteBits
  BY BitsIs
<1> QED
  BY <1>1, <1>4, <1>5, <1>6

(* What is taken from the source, and what is put into the destination.    *)
LEMMA InNarrow ==
  ASSUME NEW s \in Words, NEW sa \in 0 .. 7
  PROVE  /\ Narrow(s, sa) \in Words
         /\ \A i \in Int : i \in Narrow(s, sa) <=>
              i \in 0 .. ByteBits * Size(sa) - 1 /\ i + ByteBits * From(sa) \in s
<1>1. s \in SUBSET Int
  BY BitsIs DEF Words
<1>2. /\ ByteBits * From(sa) \in Int /\ AlignmentMask(sa) = 0 .. ByteBits * Size(sa) - 1
      /\ SourceAlignmentShift(sa) = ByteBits * From(sa)
      /\ ByteBits * Size(sa) \in Nat /\ ByteBits * Size(sa) <= 4 * ByteBits
  <2>1. ByteBits * From(sa) \in Nat
    BY PartIs
  <2>2. /\ AlignmentMask(sa) = 0 .. ByteBits * Size(sa) - 1
        /\ SourceAlignmentShift(sa) = ByteBits * From(sa)
        /\ ByteBits * Size(sa) \in Nat /\ ByteBits * Size(sa) <= 4 * ByteBits
    BY PartIs, Zenon
  <2>3. ByteBits * From(sa) \in Int
    BY <2>1
  <2> QED
    BY <2>2, <2>3
<1>3. 0 .. ByteBits * Size(sa) - 1 \subseteq Bits
  BY <1>2, BitsIs
<1> DEFINE w == Shr(s, ByteBits * From(sa))
<1>4. /\ w \in Words
      /\ \A i \in Int : i \in w <=> i \in Bits /\ i + ByteBits * From(sa) \in s
  BY <1>1, <1>2, InShr
<1>5. Narrow(s, sa) = w \cap (0 .. ByteBits * Size(sa) - 1)
  BY <1>2 DEF Narrow
<1> HIDE DEF w
<1> QED
  BY <1>3, <1>4, <1>5 DEF Words

LEMMA InSource ==
  ASSUME NEW s \in Words, NEW sa \in 0 .. 7, NEW da \in 0 .. 3
  PROVE  /\ CommonSource(s, sa, da) \in Words
         /\ \A i \in Bits : i \in CommonSource(s, sa, da) <=>
              /\ i \in ByteBits * da .. ByteBits * da + ByteBits * Size(sa) - 1
              /\ i - ByteBits * da + ByteBits * From(sa) \in s
<1>1. ByteBits * da \in Int
  BY BitsIs
<1>2. /\ Narrow(s, sa) \in SUBSET Int
      /\ \A i \in Int : i \in Narrow(s, sa) <=>
           i \in 0 .. ByteBits * Size(sa) - 1 /\ i + ByteBits * From(sa) \in s
  BY InNarrow, BitsIs DEF Words
<1> DEFINE w == Shl(Narrow(s, sa), ByteBits * da)
<1>3. /\ w \in Words
      /\ \A i \in Int : i \in w <=> i \in Bits /\ i - ByteBits * da \in Narrow(s, sa)
  BY <1>1, <1>2, InShl
<1>4. CommonSource(s, sa, da) = w
  BY DEF CommonSource, DestinationAlignmentShift
<1> HIDE DEF w
<1>5. ASSUME NEW i \in Bits
      PROVE  i \in w <=>
              /\ i \in ByteBits * da .. ByteBits * da + ByteBits * Size(sa) - 1
              /\ i - ByteBits * da + ByteBits * From(sa) \in s
  <2>1. i \in Int /\ i - ByteBits * da \in Int /\ ByteBits * Size(sa) \in Int
    <3>1. i \in Int /\ ByteBits * Size(sa) \in Nat
      BY BitsIs, PartIs
    <3> QED
      BY <1>1, <3>1
  <2>2. i \in w <=> i - ByteBits * da \in Narrow(s, sa)
    BY <1>3, <2>1
  <2>3. i - ByteBits * da \in Narrow(s, sa) <=>
          /\ i - ByteBits * da \in 0 .. ByteBits * Size(sa) - 1
          /\ i - ByteBits * da + ByteBits * From(sa) \in s
    BY <1>2, <2>1
  <2>4. i - ByteBits * da \in 0 .. ByteBits * Size(sa) - 1 <=>
          i \in ByteBits * da .. ByteBits * da + ByteBits * Size(sa) - 1
    BY <1>1, <2>1
  <2> QED
    BY <2>2, <2>3, <2>4
<1> QED
  BY <1>3, <1>4, <1>5

(* The masks are the fields.                                               *)
LEMMA MaskAt ==
  ASSUME NEW sa \in 0 .. 7, NEW n \in Nat
  PROVE  Shl(AlignmentMask(sa), n) = (n .. n + ByteBits * Size(sa) - 1) \cap Bits
<1> DEFINE w == Shl(AlignmentMask(sa), n)
<1>1. AlignmentMask(sa) = 0 .. ByteBits * Size(sa) - 1 /\ ByteBits * Size(sa) \in Nat
  BY PartIs
<1>2. /\ w \in Words
      /\ \A i \in Int : i \in w <=> i \in Bits /\ i - n \in AlignmentMask(sa)
  BY <1>1, InShl
<1> HIDE DEF w
<1>3. ASSUME NEW i \in Bits
      PROVE  i \in w <=> i \in n .. n + ByteBits * Size(sa) - 1
  BY <1>1, <1>2, BitsIs
<1>4. w \subseteq Bits
  BY <1>2 DEF Words
<1> QED
  BY <1>3, <1>4 DEF w
(* The field of a command, and what each bit of its result should be.      *)
Shift(c) == ByteBits * (SourceAt(c) - At(c))
Args(c, d, s) == c.sa \in 0 .. 7 /\ c.da \in 0 .. 3 /\ d \in Words /\ s \in Words

(* The alignment of the source is one of the command's size, and begins    *)
(* where the source does.                                                  *)
LEMMA AlignedIs ==
  ASSUME NEW c, c.sa \in 0 .. 7
  PROVE  /\ SrcAlignment(c) \in 0 .. 7 /\ From(SrcAlignment(c)) = SourceAt(c)
         /\ Size(SrcAlignment(c)) = Size(c.sa) /\ (SrcAlignment(c) = 0 <=> c.sa = 0)
         /\ SourceAt(c) \in 0 .. 3
<1>1. CASE c.source.at = "direct"
  BY <1>1 DEF SrcAlignment, GetParametersDirect, From, Size, SourceAt
<1>2. CASE c.source.at # "direct"
  BY <1>2, PartIs DEF SrcAlignment, SourceAt
<1> QED
  BY <1>1, <1>2

LEMMA FieldIs ==
  ASSUME NEW c, c.sa \in 0 .. 7, c.da \in 0 .. 3
  PROVE  /\ At(c) \in 0 .. 3 /\ ByteBits * At(c) \in Nat
         /\ Field(c) = ByteBits * At(c) .. ByteBits * At(c) + ByteBits * Size(c.sa) - 1
         /\ Shift(c) = ByteBits * SourceAt(c) - ByteBits * At(c)
         /\ Shift(c) \in Int
<1>1. SourceAt(c) \in 0 .. 3 /\ From(c.sa) \in 0 .. 3 /\ Size(c.sa) \in {1, 2, 4}
  BY PartIs, AlignedIs
<1>2. At(c) \in 0 .. 3
  BY <1>1 DEF At
<1> DEFINE a == At(c)
           f == SourceAt(c)
           z == Size(c.sa)
<1>3. a \in 0 .. 3 /\ f \in 0 .. 3 /\ z \in 0 .. 4
  BY <1>1, <1>2
<1>4. Field(c) = ByteBits * a .. ByteBits * (a + z) - 1 /\ Shift(c) = ByteBits * (f - a)
  BY DEF Field, Shift
<1> HIDE DEF a, f, z
<1>5. /\ ByteBits * a \in Nat
      /\ ByteBits * (a + z) = ByteBits * a + ByteBits * z
      /\ ByteBits * (f - a) = ByteBits * f - ByteBits * a
      /\ ByteBits * (f - a) \in Int
  BY <1>3, BitsIs
<1>6. Field(c) = ByteBits * a .. ByteBits * a + ByteBits * z - 1
  <2> DEFINE n == ByteBits * a
             w == ByteBits * z
             u == ByteBits * (a + z)
  <2>1. u = n + w /\ n \in Int /\ w \in Int
    BY <1>3, <1>5, BitsIs
  <2>2. Field(c) = n .. u - 1
    BY <1>4
  <2> HIDE DEF n, u, w
  <2>3. Field(c) = n .. n + w - 1
    BY <2>1, <2>2
  <2> QED
    BY <2>3 DEF n, w
<1> QED
  BY <1>3, <1>4, <1>5, <1>6 DEF a, f, z

LEMMA ByFieldIs ==
  ASSUME NEW c, NEW d, NEW s, Args(c, d, s)
  PROVE  /\ ByField(c, d, s) \in Words
         /\ \A i \in Bits \ Field(c) : i \in ByField(c, d, s) <=> i \in d
         /\ \A i \in Bits \cap Field(c) :
              /\ c.op = "move" => (i \in ByField(c, d, s) <=> i + Shift(c) \in s)
              /\ c.op = "and" => (i \in ByField(c, d, s) <=> i \in d /\ i + Shift(c) \in s)
              /\ c.op = "or" => (i \in ByField(c, d, s) <=> i \in d \/ i + Shift(c) \in s)
              /\ c.op = "xor" => (i \in ByField(c, d, s) <=> ~(i \in d <=> i + Shift(c) \in s))
              /\ c.op = "clear" => i \notin ByField(c, d, s)
<1> DEFINE in == {i \in Field(c) \cap Bits : Bit(c.op, i \in d, i + Shift(c) \in s)}
<1>1. ByField(c, d, s) = (d \ Field(c)) \cup in
  BY DEF ByField, Shift
<1>2. in \subseteq Field(c) \cap Bits
  OBVIOUS
<1>3. ASSUME NEW i \in Bits \cap Field(c)
      PROVE  /\ c.op = "move" => (i \in in <=> i + Shift(c) \in s)
             /\ c.op = "and" => (i \in in <=> i \in d /\ i + Shift(c) \in s)
             /\ c.op = "or" => (i \in in <=> i \in d \/ i + Shift(c) \in s)
             /\ c.op = "xor" => (i \in in <=> ~(i \in d <=> i + Shift(c) \in s))
             /\ c.op = "clear" => i \notin in
  <2>1. i \in in <=> Bit(c.op, i \in d, i + Shift(c) \in s)
    OBVIOUS
  <2>2. ASSUME c.op = "move" PROVE i \in in <=> i + Shift(c) \in s
    BY <2>1, <2>2 DEF Bit
  <2>3. ASSUME c.op = "and" PROVE i \in in <=> i \in d /\ i + Shift(c) \in s
    BY <2>1, <2>3 DEF Bit
  <2>4. ASSUME c.op = "or" PROVE i \in in <=> i \in d \/ i + Shift(c) \in s
    BY <2>1, <2>4 DEF Bit
  <2>5. ASSUME c.op = "xor" PROVE i \in in <=> ~(i \in d <=> i + Shift(c) \in s)
    BY <2>1, <2>5 DEF Bit
  <2>6. ASSUME c.op = "clear" PROVE i \notin in
    BY <2>1, <2>6 DEF Bit
  <2> QED
    BY <2>2, <2>3, <2>4, <2>5, <2>6
<1> HIDE DEF in
<1>4. d \subseteq Bits
  BY DEF Args, Words
<1> QED
  BY <1>1, <1>2, <1>3, <1>4 DEF Words
(* Two words are the same when they are bit by bit.                        *)
LEMMA SameWord ==
  ASSUME NEW v \in Words, NEW w \in Words, \A i \in Bits : i \in v <=> i \in w
  PROVE  v = w
  BY DEF Words

LEMMA MaskIs ==
  ASSUME NEW c, c.sa \in 0 .. 7, c.da \in 0 .. 3
  PROVE  /\ At(c) = c.da => DestMask(SrcAlignment(c), c.da) = Field(c) \cap Bits
         /\ At(c) = From(c.sa) => SourceMask(c.sa) = Field(c) \cap Bits
<1>1. /\ ByteBits * At(c) \in Nat
      /\ Field(c) = ByteBits * At(c) .. ByteBits * At(c) + ByteBits * Size(c.sa) - 1
  BY FieldIs
<1> DEFINE n == ByteBits * At(c)
           a == SrcAlignment(c)
<1>2. /\ Shl(AlignmentMask(c.sa), n) = (n .. n + ByteBits * Size(c.sa) - 1) \cap Bits
      /\ Shl(AlignmentMask(a), n) = (n .. n + ByteBits * Size(c.sa) - 1) \cap Bits
  <2>1. a \in 0 .. 7 /\ Size(a) = Size(c.sa)
    BY AlignedIs
  <2> HIDE DEF a
  <2>2. Shl(AlignmentMask(a), n) = (n .. n + ByteBits * Size(a) - 1) \cap Bits
    BY <1>1, <2>1, MaskAt
  <2>3. Shl(AlignmentMask(c.sa), n) = (n .. n + ByteBits * Size(c.sa) - 1) \cap Bits
    BY <1>1, MaskAt
  <2> QED
    BY <2>1, <2>2, <2>3, Zenon
<1>3. At(c) = c.da => DestinationAlignmentShift(c.da) = n
  BY DEF DestinationAlignmentShift
<1>4. At(c) = From(c.sa) => SourceAlignmentShift(c.sa) = n
  BY PartIs, Zenon
<1>5. Field(c) = n .. n + ByteBits * Size(c.sa) - 1
  BY <1>1, Zenon
<1> HIDE DEF n
<1> QED
  BY <1>2, <1>3, <1>4, <1>5, Zenon DEF DestMask, SourceMask

(* What a command takes from its source, where it puts it.                 *)
LEMMA SourceIs ==
  ASSUME NEW c, NEW d, NEW s, Args(c, d, s), At(c) = c.da
  PROVE  /\ CommonSource(s, SrcAlignment(c), c.da) \in Words
         /\ \A i \in Bits : i \in CommonSource(s, SrcAlignment(c), c.da) <=>
              i \in Field(c) /\ i + Shift(c) \in s
<1> DEFINE a == SrcAlignment(c)
<1>1. /\ ByteBits * At(c) \in Nat
      /\ Field(c) = ByteBits * At(c) .. ByteBits * At(c) + ByteBits * Size(c.sa) - 1
      /\ Shift(c) = ByteBits * SourceAt(c) - ByteBits * At(c)
  BY FieldIs DEF Args
<1>2. /\ CommonSource(s, a, c.da) \in Words
      /\ \A i \in Bits : i \in CommonSource(s, a, c.da) <=>
           /\ i \in ByteBits * c.da .. ByteBits * c.da + ByteBits * Size(c.sa) - 1
           /\ i - ByteBits * c.da + ByteBits * SourceAt(c) \in s
  <2>1. a \in 0 .. 7 /\ Size(a) = Size(c.sa) /\ From(a) = SourceAt(c)
    BY AlignedIs DEF Args
  <2> HIDE DEF a
  <2>2. /\ CommonSource(s, a, c.da) \in Words
        /\ \A i \in Bits : i \in CommonSource(s, a, c.da) <=>
             /\ i \in ByteBits * c.da .. ByteBits * c.da + ByteBits * Size(a) - 1
             /\ i - ByteBits * c.da + ByteBits * From(a) \in s
    BY <2>1, InSource DEF Args
  <2> QED
    BY <2>1, <2>2, Zenon
<1>3. ByteBits * SourceAt(c) \in Nat
  BY AlignedIs, BitsIs DEF Args
<1> DEFINE n == ByteBits * At(c)
           f == ByteBits * SourceAt(c)
<1>4. ByteBits * c.da = n
  OBVIOUS
<1>5. /\ n \in Nat /\ f \in Nat /\ Shift(c) = f - n
      /\ Field(c) = n .. n + ByteBits * Size(c.sa) - 1
      /\ \A i \in Bits : i \in CommonSource(s, a, c.da) <=>
           i \in n .. n + ByteBits * Size(c.sa) - 1 /\ i - n + f \in s
  BY <1>1, <1>2, <1>3, <1>4, Zenon
<1> HIDE DEF n, f
<1>6. ASSUME NEW i \in Bits PROVE i - n + f = i + Shift(c)
  BY <1>5, BitsIs
<1> QED
  BY <1>2, <1>5, <1>6

LEMMA MoveIs ==
  ASSUME NEW c, NEW d, NEW s, Args(c, d, s), c.op = "move"
  PROVE  ProcessMove(d, s, SrcAlignment(c), c.da) = ByField(c, d, s)
<1>1. CASE c.sa = 0
  <2>1. At(c) = 0 /\ SourceAt(c) = 0 /\ Size(c.sa) = 4 /\ SrcAlignment(c) = 0
    BY <1>1, AlignedIs DEF At, From, Size, SourceAt, Args
  <2>2. Field(c) = Bits /\ Shift(c) = 0
    <3>1. /\ Field(c) = ByteBits * At(c) .. ByteBits * At(c) + ByteBits * Size(c.sa) - 1
          /\ Shift(c) = ByteBits * SourceAt(c) - ByteBits * At(c)
      BY FieldIs DEF Args
    <3> QED
      BY <2>1, <3>1, BitsIs
  <2>3. \A i \in Bits : i \in ByField(c, d, s) <=> i \in s
    BY <2>2, ByFieldIs, BitsIs
  <2>4. s = ByField(c, d, s)
    BY <2>3, ByFieldIs, SameWord DEF Args
  <2> QED
    BY <2>1, <2>4 DEF ProcessMove
<1>2. CASE c.sa # 0
  <2>1. At(c) = c.da
    BY <1>2 DEF At
  <2>2. DestMask(SrcAlignment(c), c.da) = Field(c) \cap Bits
    BY <2>1, MaskIs DEF Args
  <2>3. /\ CommonSource(s, SrcAlignment(c), c.da) \in Words
        /\ \A i \in Bits : i \in CommonSource(s, SrcAlignment(c), c.da) <=>
             i \in Field(c) /\ i + Shift(c) \in s
    BY <2>1, SourceIs
  <2> DEFINE r == (d \ DestMask(SrcAlignment(c), c.da)) \cup CommonSource(s, SrcAlignment(c), c.da)
  <2>4. r \in Words /\ \A i \in Bits : i \in r <=> i \in ByField(c, d, s)
    BY <2>2, <2>3, ByFieldIs DEF Args, Words
  <2>5. r = ByField(c, d, s)
    <3> HIDE DEF r
    <3> QED
      BY <2>4, ByFieldIs, SameWord
  <2>6. SrcAlignment(c) # 0
    BY <1>2, AlignedIs DEF Args
  <2> QED
    BY <2>5, <2>6 DEF ProcessMove
<1> QED
  BY <1>1, <1>2

LEMMA OrXorIs ==
  ASSUME NEW c, NEW d, NEW s, Args(c, d, s)
  PROVE  /\ c.op = "or" => ProcessOr(d, s, SrcAlignment(c), c.da) = ByField(c, d, s)
         /\ c.op = "xor" => ProcessXor(d, s, SrcAlignment(c), c.da) = ByField(c, d, s)
<1>1. ASSUME c.op \in {"or", "xor"}
      PROVE  /\ CommonSource(s, SrcAlignment(c), c.da) \in Words
             /\ \A i \in Bits : i \in CommonSource(s, SrcAlignment(c), c.da) <=>
                  i \in Field(c) /\ i + Shift(c) \in s
  <2>1. At(c) = c.da
    BY <1>1 DEF At
  <2> QED
    BY <2>1, SourceIs
<1> DEFINE t == CommonSource(s, SrcAlignment(c), c.da)
<1>2. ASSUME c.op = "or" PROVE ProcessOr(d, s, SrcAlignment(c), c.da) = ByField(c, d, s)
  <2> DEFINE r == d \cup t
  <2>1. r \in Words /\ \A i \in Bits : i \in r <=> i \in ByField(c, d, s)
    <3> HIDE DEF t
    <3> QED
      BY <1>1, <1>2, ByFieldIs DEF Args, Words, t
  <2>2. ProcessOr(d, s, SrcAlignment(c), c.da) = r
    BY DEF ProcessOr
  <2> HIDE DEF r
  <2> QED
    BY <2>1, <2>2, ByFieldIs, SameWord
<1>3. ASSUME c.op = "xor" PROVE ProcessXor(d, s, SrcAlignment(c), c.da) = ByField(c, d, s)
  <2> DEFINE r == (d \cup t) \ (d \cap t)
  <2>1. r \in Words /\ \A i \in Bits : i \in r <=> i \in ByField(c, d, s)
    BY <1>1, <1>3, ByFieldIs DEF Args, Words
  <2>2. ProcessXor(d, s, SrcAlignment(c), c.da) = r
    BY DEF ProcessXor
  <2> HIDE DEF r
  <2> QED
    BY <2>1, <2>2, ByFieldIs, SameWord
<1> QED
  BY <1>2, <1>3
LEMMA AndIs ==
  ASSUME NEW c, NEW d, NEW s, Args(c, d, s), c.op = "and"
  PROVE  ProcessAnd(d, s, SrcAlignment(c), c.da) = ByField(c, d, s)
<1>1. At(c) = c.da
  BY DEF At
<1>2. /\ DestMask(SrcAlignment(c), c.da) = Field(c) \cap Bits
      /\ SourceAlignmentShift(SrcAlignment(c)) = ByteBits * SourceAt(c)
      /\ ByteBits * SourceAt(c) \in Nat /\ ByteBits * Size(c.sa) \in Nat
      /\ ByteBits * Size(c.sa) <= 4 * ByteBits
  <2> DEFINE a == SrcAlignment(c)
  <2>1. a \in 0 .. 7 /\ Size(a) = Size(c.sa) /\ From(a) = SourceAt(c)
    BY AlignedIs DEF Args
  <2>2. DestMask(a, c.da) = Field(c) \cap Bits
    BY <1>1, MaskIs DEF Args
  <2> HIDE DEF a
  <2>3. /\ SourceAlignmentShift(a) = ByteBits * From(a)
        /\ ByteBits * From(a) \in Nat /\ ByteBits * Size(a) \in Nat
        /\ ByteBits * Size(a) <= 4 * ByteBits
    BY <2>1, PartIs, Zenon
  <2> QED
    BY <2>1, <2>2, <2>3, Zenon DEF a
<1>3. /\ ByteBits * At(c) \in Nat
      /\ Field(c) = ByteBits * At(c) .. ByteBits * At(c) + ByteBits * Size(c.sa) - 1
      /\ Shift(c) = ByteBits * SourceAt(c) - ByteBits * At(c)
  BY FieldIs DEF Args
<1> DEFINE f == ByteBits * SourceAt(c)
           n == ByteBits * At(c)
           z == ByteBits * Size(c.sa)
           v == Shr(s, f)
           w == Shl(v, n)
<1>4. /\ f \in Nat /\ n \in Nat /\ z \in Nat /\ z <= 4 * ByteBits
      /\ Field(c) = n .. n + z - 1 /\ Shift(c) = f - n
  BY <1>2, <1>3, Zenon
<1>5. ProcessAnd(d, s, SrcAlignment(c), c.da) = d \cap (w \cup (Bits \ (Field(c) \cap Bits)))
  <2>1. DestinationAlignmentShift(c.da) = n
    BY <1>1 DEF DestinationAlignmentShift
  <2> QED
    BY <1>2, <2>1, Zenon DEF ProcessAnd
<1> HIDE DEF f, n, z
<1>6. s \in SUBSET Int /\ d \in SUBSET Bits
  BY BitsIs DEF Args, Words
<1>7. v \in Words /\ \A i \in Int : i \in v <=> i \in Bits /\ i + f \in s
  BY <1>4, <1>6, InShr
<1> HIDE DEF v
<1>8. w \in Words /\ \A i \in Int : i \in w <=> i \in Bits /\ i - n \in v
  <2>1. v \in SUBSET Int
    BY <1>7, BitsIs DEF Words
  <2> QED
    BY <1>4, <2>1, InShl
<1> HIDE DEF w
<1>9. ASSUME NEW i \in Bits \cap Field(c) PROVE i \in w <=> i + Shift(c) \in s
  <2>1. i \in Int /\ i - n \in Bits /\ i - n + f = i + Shift(c)
    BY <1>4, BitsIs
  <2>2. i - n \in Int
    BY <2>1, <1>4
  <2> QED
    BY <1>7, <1>8, <2>1, <2>2
<1> DEFINE r == d \cap (w \cup (Bits \ (Field(c) \cap Bits)))
<1>10. r \in Words
  BY <1>6 DEF Words
<1>11. \A i \in Bits : i \in r <=> i \in ByField(c, d, s)
  BY <1>9, ByFieldIs
<1> HIDE DEF r
<1> QED
  BY <1>5, <1>10, <1>11, ByFieldIs, SameWord DEF r

LEMMA ClearIs ==
  ASSUME NEW c, NEW d, NEW s, Args(c, d, s), c.op = "clear"
  PROVE  ProcessClear(d, c.sa) = ByField(c, d, s)
<1>1. At(c) = From(c.sa)
  BY DEF At
<1>2. ProcessClear(d, c.sa) = d \ (Field(c) \cap Bits)
  BY <1>1, MaskIs DEF Args, ProcessClear
<1> DEFINE r == d \ (Field(c) \cap Bits)
<1>3. r \in Words /\ \A i \in Bits : i \in r <=> i \in ByField(c, d, s)
  BY ByFieldIs DEF Args, Words
<1> HIDE DEF r
<1> QED
  BY <1>2, <1>3, ByFieldIs, SameWord DEF r

(* The commands with a field write what each bit should be.                *)
LEMMA ResultByField ==
  ASSUME NEW c, NEW d, NEW s, Args(c, d, s), c.op \in FieldOps
  PROVE  Result(c, d, s) = ByField(c, d, s)
<1>1. CASE c.op = "move"
  BY <1>1, MoveIs DEF Result
<1>2. CASE c.op = "and"
  BY <1>2, AndIs DEF Result
<1>3. CASE c.op = "or"
  BY <1>3, OrXorIs DEF Result
<1>4. CASE c.op = "xor"
  BY <1>4, OrXorIs DEF Result
<1>5. CASE c.op = "clear"
  BY <1>5, ClearIs DEF Result
<1> QED
  BY <1>1, <1>2, <1>3, <1>4, <1>5 DEF FieldOps

(* The other commands on a part of a word leave the rest of it.            *)
LEMMA MaskKeeps ==
  ASSUME NEW c, NEW d, NEW s, Args(c, d, s), c.op = "mask"
  PROVE  /\ Result(c, d, s) \in Words
         /\ Result(c, d, s) \ Field(c) = d \ Field(c)
<1> DEFINE n == DestinationAlignmentShift(c.da)
           and == Shl(s, n)
           put == Shl(c.or \cap AlignmentMask(SrcAlignment(c)), n)
<1>1. At(c) = c.da
  BY DEF At
<1>2. Result(c, d, s) = (d \cap (and \cup (Bits \ DestMask(SrcAlignment(c), c.da)))) \cup put
  BY DEF Result, ProcessMask
<1>3. n \in Nat /\ n = ByteBits * At(c)
  BY <1>1, FieldIs DEF Args, DestinationAlignmentShift
<1>4. put \subseteq DestMask(SrcAlignment(c), c.da)
  BY DEF DestMask, Shl
<1>5. DestMask(SrcAlignment(c), c.da) = Field(c) \cap Bits
  BY <1>1, MaskIs DEF Args
<1> HIDE DEF n, and, put
<1> QED
  BY <1>2, <1>4, <1>5 DEF Args, Words

LEMMA ShiftKeeps ==
  ASSUME NEW c, NEW d, NEW s, Args(c, d, s), c.op \in {"shiftleft", "shiftright"}
  PROVE  /\ Result(c, d, s) \in Words
         /\ Result(c, d, s) \ Field(c) = d \ Field(c)
<1>1. At(c) = From(c.sa)
  BY DEF At
<1> DEFINE in == d \cap SourceMask(c.sa)
           w  == IF c.op = "shiftleft" THEN Shl(in, Count(Value(s))) ELSE Shr(in, Count(Value(s)))
<1>2. Result(c, d, s) = (w \cap SourceMask(c.sa)) \cup (d \ SourceMask(c.sa))
  BY DEF Result, ProcessShift
<1>3. SourceMask(c.sa) = Field(c) \cap Bits
  BY <1>1, MaskIs DEF Args
<1> HIDE DEF w
<1> QED
  BY <1>2, <1>3 DEF Args, Words

LEMMA ResultIs ==
  ASSUME NEW c, NEW d, NEW s, Args(c, d, s), c.op \in Writers
  PROVE  Result(c, d, s) \in Words
<1>1. CASE c.op \in FieldOps
  BY <1>1, ResultByField, ByFieldIs
<1>2. CASE c.op \in {"mask", "shiftleft", "shiftright"}
  BY <1>2, MaskKeeps, ShiftKeeps
<1>3. CASE c.op = "shl"
  BY <1>3 DEF Result, ProcessShl, Shl, Words
<1>4. CASE c.op = "shr"
  BY <1>4 DEF Result, ProcessShr, Shr, Words
<1>5. CASE c.op = "add"
  BY <1>5 DEF Result, ProcessADD, Word, Words
<1>6. CASE c.op = "sub"
  BY <1>6 DEF Result, ProcessSUB, Word, Words
<1> QED
  BY <1>1, <1>2, <1>3, <1>4, <1>5, <1>6 DEF Writers, FieldOps
-----------------------------------------------------------------------------
(* The invariant.  The parameters of the n-th table begin no further than  *)
(* those of n - 1 tables reach, so that the running one finds its own in   *)
(* the parameter space; and they begin later the deeper the table is.      *)
Frames == [table : DOMAIN tables, ip : Nat \ {0}, at : Nat, ws : [{0, 1} -> Words]]
Spaces == [0 .. Params - 1 -> Words]

TypeOK ==
  /\ tables \in Programs /\ stack \in Seq(Frames) /\ Len(stack) <= MaxDepth
  /\ base \in Int /\ param \in Spaces /\ reg \in [{0, 1} -> Words]
  /\ div \in [quotient : Words, remainder : Words]
  /\ callee \in DOMAIN tables
  /\ status = "success" => stack # <<>>

Reach(n) == MaxPS * n

Within ==
  /\ \A j \in 1 .. Len(stack) : stack[j].at <= Reach(j - 1)
  /\ \A j, k \in 1 .. Len(stack) : j <= k => stack[j].at <= stack[k].at

IInv == TypeOK /\ Within /\ Balanced

LEMMA ReachIs ==
  /\ Reach(0) = 0
  /\ \A n \in Nat : Reach(n) \in Nat /\ Reach(n + 1) = Reach(n) + MaxPS
  /\ \A n \in Nat : n <= MaxDepth => Reach(n) < Params
<1>1. \A n \in Nat : MaxPS * n \in Nat /\ MaxPS * (n + 1) = MaxPS * n + MaxPS
  BY SizesAssumption
<1>2. \A n \in Nat : n <= MaxDepth => MaxPS * n <= MaxPS * MaxDepth
  BY SizesAssumption
<1>3. \A n \in Nat : n <= MaxDepth => MaxPS * n < Params
  BY <1>1, <1>2, SizesAssumption
<1> QED
  BY <1>1, <1>3, SizesAssumption DEF Reach

LEMMA TopIs ==
  ASSUME IInv, stack # <<>>
  PROVE  /\ Len(stack) \in Nat \ {0} /\ Top \in Frames /\ Top.table \in DOMAIN tables
         /\ Top.ip \in Nat \ {0} /\ Top.at \in Nat /\ Top.ws \in [{0, 1} -> Words]
         /\ PS[Top.table] \in 0 .. MaxPS
         /\ Top.at <= Reach(Len(stack) - 1)
<1>1. stack \in Seq(Frames) /\ Len(stack) \in Nat /\ tables \in Programs
  BY DEF IInv, TypeOK
<1>2. Len(stack) \in Nat \ {0} /\ Top \in Frames
  BY <1>1 DEF Top
<1>3. Top.table \in DOMAIN tables /\ Top.ip \in Nat \ {0} /\ Top.at \in Nat
      /\ Top.ws \in [{0, 1} -> Words]
  BY <1>2 DEF Frames
<1>4. PS[Top.table] \in 0 .. MaxPS
  BY <1>1, <1>3, ProgramsAssumption
<1>5. Top.at <= Reach(Len(stack) - 1)
  BY <1>2 DEF IInv, Within, Top
<1> QED
  BY <1>2, <1>3, <1>4, <1>5

LEMMA CommandIs ==
  ASSUME IInv, NEW ops, Running(ops)
  PROVE  stack # <<>> /\ IsCommand(Command) /\ Command.op \in ops /\ status = "success"
<1>1. status = "success" /\ stack # <<>> /\ ~AtEnd /\ Command.op \in ops /\ tables \in Programs
  BY DEF IInv, TypeOK, Running
<1>2. Top.table \in DOMAIN tables /\ Top.ip \in Nat \ {0}
  BY <1>1, TopIs
<1>3. Len(tables[Top.table]) \in Nat
      /\ \A k \in 1 .. Len(tables[Top.table]) : IsCommand(tables[Top.table][k])
  BY <1>1, <1>2, ProgramsAssumption
<1>4. Top.ip \in 1 .. Len(tables[Top.table])
  BY <1>1, <1>2, <1>3 DEF AtEnd
<1> QED
  BY <1>1, <1>3, <1>4 DEF Command

(* Parameters are inside of the parameter space, above the callers'.       *)
LEMMA ParamIs ==
  ASSUME IInv, status = "success", NEW i \in 0 .. MaxPS
  PROVE  base + i \in 0 .. Params - 1 /\ base = Top.at /\ base \in Nat
<1>1. stack # <<>> /\ base = Top.at /\ Len(stack) <= MaxDepth
  BY DEF IInv, TypeOK, Balanced
<1>2. Len(stack) \in Nat \ {0} /\ Top.at \in Nat /\ Top.at <= Reach(Len(stack) - 1)
  BY <1>1, TopIs
<1> DEFINE n == Len(stack) - 1
<1>3. n \in Nat /\ n + 1 = Len(stack)
  BY <1>2
<1>4. Reach(n) \in Nat /\ Reach(n) + MaxPS < Params
  <2>1. Reach(n + 1) < Params
    BY <1>1, <1>2, <1>3, ReachIs
  <2> HIDE DEF n
  <2> QED
    BY <1>3, <2>1, ReachIs
<1>5. Top.at <= Reach(n)
  BY <1>2
<1> HIDE DEF n
<1> QED
  BY <1>1, <1>2, <1>4, <1>5, SizesAssumption

LEMMA ReadIs ==
  ASSUME IInv, status = "success", NEW o, IsOperand(o)
  PROVE  Read(o) \in Words
<1>1. /\ param \in Spaces /\ reg \in [{0, 1} -> Words] /\ stack # <<>>
      /\ div.quotient \in Words /\ div.remainder \in Words
  BY DEF IInv, TypeOK
<1>2. CASE o.at = "ps" /\ o.i \in 0 .. MaxPS
  <2>1. base + o.i \in 0 .. Params - 1
    BY <1>2, ParamIs
  <2> QED
    BY <1>1, <1>2, <2>1 DEF Read, Spaces
<1>3. CASE o.at \in {"ws", "reg"} /\ o.i \in {0, 1}
  <2>1. Top.ws \in [{0, 1} -> Words]
    BY <1>1, TopIs
  <2> QED
    BY <1>1, <1>3, <2>1 DEF Read
<1>4. CASE o.at = "direct" /\ o.word \in Words
  BY <1>4 DEF Read
<1>5. CASE o.at \in {"quotient", "remainder"}
  BY <1>1, <1>5 DEF Read
<1> QED
  BY <1>2, <1>3, <1>4, <1>5 DEF IsOperand
-----------------------------------------------------------------------------
(* Most commands change the running table's frame only, and neither its    *)
(* table nor where its parameters begin.                                   *)
InPlace(t) ==
  /\ t \in Seq(Frames) /\ Len(t) = Len(stack)
  /\ \A j \in 1 .. Len(stack) : t[j].at = stack[j].at /\ t[j].table = stack[j].table
  /\ \A j \in 1 .. Len(stack) - 1 : t[j] = stack[j]

LEMMA TopChanged ==
  ASSUME IInv, stack # <<>>, NEW f \in Frames, f.at = Top.at, f.table = Top.table
  PROVE  /\ InPlace([stack EXCEPT ![Len(stack)] = f])
         /\ [stack EXCEPT ![Len(stack)] = f][Len(stack)] = f
<1>1. stack \in Seq(Frames) /\ Len(stack) \in Nat \ {0}
  BY TopIs DEF IInv, TypeOK
<1> DEFINE t == [stack EXCEPT ![Len(stack)] = f]
<1>2. t \in Seq(Frames) /\ Len(t) = Len(stack)
  BY <1>1, ExceptSeq
<1>3. t[Len(stack)] = f /\ \A j \in 1 .. Len(stack) - 1 : t[j] = stack[j]
  BY <1>1
<1> HIDE DEF t
<1>4. ASSUME NEW j \in 1 .. Len(stack)
      PROVE  t[j].at = stack[j].at /\ t[j].table = stack[j].table
  <2>1. CASE j = Len(stack)
    BY <1>3, <2>1 DEF Top
  <2>2. CASE j # Len(stack)
    BY <1>1, <1>3, <2>2
  <2> QED
    BY <2>1, <2>2
<1>5. InPlace(t) /\ t[Len(stack)] = f
  BY <1>1, <1>2, <1>3, <1>4 DEF InPlace
<1> QED
  BY <1>5 DEF t

LEMMA IpChanged ==
  ASSUME IInv, stack # <<>>, NEW n \in Nat \ {0}
  PROVE  /\ InPlace([stack EXCEPT ![Len(stack)].ip = n])
         /\ [stack EXCEPT ![Len(stack)].ip = n][Len(stack)] = [Top EXCEPT !.ip = n]
<1> DEFINE f == [Top EXCEPT !.ip = n]
<1>1. Top \in Frames
  BY TopIs
<1>2. f \in Frames /\ f.at = Top.at /\ f.table = Top.table
  BY <1>1 DEF Frames
<1>3. [stack EXCEPT ![Len(stack)].ip = n] = [stack EXCEPT ![Len(stack)] = f]
  BY DEF Top
<1> HIDE DEF f
<1>4. InPlace([stack EXCEPT ![Len(stack)] = f]) /\ [stack EXCEPT ![Len(stack)] = f][Len(stack)] = f
  BY <1>2, TopChanged
<1> QED
  BY <1>3, <1>4 DEF f

LEMMA AdvanceIs ==
  ASSUME IInv, stack # <<>>
  PROVE  InPlace(Advance) /\ Advance[Len(stack)] = [Top EXCEPT !.ip = Top.ip + 1]
<1>1. Advance = [stack EXCEPT ![Len(stack)].ip = Top.ip + 1] /\ Top.ip + 1 \in Nat \ {0}
  BY TopIs DEF Advance, Top
<1> QED
  BY <1>1, IpChanged

LEMMA PutIs ==
  ASSUME IInv, status = "success", NEW o, IsOperand(o), NEW w \in Words, Put(o, w)
  PROVE  /\ param' \in Spaces /\ reg' \in [{0, 1} -> Words]
         /\ div' \in [quotient : Words, remainder : Words]
         /\ \A i \in 0 .. base - 1 : param'[i] = param[i]
         /\ InPlace(stack')
         /\ o.at = "ws" => stack'[Len(stack)].ws[o.i] = w
<1>1. /\ param \in Spaces /\ reg \in [{0, 1} -> Words] /\ stack # <<>>
      /\ stack \in Seq(Frames)
  BY DEF IInv, TypeOK
<1>2. param' \in Spaces /\ \A i \in 0 .. base - 1 : param'[i] = param[i]
  <2>1. CASE o.at = "ps"
    <3>1. o.i \in 0 .. MaxPS
      BY <2>1 DEF IsOperand
    <3>2. base + o.i \in 0 .. Params - 1 /\ base \in Nat
      BY <3>1, ParamIs
    <3>3. param' = [param EXCEPT ![base + o.i] = w]
      BY <2>1 DEF Put
    <3>4. \A i \in 0 .. base - 1 : i \in 0 .. Params - 1 /\ i # base + o.i
      BY <3>1, <3>2, SizesAssumption
    <3> QED
      BY <1>1, <3>2, <3>3, <3>4 DEF Spaces
  <2>2. CASE o.at # "ps"
    BY <1>1, <2>2 DEF Put
  <2> QED
    BY <2>1, <2>2
<1>3. reg' \in [{0, 1} -> Words]
  <2>1. Shl(w, 2) \in Words
    BY DEF Shl, Words
  <2>2. CASE o.at = "reg"
    <3> DEFINE v == IF o.i = 0 THEN Shl(w, 2) ELSE w
    <3>1. v \in Words
      BY <2>1
    <3>2. reg' = [reg EXCEPT ![o.i] = v]
      BY <2>2 DEF Put
    <3> HIDE DEF v
    <3> QED
      BY <1>1, <3>1, <3>2
  <2>3. CASE o.at # "reg"
    BY <1>1, <2>3 DEF Put
  <2> QED
    BY <2>2, <2>3
<1>4. InPlace(stack') /\ (o.at = "ws" => stack'[Len(stack)].ws[o.i] = w)
  <2>1. CASE o.at # "ws"
    BY <1>1, <2>1, AdvanceIs DEF Put
  <2>2. CASE o.at = "ws"
    <3>1. o.i \in {0, 1}
      BY <2>2 DEF IsOperand
    <3>2. /\ Top \in Frames /\ Len(stack) \in Nat \ {0} /\ Top.ip + 1 \in Nat \ {0}
          /\ Top.ws \in [{0, 1} -> Words]
      BY <1>1, TopIs
    <3> DEFINE ws == [Top.ws EXCEPT ![o.i] = w]
               f  == [[Top EXCEPT !.ip = Top.ip + 1] EXCEPT !.ws = ws]
    <3>3. ws \in [{0, 1} -> Words] /\ ws[o.i] = w
      BY <3>1, <3>2
    <3>4. stack' = [Advance EXCEPT ![Len(stack)].ws[o.i] = w]
      BY <2>2 DEF Put
    <3>5. /\ Advance = [stack EXCEPT ![Len(stack)] = [Top EXCEPT !.ip = Top.ip + 1]]
          /\ Len(stack) \in DOMAIN stack
      BY <1>1, <3>2 DEF Advance, Top
    <3>6. stack' = [stack EXCEPT ![Len(stack)] = f]
      <4> DEFINE g == [Top EXCEPT !.ip = Top.ip + 1]
      <4>1. g.ws = Top.ws
        BY <3>2 DEF Frames
      <4>2. Advance = [stack EXCEPT ![Len(stack)] = g]
        BY <3>5
      <4>3. stack' = [Advance EXCEPT ![Len(stack)] = [Advance[Len(stack)] EXCEPT
                        !.ws = [Advance[Len(stack)].ws EXCEPT ![o.i] = w]]]
        BY <3>4
      <4>4. f = [g EXCEPT !.ws = ws]
        OBVIOUS
      <4> HIDE DEF g, f
      <4>5. Advance[Len(stack)] = g
        BY <3>5, <4>2
      <4>6. stack' = [Advance EXCEPT ![Len(stack)] = f]
        BY <4>1, <4>3, <4>4, <4>5
      <4> QED
        BY <1>1, <4>2, <4>6
    <3>7. f \in Frames /\ f.at = Top.at /\ f.table = Top.table /\ f.ws = ws
      <4> HIDE DEF ws
      <4> QED
        BY <3>2, <3>3 DEF Frames
    <3> HIDE DEF f, ws
    <3>8. InPlace(stack') /\ stack'[Len(stack)] = f
      BY <1>1, <3>6, <3>7, TopChanged
    <3> QED
      BY <3>3, <3>7, <3>8
  <2> QED
    BY <2>1, <2>2
<1>5. div' \in [quotient : Words, remainder : Words]
  <2>1. div \in [quotient : Words, remainder : Words]
    BY DEF IInv, TypeOK
  <2>2. CASE o.at = "quotient"
    BY <2>1, <2>2 DEF Put
  <2>3. CASE o.at = "remainder"
    BY <2>1, <2>3 DEF Put
  <2>4. CASE o.at \notin {"quotient", "remainder"}
    BY <2>1, <2>4 DEF Put
  <2> QED
    BY <2>2, <2>3, <2>4
<1> QED
  BY <1>2, <1>3, <1>4, <1>5

(* Such a command leaves the layout of the parameter space as it is.       *)
LEMMA InPlaceKeeps ==
  ASSUME IInv, InPlace(stack')
  PROVE  /\ Len(stack') <= MaxDepth /\ (stack # <<>> => stack' # <<>>)
         /\ Within'
         /\ stack' # <<>> => stack'[1].at = 0
         /\ \A j \in 2 .. Len(stack') : stack'[j].at = stack'[j - 1].at + PS[stack'[j - 1].table]
         /\ stack # <<>> => Top'.at = Top.at /\ Top'.table = Top.table
<1>1. /\ stack' \in Seq(Frames) /\ Len(stack') = Len(stack) /\ Len(stack) \in Nat
      /\ stack \in Seq(Frames)
      /\ \A j \in 1 .. Len(stack) : stack'[j].at = stack[j].at /\ stack'[j].table = stack[j].table
      /\ Len(stack) <= MaxDepth
  BY DEF InPlace, IInv, TypeOK
<1>2. stack' # <<>> <=> stack # <<>>
  BY <1>1
<1>3. stack # <<>> => Len(stack) \in Nat \ {0}
  BY <1>1
<1>4. Within'
  BY <1>1 DEF IInv, Within
<1>5. stack' # <<>> => stack'[1].at = 0
  BY <1>1, <1>2, <1>3 DEF IInv, Balanced
<1>6. ASSUME NEW j \in 2 .. Len(stack')
      PROVE  stack'[j].at = stack'[j - 1].at + PS[stack'[j - 1].table]
  <2>1. j \in 1 .. Len(stack) /\ j - 1 \in 1 .. Len(stack) /\ j \in 2 .. Len(stack)
    BY <1>1
  <2> QED
    BY <1>1, <2>1 DEF IInv, Balanced
<1>7. stack # <<>> => Top'.at = Top.at /\ Top'.table = Top.table
  BY <1>1, <1>3 DEF Top
<1> QED
  BY <1>1, <1>2, <1>4, <1>5, <1>6, <1>7
LEMMA InitIInv == Init => IInv
<1> SUFFICES ASSUME Init PROVE IInv
  OBVIOUS
<1>1. /\ tables \in Programs /\ stack = <<>> /\ base = 0 /\ callee = 1 /\ status = "call"
      /\ param = [i \in 0 .. Params - 1 |-> {}] /\ reg = [i \in {0, 1} |-> {}]
      /\ div = [quotient |-> {}, remainder |-> {}]
  BY DEF Init
<1>2. {} \in Words
  BY DEF Words
<1>3. stack \in Seq(Frames) /\ Len(stack) = 0
  BY <1>1
<1>4. TypeOK
  BY <1>1, <1>2, <1>3, ProgramsAssumption, SizesAssumption DEF TypeOK, Spaces
<1>5. Within
  BY <1>3 DEF Within
<1>6. Balanced
  BY <1>1, <1>3 DEF Balanced
<1> QED
  BY <1>4, <1>5, <1>6 DEF IInv

(* A command that only changes the running frame, and words.               *)
LEMMA InPlaceInv ==
  ASSUME IInv, InPlace(stack'), stack # <<>>, UNCHANGED <<tables, base, callee>>,
         param' \in Spaces, reg' \in [{0, 1} -> Words],
         div' \in [quotient : Words, remainder : Words],
         status' = status \/ status' \in {"notimplemented", "invalid"}
  PROVE  IInv'
<1>1. /\ Len(stack') <= MaxDepth /\ stack' # <<>> /\ Within' /\ stack'[1].at = 0
      /\ \A j \in 2 .. Len(stack') : stack'[j].at = stack'[j - 1].at + PS[stack'[j - 1].table]
      /\ Top'.at = Top.at /\ Top'.table = Top.table
  BY InPlaceKeeps
<1>2. stack' \in Seq(Frames)
  BY DEF InPlace
<1>3. TypeOK'
  <2>1. Frames' = Frames
    BY DEF Frames
  <2>2. Spaces' = Spaces
    BY DEF Spaces
  <2> QED
    BY <1>1, <1>2, <2>1, <2>2 DEF IInv, TypeOK
<1>4. Balanced'
  <2>1. status' = "success" => base' = Top'.at
    BY <1>1 DEF IInv, Balanced
  <2>2. status' = "call" => base' = Top'.at + PS[Top'.table]
    BY <1>1 DEF IInv, Balanced
  <2>3. status' # "completed"
    BY DEF IInv, Balanced
  <2> QED
    BY <1>1, <2>1, <2>2, <2>3, Zenon DEF Balanced
<1> QED
  BY <1>1, <1>3, <1>4 DEF IInv

LEMMA EnterTableInv == ASSUME IInv, EnterTable PROVE IInv'
<1>1. /\ status = "call" /\ UNCHANGED <<tables, base, param, reg, div, flags, callee>>
      /\ stack \in Seq(Frames) /\ Len(stack) \in Nat /\ Len(stack) <= MaxDepth
      /\ callee \in DOMAIN tables /\ Frames' = Frames /\ Spaces' = Spaces
  BY DEF IInv, TypeOK, EnterTable, Frames, Spaces
<1>2. CASE Len(stack) < MaxDepth
  <2> DEFINE ws == [i \in {0, 1} |-> {}]
             f  == [table |-> callee, ip |-> 1, at |-> base, ws |-> ws]
  <2>1. stack' = Append(stack, f) /\ status' = "success"
    BY <1>1, <1>2 DEF EnterTable
  <2>2. base \in Nat /\ base <= Reach(Len(stack)) /\ \A j \in 1 .. Len(stack) : stack[j].at <= base
    <3>1. CASE stack = <<>>
      BY <1>1, <3>1, ReachIs DEF IInv, Balanced
    <3>2. CASE stack # <<>>
      <4>1. base = Top.at + PS[Top.table]
        BY <1>1, <3>2 DEF IInv, Balanced
      <4>2. /\ Len(stack) \in Nat \ {0} /\ Top.at \in Nat /\ PS[Top.table] \in 0 .. MaxPS
            /\ Top.at <= Reach(Len(stack) - 1)
        BY <3>2, TopIs
      <4>3. Len(stack) - 1 \in Nat /\ (Len(stack) - 1) + 1 = Len(stack)
        BY <4>2
      <4>4. Reach(Len(stack) - 1) \in Nat /\ Reach(Len(stack)) = Reach(Len(stack) - 1) + MaxPS
        BY <4>3, ReachIs
      <4>5. ASSUME NEW j \in 1 .. Len(stack) PROVE  stack[j].at <= Top.at /\ stack[j].at \in Nat
        <5>1. j <= Len(stack) /\ Len(stack) \in 1 .. Len(stack)
          BY <4>2
        <5>2. stack[j].at <= stack[Len(stack)].at
          BY <5>1 DEF IInv, Within
        <5>3. stack[j] \in Frames
          BY <1>1
        <5> QED
          BY <5>2, <5>3 DEF Top, Frames
      <4> QED
        BY <4>1, <4>2, <4>4, <4>5, SizesAssumption
    <3> QED
      BY <3>1, <3>2
  <2>3. f \in Frames /\ f.at = base
    <3>1. ws \in [{0, 1} -> Words]
      BY DEF Words
    <3> HIDE DEF ws
    <3> QED
      BY <1>1, <2>2, <3>1 DEF Frames
  <2> HIDE DEF f
  <2>4. /\ stack' \in Seq(Frames) /\ Len(stack') = Len(stack) + 1
        /\ stack'[Len(stack) + 1] = f
        /\ \A j \in 1 .. Len(stack) : stack'[j] = stack[j]
    BY <1>1, <2>1, <2>3
  <2>5. TypeOK'
    <3>1. Len(stack') <= MaxDepth /\ stack' # <<>>
      BY <1>1, <1>2, <2>4, SizesAssumption
    <3> QED
      BY <1>1, <2>1, <2>4, <3>1, Zenon DEF IInv, TypeOK
  <2>6. Within'
    <3>1. ASSUME NEW j \in 1 .. Len(stack') PROVE stack'[j].at <= Reach(j - 1)
      <4>1. CASE j = Len(stack) + 1
        <5>1. j - 1 = Len(stack)
          BY <1>1, <4>1
        <5> QED
          BY <2>2, <2>3, <2>4, <4>1, <5>1
      <4>2. CASE j # Len(stack) + 1
        <5>1. j \in 1 .. Len(stack)
          BY <1>1, <2>4, <4>2
        <5>2. stack[j].at <= Reach(j - 1)
          BY <5>1 DEF IInv, Within
        <5> QED
          BY <2>4, <5>1, <5>2
      <4> QED
        BY <4>1, <4>2
    <3>2. ASSUME NEW j \in 1 .. Len(stack'), NEW k \in 1 .. Len(stack'), j <= k
          PROVE  stack'[j].at <= stack'[k].at
      <4>1. CASE j = Len(stack) + 1
        <5>1. k = j
          BY <1>1, <2>4, <3>2, <4>1
        <5> QED
          BY <2>2, <2>3, <2>4, <4>1, <5>1
      <4>2. CASE j # Len(stack) + 1 /\ k = Len(stack) + 1
        BY <1>1, <2>2, <2>3, <2>4, <4>2
      <4>3. CASE j # Len(stack) + 1 /\ k # Len(stack) + 1
        BY <1>1, <2>4, <3>2, <4>3 DEF IInv, Within
      <4> QED
        BY <4>1, <4>2, <4>3
    <3> QED
      BY <3>1, <3>2 DEF Within
  <2>7. Balanced'
    <3>1. stack' # <<>> /\ Top'.at = base
      BY <1>1, <2>3, <2>4 DEF Top
    <3>2. stack'[1].at = 0
      <4>1. CASE stack = <<>>
        BY <1>1, <2>3, <2>4, <4>1 DEF IInv, Balanced
      <4>2. CASE stack # <<>>
        BY <1>1, <2>4, <4>2 DEF IInv, Balanced
      <4> QED
        BY <4>1, <4>2
    <3>3. ASSUME NEW j \in 2 .. Len(stack')
          PROVE  stack'[j].at = stack'[j - 1].at + PS[stack'[j - 1].table]
      <4>1. CASE j = Len(stack) + 1
        <5>1. stack # <<>> /\ j - 1 = Len(stack) /\ j - 1 \in 1 .. Len(stack)
          BY <1>1, <4>1
        <5>2. base = Top.at + PS[Top.table]
          BY <1>1, <5>1 DEF IInv, Balanced
        <5> QED
          BY <2>3, <2>4, <4>1, <5>1, <5>2 DEF Top
      <4>2. CASE j # Len(stack) + 1
        <5>1. j \in 2 .. Len(stack) /\ j \in 1 .. Len(stack) /\ j - 1 \in 1 .. Len(stack)
          BY <1>1, <2>4, <4>2
        <5> QED
          BY <2>4, <5>1 DEF IInv, Balanced
      <4> QED
        BY <4>1, <4>2
    <3> QED
      BY <1>1, <2>1, <3>1, <3>2, <3>3 DEF Balanced
  <2> QED
    BY <2>5, <2>6, <2>7 DEF IInv
<1>3. CASE ~(Len(stack) < MaxDepth)
  <2>1. stack' = stack /\ status' = "unexpected"
    BY <1>3 DEF EnterTable
  <2> QED
    BY <1>1, <2>1 DEF IInv, TypeOK, Within, Balanced
<1> QED
  BY <1>2, <1>3

LEMMA EndOfTableInv == ASSUME IInv, EndOfTable PROVE IInv'
<1>1. /\ status = "success" /\ UNCHANGED <<tables, param, reg, div, flags, callee>>
      /\ stack \in Seq(Frames) /\ stack # <<>> /\ Len(stack) <= MaxDepth
      /\ Frames' = Frames /\ Spaces' = Spaces /\ base = Top.at
      /\ stack' = SubSeq(stack, 1, Len(stack) - 1)
  BY DEF IInv, TypeOK, Balanced, EndOfTable, Frames, Spaces
<1>2. Len(stack) \in Nat \ {0}
  BY <1>1
<1>3. /\ stack' \in Seq(Frames) /\ Len(stack') = Len(stack) - 1
      /\ \A j \in 1 .. Len(stack) - 1 : stack'[j] = stack[j]
  <2> DEFINE n == Len(stack) - 1
  <2>1. n \in 0 .. Len(stack) /\ 1 \in 1 .. Len(stack) + 1
    BY <1>2
  <2>2. /\ SubSeq(stack, 1, n) \in Seq(Frames)
        /\ Len(SubSeq(stack, 1, n)) = n
        /\ \A j \in 1 .. n : SubSeq(stack, 1, n)[j] = stack[j]
    <3> HIDE DEF n
    <3> QED
      BY <1>1, <1>2, <2>1
  <2> QED
    BY <1>1, <2>2
<1>4. Within'
  <2>1. \A j \in 1 .. Len(stack') : j \in 1 .. Len(stack) /\ stack'[j] = stack[j]
    BY <1>2, <1>3
  <2>2. \A j \in 1 .. Len(stack') : stack'[j].at <= Reach(j - 1)
    BY <2>1 DEF IInv, Within
  <2>3. \A j, k \in 1 .. Len(stack') : j <= k => stack'[j].at <= stack'[k].at
    BY <2>1 DEF IInv, Within
  <2>4. \A j \in 1 .. Len(stack') : Reach(j - 1)' = Reach(j - 1)
    BY DEF Reach
  <2> QED
    BY <2>2, <2>3, <2>4 DEF Within
<1>5. ASSUME NEW j \in 2 .. Len(stack')
      PROVE  stack'[j].at = stack'[j - 1].at + PS[stack'[j - 1].table]
  <2>1. j \in 2 .. Len(stack) /\ j \in 1 .. Len(stack) - 1 /\ j - 1 \in 1 .. Len(stack) - 1
    BY <1>2, <1>3
  <2> QED
    BY <1>3, <2>1 DEF IInv, Balanced
<1>6. stack' # <<>> => stack'[1].at = 0
  BY <1>1, <1>2, <1>3 DEF IInv, Balanced
<1>7. CASE Len(stack) > 1
  <2>1. base' = base - PS[stack[Len(stack) - 1].table] /\ status' = "success"
    BY <1>7 DEF EndOfTable
  <2>2. Len(stack) - 1 \in 1 .. Len(stack) /\ Len(stack) \in 2 .. Len(stack)
    BY <1>2, <1>7
  <2>3. Top.at = stack[Len(stack) - 1].at + PS[stack[Len(stack) - 1].table]
    BY <2>2 DEF IInv, Balanced, Top
  <2>4. Top' = stack[Len(stack) - 1]
    BY <1>2, <1>3, <2>2 DEF Top
  <2>5. stack[Len(stack) - 1].at \in Nat /\ PS[stack[Len(stack) - 1].table] \in Int
    <3>1. stack[Len(stack) - 1] \in Frames
      BY <1>1, <2>2
    <3>2. stack[Len(stack) - 1].table \in DOMAIN tables /\ tables \in Programs
      BY <3>1 DEF Frames, IInv, TypeOK
    <3> QED
      BY <3>1, <3>2, ProgramsAssumption, SizesAssumption DEF Frames
  <2>6. base' = Top'.at /\ base' \in Int
    BY <1>1, <2>1, <2>3, <2>4, <2>5
  <2>7. stack' # <<>>
    BY <1>3, <1>7
  <2>8. TypeOK'
    <3>1. Len(stack') <= MaxDepth
      BY <1>1, <1>2, <1>3, SizesAssumption
    <3> QED
      BY <1>1, <1>3, <2>6, <2>7, <3>1, Zenon DEF IInv, TypeOK
  <2>9. Balanced'
    BY <1>5, <1>6, <2>1, <2>6 DEF Balanced
  <2> QED
    BY <1>4, <2>8, <2>9 DEF IInv
<1>8. CASE ~(Len(stack) > 1)
  <2>1. base' = base /\ status' = "completed" /\ Len(stack) = 1
    <3>1. Len(stack) = 1
      <4> DEFINE n == Len(stack)
      <4>1. n \in Nat \ {0} /\ ~(n > 1)
        BY <1>2, <1>8
      <4> HIDE DEF n
      <4>2. n = 1
        BY <4>1
      <4> QED
        BY <4>2 DEF n
    <3> QED
      BY <1>8, <3>1, Zenon DEF EndOfTable
  <2>2. stack' = <<>>
    BY <1>3, <2>1
  <2>3. base = 0
    BY <1>1, <2>1 DEF IInv, Balanced, Top
  <2>4. TypeOK'
    <3>1. Len(stack') <= MaxDepth
      BY <1>1, <1>2, <1>3, SizesAssumption
    <3> QED
      BY <1>1, <1>3, <2>1, <3>1, Zenon DEF IInv, TypeOK
  <2>5. Balanced'
    BY <1>5, <1>6, <2>1, <2>2, <2>3 DEF Balanced
  <2> QED
    BY <1>4, <2>4, <2>5 DEF IInv
<1> QED
  BY <1>7, <1>8
(* A set of numbers has a least one.                                       *)
LEMMA LeastIs ==
  ASSUME NEW S \in SUBSET Nat, S # {}
  PROVE  Min(S) \in S
<1>1. IsWellFoundedOn(OpToRel(<, Nat), Nat)
  BY NatLessThanWellFounded
<1>2. \E x \in S : \A y \in S : ~(<<y, x>> \in OpToRel(<, Nat))
  BY <1>1, WFMin
<1>3. ASSUME NEW x \in Nat, NEW y \in Nat, y < x PROVE <<y, x>> \in OpToRel(<, Nat)
  BY <1>3, Zenon DEF OpToRel
<1>4. \E x \in S : \A y \in S : x <= y
  <2>1. PICK x \in S : \A y \in S : ~(<<y, x>> \in OpToRel(<, Nat))
    BY <1>2, Zenon
  <2>2. ASSUME NEW y \in S PROVE ~(y < x)
    BY <1>3, <2>1, Zenon
  <2> QED
    BY <2>2
<1> QED
  BY <1>4 DEF Min
LEMMA WriteIs ==
  ASSUME IInv, Write
  PROVE  LET w == Result(Command, Read(Command.dest), Read(Command.source))
         IN  /\ stack # <<>> /\ status = "success" /\ IsOperand(Command.dest)
             /\ Args(Command, Read(Command.dest), Read(Command.source))
             /\ w \in Words /\ Put(Command.dest, w)
             /\ Command.op \in Writers
<1>1. /\ stack # <<>> /\ IsCommand(Command) /\ Command.op \in Writers /\ status = "success"
  BY CommandIs DEF Write
<1>2. /\ IsOperand(Command.dest) /\ IsOperand(Command.source)
      /\ Command.sa \in 0 .. 7 /\ Command.da \in 0 .. 3
  BY <1>1 DEF IsCommand
<1>3. Args(Command, Read(Command.dest), Read(Command.source))
  BY <1>1, <1>2, ReadIs DEF Args
<1>4. Result(Command, Read(Command.dest), Read(Command.source)) \in Words
  BY <1>1, <1>2, <1>3, ResultIs
<1>5. Put(Command.dest, Result(Command, Read(Command.dest), Read(Command.source)))
  BY DEF Write
<1> QED
  BY <1>1, <1>2, <1>3, <1>4, <1>5

LEMMA WriteInv == ASSUME IInv, Write PROVE IInv'
<1> DEFINE w == Result(Command, Read(Command.dest), Read(Command.source))
<1>1. /\ stack # <<>> /\ status = "success" /\ IsOperand(Command.dest) /\ w \in Words
      /\ Put(Command.dest, w)
  BY WriteIs
<1> HIDE DEF w
<1>2. /\ param' \in Spaces /\ reg' \in [{0, 1} -> Words] /\ InPlace(stack')
      /\ div' \in [quotient : Words, remainder : Words]
  BY <1>1, PutIs
<1>3. UNCHANGED <<tables, base, flags, callee, status>>
  BY DEF Write
<1> QED
  BY <1>1, <1>2, <1>3, InPlaceInv

LEMMA EvaluateInv == ASSUME IInv, Evaluate PROVE IInv'
<1>1. stack # <<>> /\ Command.op \in Evaluators
  BY CommandIs DEF Evaluate
<1>2. stack' = Advance /\ UNCHANGED <<tables, base, param, reg, callee, status>>
  BY DEF Evaluate
<1>3. InPlace(stack')
  BY <1>1, <1>2, AdvanceIs
<1>4. \A n : Word(n) \in Words
  BY DEF Word, Words
<1>5. div \in [quotient : Words, remainder : Words]
  BY DEF IInv, TypeOK
<1>6. div' \in [quotient : Words, remainder : Words]
  <2> DEFINE s == Narrow(Read(Command.source), SrcAlignment(Command))
             d == CommonDest(Read(Command.dest), SrcAlignment(Command), Command.da)
  <2>1. CASE Command.op = "mul"
    <3>1. div' = [div EXCEPT !.quotient = Word(Value(d) * Value(s))]
      BY <2>1 DEF Evaluate
    <3> HIDE DEF s, d
    <3> QED
      BY <1>4, <1>5, <3>1
  <2>2. CASE Command.op = "div"
    <3>1. div' = [quotient |-> Word(Value(d) \div Value(s)),
                  remainder |-> Word(Value(d) % Value(s))]
      BY <2>2 DEF Evaluate
    <3> HIDE DEF s, d
    <3> QED
      BY <1>4, <3>1
  <2>3. CASE Command.op = "compare"
    BY <1>5, <2>3 DEF Evaluate
  <2>4. CASE Command.op = "test"
    BY <1>5, <2>4 DEF Evaluate
  <2> QED
    BY <1>1, <2>1, <2>2, <2>3, <2>4 DEF Evaluators
<1>7. param' \in Spaces /\ reg' \in [{0, 1} -> Words]
  BY <1>2 DEF IInv, TypeOK
<1> QED
  BY <1>1, <1>2, <1>3, <1>6, <1>7, InPlaceInv

LEMMA JumpInv == ASSUME IInv, Jump PROVE IInv'
<1>1. /\ stack # <<>> /\ IsCommand(Command) /\ Top.ip \in Nat \ {0}
      /\ Command.op \in {"jump", "jumpe", "jumpne", "switch"}
  BY CommandIs, TopIs DEF Jump
<1>2. UNCHANGED <<tables, base, param, reg, div, flags, callee, status>>
  BY DEF Jump
<1>3. PICK next \in Nat \ {0} : stack' = [stack EXCEPT ![Len(stack)].ip = next]
  <2>1. CASE Command.op = "switch"
    <3> DEFINE s == Narrow(Read(Command.source), SrcAlignment(Command))
               hits == {j \in DOMAIN Command.cases : Command.cases[j].value = s}
    <3>1. stack' = [stack EXCEPT ![Len(stack)].ip = ProcessSwitch]
      BY <2>1 DEF Jump
    <3>2. ProcessSwitch = IF hits = {} THEN Top.ip + 1 ELSE Command.cases[Min(hits)].to
      BY DEF ProcessSwitch
    <3>3. /\ hits \in SUBSET Nat
          /\ \A j \in hits : Command.cases[j].to \in Nat \ {0}
      BY <1>1, <2>1 DEF IsCommand
    <3> HIDE DEF hits
    <3>4. ProcessSwitch \in Nat \ {0}
      <4>1. CASE hits = {}
        BY <1>1, <3>2, <4>1
      <4>2. CASE hits # {}
        BY <3>2, <3>3, <4>2, LeastIs
      <4> QED
        BY <4>1, <4>2
    <3> QED
      BY <3>1, <3>4
  <2>2. CASE Command.op # "switch"
    <3>1. Command.to \in Nat \ {0}
      BY <1>1, <2>2 DEF IsCommand
    <3>2. \/ stack' = [stack EXCEPT ![Len(stack)].ip = Command.to]
          \/ stack' = [stack EXCEPT ![Len(stack)].ip = Top.ip + 1]
      BY <2>2 DEF Jump
    <3>3. Top.ip + 1 \in Nat \ {0}
      BY <1>1
    <3> QED
      BY <3>1, <3>2, <3>3, Zenon
  <2> QED
    BY <2>1, <2>2
<1>4. InPlace(stack')
  BY <1>1, <1>3, IpChanged
<1>5. /\ param' \in Spaces /\ reg' \in [{0, 1} -> Words]
      /\ div' \in [quotient : Words, remainder : Words]
  BY <1>2 DEF IInv, TypeOK
<1> QED
  BY <1>1, <1>2, <1>4, <1>5, InPlaceInv

LEMMA CallTableInv == ASSUME IInv, cmdCall_Table PROVE IInv'
<1>1. stack # <<>> /\ status = "success"
  BY CommandIs DEF cmdCall_Table
<1>2. stack' = Advance /\ UNCHANGED <<tables, param, reg, div, flags>>
  BY DEF cmdCall_Table
<1>3. InPlace(stack')
  BY <1>1, <1>2, AdvanceIs
<1>4. /\ param' \in Spaces /\ reg' \in [{0, 1} -> Words]
      /\ div' \in [quotient : Words, remainder : Words]
  BY <1>2 DEF IInv, TypeOK
<1>5. CASE Command.table \notin DOMAIN tables
  <2>1. UNCHANGED <<base, callee, status>>
    BY <1>5 DEF cmdCall_Table
  <2> QED
    BY <1>1, <1>2, <1>3, <1>4, <2>1, InPlaceInv
<1>6. CASE Command.table \in DOMAIN tables
  <2>1. base' = base + PS[Top.table] /\ callee' \in DOMAIN tables /\ status' = "call"
    BY <1>6 DEF cmdCall_Table
  <2>2. /\ Len(stack') <= MaxDepth /\ stack' # <<>> /\ Within' /\ stack'[1].at = 0
        /\ \A j \in 2 .. Len(stack') : stack'[j].at = stack'[j - 1].at + PS[stack'[j - 1].table]
        /\ Top'.at = Top.at /\ Top'.table = Top.table
    BY <1>1, <1>3, InPlaceKeeps
  <2>3. base = Top.at /\ Top.at \in Nat /\ PS[Top.table] \in 0 .. MaxPS
    BY <1>1, TopIs DEF IInv, Balanced
  <2>4. TypeOK'
    <3>1. Frames' = Frames /\ Spaces' = Spaces /\ stack' \in Seq(Frames)
      BY <1>2, <1>3 DEF Frames, Spaces, InPlace
    <3>2. base' \in Int
      BY <2>1, <2>3, SizesAssumption
    <3> QED
      BY <1>2, <1>4, <2>1, <2>2, <3>1, <3>2 DEF IInv, TypeOK
  <2>5. Balanced'
    BY <2>1, <2>2, <2>3 DEF Balanced
  <2> QED
    BY <2>2, <2>4, <2>5 DEF IInv
<1> QED
  BY <1>5, <1>6

LEMMA FailInv == ASSUME IInv, Fail PROVE IInv'
<1>1. stack # <<>> /\ status = "success" /\ Command.op \in {"notimplemented", "invalid"}
  BY CommandIs DEF Fail
<1>2. /\ UNCHANGED <<tables, base, param, reg, div, flags, callee>>
      /\ status' = Command.op /\ (stack' = stack \/ stack' = Advance)
  BY DEF Fail
<1>3. InPlace(stack')
  <2>1. InPlace(stack)
    BY DEF InPlace, IInv, TypeOK
  <2> QED
    BY <1>1, <1>2, <2>1, AdvanceIs
<1>4. /\ param' \in Spaces /\ reg' \in [{0, 1} -> Words]
      /\ div' \in [quotient : Words, remainder : Words]
  BY <1>2 DEF IInv, TypeOK
<1> QED
  BY <1>1, <1>2, <1>3, <1>4, InPlaceInv

LEMMA StepIInv == IInv /\ [Next]_vars => IInv'
<1> SUFFICES ASSUME IInv, [Next]_vars PROVE IInv'
  OBVIOUS
<1>1. CASE EnterTable
  BY <1>1, EnterTableInv
<1>2. CASE EndOfTable
  BY <1>2, EndOfTableInv
<1>3. CASE Write
  BY <1>3, WriteInv
<1>4. CASE Evaluate
  BY <1>4, EvaluateInv
<1>5. CASE Jump
  BY <1>5, JumpInv
<1>6. CASE cmdCall_Table
  BY <1>6, CallTableInv
<1>7. CASE Fail
  BY <1>7, FailInv
<1>8. CASE UNCHANGED vars
  BY <1>8 DEF vars, IInv, TypeOK, Within, Balanced, Top, Frames, Spaces
<1> QED
  BY <1>1, <1>2, <1>3, <1>4, <1>5, <1>6, <1>7, <1>8 DEF Next

(* The invariant holds of every image.                                     *)
THEOREM Invariant == Spec => []IInv
  BY InitIInv, StepIInv, PTL DEF Spec

(* Nested calls pass their parameters behind each other, and give back     *)
(* what they took (cmdCall_Table, ParseTable).                             *)
THEOREM AlwaysBalanced == Spec => []Balanced
<1>1. IInv => Balanced
  BY DEF IInv
<1> QED
  BY <1>1, Invariant, PTL
(* Only Write changes parameters, those of the running table or above, and *)
(* only EndOfTable takes a frame away.                                     *)
LEMMA StepKeeps ==
  ASSUME IInv, Next
  PROVE  /\ \A j \in 1 .. Len(stack) - 1 :
               Len(stack') >= Len(stack) => stack'[j] = stack[j]
         /\ \/ param' = param
            \/ status = "success" /\ \A i \in 0 .. base - 1 : param'[i] = param[i]
<1>1. stack \in Seq(Frames) /\ Len(stack) \in Nat
  BY DEF IInv, TypeOK
<1>2. CASE EnterTable
  <2>1. param' = param
    BY <1>2 DEF EnterTable
  <2>2. \/ stack' = stack
        \/ \E f : stack' = Append(stack, f)
    BY <1>2, Zenon DEF EnterTable
  <2>3. \A j \in 1 .. Len(stack) - 1 : stack'[j] = stack[j]
    BY <1>1, <2>2
  <2> QED
    BY <2>1, <2>3
<1>3. CASE EndOfTable
  <2>1. param' = param /\ stack' = SubSeq(stack, 1, Len(stack) - 1) /\ stack # <<>>
    BY <1>3 DEF EndOfTable, IInv, TypeOK
  <2>2. Len(stack') < Len(stack)
    <3> DEFINE n == Len(stack) - 1
    <3>1. n \in 0 .. Len(stack) /\ n < Len(stack)
      BY <1>1, <2>1
    <3>2. Len(SubSeq(stack, 1, n)) = n
      <4> HIDE DEF n
      <4> QED
        BY <1>1, <3>1
    <3> QED
      BY <2>1, <3>1, <3>2
  <2>3. ~(Len(stack') >= Len(stack))
    <3>1. Len(stack') \in Int
      BY <1>1, <2>1
    <3> QED
      BY <1>1, <2>2, <3>1
  <2> QED
    BY <2>1, <2>3
<1>4. CASE Write
  <2> DEFINE w == Result(Command, Read(Command.dest), Read(Command.source))
  <2>1. /\ status = "success" /\ IsOperand(Command.dest) /\ w \in Words
        /\ Put(Command.dest, w)
    BY <1>4, WriteIs
  <2> HIDE DEF w
  <2> QED
    BY <2>1, PutIs DEF InPlace
<1>5. CASE Evaluate \/ cmdCall_Table \/ Fail
  <2>1. stack # <<>> /\ param' = param /\ (stack' = Advance \/ stack' = stack)
    BY <1>5, CommandIs DEF Evaluate, cmdCall_Table, Fail
  <2> QED
    BY <2>1, AdvanceIs DEF InPlace
<1>6. CASE Jump
  <2>1. stack # <<>> /\ param' = param
    BY <1>6, CommandIs DEF Jump
  <2>2. \E n : stack' = [stack EXCEPT ![Len(stack)].ip = n]
    BY <1>6, Zenon DEF Jump
  <2>3. \A j \in 1 .. Len(stack) - 1 : stack'[j] = stack[j]
    BY <1>1, <2>2
  <2> QED
    BY <2>1, <2>3
<1> QED
  BY <1>2, <1>3, <1>4, <1>5, <1>6 DEF Next

(* Whatever a table does, what its callers keep in their workspaces and in *)
(* their own parameters stays (ParseTable, PutDataPS, PutDataWS).          *)
THEOREM CallersAlwaysKept == Spec => CallersKept
<1> DEFINE Kept(j) ==
             /\ Len(stack') >= Len(stack) => stack'[j] = stack[j]
             /\ \A i \in DOMAIN param :
                  i < stack[j].at + PS[stack[j].table] => param'[i] = param[i]
           Keeps == \A j \in 1 .. Len(stack) - 1 : Kept(j)
<1>1. ASSUME IInv, Next PROVE Keeps
  <2> SUFFICES ASSUME NEW j \in 1 .. Len(stack) - 1
               PROVE  Kept(j)
    OBVIOUS
  <2>1. Len(stack') >= Len(stack) => stack'[j] = stack[j]
    BY <1>1, StepKeeps
  <2>2. CASE param' = param
    BY <2>1, <2>2
  <2>3. CASE status = "success" /\ \A i \in 0 .. base - 1 : param'[i] = param[i]
    <3>1. stack \in Seq(Frames) /\ Len(stack) \in Nat /\ stack # <<>> /\ base = Top.at
      BY <1>1, <2>3 DEF IInv, TypeOK, Balanced
    <3>2. /\ j + 1 \in 2 .. Len(stack) /\ j + 1 \in 1 .. Len(stack)
          /\ Len(stack) \in 1 .. Len(stack) /\ j + 1 <= Len(stack) /\ (j + 1) - 1 = j
      BY <3>1
    <3>3. stack[j + 1].at <= base
      BY <1>1, <3>1, <3>2 DEF IInv, Within, Top
    <3>4. stack[j + 1].at \in Nat /\ base \in Nat
      <4>1. stack[j + 1] \in Frames
        BY <3>1, <3>2
      <4>2. Top.at \in Nat
        BY <1>1, <3>1, TopIs
      <4> QED
        BY <3>1, <4>1, <4>2 DEF Frames
    <3>5. stack[j + 1].at = stack[j].at + PS[stack[j].table]
      <4>1. stack[j + 1].at = stack[(j + 1) - 1].at + PS[stack[(j + 1) - 1].table]
        BY <1>1, <3>2 DEF IInv, Balanced
      <4> QED
        BY <3>2, <4>1
    <3>6. DOMAIN param \subseteq Nat
      BY <1>1, SizesAssumption DEF IInv, TypeOK, Spaces
    <3>7. ASSUME NEW i \in DOMAIN param, i < stack[j].at + PS[stack[j].table]
          PROVE  param'[i] = param[i]
      <4>1. i \in Nat /\ i < stack[j + 1].at
        BY <3>5, <3>6, <3>7
      <4>2. i \in 0 .. base - 1
        BY <3>3, <3>4, <4>1
      <4> QED
        BY <2>3, <4>2
    <3> QED
      BY <2>1, <3>7
  <2> QED
    BY <1>1, <2>2, <2>3, StepKeeps
<1>2. IInv /\ [Next]_vars => [Keeps]_vars
  BY <1>1
<1>3. Spec => [][Keeps]_vars
  BY <1>2, Invariant, PTL DEF Spec
<1> QED
  BY <1>3 DEF CallersKept

(* Commands change the part of a word that they name, as their name says,  *)
(* whatever parts they take (the Process functions of CD_Operations.c).    *)
THEOREM FieldsAlwaysKept == Spec => FieldsKept
<1> DEFINE before == Top.ws[Command.dest.i]
           after  == stack'[Len(stack)].ws[Command.dest.i]
           Keeps ==
             /\ Running(FieldOps) /\ Command.dest.at = "ws" =>
                  after = ByField(Command, before, Read(Command.source))
             /\ Running({"mask", "shiftleft", "shiftright"}) /\ Command.dest.at = "ws" =>
                  after \ Field(Command) = before \ Field(Command)
<1>1. ASSUME IInv, Next, NEW ops \in SUBSET Writers, Running(ops) PROVE Write
  <2>1. status = "success" /\ ~AtEnd /\ Command.op \in Writers
    BY <1>1 DEF Running
  <2>2. Command.op \notin Evaluators \cup {"jump", "jumpe", "jumpne", "switch", "call",
                                           "notimplemented", "invalid"}
    BY <2>1 DEF Writers, Evaluators
  <2> QED
    BY <1>1, <2>1, <2>2 DEF Next, EnterTable, EndOfTable, Evaluate, Jump, cmdCall_Table, Fail,
                            Running
<1>2. ASSUME IInv, Next, NEW ops \in SUBSET Writers, Running(ops), Command.dest.at = "ws"
      PROVE  /\ after = Result(Command, before, Read(Command.source))
             /\ Args(Command, before, Read(Command.source)) /\ Command.op \in ops
  <2>1. Read(Command.dest) = before /\ Command.op \in ops
    BY <1>2 DEF Read, Running
  <2> HIDE DEF before
  <2>2. Write
    BY <1>1, <1>2
  <2> DEFINE w == Result(Command, before, Read(Command.source))
  <2>3. /\ status = "success" /\ IsOperand(Command.dest)
        /\ Args(Command, before, Read(Command.source))
        /\ w \in Words /\ Put(Command.dest, w)
    BY <1>2, <2>1, <2>2, WriteIs
  <2> HIDE DEF w
  <2>4. after = w
    BY <1>2, <2>3, PutIs
  <2> QED
    BY <2>1, <2>3, <2>4 DEF w
<1>3. ASSUME IInv, Next PROVE Keeps
  <2>1. FieldOps \in SUBSET Writers /\ {"mask", "shiftleft", "shiftright"} \in SUBSET Writers
    BY DEF FieldOps, Writers
  <2>2. ASSUME Running(FieldOps), Command.dest.at = "ws"
        PROVE  after = ByField(Command, before, Read(Command.source))
    <3>1. /\ after = Result(Command, before, Read(Command.source))
          /\ Args(Command, before, Read(Command.source)) /\ Command.op \in FieldOps
      BY <1>2, <1>3, <2>1, <2>2
    <3> HIDE DEF before, after
    <3> QED
      BY <3>1, ResultByField
  <2>3. ASSUME Running({"mask", "shiftleft", "shiftright"}), Command.dest.at = "ws"
        PROVE  after \ Field(Command) = before \ Field(Command)
    <3>1. /\ after = Result(Command, before, Read(Command.source))
          /\ Args(Command, before, Read(Command.source))
          /\ Command.op \in {"mask", "shiftleft", "shiftright"}
      BY <1>2, <1>3, <2>1, <2>3
    <3> HIDE DEF before, after
    <3> QED
      BY <3>1, MaskKeeps, ShiftKeeps
  <2> QED
    BY <2>2, <2>3
<1>4. IInv /\ [Next]_vars => [Keeps]_vars
  BY <1>3
<1>5. Spec => [][Keeps]_vars
  BY <1>4, Invariant, PTL DEF Spec
<1> QED
  BY <1>5 DEF FieldsKept
=============================================================================
