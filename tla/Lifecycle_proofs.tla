-------------------------- MODULE Lifecycle_proofs --------------------------
(***************************************************************************)
(* Ownership (Owned of Lifecycle) for any number of nubs, and so of        *)
(* attempts to initialise.                                                 *)
(***************************************************************************)
EXTENDS Lifecycle, TLAPS

Blocks == (Pointers \cup Leaky \cup {"NULL"}) \X Nat
Mem == [ptr : [Pointers -> Blocks], heap : SUBSET Blocks, bad : SUBSET Blocks]

LEMMA NULLIs == NULL \in Blocks /\ NULL[1] = "NULL" /\ NULL[2] = 0
  BY DEF NULL, Blocks

(* What the operations do to the three parts of the memory.                *)
LEMMA FreeEachIs ==
  ASSUME NEW s \in Mem, NEW ps \in SUBSET Pointers
  PROVE  /\ FreeEach(s, ps) \in Mem
         /\ \A p \in Pointers : FreeEach(s, ps).ptr[p] = IF p \in ps THEN NULL ELSE s.ptr[p]
         /\ FreeEach(s, ps).heap = s.heap \ {s.ptr[p] : p \in {q \in ps : s.ptr[q] # NULL}}
         /\ (\A p \in ps : s.ptr[p] # NULL =>
               s.ptr[p] \in s.heap /\ \A q \in ps \ {p} : s.ptr[q] # s.ptr[p])
            => FreeEach(s, ps).bad = s.bad
<1> DEFINE set  == {p \in ps : s.ptr[p] # NULL}
           dead == {p \in set : s.ptr[p] \notin s.heap \/ \E q \in set \ {p} : s.ptr[q] = s.ptr[p]}
           to   == [p \in Pointers |-> IF p \in ps THEN NULL ELSE s.ptr[p]]
           freed == {s.ptr[p] : p \in set}
           twice == {s.ptr[p] : p \in dead}
<1>1. /\ s = [ptr |-> s.ptr, heap |-> s.heap, bad |-> s.bad]
      /\ s.ptr \in [Pointers -> Blocks] /\ s.heap \in SUBSET Blocks /\ s.bad \in SUBSET Blocks
  BY DEF Mem
<1>2. FreeEach(s, ps) = [[[s EXCEPT !.ptr = to] EXCEPT !.heap = s.heap \ freed] EXCEPT !.bad = s.bad \cup twice]
  BY <1>1 DEF FreeEach, Forget
<1>3. to \in [Pointers -> Blocks] /\ freed \in SUBSET Blocks /\ twice \in SUBSET Blocks
  BY <1>1, NULLIs
<1>4. /\ FreeEach(s, ps).ptr = to /\ FreeEach(s, ps).heap = s.heap \ freed
      /\ FreeEach(s, ps).bad = s.bad \cup twice
      /\ FreeEach(s, ps) \in Mem
  <2> HIDE DEF to, freed, twice
  <2> QED
    BY <1>1, <1>2, <1>3 DEF Mem
<1>5. ASSUME \A p \in ps : s.ptr[p] # NULL =>
               s.ptr[p] \in s.heap /\ \A q \in ps \ {p} : s.ptr[q] # s.ptr[p]
      PROVE  twice = {}
  BY <1>5
<1> QED
  BY <1>4, <1>5

LEMMA AllocAllIs ==
  ASSUME NEW s \in Mem, NEW ps \in SUBSET Pointers, tries \in Nat
  PROVE  /\ AllocAll(s, ps) \in Mem
         /\ \A p \in Pointers : AllocAll(s, ps).ptr[p] = IF p \in ps THEN Block(p) ELSE s.ptr[p]
         /\ AllocAll(s, ps).heap = s.heap \cup {Block(p) : p \in ps}
         /\ AllocAll(s, ps).bad = s.bad
<1> DEFINE to  == [p \in Pointers |-> IF p \in ps THEN Block(p) ELSE s.ptr[p]]
           new == {Block(p) : p \in ps}
<1>1. /\ s = [ptr |-> s.ptr, heap |-> s.heap, bad |-> s.bad]
      /\ s.ptr \in [Pointers -> Blocks] /\ s.heap \in SUBSET Blocks /\ s.bad \in SUBSET Blocks
  BY DEF Mem
<1>2. AllocAll(s, ps) = [[s EXCEPT !.ptr = to] EXCEPT !.heap = s.heap \cup new]
  BY <1>1 DEF AllocAll
<1>3. to \in [Pointers -> Blocks] /\ new \in SUBSET Blocks
  BY <1>1 DEF Block, Blocks
<1>4. /\ AllocAll(s, ps).ptr = to /\ AllocAll(s, ps).heap = s.heap \cup new
      /\ AllocAll(s, ps).bad = s.bad
      /\ AllocAll(s, ps) \in Mem
  <2> HIDE DEF to, new
  <2> QED
    BY <1>1, <1>2, <1>3 DEF Mem
<1> QED
  BY <1>4

LEMMA LeakIs ==
  ASSUME NEW s \in Mem, NEW kinds \in SUBSET Leaky, tries \in Nat
  PROVE  /\ Leak(s, kinds) \in Mem
         /\ Leak(s, kinds).ptr = s.ptr /\ Leak(s, kinds).bad = s.bad
         /\ Leak(s, kinds).heap = s.heap \cup {Block(k) : k \in kinds}
<1> DEFINE new == {Block(k) : k \in kinds}
<1>1. new \in SUBSET Blocks
  BY DEF Block, Blocks
<1>2. Leak(s, kinds) = [s EXCEPT !.heap = @ \cup new]
  BY DEF Leak
<1> HIDE DEF new
<1>3. /\ Leak(s, kinds) \in Mem
      /\ Leak(s, kinds).ptr = s.ptr /\ Leak(s, kinds).bad = s.bad
      /\ Leak(s, kinds).heap = s.heap \cup new
  BY <1>1, <1>2 DEF Mem
<1> QED
  BY <1>3 DEF new

LEMMA ForgetIs ==
  ASSUME NEW s \in Mem, NEW ps \in SUBSET Pointers
  PROVE  /\ Forget(s, ps) \in Mem
         /\ \A p \in Pointers : Forget(s, ps).ptr[p] = IF p \in ps THEN NULL ELSE s.ptr[p]
         /\ Forget(s, ps).heap = s.heap /\ Forget(s, ps).bad = s.bad
<1> DEFINE to == [p \in Pointers |-> IF p \in ps THEN NULL ELSE s.ptr[p]]
<1>1. to \in [Pointers -> Blocks]
  BY NULLIs DEF Mem
<1>2. Forget(s, ps) = [s EXCEPT !.ptr = to]
  BY DEF Forget
<1>3. /\ Forget(s, ps) \in Mem /\ Forget(s, ps).ptr = to
      /\ Forget(s, ps).heap = s.heap /\ Forget(s, ps).bad = s.bad
  <2> HIDE DEF to
  <2> QED
    BY <1>1, <1>2 DEF Mem
<1> QED
  BY <1>3
-----------------------------------------------------------------------------
(* A memory in order: nothing was freed twice, no pointer outlives its     *)
(* block, no two (the controller's map is one) hold the same, and what is  *)
(* alive is held or of a kind that leaks.                                  *)
Tidy(s, held) ==
  /\ s \in Mem /\ s.bad = {} /\ NULL \notin s.heap
  /\ \A p \in Pointers : s.ptr[p] # NULL => s.ptr[p] \in s.heap
  /\ \A p, q \in Pointers : s.ptr[p] # NULL /\ p # q => s.ptr[p] # s.ptr[q]
  /\ held # NULL => held \in s.heap /\ \A p \in Pointers : s.ptr[p] # held
  /\ \A b \in s.heap : b[1] \in Leaky \/ b = held \/ \E p \in Pointers : s.ptr[p] = b

LEMMA FreeTidy ==
  ASSUME NEW s, NEW held, Tidy(s, held), NEW ps \in SUBSET Pointers
  PROVE  Tidy(FreeEach(s, ps), held)
<1> DEFINE t == FreeEach(s, ps)
<1>1. s \in Mem
  BY DEF Tidy
<1>2. /\ t \in Mem
      /\ \A p \in Pointers : t.ptr[p] = IF p \in ps THEN NULL ELSE s.ptr[p]
      /\ t.heap = s.heap \ {s.ptr[p] : p \in {q \in ps : s.ptr[q] # NULL}}
      /\ t.bad = s.bad
  BY <1>1, FreeEachIs DEF Tidy
<1> HIDE DEF t
<1>3. ASSUME NEW p \in Pointers, t.ptr[p] # NULL
      PROVE  t.ptr[p] \in t.heap
  BY <1>2, <1>3 DEF Tidy
<1>4. ASSUME NEW p \in Pointers, NEW q \in Pointers, t.ptr[p] # NULL, p # q
      PROVE  t.ptr[p] # t.ptr[q]
  BY <1>2, <1>4 DEF Tidy
<1>5. ASSUME held # NULL
      PROVE  held \in t.heap /\ \A p \in Pointers : t.ptr[p] # held
  BY <1>2, <1>5 DEF Tidy
<1>6. ASSUME NEW b \in t.heap
      PROVE  b[1] \in Leaky \/ b = held \/ \E p \in Pointers : t.ptr[p] = b
  <2>1. b \in s.heap /\ b # NULL /\ \A p \in ps : s.ptr[p] # b
    BY <1>2, <1>6 DEF Tidy
  <2> QED
    BY <1>2, <2>1 DEF Tidy
<1> QED
  BY <1>2, <1>3, <1>4, <1>5, <1>6 DEF Tidy, t

LEMMA AllocTidy ==
  ASSUME NEW s, NEW held, Tidy(s, held), NEW ps \in SUBSET Pointers, tries \in Nat,
         \A p \in ps : s.ptr[p] = NULL /\ Block(p) \notin s.heap
  PROVE  Tidy(AllocAll(s, ps), held)
<1> DEFINE t == AllocAll(s, ps)
<1>1. s \in Mem
  BY DEF Tidy
<1>2. /\ t \in Mem
      /\ \A p \in Pointers : t.ptr[p] = IF p \in ps THEN Block(p) ELSE s.ptr[p]
      /\ t.heap = s.heap \cup {Block(p) : p \in ps}
      /\ t.bad = s.bad
  BY <1>1, AllocAllIs
<1> HIDE DEF t
<1>3. \A p \in Pointers : Block(p) # NULL
  BY DEF Block, NULL, Pointers
<1>4. \A p, q \in Pointers : p # q => Block(p) # Block(q)
  BY DEF Block
<1>5. ASSUME NEW p \in Pointers, t.ptr[p] # NULL
      PROVE  t.ptr[p] \in t.heap
  BY <1>2, <1>5 DEF Tidy
<1>6. ASSUME NEW p \in Pointers, NEW q \in Pointers, t.ptr[p] # NULL, p # q
      PROVE  t.ptr[p] # t.ptr[q]
  BY <1>2, <1>3, <1>4, <1>6 DEF Tidy
<1>7. ASSUME held # NULL
      PROVE  held \in t.heap /\ \A p \in Pointers : t.ptr[p] # held
  BY <1>2, <1>7 DEF Tidy
<1>8. ASSUME NEW b \in t.heap
      PROVE  b[1] \in Leaky \/ b = held \/ \E p \in Pointers : t.ptr[p] = b
  <2>1. CASE b \in s.heap
    BY <1>2, <1>3, <1>8, <2>1 DEF Tidy
  <2>2. CASE b \in {Block(p) : p \in ps}
    BY <1>2, <2>2
  <2> QED
    BY <1>2, <2>1, <2>2
<1>9. t.bad = {} /\ NULL \notin t.heap
  BY <1>2, <1>3 DEF Tidy
<1> QED
  BY <1>2, <1>5, <1>6, <1>7, <1>8, <1>9 DEF Tidy, t

LEMMA LeakTidy ==
  ASSUME NEW s, NEW held, Tidy(s, held), NEW kinds \in SUBSET Leaky, tries \in Nat
  PROVE  Tidy(Leak(s, kinds), held)
<1> DEFINE t == Leak(s, kinds)
<1>1. s \in Mem
  BY DEF Tidy
<1>2. /\ t \in Mem /\ t.ptr = s.ptr /\ t.bad = s.bad
      /\ t.heap = s.heap \cup {Block(k) : k \in kinds}
  BY <1>1, LeakIs
<1> HIDE DEF t
<1>3. \A k \in Leaky : Block(k) # NULL /\ Block(k)[1] \in Leaky
  BY DEF Block, NULL, Leaky
<1>4. ASSUME NEW b \in t.heap
      PROVE  b[1] \in Leaky \/ b = held \/ \E p \in Pointers : t.ptr[p] = b
  BY <1>2, <1>3, <1>4 DEF Tidy
<1>5. t.bad = {} /\ NULL \notin t.heap
  BY <1>2, <1>3 DEF Tidy
<1> QED
  BY <1>2, <1>4, <1>5 DEF Tidy, t

(* Forgetting what is NULL changes nothing.                                *)
LEMMA ForgetTidy ==
  ASSUME NEW s, NEW held, Tidy(s, held), NEW ps \in SUBSET Pointers,
         \A p \in ps : s.ptr[p] = NULL
  PROVE  Tidy(Forget(s, ps), held)
<1> DEFINE t == Forget(s, ps)
<1>1. s \in Mem
  BY DEF Tidy
<1>2. /\ t \in Mem /\ t.heap = s.heap /\ t.bad = s.bad
      /\ \A p \in Pointers : t.ptr[p] = s.ptr[p]
  BY <1>1, ForgetIs
<1> HIDE DEF t
<1> QED
  BY <1>2 DEF Tidy, t

(* RHDFreeRec, step by step: what it finds set it frees, once.             *)
FreeLeaves(s, t, ps) ==
  /\ t.heap \subseteq s.heap
  /\ \A p \in Pointers : t.ptr[p] = IF p \in ps THEN NULL ELSE s.ptr[p]

LEMMA LeavesTwice ==
  ASSUME NEW s, NEW t, NEW u, NEW ps, NEW qs, FreeLeaves(s, t, ps), FreeLeaves(t, u, qs)
  PROVE  FreeLeaves(s, u, ps \cup qs)
  BY DEF FreeLeaves

LEMMA FreeEachLeaves ==
  ASSUME NEW s, NEW held, Tidy(s, held), NEW ps \in SUBSET Pointers
  PROVE  Tidy(FreeEach(s, ps), held) /\ FreeLeaves(s, FreeEach(s, ps), ps)
<1>1. s \in Mem
  BY DEF Tidy
<1> QED
  BY <1>1, FreeTidy, FreeEachIs DEF FreeLeaves

(* What hangs on the CRTCs, on the handle of the interpreter and on the    *)
(* RHDRec is NULL without them.                                            *)
Hangs(s) ==
  /\ s.ptr["cursors"] # NULL => s.ptr["crtcs"] # NULL
  /\ s.ptr["image"] # NULL \/ s.ptr["scratch"] # NULL => s.ptr["atom"] # NULL
  /\ s.ptr["rec"] = NULL => \A p \in Pointers : s.ptr[p] = NULL

(* What is freed before the handle of the interpreter.                     *)
Leaves == {"mc", "vga", "plls", "luts", "privates", "outputs", "connectors", "cursors",
           "curimage", "curinfo", "temp", "crtcs", "i2c"}

LEMMA FreeRecTidy ==
  ASSUME NEW s, NEW held, Tidy(s, held), Hangs(s)
  PROVE  /\ Tidy(FreeRec(s), held) /\ FreeRec(s).heap \subseteq s.heap
         /\ \A p \in Pointers : FreeRec(s).ptr[p] = NULL
<1>1. CASE s.ptr["rec"] = NULL
  BY <1>1 DEF FreeRec, Hangs
<1>2. CASE s.ptr["rec"] # NULL
  <2> DEFINE a  == FreeEach(s, {"mc", "vga", "plls", "luts"})
             b1 == OutputsDestroy(a)
             b  == Free(b1, "connectors")
             k1 == IF b.ptr["crtcs"] = NULL THEN b ELSE Free(b, "cursors")
             k  == CursorsDestroy(b)
             c1 == Free(k, "crtcs")
             c2 == CrtcsDestroy(k)
             c  == Free(c2, "i2c")
             d  == AtomTearDown(c)
             e  == FreeEach(d, {"curinfo", "bios", "rec"})
  <2>1. FreeRec(s) = e
    BY <1>2 DEF FreeRec
  <2>2. Tidy(a, held) /\ FreeLeaves(s, a, {"mc", "vga", "plls", "luts"})
    BY FreeEachLeaves DEF Pointers
  <2> HIDE DEF a
  <2>3. Tidy(b1, held) /\ FreeLeaves(a, b1, {"privates", "outputs"})
    BY <2>2, FreeEachLeaves DEF Pointers, OutputsDestroy
  <2> HIDE DEF b1
  <2>4. Tidy(b, held) /\ FreeLeaves(b1, b, {"connectors"})
    BY <2>3, FreeEachLeaves DEF Pointers, Free
  <2> HIDE DEF b
  <2>5. b.ptr["crtcs"] = s.ptr["crtcs"] /\ b.ptr["cursors"] = s.ptr["cursors"]
    BY <2>2, <2>3, <2>4 DEF FreeLeaves, Pointers
  <2>6. Tidy(k1, held) /\ FreeLeaves(b, k1, {"cursors"})
    <3>1. CASE b.ptr["crtcs"] = NULL
      <4>1. b.ptr["cursors"] = NULL /\ k1 = b
        BY <2>5, <3>1 DEF Hangs
      <4> QED
        BY <2>4, <4>1 DEF FreeLeaves
    <3>2. CASE b.ptr["crtcs"] # NULL
      BY <2>4, <3>2, FreeEachLeaves DEF Pointers, Free
    <3> QED
      BY <3>1, <3>2
  <2>7. k = FreeEach(k1, {"curimage", "curinfo", "temp"})
    BY DEF CursorsDestroy
  <2> HIDE DEF k1, k
  <2>8. Tidy(k, held) /\ FreeLeaves(k1, k, {"curimage", "curinfo", "temp"})
    BY <2>6, <2>7, FreeEachLeaves DEF Pointers
  <2>9. Tidy(c1, held) /\ FreeLeaves(k, c1, {"crtcs"})
    BY <2>8, FreeEachLeaves DEF Pointers, Free
  <2>10. c2 = Forget(c1, {"cursors"})
    BY DEF CrtcsDestroy
  <2> HIDE DEF c1, c2
  <2>11. c1.ptr["cursors"] = NULL
    BY <2>6, <2>8, <2>9 DEF FreeLeaves, Pointers
  <2>12. Tidy(c2, held) /\ FreeLeaves(c1, c2, {"cursors"})
    <3>1. c1 \in Mem
      BY <2>9 DEF Tidy
    <3> QED
      BY <2>9, <2>10, <2>11, <3>1, ForgetTidy, ForgetIs DEF Pointers, FreeLeaves
  <2>13. Tidy(c, held) /\ FreeLeaves(c2, c, {"i2c"})
    BY <2>12, FreeEachLeaves DEF Pointers, Free
  <2> HIDE DEF c
  <2>13a. FreeLeaves(s, c, Leaves)
    <3>1. FreeLeaves(s, b, {"mc", "vga", "plls", "luts", "privates", "outputs", "connectors"})
      <4>1. FreeLeaves(s, b1, {"mc", "vga", "plls", "luts"} \cup {"privates", "outputs"})
        BY <2>2, <2>3, LeavesTwice
      <4>2. FreeLeaves(s, b, ({"mc", "vga", "plls", "luts"} \cup {"privates", "outputs"})
                               \cup {"connectors"})
        BY <4>1, <2>4, LeavesTwice
      <4> QED
        BY <4>2 DEF FreeLeaves
    <3>2. FreeLeaves(b, k, {"cursors"} \cup {"curimage", "curinfo", "temp"})
      BY <2>6, <2>8, LeavesTwice
    <3>3. FreeLeaves(k, c2, {"crtcs"} \cup {"cursors"})
      BY <2>9, <2>12, LeavesTwice
    <3>4. FreeLeaves(b, c2, ({"cursors"} \cup {"curimage", "curinfo", "temp"})
                              \cup ({"crtcs"} \cup {"cursors"}))
      BY <3>2, <3>3, LeavesTwice
    <3>5. FreeLeaves(b, c, (({"cursors"} \cup {"curimage", "curinfo", "temp"})
                              \cup ({"crtcs"} \cup {"cursors"})) \cup {"i2c"})
      BY <2>13, <3>4, LeavesTwice
    <3>6. FreeLeaves(s, c, {"mc", "vga", "plls", "luts", "privates", "outputs", "connectors"}
             \cup ((({"cursors"} \cup {"curimage", "curinfo", "temp"})
                      \cup ({"crtcs"} \cup {"cursors"})) \cup {"i2c"}))
      BY <3>1, <3>5, LeavesTwice
    <3> QED
      BY <3>6 DEF FreeLeaves, Leaves
  <2>14. /\ c.ptr["atom"] = s.ptr["atom"] /\ c.ptr["image"] = s.ptr["image"]
         /\ c.ptr["scratch"] = s.ptr["scratch"]
    BY <2>13a DEF FreeLeaves, Leaves, Pointers
  <2>15. Tidy(d, held) /\ FreeLeaves(c, d, {"image", "scratch", "atom"})
    <3>1. CASE c.ptr["atom"] = NULL
      <4>1. c.ptr["image"] = NULL /\ c.ptr["scratch"] = NULL /\ d = c
        BY <2>14, <3>1 DEF Hangs, AtomTearDown
      <4> QED
        BY <2>13, <3>1, <4>1 DEF FreeLeaves
    <3>2. CASE c.ptr["atom"] # NULL
      BY <2>13, <3>2, FreeEachLeaves DEF Pointers, AtomTearDown
    <3> QED
      BY <3>1, <3>2
  <2> HIDE DEF d
  <2>16. Tidy(e, held) /\ FreeLeaves(d, e, {"curinfo", "bios", "rec"})
    BY <2>15, FreeEachLeaves DEF Pointers
  <2> HIDE DEF e
  <2>17. e.heap \subseteq s.heap
    BY <2>15, <2>16, <2>13a DEF FreeLeaves
  <2>18. \A p \in Pointers : e.ptr[p] = NULL
    <3>1. FreeLeaves(s, d, Leaves \cup {"image", "scratch", "atom"})
      BY <2>15, <2>13a, LeavesTwice
    <3>2. FreeLeaves(s, e, (Leaves \cup {"image", "scratch", "atom"})
                             \cup {"curinfo", "bios", "rec"})
      BY <2>16, <3>1, LeavesTwice
    <3> QED
      BY <3>2 DEF FreeLeaves, Leaves, Pointers
  <2> QED
    BY <2>1, <2>16, <2>17, <2>18
<1> QED
  BY <1>1, <1>2
-----------------------------------------------------------------------------
(* What an attempt may have allocated before each of its steps.            *)
Made ==
  LET atom == {"rec", "image", "atom"}
      ram  == atom \cup {"scratch"}
      i2c  == ram \cup {"i2c"}
      all  == i2c \cup {"mc", "vga", "crtcs", "plls", "luts", "cursors", "curinfo",
                        "curimage", "temp"}
  IN  [rec |-> {}, bios |-> {"rec"}, atom |-> {"rec"}, ram |-> atom, i2c |-> ram,
       structures |-> i2c, connectors |-> all, select |-> Pointers]
Stages == {"rec", "bios", "atom", "ram", "i2c", "structures", "connectors", "select"}

(* The blocks carry the number of their attempt, and what this one has not *)
(* come to yet is neither set nor alive: so a new block is new.  Only the  *)
(* image may be an old one, of the controller.                             *)
Numbered(s, made) ==
  \A b \in s.heap : b[2] <= tries /\ (b[2] = tries => b[1] \in made \cup Leaky)

At(s, held, made) ==
  /\ Tidy(s, held) /\ Numbered(s, made)
  /\ \A p \in Pointers : s.ptr[p] # NULL => p \in made \cup {"bios"}
  /\ s.ptr["rec"] # NULL /\ s.ptr["rec"][1] = "rec"

(* Between attempts: nothing is set but the RHDRec of a chip that is not   *)
(* known; or the driver is up, or was.                                     *)
OnlyRec(s) ==
  /\ \A p \in Pointers : s.ptr[p] # NULL => p = "rec" /\ ~known
  /\ s.ptr["rec"] # NULL => s.ptr["rec"][1] = "rec"

(* The invariant.                                                          *)
TypeOK ==
  /\ tries \in Nat /\ pc \in Stages \cup {"idle", "ended"}
  /\ nub \in [Nubs -> {"new", "tested", "init", "up", "gone", "failed", "orphan"}]
  /\ pc \in Stages => by \in Nubs /\ tries > 0 /\ ready

InOrder ==
  pc # "ended" => Tidy(m, map) /\ Hangs(m) /\ \A b \in heap : b[2] <= tries

InAttempt ==
  /\ pc = "rec" => OnlyRec(m) /\ Numbered(m, {})
  /\ pc \in Stages \ {"rec"} => known /\ At(m, map, Made[pc])
  /\ pc = "bios" => ptr["bios"] = NULL

Between ==
  /\ pc = "idle" /\ (~ready \/ ~known) => OnlyRec(m)
  /\ pc = "idle" /\ known /\ ptr["rec"] # NULL => \E n \in Nubs : nub[n] = "up"
  /\ pc = "idle" /\ ptr["rec"] # NULL => ptr["rec"][1] = "rec"

AtEnd ==
  pc = "ended" =>
    /\ bad = {} /\ map = NULL /\ \A p \in Pointers : ptr[p] \in heap \cup {NULL}
    /\ \A b \in heap : \/ b[1] \in Leaky \/ Lost(b)
                       \/ \E p \in Pointers : Holders(b) = {p}
    /\ ptr["rec"] = NULL /\ (Orphans = {} => \A p \in Pointers : ptr[p] = NULL)

IInv == TypeOK /\ InOrder /\ InAttempt /\ Between /\ AtEnd

LEMMA MadeIs ==
  /\ Made["rec"] = {} /\ Made["bios"] = {"rec"} /\ Made["atom"] = {"rec"}
  /\ Made["ram"] = {"rec", "image", "atom"} /\ Made["i2c"] = Made["ram"] \cup {"scratch"}
  /\ Made["structures"] = Made["i2c"] \cup {"i2c"}
  /\ Made["connectors"] = Made["structures"] \cup
       {"mc", "vga", "crtcs", "plls", "luts", "cursors", "curinfo", "curimage", "temp"}
  /\ Made["select"] = Pointers
  /\ Made["connectors"] \subseteq Pointers
  BY DEF Made, Pointers

(* The operations in an attempt.                                           *)
LEMMA AtGrows ==
  ASSUME NEW s, NEW held, NEW made, NEW more, At(s, held, made), made \subseteq more
  PROVE  At(s, held, more)
  BY DEF At, Numbered

LEMMA AllocAt ==
  ASSUME NEW s, NEW held, NEW made, NEW ps \in SUBSET Pointers, At(s, held, made),
         tries \in Nat, "rec" \in made, ps \cap (made \cup {"bios"}) = {}
  PROVE  At(AllocAll(s, ps), held, made \cup ps)
<1> DEFINE t == AllocAll(s, ps)
<1>1. Tidy(s, held) /\ s \in Mem
  BY DEF At, Tidy
<1>2. /\ \A p \in Pointers : t.ptr[p] = IF p \in ps THEN Block(p) ELSE s.ptr[p]
      /\ t.heap = s.heap \cup {Block(p) : p \in ps}
  BY <1>1, AllocAllIs
<1>3. \A p \in ps : Block(p)[1] = p /\ Block(p)[2] = tries
  BY DEF Block
<1>4. \A p \in ps : p \notin Leaky
  BY DEF Pointers, Leaky
<1>5. \A p \in ps : s.ptr[p] = NULL /\ Block(p) \notin s.heap
  BY <1>3, <1>4 DEF At, Numbered
<1>6. Tidy(t, held)
  BY <1>1, <1>5, AllocTidy
<1> HIDE DEF t
<1>7. Numbered(t, made \cup ps)
  BY <1>2, <1>3 DEF At, Numbered
<1>8. "rec" \in Pointers /\ "rec" \notin ps
  BY DEF Pointers
<1>9. t.ptr["rec"] # NULL /\ t.ptr["rec"][1] = "rec"
  BY <1>2, <1>8 DEF At
<1>10. \A p \in Pointers : t.ptr[p] # NULL => p \in made \cup ps \cup {"bios"}
  BY <1>2 DEF At
<1> QED
  BY <1>6, <1>7, <1>9, <1>10 DEF At, t

LEMMA LeakAt ==
  ASSUME NEW s, NEW held, NEW made, NEW kinds \in SUBSET Leaky, At(s, held, made),
         tries \in Nat
  PROVE  At(Leak(s, kinds), held, made) /\ Leak(s, kinds).ptr = s.ptr
<1> DEFINE t == Leak(s, kinds)
<1>1. Tidy(s, held) /\ s \in Mem
  BY DEF At, Tidy
<1>2. t.ptr = s.ptr /\ t.heap = s.heap \cup {Block(k) : k \in kinds}
  BY <1>1, LeakIs
<1>3. \A k \in kinds : Block(k)[1] = k /\ Block(k)[2] = tries
  BY DEF Block
<1>4. Tidy(t, held)
  BY <1>1, LeakTidy
<1> HIDE DEF t
<1>5. Numbered(t, made)
  BY <1>2, <1>3 DEF At, Numbered
<1> QED
  BY <1>2, <1>4, <1>5 DEF At, t

(* The image is taken over from the RHDRec, or read.                       *)
LEMMA TakeImageAt ==
  ASSUME NEW s, NEW held, At(s, held, {"rec"}), tries \in Nat
  PROVE  /\ At(TakeImage(s), held, {"rec", "image"})
         /\ \A p \in Pointers \ {"bios", "image"} : TakeImage(s).ptr[p] = s.ptr[p]
<1> DEFINE u == [s EXCEPT !.ptr["image"] = s.ptr["bios"]]
           t == Forget(u, {"bios"})
<1>1. Tidy(s, held) /\ s \in Mem
  BY DEF At, Tidy
<1>2. {"image"} \in SUBSET Pointers /\ "bios" \in Pointers /\ "image" \in Pointers /\ "rec" \in Pointers
  BY DEF Pointers
<1>3. CASE s.ptr["bios"] = NULL
  <2>1. TakeImage(s) = AllocAll(s, {"image"})
    BY <1>3 DEF TakeImage, Alloc
  <2>2. At(AllocAll(s, {"image"}), held, {"rec"} \cup {"image"})
    BY <1>2, AllocAt
  <2>3. {"rec"} \cup {"image"} = {"rec", "image"}
    OBVIOUS
  <2> QED
    BY <1>1, <1>2, <2>1, <2>2, <2>3, AllocAllIs
<1>4. CASE s.ptr["bios"] # NULL
  <2>1. TakeImage(s) = t
    BY <1>4 DEF TakeImage
  <2>2. /\ u \in Mem /\ u.heap = s.heap /\ u.bad = s.bad
        /\ \A p \in Pointers : u.ptr[p] = IF p = "image" THEN s.ptr["bios"] ELSE s.ptr[p]
    BY <1>1, <1>2 DEF Mem
  <2> HIDE DEF u
  <2>3. /\ t \in Mem /\ t.heap = s.heap /\ t.bad = s.bad
        /\ \A p \in Pointers : t.ptr[p] = IF p = "bios" THEN NULL
                                          ELSE IF p = "image" THEN s.ptr["bios"] ELSE s.ptr[p]
    BY <1>2, <2>2, ForgetIs
  <2> HIDE DEF t
  <2>4. s.ptr["image"] = NULL
    BY <1>2 DEF At
  <2>5. \A b \in t.heap : b[1] \in Leaky \/ b = held \/ \E p \in Pointers : t.ptr[p] = b
    <3> TAKE b \in t.heap
    <3>1. CASE s.ptr["bios"] = b
      BY <1>2, <2>3, <3>1
    <3>2. CASE s.ptr["bios"] # b
      <4>1. ASSUME NEW p \in Pointers, s.ptr[p] = b
            PROVE  t.ptr[p] = b
        BY <2>3, <2>4, <3>2, <4>1, <1>1 DEF Tidy
      <4> QED
        BY <1>1, <2>3, <4>1 DEF Tidy
    <3> QED
      BY <3>1, <3>2
  <2>6. \A p, q \in Pointers : t.ptr[p] # NULL /\ p # q => t.ptr[p] # t.ptr[q]
    BY <1>1, <1>2, <2>3, <2>4 DEF Tidy
  <2>7. \A p \in Pointers : t.ptr[p] # NULL => t.ptr[p] \in t.heap
    BY <1>1, <1>2, <2>3 DEF Tidy
  <2>8. held # NULL => held \in t.heap /\ \A p \in Pointers : t.ptr[p] # held
    BY <1>1, <1>2, <2>3 DEF Tidy
  <2>9. Tidy(t, held)
    BY <1>1, <2>3, <2>5, <2>6, <2>7, <2>8 DEF Tidy
  <2>10. Numbered(t, {"rec", "image"})
    BY <2>3 DEF At, Numbered
  <2> QED
    BY <1>2, <2>1, <2>3, <2>9, <2>10 DEF At
<1> QED
  BY <1>3, <1>4

(* What a failing attempt leaves is in order, and so is what a step passes *)
(* on to the next.                                                         *)
LEMMA FailedInv ==
  ASSUME IInv, pc \in Stages, NEW s, Tidy(s, map'), OnlyRec(s), Hangs(s),
         \A b \in s.heap : b[2] <= tries, Return(s, "failed")
  PROVE  IInv'
<1>1. /\ ptr' = s.ptr /\ heap' = s.heap /\ bad' = s.bad /\ pc' = "idle"
      /\ nub' = [nub EXCEPT ![by] = "failed"] /\ tries' = tries /\ known' = known
  BY DEF Return, Becomes, card
<1>2. s = m'
  BY <1>1 DEF m, Tidy, Mem
<1>3. TypeOK'
  BY <1>1 DEF IInv, TypeOK, Stages
<1>4. InOrder'
  BY <1>1, <1>2 DEF InOrder, Tidy, Mem
<1>5. Between'
  BY <1>1, <1>2 DEF Between, OnlyRec, Pointers
<1>6. InAttempt' /\ AtEnd'
  BY <1>1 DEF InAttempt, AtEnd, Stages
<1> QED
  BY <1>3, <1>4, <1>5, <1>6 DEF IInv

LEMMA GoOnInv ==
  ASSUME IInv, pc \in Stages, known, NEW next \in Stages \ {"rec"}, NEW s,
         At(s, map', Made[next]), Hangs(s), next = "bios" => s.ptr["bios"] = NULL,
         GoOn(next, s)
  PROVE  IInv'
<1>1. /\ ptr' = s.ptr /\ heap' = s.heap /\ bad' = s.bad /\ pc' = next
      /\ tries' = tries /\ known' = known /\ UNCHANGED <<ready, nub, by>>
  BY DEF GoOn, Becomes, card
<1>2. s = m'
  BY <1>1 DEF m, At, Tidy, Mem
<1>3. TypeOK'
  BY <1>1 DEF IInv, TypeOK, Stages
<1>4. InOrder'
  BY <1>1, <1>2 DEF InOrder, At, Numbered
<1>5. InAttempt'
  BY <1>1, <1>2 DEF InAttempt, At, Numbered
<1>6. Between' /\ AtEnd'
  BY <1>1 DEF Between, AtEnd, Stages
<1> QED
  BY <1>3, <1>4, <1>5, <1>6 DEF IInv

LEMMA FailInv ==
  ASSUME IInv, pc \in Stages, NEW s, NEW made, At(s, map', made), Hangs(s),
         Return(FreeRec(s), "failed")
  PROVE  IInv'
<1>1. Tidy(s, map') /\ \A b \in s.heap : b[2] <= tries
  BY DEF At, Numbered
<1>2. /\ Tidy(FreeRec(s), map') /\ FreeRec(s).heap \subseteq s.heap
      /\ \A p \in Pointers : FreeRec(s).ptr[p] = NULL
  BY <1>1, FreeRecTidy
<1>3. OnlyRec(FreeRec(s)) /\ Hangs(FreeRec(s))
  BY <1>2 DEF OnlyRec, Hangs, Pointers
<1> QED
  BY <1>1, <1>2, <1>3, FailedInv

-----------------------------------------------------------------------------
(* The memory at the beginning of a step.                                  *)
LEMMA mIs == m.ptr = ptr /\ m.heap = heap /\ m.bad = bad
  BY DEF m

(* A step that touches no memory.                                          *)
LEMMA QuietInv ==
  ASSUME IInv, UNCHANGED <<known, map, ptr, heap, bad, ready, by, pc, tries>>,
         \/ UNCHANGED nub
         \/ \E n \in Nubs, x \in {"tested", "up", "failed"} :
              nub[n] = "new" /\ nub' = [nub EXCEPT ![n] = x]
  PROVE  IInv'
<1>1. m' = m
  BY DEF m
<1>2. TypeOK'
  BY DEF IInv, TypeOK
<1>3. InOrder'
  BY <1>1 DEF IInv, InOrder, Tidy, Hangs
<1>4. InAttempt'
  BY <1>1 DEF IInv, InAttempt, OnlyRec, Numbered, At, Tidy
<1>5. Between'
  <2>1. \A n \in Nubs : nub[n] = "up" => nub'[n] = "up"
    BY DEF IInv, TypeOK
  <2> QED
    BY <1>1, <2>1 DEF IInv, Between, OnlyRec
<1>6. AtEnd'
  <2>1. Orphans' = Orphans
    BY DEF IInv, TypeOK, Orphans
  <2>2. \A b : Lost(b)' <=> Lost(b)
    BY <2>1 DEF Lost
  <2>3. \A b : Holders(b)' = Holders(b)
    BY DEF Holders
  <2> QED
    BY <2>1, <2>2, <2>3 DEF IInv, AtEnd
<1> QED
  BY <1>2, <1>3, <1>4, <1>5, <1>6 DEF IInv

LEMMA NoAttemptInv ==
  ASSUME IInv, NEW n \in Nubs, TestReady(n) \/ OtherNub(n) \/ LateNub(n) PROVE IInv'
<1>1. /\ nub[n] = "new" /\ UNCHANGED <<known, map, ptr, heap, bad, ready, by, pc, tries>>
      /\ \/ UNCHANGED nub
         \/ \E x \in {"tested", "up", "failed"} : nub' = [nub EXCEPT ![n] = x]
  BY DEF TestReady, OtherNub, LateNub, card
<1> QED
  BY <1>1, QuietInv

LEMMA FirstNubInv == ASSUME IInv, NEW n \in Nubs, FirstNub(n) PROVE IInv'
<1> DEFINE may == pc = "idle" /\ (ready => ptr["rec"] = NULL)
<1>1. CASE ~may
  BY <1>1, QuietInv DEF FirstNub, card
<1>2. CASE may
  <2>1. /\ ready' /\ pc' = "rec" /\ by' = n /\ tries' = tries + 1
        /\ nub' = [nub EXCEPT ![n] = "init"]
        /\ known' = known /\ map' = map /\ ptr' = ptr /\ heap' = heap /\ bad' = bad
    BY <1>2 DEF FirstNub, card
  <2>2. m' = m
    BY <2>1 DEF m
  <2>3. tries \in Nat
    BY DEF IInv, TypeOK
  <2>4. TypeOK'
    BY <2>1, <2>3 DEF IInv, TypeOK, Stages
  <2>5. Tidy(m, map) /\ Hangs(m) /\ \A b \in heap : b[2] <= tries
    BY <1>2 DEF IInv, InOrder
  <2>6. \A b \in heap : b[2] \in Nat
    BY <2>5, mIs DEF Tidy, Mem, Blocks
  <2>7. \A b \in heap : b[2] <= tries + 1 /\ b[2] # tries + 1
    BY <2>3, <2>5, <2>6
  <2>8. OnlyRec(m)
    <3>1. CASE ready
      BY <1>2, <2>5, <3>1, mIs DEF Hangs, OnlyRec, Pointers
    <3>2. CASE ~ready
      BY <1>2, <3>2 DEF IInv, Between
    <3> QED
      BY <3>1, <3>2
  <2>9. InOrder'
    <3>1. Tidy(m, map)' /\ Hangs(m)'
      BY <2>1, <2>2, <2>5 DEF Tidy, Hangs
    <3> QED
      BY <2>1, <2>7, <3>1 DEF InOrder
  <2>10. InAttempt'
    <3>1. OnlyRec(m)'
      BY <2>1, <2>2, <2>8 DEF OnlyRec
    <3>2. Numbered(m, {})'
      BY <2>1, <2>2, <2>7, mIs DEF Numbered
    <3> QED
      BY <2>1, <3>1, <3>2 DEF InAttempt
  <2>11. Between' /\ AtEnd'
    BY <2>1 DEF Between, AtEnd
  <2> QED
    BY <2>4, <2>9, <2>10, <2>11 DEF IInv
<1> QED
  BY <1>1, <1>2

LEMMA NubFreeInv == ASSUME IInv, NEW n \in Nubs, NubFree(n) PROVE IInv'
<1> DEFINE s == FreeRec(m)
<1>1. /\ pc = "idle" /\ pc' = "idle" /\ nub' = [nub EXCEPT ![n] = "gone"]
      /\ ptr' = s.ptr /\ heap' = s.heap /\ bad' = s.bad
      /\ UNCHANGED <<known, map, tries>>
  BY DEF NubFree, Becomes, card
<1>2. Tidy(m, map) /\ Hangs(m) /\ \A b \in heap : b[2] <= tries
  BY <1>1 DEF IInv, InOrder
<1>3. Tidy(s, map) /\ s.heap \subseteq heap /\ \A p \in Pointers : s.ptr[p] = NULL
  BY <1>2, FreeRecTidy, mIs
<1> HIDE DEF s
<1>4. m' = s
  BY <1>1, <1>3 DEF m, Tidy, Mem
<1>5. TypeOK'
  BY <1>1 DEF IInv, TypeOK, Stages
<1>6. InOrder'
  <2>1. Tidy(m, map)' /\ Hangs(m)'
    BY <1>1, <1>3, <1>4 DEF Tidy, Hangs, Pointers
  <2> QED
    BY <1>1, <1>2, <1>3, <2>1 DEF InOrder
<1>7. Between'
  BY <1>1, <1>3, <1>4 DEF Between, OnlyRec, Pointers
<1>8. InAttempt' /\ AtEnd'
  BY <1>1 DEF InAttempt, AtEnd, Stages
<1> QED
  BY <1>5, <1>6, <1>7, <1>8 DEF IInv

LEMMA ControllerFreeInv == ASSUME IInv, ControllerFree PROVE IInv'
<1>1. CASE pc # "idle"
  BY <1>1, QuietInv DEF ControllerFree, card
<1>2. CASE pc = "idle"
  <2>1. /\ pc' = "ended" /\ map' = NULL /\ heap' = heap \ {map}
        /\ nub' = [n \in Nubs |-> IF nub[n] = "up" THEN "orphan" ELSE nub[n]]
        /\ bad' = bad \cup ({map} \ (heap \cup {NULL}))
        /\ ptr' = [ptr EXCEPT !["rec"] = NULL] /\ UNCHANGED <<known, tries>>
    BY <1>2 DEF ControllerFree, card
  <2>2. Tidy(m, map) /\ Hangs(m)
    BY <1>2 DEF IInv, InOrder
  <2>3. "rec" \in Pointers /\ "map" \notin Pointers
    BY DEF Pointers
  <2>4. bad' = {}
    BY <2>1, <2>2, mIs DEF Tidy
  <2>5. \A p \in Pointers : ptr'[p] = IF p = "rec" THEN NULL ELSE ptr[p]
    BY <2>1, <2>2, mIs DEF Tidy, Mem
  <2>6. \A p \in Pointers : ptr'[p] \in heap' \cup {NULL}
    BY <2>1, <2>2, <2>5, mIs DEF Tidy
  <2>7. Orphans' = {} => OnlyRec(m)
    <3>1. CASE ~known \/ ~ready
      BY <1>2, <3>1, mIs DEF IInv, Between
    <3>2. CASE known /\ ptr["rec"] # NULL
      <4>1. PICK n \in Nubs : nub[n] = "up"
        BY <1>2, <3>2 DEF IInv, Between
      <4>2. n \in Orphans'
        BY <2>1, <4>1 DEF Orphans
      <4> QED
        BY <4>2
    <3>3. CASE ptr["rec"] = NULL
      BY <2>2, <3>3, mIs DEF Hangs, OnlyRec, Pointers
    <3> QED
      BY <3>1, <3>2, <3>3
  <2>8. Orphans' = {} => \A p \in Pointers : ptr'[p] = NULL
    BY <2>5, <2>7, mIs DEF OnlyRec
  <2>9. ASSUME NEW b \in heap'
        PROVE  b[1] \in Leaky \/ Lost(b)' \/ \E p \in Pointers : Holders(b)' = {p}
    <3>1. b \in heap /\ b # map /\ b # NULL
      BY <2>1, <2>2, <2>9, mIs DEF Tidy
    <3>2. b[1] \in Leaky \/ \E p \in Pointers : ptr[p] = b
      BY <2>2, <3>1, mIs DEF Tidy
    <3>3. ASSUME NEW p \in Pointers, ptr[p] = b, p = "rec" PROVE Lost(b)'
      <4>1. b[1] = "rec"
        BY <1>2, <3>1, <3>3 DEF IInv, Between
      <4>2. Orphans' = {} => ~known
        BY <2>7, <3>1, <3>3, mIs DEF OnlyRec
      <4> QED
        BY <2>1, <4>1, <4>2 DEF Lost
    <3>4. ASSUME NEW p \in Pointers, ptr[p] = b, p # "rec" PROVE Holders(b)' = {p}
      <4>1. \A q \in Pointers : ptr'[q] = b <=> q = p
        BY <2>2, <2>5, <3>1, <3>4, mIs DEF Tidy
      <4>2. map' # b
        BY <2>1, <3>1
      <4> QED
        BY <4>1, <4>2 DEF Holders
    <3> QED
      BY <3>2, <3>3, <3>4
  <2>10. TypeOK'
    BY <2>1 DEF IInv, TypeOK, Stages
  <2>11. AtEnd'
    BY <2>1, <2>3, <2>4, <2>5, <2>6, <2>8, <2>9 DEF AtEnd
  <2>12. InOrder' /\ InAttempt' /\ Between'
    BY <2>1 DEF InOrder, InAttempt, Between, Stages
  <2> QED
    BY <2>10, <2>11, <2>12 DEF IInv
<1> QED
  BY <1>1, <1>2

(* The attempt, step by step.                                              *)
LEMMA InStage ==
  ASSUME IInv, pc \in Stages \ {"rec"}
  PROVE  /\ known /\ At(m, map, Made[pc]) /\ Hangs(m) /\ tries \in Nat
         /\ pc = "bios" => m.ptr["bios"] = NULL
  BY mIs DEF IInv, InAttempt, InOrder, TypeOK, Stages

LEMMA GetRecInv == ASSUME IInv, GetRec PROVE IInv'
<1> DEFINE s == IF ptr["rec"] = NULL THEN Alloc(m, "rec") ELSE m
<1>1. /\ pc = "rec" /\ map' = map
      /\ IF known THEN GoOn("bios", s) ELSE Return(s, "failed")
  BY DEF GetRec
<1>2. /\ Tidy(m, map) /\ OnlyRec(m) /\ Numbered(m, {}) /\ tries \in Nat /\ m \in Mem
  BY <1>1 DEF IInv, InOrder, InAttempt, TypeOK, Tidy
<1>3. "rec" \in Pointers /\ "rec" \notin Leaky /\ {"rec"} \in SUBSET Pointers
  BY DEF Pointers, Leaky
<1>4. Block("rec")[1] = "rec" /\ Block("rec")[2] = tries /\ Block("rec") # NULL
  BY DEF Block, NULL
<1>5. /\ Tidy(s, map)
      /\ \A p \in Pointers : s.ptr[p] # NULL => p = "rec"
      /\ s.ptr["rec"] # NULL /\ s.ptr["rec"][1] = "rec"
      /\ Numbered(s, {"rec"})
  <2>1. CASE ptr["rec"] = NULL
    <3>1. Block("rec") \notin m.heap
      BY <1>2, <1>3, <1>4 DEF Numbered
    <3>2. s = AllocAll(m, {"rec"})
      BY <2>1 DEF Alloc
    <3>3. /\ Tidy(s, map) /\ s.heap = m.heap \cup {Block("rec")}
          /\ \A p \in Pointers : s.ptr[p] = IF p = "rec" THEN Block("rec") ELSE m.ptr[p]
      <4>1. Tidy(AllocAll(m, {"rec"}), map)
        BY <1>2, <1>3, <2>1, <3>1, mIs, AllocTidy
      <4> QED
        BY <1>2, <1>3, <3>2, <4>1, AllocAllIs
    <3> HIDE DEF s
    <3> QED
      BY <1>2, <1>3, <1>4, <3>3 DEF OnlyRec, Numbered
  <2>2. CASE ptr["rec"] # NULL
    BY <1>2, <2>2, mIs DEF OnlyRec, Numbered
  <2> QED
    BY <2>1, <2>2
<1> HIDE DEF s
<1>6. Hangs(s)
  BY <1>5 DEF Hangs, Pointers
<1>7. CASE known
  <2>1. At(s, map', Made["bios"])
    BY <1>1, <1>5, MadeIs DEF At
  <2>2. s.ptr["bios"] = NULL
    BY <1>5 DEF Pointers
  <2> QED
    BY <1>1, <1>6, <1>7, <2>1, <2>2, GoOnInv DEF Stages
<1>8. CASE ~known
  <2>1. OnlyRec(s) /\ \A b \in s.heap : b[2] <= tries
    BY <1>5, <1>8 DEF OnlyRec, Numbered
  <2> QED
    BY <1>1, <1>5, <1>6, <1>8, <2>1, FailedInv DEF Stages
<1> QED
  BY <1>7, <1>8

LEMMA TakeBIOSCopyInv == ASSUME IInv, TakeBIOSCopy PROVE IInv'
<1> DEFINE s == [m EXCEPT !.ptr["bios"] = map]
<1>1. pc = "bios" /\ map' = NULL /\ GoOn("atom", s)
  BY DEF TakeBIOSCopy
<1>2. /\ known /\ At(m, map, {"rec"}) /\ Hangs(m) /\ m.ptr["bios"] = NULL
  BY <1>1, InStage, MadeIs DEF Stages
<1>3. Tidy(m, map) /\ m \in Mem /\ map \in Blocks
  <2>1. Tidy(m, map) /\ m \in Mem
    BY <1>2 DEF At, Tidy
  <2> QED
    BY <2>1, NULLIs DEF Tidy, Mem
<1>4. "bios" \in Pointers /\ "rec" \in Pointers
  BY DEF Pointers
<1>5. /\ s \in Mem /\ s.heap = m.heap /\ s.bad = m.bad
      /\ \A p \in Pointers : s.ptr[p] = IF p = "bios" THEN map ELSE m.ptr[p]
  BY <1>3, <1>4 DEF Mem
<1> HIDE DEF s
<1>6. \A p \in Pointers : s.ptr[p] # NULL => s.ptr[p] \in s.heap
  BY <1>3, <1>5 DEF Tidy
<1>7. \A p, q \in Pointers : s.ptr[p] # NULL /\ p # q => s.ptr[p] # s.ptr[q]
  BY <1>3, <1>5 DEF Tidy
<1>8. \A b \in s.heap : b[1] \in Leaky \/ \E p \in Pointers : s.ptr[p] = b
  <2> TAKE b \in s.heap
  <2>1. CASE b = map
    BY <1>4, <1>5, <2>1
  <2>2. CASE b # map
    <3>1. ASSUME NEW p \in Pointers, m.ptr[p] = b PROVE s.ptr[p] = b
      BY <1>2, <1>3, <1>5, <2>2, <3>1 DEF Tidy
    <3> QED
      BY <1>3, <1>5, <2>2, <3>1 DEF Tidy
  <2> QED
    BY <2>1, <2>2
<1>9. Tidy(s, map')
  BY <1>1, <1>3, <1>5, <1>6, <1>7, <1>8 DEF Tidy
<1>10. At(s, map', Made["atom"])
  BY <1>2, <1>4, <1>5, <1>9, MadeIs DEF At, Numbered
<1>11. Hangs(s)
  BY <1>2, <1>5, <1>10 DEF Hangs, Pointers, At
<1> QED
  BY <1>1, <1>2, <1>10, <1>11, GoOnInv DEF Stages

LEMMA NoAtomInv ==
  ASSUME IInv, pc = "atom", map' = map, NEW s, At(s, map, Made["ram"]), Hangs(s), NoAtom(s)
  PROVE  IInv'
<1>1. known
  BY InStage DEF Stages
<1>2. Return(FreeRec(s), "failed") \/ GoOn("ram", s)
  BY DEF NoAtom
<1> QED
  BY <1>1, <1>2, FailInv, GoOnInv DEF Stages

LEMMA AtomInitInv == ASSUME IInv, AtomInit PROVE IInv'
<1>1. pc = "atom" /\ map' = map
  BY DEF AtomInit
<1>2. known /\ At(m, map, {"rec"}) /\ Hangs(m) /\ tries \in Nat
  BY <1>1, InStage, MadeIs DEF Stages
<1> DEFINE t == TakeImage(m)
<1>3. /\ At(t, map, {"rec", "image"})
      /\ \A p \in Pointers \ {"bios", "image"} : t.ptr[p] = m.ptr[p]
  BY <1>2, TakeImageAt
<1> HIDE DEF t
<1>4. t \in Mem /\ Tidy(t, map) /\ t.ptr["cursors"] = NULL /\ t.ptr["scratch"] = NULL
  BY <1>3 DEF At, Tidy, Pointers
<1>5. CASE GoOn("ram", Alloc(t, "atom"))
  <2> DEFINE u == AllocAll(t, {"atom"})
  <2>1. "atom" \in Pointers /\ {"atom"} \in SUBSET Pointers
    BY DEF Pointers
  <2>2. At(u, map, {"rec", "image"} \cup {"atom"})
    BY <1>2, <1>3, <2>1, AllocAt
  <2>3. At(u, map', Made["ram"])
    BY <1>1, <2>2, MadeIs, AtGrows
  <2>4. \A p \in Pointers : u.ptr[p] = IF p \in {"atom"} THEN Block(p) ELSE t.ptr[p]
    BY <1>2, <1>4, <2>1, AllocAllIs
  <2>5. Alloc(t, "atom") = u
    BY DEF Alloc
  <2> HIDE DEF u
  <2>6. Block("atom") # NULL
    BY DEF Block, NULL
  <2>7. Hangs(u)
    BY <1>4, <2>3, <2>4, <2>6 DEF Hangs, At, Pointers
  <2> QED
    BY <1>1, <1>2, <1>5, <2>3, <2>5, <2>7, GoOnInv DEF Stages
<1>6. CASE NoAtom(m)
  <2>1. At(m, map, Made["ram"])
    BY <1>2, MadeIs, AtGrows
  <2> QED
    BY <1>1, <1>2, <1>6, <2>1, NoAtomInv
<1>7. CASE NoAtom(Free(t, "image"))
  <2> DEFINE u == FreeEach(t, {"image"})
  <2>1. {"image"} \in SUBSET Pointers
    BY DEF Pointers
  <2>2. Tidy(u, map) /\ FreeLeaves(t, u, {"image"})
    BY <1>4, <2>1, FreeEachLeaves
  <2>3. Free(t, "image") = u
    BY DEF Free
  <2> HIDE DEF u
  <2>4. At(u, map, Made["ram"])
    BY <1>3, <2>2, MadeIs DEF At, Numbered, FreeLeaves, Pointers
  <2>5. Hangs(u)
    BY <1>4, <2>2, <2>4 DEF Hangs, At, FreeLeaves, Pointers
  <2> QED
    BY <1>1, <1>7, <2>3, <2>4, <2>5, NoAtomInv
<1> QED
  BY <1>5, <1>6, <1>7 DEF AtomInit, t

(* Blocks of pointers not yet set, and such as leak.                       *)
LEMMA MoreAt ==
  ASSUME NEW made, At(m, map, made), Hangs(m), tries \in Nat, "rec" \in made,
         NEW ps \in SUBSET Pointers, ps \cap (made \cup {"bios", "image", "atom"}) = {},
         "scratch" \in ps => m.ptr["atom"] # NULL,
         "cursors" \in ps => "crtcs" \in ps,
         NEW kinds \in SUBSET Leaky
  PROVE  /\ At(Leak(AllocAll(m, ps), kinds), map, made \cup ps)
         /\ Hangs(Leak(AllocAll(m, ps), kinds))
<1> DEFINE t == AllocAll(m, ps)
           u == Leak(t, kinds)
<1>1. At(t, map, made \cup ps)
  BY AllocAt
<1>2. \A p \in Pointers : t.ptr[p] = IF p \in ps THEN Block(p) ELSE m.ptr[p]
  BY AllocAllIs DEF At, Tidy
<1> HIDE DEF t
<1>3. At(u, map, made \cup ps) /\ u.ptr = t.ptr
  BY <1>1, LeakAt
<1> HIDE DEF u
<1>4. \A p \in ps : Block(p) # NULL
  BY DEF Block, NULL, Pointers
<1>5. Hangs(u)
  <2>1. u.ptr["rec"] # NULL
    BY <1>3 DEF At
  <2>2. u.ptr["cursors"] # NULL => u.ptr["crtcs"] # NULL
    BY <1>2, <1>3, <1>4 DEF Hangs, Pointers
  <2>3. u.ptr["image"] # NULL \/ u.ptr["scratch"] # NULL => u.ptr["atom"] # NULL
    BY <1>2, <1>3, <1>4 DEF Hangs, Pointers
  <2> QED
    BY <2>1, <2>2, <2>3 DEF Hangs
<1> QED
  BY <1>3, <1>5 DEF u, t

LEMMA LeakNone ==
  ASSUME NEW s \in Mem PROVE Leak(s, {}) = s
  BY DEF Leak, Mem

LEMMA VideoRamInv == ASSUME IInv, VideoRam PROVE IInv'
<1>1. pc = "ram" /\ map' = map
  BY DEF VideoRam
<1>2. known /\ At(m, map, Made["ram"]) /\ Hangs(m) /\ tries \in Nat
  BY <1>1, InStage DEF Stages
<1>3. CASE Fail
  BY <1>1, <1>2, <1>3, FailInv DEF Fail, Stages
<1>4. CASE GoOn("i2c", m)
  <2>1. At(m, map', Made["i2c"])
    BY <1>1, <1>2, MadeIs, AtGrows
  <2> QED
    BY <1>1, <1>2, <1>4, <2>1, GoOnInv DEF Stages
<1>5. CASE ptr["atom"] # NULL /\ GoOn("i2c", Alloc(m, "scratch"))
  <2>1. m.ptr["atom"] # NULL
    BY <1>5, mIs
  <2> DEFINE t == AllocAll(m, {"scratch"})
  <2>2. t \in Mem
    BY <1>2, AllocAllIs DEF At, Tidy, Pointers
  <2>3. /\ At(Leak(t, {}), map, Made["ram"] \cup {"scratch"}) /\ Hangs(Leak(t, {}))
    BY <1>2, <2>1, MadeIs, MoreAt DEF Pointers
  <2>4. Alloc(m, "scratch") = t
    BY DEF Alloc
  <2> HIDE DEF t
  <2>5. At(t, map', Made["i2c"]) /\ Hangs(t)
    BY <1>1, <2>2, <2>3, LeakNone, MadeIs
  <2> QED
    BY <1>1, <1>2, <1>5, <2>4, <2>5, GoOnInv DEF Stages
<1> QED
  BY <1>3, <1>4, <1>5 DEF VideoRam

LEMMA I2CInitInv == ASSUME IInv, I2CInit PROVE IInv'
<1>1. pc = "i2c" /\ map' = map
  BY DEF I2CInit
<1>2. known /\ At(m, map, Made["i2c"]) /\ Hangs(m) /\ tries \in Nat
  BY <1>1, InStage DEF Stages
<1>3. CASE Fail
  BY <1>1, <1>2, <1>3, FailInv DEF Fail, Stages
<1>4. ASSUME NEW lost \in {{}, {"lines"}}, GoOn("structures", Leak(Alloc(m, "i2c"), lost))
      PROVE  IInv'
  <2> DEFINE t == Leak(AllocAll(m, {"i2c"}), lost)
  <2>1. lost \in SUBSET Leaky
    BY DEF Leaky
  <2>2. At(t, map, Made["i2c"] \cup {"i2c"}) /\ Hangs(t)
    BY <1>2, <2>1, MadeIs, MoreAt DEF Pointers
  <2>3. Leak(Alloc(m, "i2c"), lost) = t
    BY DEF Alloc
  <2> HIDE DEF t
  <2> QED
    BY <1>1, <1>2, <1>4, <2>2, <2>3, MadeIs, GoOnInv, ZenonT(60) DEF Stages
<1> QED
  BY <1>3, <1>4 DEF I2CInit

LEMMA StructuresInv == ASSUME IInv, Structures PROVE IInv'
<1>1. pc = "structures" /\ map' = map
  BY DEF Structures
<1>2. known /\ At(m, map, Made["structures"]) /\ Hangs(m) /\ tries \in Nat
  BY <1>1, InStage DEF Stages
<1>3. PICK vga \in {{}, {"vga"}}, cursor \in Cursor, pm \in {{}, {"pm"}} :
        GoOn("connectors",
             Leak(AllocAll(m, vga \cup cursor \cup {"mc", "crtcs", "plls", "luts"}), pm))
  BY DEF Structures
<1> DEFINE ps == vga \cup cursor \cup {"mc", "crtcs", "plls", "luts"}
           t  == Leak(AllocAll(m, ps), pm)
<1>4. /\ ps \subseteq {"mc", "vga", "crtcs", "plls", "luts", "cursors", "curinfo",
                       "curimage", "temp"}
      /\ "crtcs" \in ps
  BY DEF Cursor
<1>5. pm \in SUBSET Leaky
  BY DEF Leaky
<1> HIDE DEF ps
<1>6. ps \in SUBSET Pointers /\ "rec" \in Made["structures"] /\ "scratch" \notin ps
      /\ ps \cap (Made["structures"] \cup {"bios", "image", "atom"}) = {}
  BY <1>4, MadeIs DEF Pointers
<1>7. At(t, map, Made["structures"] \cup ps) /\ Hangs(t)
  BY <1>2, <1>4, <1>5, <1>6, MoreAt
<1> HIDE DEF t
<1>8. At(t, map', Made["connectors"])
  BY <1>1, <1>4, <1>7, MadeIs, AtGrows
<1> QED
  BY <1>1, <1>2, <1>3, <1>7, <1>8, GoOnInv DEF Stages, ps, t

LEMMA ConnectorsInitInv == ASSUME IInv, ConnectorsInit PROVE IInv'
<1>1. pc = "connectors" /\ map' = map
  BY DEF ConnectorsInit
<1>2. known /\ At(m, map, Made["connectors"]) /\ Hangs(m) /\ tries \in Nat
  BY <1>1, InStage DEF Stages
<1>3. ASSUME NEW ps \in SUBSET {"privates", "connectors", "outputs"}
      PROVE  /\ At(Leak(AllocAll(m, ps), {"hpd"}), map', Made["select"])
             /\ Hangs(Leak(AllocAll(m, ps), {"hpd"}))
  <2> DEFINE t == Leak(AllocAll(m, ps), {"hpd"})
  <2>1. /\ ps \in SUBSET Pointers /\ "rec" \in Made["connectors"]
        /\ ps \cap (Made["connectors"] \cup {"bios", "image", "atom"}) = {}
        /\ "scratch" \notin ps /\ "cursors" \notin ps /\ {"hpd"} \in SUBSET Leaky
    BY <1>3, MadeIs DEF Pointers, Leaky
  <2>2. At(t, map, Made["connectors"] \cup ps) /\ Hangs(t)
    BY <1>2, <2>1, MoreAt
  <2> HIDE DEF t
  <2>3. At(t, map', Made["select"])
    BY <1>1, <2>1, <2>2, MadeIs, AtGrows
  <2> QED
    BY <2>2, <2>3 DEF t
<1>4. CASE Fail
  BY <1>1, <1>2, <1>4, FailInv DEF Fail, Stages
<1>5. ASSUME NEW made \in {{}, {"connectors", "outputs"}},
             Return(FreeRec(Leak(AllocAll(m, made), {"hpd"})), "failed")
      PROVE  IInv'
  BY <1>1, <1>3, <1>5, FailInv DEF Stages
<1>6. ASSUME NEW priv \in {{}, {"privates"}},
             GoOn("select", Leak(AllocAll(m, priv \cup {"connectors", "outputs"}), {"hpd"}))
      PROVE  IInv'
  BY <1>1, <1>2, <1>3, <1>6, GoOnInv DEF Stages
<1> QED
  BY <1>4, <1>5, <1>6 DEF ConnectorsInit

LEMMA SelectLayoutInv == ASSUME IInv, SelectLayout PROVE IInv'
<1>1. pc = "select" /\ map' = map
  BY DEF SelectLayout
<1>2. known /\ At(m, map, Made["select"]) /\ Hangs(m)
  BY <1>1, InStage DEF Stages
<1>3. CASE Fail
  BY <1>1, <1>2, <1>3, FailInv DEF Fail, Stages
<1>4. CASE Return(m, "up")
  <2>1. /\ ptr' = ptr /\ heap' = heap /\ bad' = bad /\ pc' = "idle" /\ ready'
        /\ nub' = [nub EXCEPT ![by] = "up"] /\ tries' = tries /\ known' = known
    BY <1>4, mIs DEF Return, Becomes, card
  <2>2. m' = m
    BY <2>1 DEF m
  <2>3. by \in Nubs
    BY <1>1 DEF IInv, TypeOK, Stages
  <2>4. TypeOK'
    BY <2>1, <2>3 DEF IInv, TypeOK, Stages
  <2>5. InOrder'
    <3>1. Tidy(m, map) /\ \A b \in heap : b[2] <= tries
      BY <1>2, mIs DEF At, Numbered
    <3>2. Tidy(m, map)' /\ Hangs(m)'
      BY <1>1, <1>2, <2>1, <2>2, <3>1 DEF Tidy, Hangs
    <3> QED
      BY <2>1, <3>1, <3>2 DEF InOrder
  <2>6. Between'
    <3>1. nub'[by] = "up"
      BY <2>1, <2>3 DEF IInv, TypeOK
    <3>2. ptr["rec"][1] = "rec"
      BY <1>2, mIs DEF At
    <3> QED
      BY <1>2, <2>1, <2>3, <3>1, <3>2 DEF Between
  <2>7. InAttempt' /\ AtEnd'
    BY <2>1 DEF InAttempt, AtEnd, Stages
  <2> QED
    BY <2>4, <2>5, <2>6, <2>7 DEF IInv
<1> QED
  BY <1>3, <1>4 DEF SelectLayout

LEMMA InitInv == ASSUME Init PROVE IInv
<1>1. Tidy(m, map)
  BY DEF Init, Tidy, Mem, m, Blocks, NULL, Pointers, Leaky
<1>2. TypeOK
  BY DEF Init, TypeOK, Stages
<1>3. InOrder
  BY <1>1 DEF Init, InOrder, Hangs, Pointers, m
<1>4. InAttempt /\ Between /\ AtEnd
  BY DEF Init, InAttempt, Between, AtEnd, OnlyRec, Stages, m, Pointers
<1> QED
  BY <1>2, <1>3, <1>4 DEF IInv

(* The invariant says that everything has one owner.                       *)
LEMMA InvOwned == ASSUME IInv PROVE Owned
<1>1. CASE pc = "ended"
  BY <1>1 DEF IInv, AtEnd, Owned
<1>2. CASE pc # "ended"
  <2>1. Tidy(m, map) /\ Hangs(m)
    BY <1>2 DEF IInv, InOrder
  <2>2. ASSUME NEW b \in heap
        PROVE  b[1] \in Leaky \/ \E p \in Pointers \cup {"map"} : Holders(b) = {p}
    <3>1. "map" \notin Pointers
      BY DEF Pointers
    <3>2. b # NULL
      BY <2>1, mIs DEF Tidy
    <3>3. CASE b = map
      <4>1. Holders(b) = {"map"}
        BY <2>1, <3>2, <3>3, mIs DEF Tidy, Holders
      <4> QED
        BY <4>1
    <3>4. ASSUME NEW p \in Pointers, ptr[p] = b, b # map
          PROVE  Holders(b) = {p}
      BY <2>1, <3>2, <3>4, mIs DEF Tidy, Holders
    <3> QED
      BY <2>1, <3>3, <3>4, mIs DEF Tidy
  <2>3. /\ bad = {}
        /\ \A p \in Pointers : ptr[p] \in heap \cup {NULL}
        /\ map \in heap \cup {NULL}
        /\ ptr["rec"] = NULL => \A p \in Pointers : ptr[p] = NULL
    BY <2>1, mIs DEF Tidy, Hangs
  <2> QED
    BY <2>2, <2>3 DEF Owned
<1> QED
  BY <1>1, <1>2

(* However many nubs come and go, whenever the controller goes, at         *)
(* whichever step RHDPreInit fails, and however often it is tried again:   *)
(* nothing is freed twice, each block has one owner, and nothing is left   *)
(* of what RHDFreeRec was given; only a controller that goes before a nub  *)
(* leaves the RHDRec behind.                                               *)
THEOREM OwnedAlways == Spec => []Owned
<1>1. Init => IInv
  BY InitInv
<1>2. IInv /\ [Next]_vars => IInv'
  <2> SUFFICES ASSUME IInv, [Next]_vars PROVE IInv'
    OBVIOUS
  <2>1. CASE UNCHANGED vars
    BY <2>1, QuietInv DEF vars
  <2>2. CASE Next
    BY <2>2, FirstNubInv, NoAttemptInv, NubFreeInv, GetRecInv, TakeBIOSCopyInv,
       AtomInitInv, VideoRamInv, I2CInitInv, StructuresInv, ConnectorsInitInv,
       SelectLayoutInv, ControllerFreeInv DEF Next
  <2> QED
    BY <2>1, <2>2
<1>3. IInv => Owned
  BY InvOwned
<1> QED
  BY <1>1, <1>2, <1>3, PTL DEF Spec
=============================================================================
