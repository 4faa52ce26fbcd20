----------------------------- MODULE Lifecycle -----------------------------
(***************************************************************************)
(* Who owns what while the driver comes up and goes: the controller's BIOS *)
(* image, the RHDRec both nubs use, what RHDPreInit hangs into it step by  *)
(* step, and what RHDFreeRec takes away after any of its failures and when *)
(* a nub goes (src/RadeonController.cpp, src/RadeonHD.cpp,                 *)
(* src/rhd/rhd_driver.c, rhd_atombios.c and the Destroy functions).        *)
(*                                                                         *)
(* A block of memory is <<kind, number of the attempt that allocated it>>. *)
(* Small allocations are taken to succeed; those of 20 kB and more, and    *)
(* whatever depends on the card, may fail.  The lists of modes are in      *)
(* Monitor.                                                                *)
(***************************************************************************)
EXTENDS Integers, FiniteSets

CONSTANT Nubs             \* framebuffer nubs of the card

ASSUME NubsAssumption == IsFiniteSet(Nubs)

NULL == <<"NULL", 0>>
(* Pointers of the RHDRec and of the AtomBIOS handle, tempCursorImage, and *)
(* driverPrivate itself ("rec").                                           *)
Pointers == {"rec", "bios", "atom", "image", "scratch", "i2c", "mc", "vga", "crtcs", "plls",
             "luts", "cursors", "curinfo", "curimage", "temp", "connectors", "outputs", "privates"}
(* No Destroy function knows these: rhdPtr->HPD, rhdPtr->Pm, and the I2C   *)
(* buses that follow a line that was left out.                             *)
Leaky == {"hpd", "pm", "lines"}

VARIABLES known,          \* the chip is in RHDPCIchipsets
          needsAtom,      \* RHDUseAtom for this chip
          map,            \* memoryMap.BIOSCopy of the controller
          ptr, heap, bad, \* the pointers, the live blocks, those freed twice
          ready,          \* kHardwareReady
          nub, by, pc,    \* state of each nub; who is in RHDPreInit, and where
          tries, panic
vars == <<known, needsAtom, map, ptr, heap, bad, ready, nub, by, pc, tries, panic>>
card == <<known, needsAtom>>

Block(kind) == <<kind, tries>>
m == [ptr |-> ptr, heap |-> heap, bad |-> bad]
Becomes(s) == ptr' = s.ptr /\ heap' = s.heap /\ bad' = s.bad
-----------------------------------------------------------------------------
(* Each pointer of ps gets a block of its own; kinds are allocated and     *)
(* nothing points to them.                                                 *)
AllocAll(s, ps) ==
  [s EXCEPT !.ptr = [p \in Pointers |-> IF p \in ps THEN Block(p) ELSE s.ptr[p]],
            !.heap = @ \cup {Block(p) : p \in ps}]
Alloc(s, p) == AllocAll(s, {p})
Leak(s, kinds) == [s EXCEPT !.heap = @ \cup {Block(k) : k \in kinds}]

(* What the pointers of ps point to is freed, one after the other, and     *)
(* they are NULL then, as those that are only forgotten.  bad gets what is *)
(* freed while it is not alive.                                            *)
Forget(s, ps) ==
  [s EXCEPT !.ptr = [p \in Pointers |-> IF p \in ps THEN NULL ELSE s.ptr[p]]]
FreeEach(s, ps) ==
  LET set  == {p \in ps : s.ptr[p] # NULL}
      dead == {p \in set : s.ptr[p] \notin s.heap \/ \E q \in set \ {p} : s.ptr[q] = s.ptr[p]}
  IN  [Forget(s, ps) EXCEPT !.heap = @ \ {s.ptr[p] : p \in set},
                            !.bad = @ \cup {s.ptr[p] : p \in dead}]
Free(s, p) == FreeEach(s, {p})

(* RHDFreeRec.  The cursors hang on the CRTCs, and the image, the tables   *)
(* and the scratch memory on the handle of the interpreter.                *)
OutputsDestroy(s) == FreeEach(s, {"privates", "outputs"})
CursorsDestroy(s) ==
  FreeEach(IF s.ptr["crtcs"] = NULL THEN s ELSE Free(s, "cursors"),
           {"curimage", "curinfo", "temp"})
CrtcsDestroy(s) == Forget(Free(s, "crtcs"), {"cursors"})
AtomTearDown(s) ==
  IF s.ptr["atom"] = NULL THEN s ELSE FreeEach(s, {"image", "scratch", "atom"})
FreeRecCrtcsFirst(s) ==              \* mutant: the CRTCs go before their cursors
  IF s.ptr["rec"] = NULL THEN s
  ELSE LET a == FreeEach(s, {"mc", "vga", "plls", "luts"})
           b == Free(OutputsDestroy(a), "connectors")
           c == Free(CursorsDestroy(CrtcsDestroy(b)), "i2c")
       IN  FreeEach(AtomTearDown(c), {"curinfo", "bios", "rec"})
FreeRec(s) ==
  IF s.ptr["rec"] = NULL THEN s
  ELSE LET a == FreeEach(s, {"mc", "vga", "plls", "luts"})
           b == Free(OutputsDestroy(a), "connectors")
           c == Free(CrtcsDestroy(CursorsDestroy(b)), "i2c")
       IN  FreeEach(AtomTearDown(c), {"curinfo", "bios", "rec"})
-----------------------------------------------------------------------------
(* The controller starts: RHD_VBIOS_SIZE bytes are copied, if there is     *)
(* memory for them.                                                        *)
Init ==
  /\ known \in BOOLEAN /\ needsAtom \in BOOLEAN
  /\ map \in {NULL, <<"image", 0>>} /\ heap = {map} \ {NULL}
  /\ ptr = [p \in Pointers |-> NULL] /\ bad = {} /\ ready = FALSE
  /\ nub = [n \in Nubs |-> "new"] /\ by = NULL /\ pc = "idle"
  /\ tries = 0 /\ panic = FALSE

(* fromRegistryEntry of the first nub, or after a failure: kHardwareReady  *)
(* is tested, and then set.                                                *)
TestReady(n) ==
  /\ nub[n] = "new" /\ ~ready /\ pc # "ended"
  /\ nub' = [nub EXCEPT ![n] = "tested"]
  /\ UNCHANGED <<card, map, ptr, heap, bad, ready, by, pc, tries, panic>>

(* A second RHDPreInit over the structures of another is not followed, nor *)
(* is a controller that was freed after the test.                          *)
FirstNub(n) ==
  /\ nub[n] = "tested"
  /\ IF pc = "idle" /\ (ready => ptr["rec"] = NULL)
     THEN /\ ready' = TRUE /\ pc' = "rec" /\ by' = n /\ tries' = tries + 1
          /\ nub' = [nub EXCEPT ![n] = "init"] /\ UNCHANGED panic
     ELSE panic' = TRUE /\ UNCHANGED <<ready, pc, by, tries, nub>>
  /\ UNCHANGED <<card, map, ptr, heap, bad>>

(* Any other nub reads the CRTC it finds: during RHDPreInit there may be   *)
(* none.                                                                   *)
OtherNub(n) ==
  /\ nub[n] = "new" /\ ready /\ pc # "ended"
  /\ IF ptr["rec"] = NULL \/ ptr["crtcs"] = NULL
     THEN panic' = TRUE /\ UNCHANGED nub
     ELSE nub' = [nub EXCEPT ![n] = "up"] /\ UNCHANGED panic
  /\ UNCHANGED <<card, map, ptr, heap, bad, ready, by, pc, tries>>

(* A nub that comes when the controller has gone does not find it.         *)
LateNub(n) ==
  /\ nub[n] = "new" /\ pc = "ended"
  /\ nub' = [nub EXCEPT ![n] = "failed"]
  /\ UNCHANGED <<card, map, ptr, heap, bad, ready, by, pc, tries, panic>>

(* RHDPreInit.                                                             *)
GoOn(next, s) ==
  /\ Becomes(s) /\ pc' = next /\ UNCHANGED <<card, ready, nub, by, tries, panic>>
Return(s, state) ==
  /\ Becomes(s) /\ pc' = "idle" /\ by' = NULL
  /\ ready' = (state = "up") /\ nub' = [nub EXCEPT ![by] = state]
  /\ UNCHANGED <<card, tries, panic>>
Fail == Return(FreeRec(m), "failed")

GetRec ==
  /\ pc = "rec" /\ UNCHANGED map
  /\ LET s == IF ptr["rec"] = NULL THEN Alloc(m, "rec") ELSE m
     IN  IF known THEN GoOn("bios", s) ELSE Return(s, "failed")
TakeBIOSCopy ==
  /\ pc = "bios" /\ map' = NULL
  /\ GoOn("atom", [m EXCEPT !.ptr["bios"] = map])

(* rhdAtomInit: an image of an impossible length is left to the RHDRec,    *)
(* any other is taken from there or read from the card.                    *)
NoAtom(s) ==
  /\ IF needsAtom THEN Return(FreeRec(s), "failed") ELSE GoOn("ram", s)
TakeImage(s) ==
  IF s.ptr["bios"] # NULL
  THEN Forget([s EXCEPT !.ptr["image"] = s.ptr["bios"]], {"bios"})
  ELSE Alloc(s, "image")
AtomInit ==
  /\ pc = "atom" /\ UNCHANGED map
  /\ \/ GoOn("ram", Alloc(TakeImage(m), "atom"))
     \/ NoAtom(m)
     \/ NoAtom(Free(TakeImage(m), "image"))

VideoRam ==
  /\ pc = "ram" /\ UNCHANGED map
  /\ \/ Fail
     \/ GoOn("i2c", m)
     \/ ptr["atom"] # NULL /\ GoOn("i2c", Alloc(m, "scratch"))
I2CInit ==
  /\ pc = "i2c" /\ UNCHANGED map
  /\ \/ Fail
     \/ \E lost \in {{}, {"lines"}} : GoOn("structures", Leak(Alloc(m, "i2c"), lost))

(* VGA only if it was in use; the cursor only if the user wants it, and    *)
(* not always as a whole; power management likewise.                       *)
Cursor == {{}, {"curinfo"}, {"curinfo", "curimage"},
           {"curinfo", "curimage", "temp", "cursors"}}
Structures ==
  /\ pc = "structures" /\ UNCHANGED map
  /\ \E vga \in {{}, {"vga"}}, cursor \in Cursor, pm \in {{}, {"pm"}} :
       GoOn("connectors",
            Leak(AllocAll(m, vga \cup cursor \cup {"mc", "crtcs", "plls", "luts"}), pm))

(* A failure leaves the connectors and outputs made so far.                *)
ConnectorsInit ==
  /\ pc = "connectors" /\ UNCHANGED map
  /\ \/ Fail
     \/ \E made \in {{}, {"connectors", "outputs"}} :
          Return(FreeRec(Leak(AllocAll(m, made), {"hpd"})), "failed")
     \/ \E priv \in {{}, {"privates"}} :
          GoOn("select", Leak(AllocAll(m, priv \cup {"connectors", "outputs"}), {"hpd"}))

(* rhdMapFB, rhdModeLayoutSelect and RHDScreenInit.                        *)
SelectLayout ==
  /\ pc = "select" /\ UNCHANGED map
  /\ Fail \/ Return(m, "up")
-----------------------------------------------------------------------------
(* NDRVHD::free, outside of RHDPreInit.                                    *)
NubFree(n) ==
  /\ nub[n] = "up" /\ pc = "idle"
  /\ Becomes(FreeRec(m)) /\ nub' = [nub EXCEPT ![n] = "gone"]
  /\ UNCHANGED <<card, map, ready, by, pc, tries, panic>>

(* RadeonController::free, at any time, as the nubs are clients of the PCI *)
(* device and retain no controller: the screen with driverPrivate goes,    *)
(* and the image if nobody took it.  A nub that is up is an orphan then,   *)
(* and frees nothing of the RHDRec, which no pointer is left to.  An       *)
(* RHDPreInit that still runs uses freed memory, which is not followed.    *)
ControllerFree ==
  /\ pc # "ended"
  /\ IF pc = "idle"
     THEN /\ pc' = "ended" /\ map' = NULL
          /\ heap' = heap \ {map} /\ bad' = bad \cup ({map} \ (heap \cup {NULL}))
          /\ ptr' = [ptr EXCEPT !["rec"] = NULL]
          /\ nub' = [n \in Nubs |-> IF nub[n] = "up" THEN "orphan" ELSE nub[n]]
          /\ UNCHANGED panic
     ELSE panic' = TRUE /\ UNCHANGED <<pc, map, heap, bad, ptr, nub>>
  /\ UNCHANGED <<card, ready, by, tries>>

Next ==
  /\ ~panic
  /\ \/ \E n \in Nubs :
          TestReady(n) \/ FirstNub(n) \/ OtherNub(n) \/ LateNub(n) \/ NubFree(n)
     \/ GetRec \/ TakeBIOSCopy \/ AtomInit \/ VideoRam \/ I2CInit \/ Structures
     \/ ConnectorsInit \/ SelectLayout \/ ControllerFree
Spec == Init /\ [][Next]_vars
-----------------------------------------------------------------------------
(* The controller went before a nub that was up.                           *)
Orphans == {n \in Nubs : nub[n] = "orphan"}

(* Whatever fails, and whichever nub or the controller comes or goes in    *)
(* between: nothing is freed twice, every block that a Destroy function    *)
(* knows is held by one pointer, no pointer outlives its block, and when   *)
(* no RHDRec is left nothing of an attempt is, so that the next nub starts *)
(* afresh; at the end the memory is returned.  Excepted are the kinds in   *)
(* Leaky, the RHDRec of a chip that is not in the table, which no nub      *)
(* frees, and a controller that goes before its nubs: the RHDRec is lost   *)
(* with what hangs on it.                                                  *)
Holders(b) == {p \in Pointers : ptr[p] = b} \cup IF map = b THEN {"map"} ELSE {}
Lost(b) == b[1] = "rec" /\ pc = "ended" /\ (~known \/ Orphans # {})
Owned ==
  /\ bad = {}
  /\ \A b \in heap : \/ b[1] \in Leaky \/ Lost(b)
                     \/ \E p \in Pointers \cup {"map"} : Holders(b) = {p}
  /\ \A p \in Pointers : ptr[p] \in heap \cup {NULL}
  /\ map \in heap \cup {NULL}
  /\ ptr["rec"] = NULL /\ Orphans = {} => \A p \in Pointers : ptr[p] = NULL
=============================================================================
