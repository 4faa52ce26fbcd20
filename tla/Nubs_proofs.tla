---------------------------- MODULE Nubs_proofs ----------------------------
(***************************************************************************)
(* What Nubs' run checks, for every set of cards: which CRTCs have modes   *)
(* and nubs, whether VGA is posted, what may time out, which depths and    *)
(* modes there are.                                                        *)
(***************************************************************************)
EXTENDS Nubs, TLAPS

ModeOrNone == Modes \cup {NoMode}
Fbs == [mode : ModeOrNone, depth : Nat]

CrtcRegs ==
  [enable : BOOLEAN, scan : BOOLEAN, reads : BOOLEAN, grph : BOOLEAN, blank : BOOLEAN,
   fb : Fbs, timing : ModeOrNone, clk : ModeOrNone, outMode : ModeOrNone,
   out : {"shutdown", "on", "reset"}]

HwType ==
  [mc : {"driver", "bios"}, vga : BOOLEAN, busy : SUBSET {"setup", "restore"},
   crtc : [Crtcs -> CrtcRegs]]

SaveType == [mc : {"driver", "bios"}, vga : BOOLEAN, crtc : [Crtcs -> CrtcRegs]]

LEMMA CardIs ==
  ASSUME card \in Cards
  PROVE  /\ Depths \subseteq Nat /\ Depth32 \in Depths
         /\ Active \subseteq Crtcs /\ WithModes \subseteq Active /\ Nubs \subseteq WithModes
         /\ Scaled \in [Crtcs -> ModeOrNone] /\ PostVga \in BOOLEAN
         /\ Faults \subseteq {"crtc", "mc"}
<1>1. card \in CardType /\ Depth32 \in card.depths
      /\ card.nubs \subseteq card.withModes /\ card.withModes \subseteq card.active
  BY CardsAssumption, DepthAssumption
<1> QED
  BY <1>1 DEF CardType, Depths, Active, WithModes, Nubs, Scaled, PostVga, Faults, ModeOrNone

LEMMA LuckIs ==
  ASSUME NEW luck \in Lucks
  PROVE  luck.stop \in [Crtcs -> BOOLEAN] /\ luck.idle \in BOOLEAN /\ luck.idleAgain \in BOOLEAN
<1>1. PICK S \in SUBSET [Crtcs -> BOOLEAN] :
        luck \in [stop : S, idle : BOOLEAN, idleAgain : BOOLEAN]
  BY DEF Lucks
<1> QED
  BY <1>1

LEMMA HwIs ==
  ASSUME NEW h \in HwType
  PROVE  /\ h.mc \in {"driver", "bios"} /\ h.vga \in BOOLEAN /\ h.crtc \in [Crtcs -> CrtcRegs]
         /\ \A c \in Crtcs : h.crtc[c] \in CrtcRegs
  BY DEF HwType
-----------------------------------------------------------------------------
(* One CRTC.  What sets it up for a mode, apart from power and blanking.   *)
SameMode(r, s) ==
  s.fb = r.fb /\ s.timing = r.timing /\ s.clk = r.clk /\ s.outMode = r.outMode

LEMMA SameModeTwice ==
  ASSUME NEW r, NEW s, NEW t, SameMode(r, s), SameMode(s, t) PROVE SameMode(r, t)
  BY DEF SameMode

LEMMA CRTCDisableIs ==
  ASSUME NEW r \in CrtcRegs, NEW stops \in BOOLEAN
  PROVE  LET s == CRTCDisable(r, stops)
         IN  /\ s \in CrtcRegs /\ SameMode(r, s) /\ s.enable = FALSE
             /\ s.reads = r.reads /\ s.grph = r.grph /\ s.blank = r.blank /\ s.out = r.out
<1> DEFINE scan == ~stops
           s == [[r EXCEPT !.enable = FALSE] EXCEPT !.scan = scan]
<1>1. scan \in BOOLEAN
  BY Zenon
<1> HIDE DEF scan
<1>2. CASE r.enable
  <2>1. CRTCDisable(r, stops) = s
    BY <1>2 DEF CRTCDisable, scan, CrtcRegs
  <2> QED
    BY <1>1, <2>1 DEF CrtcRegs, SameMode
<1>3. CASE ~r.enable
  BY <1>3 DEF CRTCDisable, CrtcRegs, SameMode
<1> QED
  BY <1>2, <1>3

LEMMA PowerResetIs ==
  ASSUME NEW r \in CrtcRegs, NEW stops \in BOOLEAN
  PROVE  LET s == PowerReset(r, stops)
         IN  /\ s \in CrtcRegs /\ SameMode(r, s) /\ s.enable = FALSE /\ ~s.reads
             /\ s.grph = r.grph /\ s.blank = r.blank /\ s.out = r.out
<1> DEFINE u == [r EXCEPT !.reads = FALSE]
<1>1. /\ u \in CrtcRegs /\ SameMode(r, u) /\ u.reads = FALSE
      /\ u.grph = r.grph /\ u.blank = r.blank /\ u.out = r.out
  BY DEF CrtcRegs, SameMode
<1> HIDE DEF u
<1>2. LET s == CRTCDisable(u, stops)
      IN  /\ s \in CrtcRegs /\ SameMode(u, s) /\ s.enable = FALSE
          /\ s.reads = u.reads /\ s.grph = u.grph /\ s.blank = u.blank /\ s.out = u.out
  BY <1>1, CRTCDisableIs
<1>3. PowerReset(r, stops) = CRTCDisable(u, stops)
  BY DEF PowerReset, u
<1> QED
  BY <1>1, <1>2, <1>3, SameModeTwice

(* A CRTC that is powered fetches.                                         *)
Lit(r) == r.reads /\ r.grph /\ r.out = "on"

LEMMA PowerOnIs ==
  ASSUME NEW r \in CrtcRegs
  PROVE  LET s == [PowerOn(r) EXCEPT !.out = "on"]
         IN  s \in CrtcRegs /\ SameMode(r, s) /\ Lit(s) /\ s.blank = r.blank
  BY DEF PowerOn, CrtcRegs, SameMode, Lit

(* Both CRTCs of a card.                                                   *)
LEMMA AllCrtcs ==
  ASSUME NEW h \in HwType, NEW f, \A c \in Crtcs : f[c] \in CrtcRegs
  PROVE  LET g == [h EXCEPT !.crtc = [c \in Crtcs |-> f[c]]]
         IN  /\ g \in HwType /\ g.mc = h.mc /\ g.vga = h.vga /\ g.busy = h.busy
             /\ \A c \in Crtcs : g.crtc[c] = f[c]
  BY DEF HwType

LEMMA OnCrtcIs ==
  ASSUME NEW h \in HwType, NEW c \in Crtcs, NEW r \in CrtcRegs
  PROVE  LET g == OnCrtc(h, c, r)
         IN  /\ g \in HwType /\ g.mc = h.mc /\ g.vga = h.vga /\ g.busy = h.busy
             /\ g.crtc[c] = r /\ \A d \in Crtcs \ {c} : g.crtc[d] = h.crtc[d]
  BY DEF OnCrtc, HwType

LEMMA BlankAllIs ==
  ASSUME NEW h \in HwType, NEW blank \in BOOLEAN
  PROVE  LET g == BlankAll(h, blank)
         IN  /\ g \in HwType /\ g.mc = h.mc /\ g.vga = h.vga /\ g.busy = h.busy
             /\ \A c \in Crtcs : g.crtc[c] = [h.crtc[c] EXCEPT !.blank = blank]
<1> DEFINE f == [c \in Crtcs |-> [h.crtc[c] EXCEPT !.blank = blank]]
<1>1. \A c \in Crtcs : f[c] \in CrtcRegs /\ f[c] = [h.crtc[c] EXCEPT !.blank = blank]
  BY HwIs DEF CrtcRegs
<1>2. BlankAll(h, blank) = [h EXCEPT !.crtc = [c \in Crtcs |-> f[c]]]
  BY DEF BlankAll
<1> DEFINE g == [h EXCEPT !.crtc = [c \in Crtcs |-> f[c]]]
<1> HIDE DEF f
<1>3. /\ g \in HwType /\ g.mc = h.mc /\ g.vga = h.vga /\ g.busy = h.busy
      /\ \A c \in Crtcs : g.crtc[c] = f[c]
  BY <1>1, AllCrtcs
<1> HIDE DEF g
<1> QED
  BY <1>1, <1>2, <1>3 DEF g

(* What stops a CRTC, and leaves it set up as it was.                      *)
Stopped(r, s) ==
  /\ s \in CrtcRegs /\ SameMode(r, s) /\ s.blank = r.blank /\ s.out = r.out
  /\ s.grph = r.grph /\ ~s.enable /\ ~s.reads

Untouched(h, g) == g \in HwType /\ g.mc = h.mc /\ g.busy = h.busy

(* rhdAllIdle stops the CRTCs one after the other; when it succeeds, VGA   *)
(* apart nothing reads memory.                                             *)
LEMMA AllIdleIs ==
  ASSUME NEW h \in HwType, NEW luck \in Lucks
  PROVE  LET a == AllIdle(h, luck)
         IN  /\ Untouched(h, a.h) /\ a.h.vga = h.vga
             /\ \A c \in Crtcs : a.h.crtc[c] = h.crtc[c] \/ Stopped(h.crtc[c], a.h.crtc[c])
             /\ a.ok => \A c \in Crtcs : ~Reading(a.h.crtc[c])
<1> DEFINE r0 == PowerReset(h.crtc[0], luck.stop[0])
           s0 == OnCrtc(h, 0, r0)
           r1 == PowerReset(h.crtc[1], luck.stop[1])
           s1 == OnCrtc(s0, 1, r1)
           idle == McIdle(s1, luck.idle)
<1>1. 0 \in Crtcs /\ 1 \in Crtcs /\ Crtcs = {0, 1}
  BY DEF Crtcs
<1>2. luck.stop[0] \in BOOLEAN /\ luck.stop[1] \in BOOLEAN
  BY <1>1, LuckIs
<1>3. \/ AllIdle(h, luck) = [h |-> s0, ok |-> FALSE]
      \/ AllIdle(h, luck) = [h |-> s1, ok |-> FALSE]
      \/ AllIdle(h, luck) = [h |-> s1, ok |-> idle]
  <2> DEFINE c0 == CRTCDisabled(h.crtc[0], luck.stop[0])
             c1 == CRTCDisabled(h.crtc[1], luck.stop[1])
  <2>1. AllIdle(h, luck) = IF ~c0 THEN [h |-> s0, ok |-> FALSE]
                           ELSE IF ~c1 THEN [h |-> s1, ok |-> FALSE]
                           ELSE [h |-> s1, ok |-> idle]
    BY DEF AllIdle
  <2> HIDE DEF c0, c1, s0, s1, idle
  <2> QED
    BY <2>1, Zenon
<1> HIDE DEF idle
<1>4. Stopped(h.crtc[0], r0)
  BY <1>1, <1>2, HwIs, PowerResetIs DEF Stopped
<1> HIDE DEF r0
<1>5. /\ s0 \in HwType /\ s0.mc = h.mc /\ s0.vga = h.vga /\ s0.busy = h.busy
      /\ s0.crtc[0] = r0 /\ s0.crtc[1] = h.crtc[1]
  BY <1>1, <1>4, OnCrtcIs DEF Stopped
<1> HIDE DEF s0
<1>6. Stopped(h.crtc[1], r1)
  BY <1>1, <1>2, HwIs, PowerResetIs DEF Stopped
<1> HIDE DEF r1
<1>7. /\ s1 \in HwType /\ s1.mc = h.mc /\ s1.vga = h.vga /\ s1.busy = h.busy
      /\ s1.crtc[0] = r0 /\ s1.crtc[1] = r1
  <2>1. r1 \in CrtcRegs
    BY <1>6 DEF Stopped
  <2>2. /\ s1 \in HwType /\ s1.mc = s0.mc /\ s1.vga = s0.vga /\ s1.busy = s0.busy
        /\ s1.crtc[1] = r1 /\ \A d \in Crtcs \ {1} : s1.crtc[d] = s0.crtc[d]
    BY <1>1, <1>5, <2>1, OnCrtcIs
  <2> HIDE DEF s1
  <2> QED
    BY <1>1, <1>5, <2>2
<1> HIDE DEF s1
<1>8. ~Reading(r0) /\ ~Reading(r1)
  BY <1>4, <1>6 DEF Stopped, Reading
<1> QED
  BY <1>1, <1>3, <1>4, <1>5, <1>6, <1>7, <1>8 DEF Untouched

LEMMA VGADisableIs ==
  ASSUME NEW h \in HwType
  PROVE  LET g == VGADisable(h)
         IN  /\ g \in HwType /\ g.mc = h.mc /\ g.busy = h.busy /\ ~g.vga /\ g.crtc = h.crtc
  BY DEF VGADisable, HwType

(* RHDMCSetupFBLocation, where nothing reads memory.                       *)
LEMMA MCSetupIs ==
  ASSUME NEW h \in HwType, NEW luck \in Lucks, Quiet(h)
  PROVE  LET m == MCSetupFBLocation(h, luck)
         IN  /\ m.h \in HwType /\ m.h.vga = h.vga /\ m.h.busy = h.busy /\ m.h.crtc = h.crtc
             /\ m.h.mc \in {h.mc, "driver"} /\ (m.ok => m.h.mc = "driver")
<1>1. McWrite(h, "driver", "setup") = [[h EXCEPT !.mc = "driver"] EXCEPT !.busy = h.busy]
  BY DEF McWrite
<1>2. LET g == McWrite(h, "driver", "setup")
      IN  g \in HwType /\ g.vga = h.vga /\ g.busy = h.busy /\ g.crtc = h.crtc /\ g.mc = "driver"
  BY <1>1 DEF HwType
<1> QED
  BY <1>2 DEF MCSetupFBLocation

-----------------------------------------------------------------------------
(* A CRTC with all its driver sets it up with for a mode.                  *)
AsMode(r, fb, t) == r.fb = fb /\ r.timing = t /\ r.clk = t /\ r.outMode = t

Curs == [Crtcs -> ModeOrNone]

LEMMA SetModeCrtcIs ==
  ASSUME card \in Cards, NEW r \in CrtcRegs, NEW c \in Crtcs, NEW cu \in Curs,
         NEW dep \in Nat, NEW stops \in BOOLEAN
  PROVE  LET s == SetModeCrtc(r, c, cu, dep, stops)
         IN  /\ s \in CrtcRegs /\ s.blank = r.blank
             /\ c \in WithModes => /\ AsMode(s, [mode |-> cu[c], depth |-> dep], Timing(c, cu))
                                   /\ Lit(s)
<1> DEFINE t == Timing(c, cu)
           fb == [mode |-> cu[c], depth |-> dep]
           set == [r EXCEPT !.grph = TRUE, !.fb = fb, !.reads = TRUE, !.timing = t,
                            !.clk = t, !.outMode = t]
           p == PowerReset(r, stops)
<1>1. t \in ModeOrNone /\ fb \in Fbs
  BY CardIs DEF Timing, Curs, Fbs
<1>2. p \in CrtcRegs /\ p.blank = r.blank
  BY PowerResetIs
<1>3. NoMode \in ModeOrNone
  BY DEF ModeOrNone
<1> HIDE DEF t, fb, p
<1>4. set \in CrtcRegs /\ AsMode(set, fb, t) /\ set.blank = r.blank
  BY <1>1 DEF CrtcRegs, AsMode
<1> HIDE DEF set
<1>5. CASE c \in WithModes
  <2>1. SetModeCrtc(r, c, cu, dep, stops) = [PowerOn(set) EXCEPT !.out = "on"]
    BY <1>5 DEF SetModeCrtc, set, t, fb
  <2>2. LET s == [PowerOn(set) EXCEPT !.out = "on"]
        IN  s \in CrtcRegs /\ SameMode(set, s) /\ Lit(s) /\ s.blank = set.blank
    BY <1>4, PowerOnIs
  <2> QED
    BY <1>4, <1>5, <2>1, <2>2 DEF AsMode, SameMode, t, fb
<1>6. CASE c \notin WithModes /\ c \in Active
  <2>1. SetModeCrtc(r, c, cu, dep, stops) = [PowerOn(r) EXCEPT !.clk = NoMode, !.out = "on"]
    BY <1>6 DEF SetModeCrtc
  <2> QED
    BY <1>3, <1>6, <2>1, ZenonT(60) DEF PowerOn, CrtcRegs
<1>7. CASE c \notin WithModes /\ c \notin Active
  <2>1. SetModeCrtc(r, c, cu, dep, stops)
          = [[p EXCEPT !.grph = FALSE] EXCEPT !.clk = NoMode, !.out = "shutdown"]
    BY <1>7 DEF SetModeCrtc, PowerShutdown, p
  <2> QED
    BY <1>2, <1>3, <1>7, <2>1, ZenonT(60) DEF CrtcRegs
<1> QED
  BY <1>5, <1>6, <1>7

(* What a mode set establishes.                                            *)
ModeSet(h, cu, dep) ==
  \A c \in WithModes :
    AsMode(h.crtc[c], [mode |-> cu[c], depth |-> dep], Timing(c, cu)) /\ Lit(h.crtc[c])

LEMMA SetModeIs ==
  ASSUME card \in Cards, NEW h \in HwType, NEW cu \in Curs, NEW dep \in Nat,
         NEW luck \in Lucks
  PROVE  LET g == SetMode(h, cu, dep, luck)
         IN  /\ Untouched(h, g) /\ g.vga = h.vga /\ ModeSet(g, cu, dep)
             /\ \A c \in Crtcs : g.crtc[c].blank = h.crtc[c].blank
<1> DEFINE f == [c \in Crtcs |-> SetModeCrtc(h.crtc[c], c, cu, dep, luck.stop[c])]
           g == [h EXCEPT !.crtc = [c \in Crtcs |-> f[c]]]
<1>1. ASSUME NEW c \in Crtcs
      PROVE  /\ f[c] \in CrtcRegs /\ f[c].blank = h.crtc[c].blank
             /\ c \in WithModes => /\ AsMode(f[c], [mode |-> cu[c], depth |-> dep], Timing(c, cu))
                                   /\ Lit(f[c])
  <2>1. h.crtc[c] \in CrtcRegs /\ luck.stop[c] \in BOOLEAN
    BY HwIs, LuckIs
  <2>2. f[c] = SetModeCrtc(h.crtc[c], c, cu, dep, luck.stop[c])
    OBVIOUS
  <2> HIDE DEF f
  <2> QED
    BY <2>1, <2>2, SetModeCrtcIs
<1>2. SetMode(h, cu, dep, luck) = g
  BY DEF SetMode
<1> HIDE DEF f
<1>3. /\ g \in HwType /\ g.mc = h.mc /\ g.vga = h.vga /\ g.busy = h.busy
      /\ \A c \in Crtcs : g.crtc[c] = f[c]
  BY <1>1, AllCrtcs
<1> HIDE DEF g
<1>4. \A c \in WithModes : c \in Crtcs
  BY CardIs
<1> QED
  BY <1>1, <1>2, <1>3, <1>4 DEF ModeSet, Untouched

(* RHDPrepareMode.                                                         *)
LEMMA PrepareModeIs ==
  ASSUME NEW h \in HwType
  PROVE  LET g == PrepareMode(h)
         IN  Untouched(h, g) /\ g.vga = h.vga
<1> DEFINE b == BlankAll(h, TRUE)
           f == [c \in Crtcs |-> IF c \in Active THEN [b.crtc[c] EXCEPT !.out = "reset"]
                                 ELSE b.crtc[c]]
           g == [b EXCEPT !.crtc = [c \in Crtcs |-> f[c]]]
<1>1. b \in HwType /\ b.mc = h.mc /\ b.vga = h.vga /\ b.busy = h.busy
  BY BlankAllIs
<1>2. PrepareMode(h) = g
  BY DEF PrepareMode
<1> HIDE DEF b
<1>3. \A c \in Crtcs : f[c] \in CrtcRegs
  BY <1>1, HwIs DEF CrtcRegs
<1> HIDE DEF f
<1>4. /\ g \in HwType /\ g.mc = b.mc /\ g.vga = b.vga /\ g.busy = b.busy
  BY <1>1, <1>3, AllCrtcs
<1> HIDE DEF g
<1> QED
  BY <1>1, <1>2, <1>4 DEF Untouched

(* What RHDScreenInit and RHDSwitchMode do first: VGA off, everything      *)
(* idle, the MC set up.                                                    *)
LEMMA IdleIs ==
  ASSUME NEW h \in HwType, NEW luck \in Lucks
  PROVE  LET idle == AllIdle(VGADisable(h), luck)
             mc   == MCSetupFBLocation(idle.h, luck)
         IN  /\ Untouched(h, idle.h) /\ ~idle.h.vga
             /\ \A c \in Crtcs : \/ idle.h.crtc[c] = h.crtc[c]
                                 \/ Stopped(h.crtc[c], idle.h.crtc[c])
             /\ idle.ok => /\ mc.h \in HwType /\ ~mc.h.vga /\ mc.h.busy = h.busy
                           /\ mc.h.crtc = idle.h.crtc
                           /\ mc.h.mc \in {h.mc, "driver"} /\ (mc.ok => mc.h.mc = "driver")
<1> DEFINE v == VGADisable(h)
           idle == AllIdle(v, luck)
           mc == MCSetupFBLocation(idle.h, luck)
<1>1. v \in HwType /\ v.mc = h.mc /\ v.busy = h.busy /\ ~v.vga /\ v.crtc = h.crtc
  BY VGADisableIs
<1> HIDE DEF v
<1>2. /\ Untouched(v, idle.h) /\ idle.h.vga = v.vga
      /\ \A c \in Crtcs : idle.h.crtc[c] = v.crtc[c] \/ Stopped(v.crtc[c], idle.h.crtc[c])
      /\ idle.ok => \A c \in Crtcs : ~Reading(idle.h.crtc[c])
  BY <1>1, AllIdleIs
<1> HIDE DEF idle
<1>3. /\ Untouched(h, idle.h) /\ ~idle.h.vga
      /\ \A c \in Crtcs : idle.h.crtc[c] = h.crtc[c] \/ Stopped(h.crtc[c], idle.h.crtc[c])
  BY <1>1, <1>2 DEF Untouched
<1>4. ASSUME idle.ok
      PROVE  /\ mc.h \in HwType /\ ~mc.h.vga /\ mc.h.busy = h.busy
             /\ mc.h.crtc = idle.h.crtc
             /\ mc.h.mc \in {h.mc, "driver"} /\ (mc.ok => mc.h.mc = "driver")
  <2>1. Quiet(idle.h) /\ idle.h \in HwType
    BY <1>2, <1>3, <1>4 DEF Quiet, Untouched
  <2>2. /\ mc.h \in HwType /\ mc.h.vga = idle.h.vga /\ mc.h.busy = idle.h.busy
        /\ mc.h.crtc = idle.h.crtc
        /\ mc.h.mc \in {idle.h.mc, "driver"} /\ (mc.ok => mc.h.mc = "driver")
    BY <2>1, MCSetupIs
  <2> HIDE DEF mc
  <2> QED
    BY <1>3, <2>2 DEF Untouched
<1> QED
  BY <1>3, <1>4 DEF idle, v

Kept(r, s) == s = r \/ Stopped(r, s)

LEMMA SwitchModeIs ==
  ASSUME card \in Cards, NEW h \in HwType, NEW cu \in Curs, NEW dep \in Nat,
         NEW luck \in Lucks
  PROVE  LET s == SwitchMode(h, cu, dep, luck)
         IN  /\ s.h \in HwType /\ ~s.h.vga /\ s.h.busy = h.busy /\ s.h.mc \in {h.mc, "driver"}
             /\ \A c \in Crtcs : s.h.crtc[c].blank = h.crtc[c].blank
             /\ s.ok => ModeSet(s.h, cu, dep)
             /\ ~s.ok => \A c \in Crtcs : Kept(h.crtc[c], s.h.crtc[c])
<1> DEFINE idle == AllIdle(VGADisable(h), luck)
           mc == MCSetupFBLocation(idle.h, luck)
           g == SetMode(mc.h, cu, dep, luck)
<1>1. /\ Untouched(h, idle.h) /\ ~idle.h.vga
      /\ \A c \in Crtcs : Kept(h.crtc[c], idle.h.crtc[c])
      /\ idle.ok => /\ mc.h \in HwType /\ ~mc.h.vga /\ mc.h.busy = h.busy
                    /\ mc.h.crtc = idle.h.crtc /\ mc.h.mc \in {h.mc, "driver"}
  BY IdleIs DEF Kept
<1>2. SwitchMode(h, cu, dep, luck) = IF ~idle.ok THEN idle ELSE [h |-> g, ok |-> TRUE]
  BY DEF SwitchMode
<1> HIDE DEF idle
<1>3. \A c \in Crtcs : idle.h.crtc[c].blank = h.crtc[c].blank
  BY <1>1 DEF Kept, Stopped
<1>4. CASE ~idle.ok
  <2>1. SwitchMode(h, cu, dep, luck) = idle
    BY <1>2, <1>4
  <2> QED
    BY <1>1, <1>3, <1>4, <2>1 DEF Untouched
<1>5. CASE idle.ok
  <2>1. SwitchMode(h, cu, dep, luck) = [h |-> g, ok |-> TRUE]
    BY <1>2, <1>5
  <2>2. /\ Untouched(mc.h, g) /\ g.vga = mc.h.vga /\ ModeSet(g, cu, dep)
        /\ \A c \in Crtcs : g.crtc[c].blank = mc.h.crtc[c].blank
    BY <1>1, <1>5, SetModeIs
  <2> HIDE DEF g, mc
  <2> QED
    BY <1>1, <1>3, <1>5, <2>1, <2>2 DEF Untouched
<1> QED
  BY <1>4, <1>5

LEMMA ScreenInitIs ==
  ASSUME card \in Cards, NEW h \in HwType, NEW cu \in Curs, NEW dep \in Nat,
         NEW luck \in Lucks
  PROVE  LET i == ScreenInit(h, cu, dep, luck)
         IN  /\ i.h \in HwType /\ ~i.h.vga /\ i.h.busy = h.busy
             /\ i.ok => ModeSet(i.h, cu, dep) /\ i.h.mc = "driver"
             /\ ~i.ok => \A c \in Crtcs : i.h.crtc[c].fb = h.crtc[c].fb
<1> DEFINE idle == AllIdle(VGADisable(h), luck)
           mc == MCSetupFBLocation(idle.h, luck)
           p == PrepareMode(mc.h)
           s == SetMode(p, cu, dep, luck)
           g == BlankAll(s, FALSE)
<1>1. /\ Untouched(h, idle.h) /\ ~idle.h.vga
      /\ \A c \in Crtcs : Kept(h.crtc[c], idle.h.crtc[c])
      /\ idle.ok => /\ mc.h \in HwType /\ ~mc.h.vga /\ mc.h.busy = h.busy
                    /\ mc.h.crtc = idle.h.crtc /\ (mc.ok => mc.h.mc = "driver")
  BY IdleIs DEF Kept
<1>2. ScreenInit(h, cu, dep, luck) = IF ~idle.ok THEN idle ELSE IF ~mc.ok THEN mc
                                     ELSE [h |-> g, ok |-> TRUE]
  BY DEF ScreenInit
<1> HIDE DEF idle
<1>3. \A c \in Crtcs : idle.h.crtc[c].fb = h.crtc[c].fb
  BY <1>1 DEF Kept, Stopped, SameMode
<1>4. CASE ~idle.ok
  <2>1. ScreenInit(h, cu, dep, luck) = idle
    BY <1>2, <1>4
  <2> QED
    BY <1>1, <1>3, <1>4, <2>1 DEF Untouched
<1>5. CASE idle.ok /\ ~mc.ok
  <2>1. ScreenInit(h, cu, dep, luck) = mc
    BY <1>2, <1>5
  <2> HIDE DEF mc
  <2> QED
    BY <1>1, <1>3, <1>5, <2>1
<1>6. CASE idle.ok /\ mc.ok
  <2>1. ScreenInit(h, cu, dep, luck) = [h |-> g, ok |-> TRUE]
    BY <1>2, <1>6
  <2>2. mc.h \in HwType /\ ~mc.h.vga /\ mc.h.busy = h.busy /\ mc.h.mc = "driver"
    BY <1>1, <1>6
  <2> HIDE DEF mc
  <2>3. Untouched(mc.h, p) /\ p.vga = mc.h.vga
    BY <2>2, PrepareModeIs
  <2>4. p \in HwType
    BY <2>3 DEF Untouched
  <2> HIDE DEF p
  <2>5. Untouched(p, s) /\ s.vga = p.vga /\ ModeSet(s, cu, dep)
    BY <2>4, SetModeIs
  <2>6. s \in HwType
    BY <2>5 DEF Untouched
  <2> HIDE DEF s
  <2>7. /\ g \in HwType /\ g.mc = s.mc /\ g.vga = s.vga /\ g.busy = s.busy
        /\ \A c \in Crtcs : g.crtc[c] = [s.crtc[c] EXCEPT !.blank = FALSE]
    BY <2>6, BlankAllIs
  <2> HIDE DEF g
  <2>8. ModeSet(g, cu, dep)
    <3>1. ASSUME NEW c \in WithModes
          PROVE  /\ AsMode(g.crtc[c], [mode |-> cu[c], depth |-> dep], Timing(c, cu))
                 /\ Lit(g.crtc[c])
      <4>1. c \in Crtcs /\ s.crtc[c] \in CrtcRegs
        BY <2>6, CardIs, HwIs
      <4>2. g.crtc[c] = [s.crtc[c] EXCEPT !.blank = FALSE]
        BY <2>7, <4>1
      <4>3. /\ AsMode(s.crtc[c], [mode |-> cu[c], depth |-> dep], Timing(c, cu))
            /\ Lit(s.crtc[c])
        BY <2>5 DEF ModeSet
      <4> QED
        BY <4>1, <4>2, <4>3 DEF AsMode, Lit, CrtcRegs
    <3> QED
      BY <3>1 DEF ModeSet
  <2> QED
    BY <2>1, <2>2, <2>3, <2>5, <2>7, <2>8 DEF Untouched
<1> QED
  BY <1>4, <1>5, <1>6

(* RHDDisplayPowerManagementSet.                                           *)
LEMMA DPMSOnIs ==
  ASSUME NEW h \in HwType
  PROVE  LET g == DPMSOn(h)
         IN  /\ Untouched(h, g) /\ g.vga = h.vga
             /\ \A c \in Crtcs : SameMode(h.crtc[c], g.crtc[c])
             /\ \A c \in Crtcs \cap Active : Lit(g.crtc[c])
<1> DEFINE X(c) == [PowerOn(h.crtc[c]) EXCEPT !.out = "on", !.blank = FALSE]
           f == [c \in Crtcs |-> IF c \in Active THEN X(c) ELSE h.crtc[c]]
           g == [h EXCEPT !.crtc = [c \in Crtcs |-> f[c]]]
<1>1. ASSUME NEW c \in Crtcs
      PROVE  f[c] \in CrtcRegs /\ SameMode(h.crtc[c], f[c]) /\ (c \in Active => Lit(f[c]))
  <2>1. h.crtc[c] \in CrtcRegs
    BY HwIs
  <2>2. X(c) \in CrtcRegs /\ SameMode(h.crtc[c], X(c)) /\ Lit(X(c))
    BY <2>1 DEF PowerOn, CrtcRegs, SameMode, Lit
  <2>3. f[c] = IF c \in Active THEN X(c) ELSE h.crtc[c]
    OBVIOUS
  <2> HIDE DEF f, X
  <2> QED
    BY <2>1, <2>2, <2>3 DEF SameMode
<1>2. DPMSOn(h) = g
  BY DEF DPMSOn
<1> HIDE DEF f
<1>3. /\ g \in HwType /\ g.mc = h.mc /\ g.vga = h.vga /\ g.busy = h.busy
      /\ \A c \in Crtcs : g.crtc[c] = f[c]
  BY <1>1, AllCrtcs
<1> HIDE DEF g
<1> QED
  BY <1>1, <1>2, <1>3 DEF Untouched

LEMMA DPMSOffIs ==
  ASSUME NEW h \in HwType, NEW luck \in Lucks
  PROVE  LET g == DPMSOff(h, luck)
         IN  /\ Untouched(h, g) /\ g.vga = h.vga
             /\ \A c \in Crtcs : SameMode(h.crtc[c], g.crtc[c])
             /\ \A c \in Crtcs \cap Active : ~g.crtc[c].enable /\ g.crtc[c].blank = TRUE
<1> DEFINE p == [c \in Crtcs |-> PowerReset(h.crtc[c], luck.stop[c])]
           f == [c \in Crtcs |-> IF c \in Active THEN [p[c] EXCEPT !.out = "reset", !.blank = TRUE]
                                 ELSE h.crtc[c]]
           g == [h EXCEPT !.crtc = [c \in Crtcs |-> f[c]]]
<1>1. ASSUME NEW c \in Crtcs
      PROVE  /\ f[c] \in CrtcRegs /\ SameMode(h.crtc[c], f[c])
             /\ c \in Active => ~f[c].enable /\ f[c].blank = TRUE
  <2>1. h.crtc[c] \in CrtcRegs /\ luck.stop[c] \in BOOLEAN
    BY HwIs, LuckIs
  <2>2. p[c] = PowerReset(h.crtc[c], luck.stop[c])
    OBVIOUS
  <2>3. f[c] = IF c \in Active THEN [p[c] EXCEPT !.out = "reset", !.blank = TRUE] ELSE h.crtc[c]
    OBVIOUS
  <2> HIDE DEF f, p
  <2>4. p[c] \in CrtcRegs /\ SameMode(h.crtc[c], p[c]) /\ ~p[c].enable
    BY <2>1, <2>2, PowerResetIs
  <2> QED
    BY <2>1, <2>3, <2>4 DEF SameMode, CrtcRegs
<1>2. DPMSOff(h, luck) = g
  BY DEF DPMSOff
<1> HIDE DEF f
<1>3. /\ g \in HwType /\ g.mc = h.mc /\ g.vga = h.vga /\ g.busy = h.busy
      /\ \A c \in Crtcs : g.crtc[c] = f[c]
  BY <1>1, AllCrtcs
<1> HIDE DEF g
<1> QED
  BY <1>1, <1>2, <1>3 DEF Untouched

(* rhdRestore.  The MC is not set up where something may read memory.      *)
LEMMA RestoreIs ==
  ASSUME NEW h \in HwType, NEW sv \in SaveType, NEW rec \in BOOLEAN, NEW luck \in Lucks
  PROVE  LET g == Restore(h, sv, rec, luck)
         IN  /\ g \in HwType /\ ("setup" \in g.busy => "setup" \in h.busy)
             /\ g.vga = IF rec THEN sv.vga ELSE h.vga
             /\ \A c \in Crtcs : SameMode(sv.crtc[c], g.crtc[c])
             /\ g.mc \in {h.mc, sv.mc}
             /\ Quiet(h) /\ "mc" \notin Faults => g.mc = sv.mc
<1> DEFINE w == McWrite(h, sv.mc, "restore")
           m == MCRestore(h, sv, luck)
           vga == IF rec THEN sv.vga ELSE m.vga
           f == [c \in Crtcs |-> CrtcRestore(h.crtc[c], sv.crtc[c], luck.stop[c])]
           v == [m EXCEPT !.vga = vga]
           g == [v EXCEPT !.crtc = [c \in Crtcs |-> f[c]]]
<1>1. sv.mc \in {"driver", "bios"} /\ sv.vga \in BOOLEAN /\ \A c \in Crtcs : sv.crtc[c] \in CrtcRegs
  BY DEF SaveType
<1>2. /\ w \in HwType /\ w.mc = sv.mc /\ w.vga = h.vga
      /\ "setup" \in w.busy => "setup" \in h.busy
  <2> DEFINE busy == IF Quiet(h) THEN h.busy ELSE h.busy \cup {"restore"}
  <2>1. busy \in SUBSET {"setup", "restore"} /\ ("setup" \in busy => "setup" \in h.busy)
    BY DEF HwType
  <2>2. w = [[h EXCEPT !.mc = sv.mc] EXCEPT !.busy = busy]
    BY DEF McWrite, HwType
  <2> HIDE DEF busy, w
  <2> QED
    BY <1>1, <2>1, <2>2 DEF HwType
<1>3. /\ m \in HwType /\ m.vga = h.vga /\ m.mc \in {h.mc, sv.mc}
      /\ "setup" \in m.busy => "setup" \in h.busy
      /\ Quiet(h) /\ "mc" \notin Faults => m.mc = sv.mc
  <2>1. m = w \/ m = h
    BY DEF MCRestore
  <2>2. Quiet(h) /\ "mc" \notin Faults => m = w
    BY DEF MCRestore, McIdle
  <2> HIDE DEF w, m
  <2> QED
    BY <1>2, <2>1, <2>2
<1> HIDE DEF w, m
<1>4. ASSUME NEW c \in Crtcs
      PROVE  f[c] \in CrtcRegs /\ SameMode(sv.crtc[c], f[c])
  <2> DEFINE scan == sv.crtc[c].enable \/ (h.crtc[c].scan /\ ~luck.stop[c])
  <2>1. scan \in BOOLEAN
    BY Zenon
  <2>2. f[c] = [sv.crtc[c] EXCEPT !.scan = scan]
    BY DEF CrtcRestore
  <2> HIDE DEF scan, f
  <2> QED
    BY <1>1, <2>1, <2>2 DEF CrtcRegs, SameMode
<1>5. v \in HwType /\ v.mc = m.mc /\ v.busy = m.busy /\ v.vga = vga
  BY <1>1, <1>3 DEF HwType
<1>6. Restore(h, sv, rec, luck) = g
  <2>1. Restore(h, sv, rec, luck)
          = [m EXCEPT !.vga = vga, !.crtc = [c \in Crtcs |->
                                               CrtcRestore(h.crtc[c], sv.crtc[c], luck.stop[c])]]
    BY DEF Restore, m
  <2> QED
    BY <2>1
<1> HIDE DEF v, f
<1>7. /\ g \in HwType /\ g.mc = v.mc /\ g.vga = v.vga /\ g.busy = v.busy
      /\ \A c \in Crtcs : g.crtc[c] = f[c]
  BY <1>4, <1>5, AllCrtcs
<1> HIDE DEF g
<1> QED
  BY <1>3, <1>4, <1>5, <1>6, <1>7

-----------------------------------------------------------------------------
Typed ==
  /\ card \in Cards /\ hw \in HwType /\ cur \in Curs /\ depth \in Depths
  /\ geo \in [Crtcs -> Fbs] /\ ready \subseteq Nubs /\ asleep \subseteq ready
  /\ vgaRec \in BOOLEAN /\ phase \in {"off", "up", "lost"}
  /\ DOMAIN cache = Nubs /\ \A n \in ready : cache[n].bpp \in Depths
  /\ asleep # {} => saved \in SaveType

Phases ==
  /\ phase = "off" => ready = {} /\ depth = Depth32
  /\ phase # "off" => ready # {}
  /\ phase = "lost" => asleep # {}

(* While the driver is up the registers are set up for the current modes,  *)
(* and while a nub sleeps what was saved is, too; an enabled CRTC is fully *)
(* powered.                                                                *)
SetUp ==
  /\ phase = "up" => \A c \in WithModes :
       /\ AsMode(hw.crtc[c], geo[c], Timing(c, cur))
       /\ hw.crtc[c].enable => Lit(hw.crtc[c])
  /\ asleep # {} => \A c \in WithModes : AsMode(saved.crtc[c], geo[c], Timing(c, cur))
  /\ phase # "off" => \A c \in WithModes : geo[c].mode = cur[c] /\ geo[c].depth \in Depths

(* The MC: what was saved is the driver's location, and a loss of power    *)
(* leaves no surface and nothing that reads.                               *)
McFollows ==
  ~PostVga /\ "mc" \notin Faults =>
    /\ phase = "up" => hw.mc = "driver"
    /\ asleep # {} => saved.mc = "driver"
    /\ phase # "up" => \A c \in Crtcs : hw.crtc[c].fb = NoFb

Lost ==
  phase = "lost" =>
    hw.vga = PostVga /\ (~PostVga => \A c \in Crtcs : ~Reading(hw.crtc[c]))

VgaGone ==
  (PostVga => vgaRec) => (phase = "up" => ~hw.vga) /\ (asleep # {} => ~saved.vga)

Alone == (\A m, n \in Nubs : m = n) \/ (\A d, e \in Depths : d = e)

Fresh ==
  Alone /\ phase # "off" => \A n \in ready :
    /\ cache[n].mode = cur[n] /\ cache[n].geo = geo[n]
    /\ cache[n].depth = geo[n].depth /\ cache[n].bpp = geo[n].depth /\ depth = geo[n].depth

IInv ==
  Typed /\ Phases /\ SetUp /\ McFollows /\ Lost /\ VgaGone /\ Fresh /\ SetupQuiet

LEMMA SameCard ==
  ASSUME UNCHANGED card
  PROVE  /\ Depths' = Depths /\ Active' = Active /\ WithModes' = WithModes
         /\ Nubs' = Nubs /\ PostVga' = PostVga /\ Faults' = Faults /\ (Alone' <=> Alone)
         /\ \A c \in Crtcs : Timing(c, cur)' = Timing(c, cur')
  BY DEF Depths, Active, WithModes, Nubs, PostVga, Faults, Alone, Timing, Scaled

(* A step that only changes power and blanking.                            *)
LEMMA PowerInv ==
  ASSUME IInv, UNCHANGED <<card, soft, saved, life, cache, asleep, phase>>,
         Untouched(hw, hw'), hw'.vga = hw.vga,
         \A c \in Crtcs : SameMode(hw.crtc[c], hw'.crtc[c]),
         phase = "up" => \A c \in WithModes : hw'.crtc[c].enable => Lit(hw'.crtc[c]),
         phase = "lost" => \A c \in Crtcs : Reading(hw'.crtc[c]) => Reading(hw.crtc[c])
  PROVE  IInv'
<1>1. UNCHANGED <<card, cur, depth, geo, saved, ready, absent, vgaRec, cache, asleep, phase>>
  BY DEF soft, life
<1>2. hw' \in HwType /\ hw'.mc = hw.mc /\ hw'.busy = hw.busy /\ WithModes \subseteq Crtcs
  BY CardIs DEF Untouched, IInv, Typed
<1>3. Typed' /\ Phases' /\ Fresh'
  BY <1>1, <1>2, SameCard DEF IInv, Typed, Phases, Fresh
<1>4. SetUp'
  <2>1. phase' = "up" => \A c \in WithModes :
          /\ AsMode(hw'.crtc[c], geo[c], Timing(c, cur))
          /\ hw'.crtc[c].enable => Lit(hw'.crtc[c])
    BY <1>1, <1>2 DEF IInv, SetUp, AsMode, SameMode
  <2> QED
    BY <1>1, <1>2, <2>1, SameCard DEF IInv, SetUp
<1>5. McFollows'
  BY <1>1, <1>2, SameCard DEF IInv, McFollows, SameMode
<1>6. Lost' /\ VgaGone'
  BY <1>1, SameCard DEF IInv, Lost, VgaGone
<1>7. SetupQuiet'
  BY <1>2 DEF IInv, SetupQuiet
<1> QED
  BY <1>3, <1>4, <1>5, <1>6, <1>7 DEF IInv

LEMMA AVPowerOnInv ==
  ASSUME IInv, NEW n \in Nubs, AVPowerOn(n), UNCHANGED card PROVE IInv'
<1>1. /\ phase = "up" /\ hw' = DPMSOn(hw)
      /\ UNCHANGED <<card, soft, saved, life, cache, asleep, phase>>
  BY DEF AVPowerOn, Awake
<1>2. /\ Untouched(hw, hw') /\ hw'.vga = hw.vga
      /\ \A c \in Crtcs : SameMode(hw.crtc[c], hw'.crtc[c])
      /\ \A c \in Crtcs \cap Active : Lit(hw'.crtc[c])
  BY <1>1, DPMSOnIs DEF IInv, Typed
<1>3. \A c \in WithModes : Lit(hw'.crtc[c])
  BY <1>2, CardIs DEF IInv, Typed
<1> QED
  BY <1>1, <1>2, <1>3, PowerInv

LEMMA AVPowerOffInv ==
  ASSUME IInv, NEW n \in Nubs, AVPowerOff(n), UNCHANGED card PROVE IInv'
<1>1. PICK luck \in Lucks : hw' = DPMSOff(hw, luck)
  BY DEF AVPowerOff
<1>2. phase = "up" /\ UNCHANGED <<card, soft, saved, life, cache, asleep, phase>>
  BY DEF AVPowerOff, Awake
<1>3. /\ Untouched(hw, hw') /\ hw'.vga = hw.vga
      /\ \A c \in Crtcs : SameMode(hw.crtc[c], hw'.crtc[c])
      /\ \A c \in Crtcs \cap Active : ~hw'.crtc[c].enable
  BY <1>1, DPMSOffIs DEF IInv, Typed
<1>4. \A c \in WithModes : ~hw'.crtc[c].enable
  BY <1>3, CardIs DEF IInv, Typed
<1> QED
  BY <1>2, <1>3, <1>4, PowerInv

LEMMA FinishFrameInv ==
  ASSUME IInv, NEW c \in Crtcs, FinishFrame(c), UNCHANGED card PROVE IInv'
<1> DEFINE r == [hw.crtc[c] EXCEPT !.scan = FALSE]
<1>1. hw' = FrameEnd(hw, c) /\ UNCHANGED <<card, soft, saved, life, cache, asleep, phase>>
  BY DEF FinishFrame
<1>2. hw \in HwType /\ hw.crtc[c] \in CrtcRegs
  BY HwIs DEF IInv, Typed
<1>3. /\ r \in CrtcRegs /\ SameMode(hw.crtc[c], r) /\ r.enable = hw.crtc[c].enable
      /\ Lit(hw.crtc[c]) => Lit(r)
      /\ ~Reading(r)
  BY <1>2 DEF CrtcRegs, SameMode, Lit, Reading
<1>4. hw' = OnCrtc(hw, c, r)
  BY <1>1, <1>2 DEF FrameEnd, OnCrtc, HwType
<1> HIDE DEF r
<1>5. /\ Untouched(hw, hw') /\ hw'.vga = hw.vga /\ hw'.crtc[c] = r
      /\ \A d \in Crtcs \ {c} : hw'.crtc[d] = hw.crtc[d]
  BY <1>2, <1>3, <1>4, OnCrtcIs DEF Untouched
<1>6. \A d \in Crtcs : SameMode(hw.crtc[d], hw'.crtc[d])
  BY <1>3, <1>5 DEF SameMode
<1>7. phase = "up" => \A d \in WithModes : hw'.crtc[d].enable => Lit(hw'.crtc[d])
  <2>1. WithModes \subseteq Crtcs
    BY CardIs DEF IInv, Typed
  <2>2. phase = "up" => \A d \in WithModes : hw.crtc[d].enable => Lit(hw.crtc[d])
    BY DEF IInv, SetUp
  <2> QED
    BY <1>3, <1>5, <2>1, <2>2
<1>8. \A d \in Crtcs : Reading(hw'.crtc[d]) => Reading(hw.crtc[d])
  BY <1>3, <1>5
<1> QED
  BY <1>1, <1>5, <1>6, <1>7, <1>8, PowerInv

LEMMA AttachSecondInv ==
  ASSUME IInv, NEW n \in Nubs, AttachSecond(n), UNCHANGED card PROVE IInv'
<1>1. /\ phase = "up" /\ n \notin ready /\ ready' = ready \cup {n}
      /\ cache' = [cache EXCEPT ![n] = Copied(geo[n])]
      /\ UNCHANGED <<card, hw, cur, depth, geo, saved, vgaRec, asleep, phase>>
  BY DEF AttachSecond, soft
<1>2. n \in WithModes /\ WithModes \subseteq Crtcs /\ Nubs \subseteq Crtcs /\ Depth32 \in Depths
  BY CardIs DEF IInv, Typed
<1>3. geo[n].mode = cur[n] /\ geo[n].depth \in Depths
  BY <1>1, <1>2 DEF IInv, SetUp
<1>4. /\ cache'[n].mode = cur[n] /\ cache'[n].geo = geo[n]
      /\ cache'[n].depth = Depth32 /\ cache'[n].bpp = geo[n].depth
      /\ \A m \in Nubs \ {n} : cache'[m] = cache[m] /\ DOMAIN cache' = Nubs
  BY <1>1, <1>3 DEF IInv, Typed, Copied
<1>5. DOMAIN cache' = Nubs
  BY <1>1 DEF IInv, Typed
<1>6. Typed'
  BY <1>1, <1>3, <1>4, <1>5, SameCard DEF IInv, Typed
<1>7. Phases' /\ Lost' /\ VgaGone' /\ SetupQuiet'
  BY <1>1, SameCard DEF IInv, Phases, Lost, VgaGone, SetupQuiet
<1>8. SetUp'
  BY <1>1, <1>2, SameCard DEF IInv, SetUp
<1>9. McFollows'
  BY <1>1, SameCard DEF IInv, McFollows
<1>10. Fresh'
  <2> SUFFICES ASSUME Alone, NEW m \in ready'
               PROVE  /\ cache'[m].mode = cur[m] /\ cache'[m].geo = geo[m]
                      /\ cache'[m].depth = geo[m].depth /\ cache'[m].bpp = geo[m].depth
                      /\ depth = geo[m].depth
    BY <1>1, SameCard DEF Fresh
  <2>1. \A d, e \in Depths : d = e
    BY <1>1 DEF IInv, Typed, Phases, Alone
  <2>2. geo[n].depth = Depth32 /\ depth = Depth32
    BY <1>2, <1>3, <2>1 DEF IInv, Typed
  <2>3. CASE m = n
    BY <1>4, <2>2, <2>3
  <2>4. CASE m # n
    <3>1. m \in ready /\ m \in Nubs
      BY <1>1, <2>4 DEF IInv, Typed
    <3>2. /\ cache[m].mode = cur[m] /\ cache[m].geo = geo[m]
          /\ cache[m].depth = geo[m].depth /\ cache[m].bpp = geo[m].depth
          /\ depth = geo[m].depth
      BY <1>1, <3>1 DEF IInv, Fresh
    <3> QED
      BY <1>4, <2>4, <3>1, <3>2
  <2> QED
    BY <2>3, <2>4
<1> QED
  BY <1>6, <1>7, <1>8, <1>9, <1>10 DEF IInv

(* What a mode set makes of the invariant, with the CRTCs' geometry.       *)
LEMMA ModeSetIs ==
  ASSUME IInv, UNCHANGED card, NEW dep \in Depths, cur' \in Curs,
         geo' = NewGeo(cur', dep), ModeSet(hw', cur', dep), phase' = "up", asleep' = {}
  PROVE  /\ geo' \in [Crtcs -> Fbs]
         /\ \A c \in WithModes : geo'[c] = [mode |-> cur'[c], depth |-> dep]
         /\ SetUp'
<1>1. WithModes \subseteq Crtcs /\ dep \in Nat
  BY CardIs DEF IInv, Typed
<1>2. ASSUME NEW c \in WithModes
      PROVE  [mode |-> cur'[c], depth |-> dep] \in Fbs
  <2>1. cur'[c] \in ModeOrNone
    BY <1>1 DEF Curs
  <2> QED
    BY <1>1, <2>1 DEF Fbs
<1>3. /\ geo' \in [Crtcs -> Fbs]
      /\ \A c \in WithModes : geo'[c] = [mode |-> cur'[c], depth |-> dep]
  BY <1>1, <1>2 DEF NewGeo, IInv, Typed
<1>4. ASSUME NEW c \in WithModes PROVE geo'[c].mode = cur'[c] /\ geo'[c].depth = dep
  <2>1. geo'[c] = [mode |-> cur'[c], depth |-> dep]
    BY <1>3
  <2> QED
    BY <2>1
<1>5. \A c \in WithModes : /\ AsMode(hw'.crtc[c], geo'[c], Timing(c, cur'))
                           /\ Lit(hw'.crtc[c])
  BY <1>3 DEF ModeSet
<1>6. SetUp'
  BY <1>1, <1>4, <1>5, SameCard DEF SetUp
<1> QED
  BY <1>3, <1>6

LEMMA AttachFirstInv ==
  ASSUME IInv, NEW n \in Nubs, AttachFirst(n), UNCHANGED card PROVE IInv'
<1>1. PICK luck \in Lucks :
        LET init == ScreenInit(hw, cur, depth, luck)
        IN  /\ hw' = init.h
            /\ IF init.ok
                 THEN /\ phase' = "up"
                      /\ geo' = NewGeo(cur, depth)
                      /\ ready' = {n}
                      /\ cache' = [cache EXCEPT ![n] = Copied(geo'[n])]
                      /\ UNCHANGED absent
                 ELSE /\ absent' = absent \cup {n}
                      /\ UNCHANGED <<geo, ready, cache, phase>>
  BY DEF AttachFirst
<1> DEFINE init == ScreenInit(hw, cur, depth, luck)
<1>2. /\ phase = "off" /\ vgaRec' = hw.vga
      /\ UNCHANGED <<card, cur, depth, saved, asleep>>
  BY DEF AttachFirst
<1>3. /\ card \in Cards /\ hw \in HwType /\ cur \in Curs /\ depth \in Depths
      /\ depth = Depth32 /\ ready = {} /\ asleep = {} /\ DOMAIN cache = Nubs
  BY <1>2 DEF IInv, Typed, Phases
<1>4. /\ depth \in Nat /\ n \in WithModes /\ Nubs \subseteq Crtcs /\ hw.vga \in BOOLEAN
      /\ WithModes \subseteq Crtcs
  BY <1>3, CardIs, HwIs
<1>5. /\ hw' \in HwType /\ ~hw'.vga /\ hw'.busy = hw.busy
      /\ init.ok => ModeSet(hw', cur, depth) /\ hw'.mc = "driver"
      /\ ~init.ok => \A c \in Crtcs : hw'.crtc[c].fb = hw.crtc[c].fb
  BY <1>1, <1>3, <1>4, ScreenInitIs
<1> HIDE DEF init
<1>6. SetupQuiet'
  BY <1>5 DEF IInv, SetupQuiet
<1>7. CASE init.ok
  <2>1. /\ phase' = "up" /\ geo' = NewGeo(cur, depth) /\ ready' = {n}
        /\ cache' = [cache EXCEPT ![n] = Copied(geo'[n])]
    BY <1>1, <1>7 DEF init
  <2>2. /\ geo' \in [Crtcs -> Fbs] /\ SetUp'
        /\ \A c \in WithModes : geo'[c] = [mode |-> cur[c], depth |-> depth]
    BY <1>2, <1>3, <1>5, <1>7, <2>1, ModeSetIs
  <2>3. /\ cache'[n].mode = cur[n] /\ cache'[n].geo = geo'[n]
        /\ cache'[n].depth = Depth32 /\ cache'[n].bpp = geo'[n].depth
        /\ geo'[n].depth = depth /\ DOMAIN cache' = Nubs
    <3>1. cache'[n] = Copied(geo'[n]) /\ DOMAIN cache' = Nubs
      BY <1>3, <2>1
    <3>2. geo'[n] = [mode |-> cur[n], depth |-> depth]
      BY <1>4, <2>2
    <3>3. geo'[n].mode = cur[n] /\ geo'[n].depth = depth
      BY <3>2
    <3> QED
      BY <3>1, <3>3 DEF Copied
  <2>4. Typed'
    BY <1>2, <1>3, <1>4, <1>5, <2>1, <2>2, <2>3, SameCard DEF Typed
  <2>5. Phases' /\ Lost'
    BY <2>1 DEF Phases, Lost
  <2>6. McFollows' /\ VgaGone'
    BY <1>2, <1>3, <1>5, <1>7, <2>1 DEF McFollows, VgaGone
  <2>7. Fresh'
    BY <1>2, <1>3, <2>1, <2>3 DEF Fresh
  <2> QED
    BY <1>6, <2>2, <2>4, <2>5, <2>6, <2>7 DEF IInv
<1>8. CASE ~init.ok
  <2>1. UNCHANGED <<geo, ready, cache, phase>>
    BY <1>1, <1>8 DEF init
  <2>2. Typed'
    BY <1>2, <1>3, <1>4, <1>5, <2>1, SameCard DEF IInv, Typed
  <2>3. Phases' /\ Lost' /\ SetUp' /\ Fresh'
    BY <1>2, <1>3, <2>1 DEF IInv, Phases, Lost, SetUp, Fresh
  <2>4. McFollows' /\ VgaGone'
    BY <1>2, <1>3, <1>5, <1>8, <2>1, SameCard DEF IInv, McFollows, VgaGone
  <2> QED
    BY <1>6, <2>2, <2>3, <2>4 DEF IInv
<1> QED
  BY <1>7, <1>8

LEMMA CscSwitchModeInv ==
  ASSUME IInv, NEW n \in Nubs, NEW m \in Modes, NEW dep \in Depths,
         CscSwitchMode(n, m, dep), UNCHANGED card
  PROVE  IInv'
<1> DEFINE mode == [cur EXCEPT ![n] = m]
<1>1. PICK luck \in Lucks :
        LET sw == SwitchMode(hw, mode, dep, luck)
        IN  /\ hw' = sw.h
            /\ IF sw.ok
                 THEN /\ cur' = mode
                      /\ depth' = dep
                      /\ geo' = NewGeo(mode, dep)
                      /\ cache' = [cache EXCEPT ![n] =
                           [mode |-> m, geo |-> geo'[n], depth |-> dep,
                            bpp |-> geo'[n].depth]]
                 ELSE /\ depth' = DepthAfterFailure(n, dep)
                      /\ UNCHANGED <<cur, geo, cache>>
  BY DEF CscSwitchMode
<1> DEFINE sw == SwitchMode(hw, mode, dep, luck)
<1>2. /\ phase = "up" /\ n \in ready /\ asleep = {}
      /\ UNCHANGED <<card, saved, ready, vgaRec, asleep, phase>>
  BY DEF CscSwitchMode, life
<1>3. /\ card \in Cards /\ hw \in HwType /\ cur \in Curs /\ DOMAIN cache = Nubs
      /\ ready \subseteq Nubs /\ cache[n].bpp \in Depths /\ vgaRec \in BOOLEAN
  BY <1>2 DEF IInv, Typed
<1>4. dep \in Nat /\ n \in WithModes /\ Nubs \subseteq WithModes /\ WithModes \subseteq Crtcs
  BY <1>3, CardIs
<1>5. mode \in Curs /\ mode[n] = m /\ \A c \in Crtcs \ {n} : mode[c] = cur[c]
  BY <1>3, <1>4 DEF Curs, ModeOrNone
<1> HIDE DEF mode
<1>6. /\ hw' \in HwType /\ ~hw'.vga /\ hw'.busy = hw.busy /\ hw'.mc \in {hw.mc, "driver"}
      /\ sw.ok => ModeSet(hw', mode, dep)
      /\ ~sw.ok => \A c \in Crtcs : Kept(hw.crtc[c], hw'.crtc[c])
  BY <1>1, <1>3, <1>4, <1>5, SwitchModeIs
<1> HIDE DEF sw
<1>7. SetupQuiet' /\ Phases' /\ Lost'
  BY <1>2, <1>6 DEF IInv, SetupQuiet, Phases, Lost
<1>8. McFollows' /\ VgaGone'
  BY <1>2, <1>6, SameCard DEF IInv, McFollows, VgaGone
<1>9. CASE sw.ok
  <2>1. /\ cur' = mode /\ depth' = dep /\ geo' = NewGeo(mode, dep)
        /\ cache' = [cache EXCEPT ![n] = [mode |-> m, geo |-> geo'[n], depth |-> dep,
                                          bpp |-> geo'[n].depth]]
    BY <1>1, <1>9 DEF sw
  <2>2. /\ geo' \in [Crtcs -> Fbs] /\ SetUp'
        /\ \A c \in WithModes : geo'[c] = [mode |-> mode[c], depth |-> dep]
    BY <1>2, <1>5, <1>6, <1>9, <2>1, ModeSetIs
  <2>3. /\ cache'[n].mode = m /\ cache'[n].geo = geo'[n] /\ cache'[n].depth = dep
        /\ cache'[n].bpp = geo'[n].depth /\ geo'[n].depth = dep
        /\ DOMAIN cache' = Nubs /\ \A k \in Nubs \ {n} : cache'[k] = cache[k]
    <3>1. /\ cache'[n] = [mode |-> m, geo |-> geo'[n], depth |-> dep, bpp |-> geo'[n].depth]
          /\ DOMAIN cache' = Nubs /\ \A k \in Nubs \ {n} : cache'[k] = cache[k]
      BY <1>3, <2>1
    <3>2. geo'[n] = [mode |-> mode[n], depth |-> dep]
      BY <1>4, <2>2
    <3>3. geo'[n].depth = dep
      BY <3>2
    <3> QED
      BY <3>1, <3>3
  <2>4. \A k \in ready : cache'[k].bpp \in Depths
    BY <1>3, <2>3 DEF IInv, Typed
  <2>5. Typed'
    BY <1>2, <1>3, <1>5, <1>6, <2>1, <2>2, <2>3, <2>4, SameCard DEF IInv, Typed
  <2>6. Fresh'
    <3> SUFFICES ASSUME Alone, NEW k \in ready
                 PROVE  /\ cache'[k].mode = mode[k] /\ cache'[k].geo = geo'[k]
                        /\ cache'[k].depth = geo'[k].depth /\ cache'[k].bpp = geo'[k].depth
                        /\ dep = geo'[k].depth
      BY <1>2, <2>1, SameCard DEF Fresh
    <3>1. CASE k = n
      BY <1>5, <2>3, <3>1
    <3>2. CASE k # n
      <4>1. k \in Nubs /\ k \in WithModes /\ k \in Crtcs
        BY <1>3, <1>4
      <4>2. \A d, e \in Depths : d = e
        BY <3>2, <4>1 DEF Alone
      <4>3. /\ cache[k].mode = cur[k] /\ cache[k].geo = geo[k]
            /\ cache[k].depth = geo[k].depth /\ cache[k].bpp = geo[k].depth
        BY <1>2 DEF IInv, Fresh
      <4>4. geo[k].mode = cur[k] /\ geo[k].depth \in Depths /\ geo[k] \in Fbs
        BY <1>2, <4>1 DEF IInv, SetUp, Typed
      <4>5. geo[k] = [mode |-> cur[k], depth |-> geo[k].depth]
        BY <4>4 DEF Fbs
      <4>6. geo'[k] = [mode |-> mode[k], depth |-> dep]
        BY <2>2, <4>1
      <4>7. mode[k] = cur[k] /\ geo[k].depth = dep
        BY <1>5, <3>2, <4>1, <4>2, <4>4
      <4>8. geo'[k] = geo[k]
        BY <4>5, <4>6, <4>7
      <4> QED
        BY <2>3, <3>2, <4>1, <4>3, <4>7, <4>8
    <3> QED
      BY <3>1, <3>2
  <2> QED
    BY <1>7, <1>8, <2>2, <2>5, <2>6 DEF IInv
<1>10. CASE ~sw.ok
  <2>1. depth' = cache[n].bpp /\ UNCHANGED <<cur, geo, cache>>
    BY <1>1, <1>10 DEF sw, DepthAfterFailure
  <2>2. Typed'
    BY <1>2, <1>3, <1>6, <2>1, SameCard DEF IInv, Typed
  <2>3. SetUp'
    <3>1. \A c \in WithModes :
            /\ AsMode(hw'.crtc[c], geo[c], Timing(c, cur))
            /\ hw'.crtc[c].enable => Lit(hw'.crtc[c])
      <4>1. \A c \in WithModes : Kept(hw.crtc[c], hw'.crtc[c])
        BY <1>4, <1>6, <1>10
      <4> QED
        BY <1>2, <4>1 DEF IInv, SetUp, AsMode, Kept, Stopped, SameMode
    <3> QED
      BY <1>2, <1>4, <2>1, <3>1, SameCard DEF IInv, SetUp
  <2>4. Fresh'
    BY <1>2, <2>1, SameCard DEF IInv, Fresh
  <2> QED
    BY <1>7, <1>8, <2>2, <2>3, <2>4 DEF IInv
<1> QED
  BY <1>9, <1>10

LEMMA HardwareSleepInv ==
  ASSUME IInv, NEW n \in Nubs, HardwareSleep(n), UNCHANGED card PROVE IInv'
<1>1. PICK luck \in Lucks : hw' = DPMSOff(hw, luck)
  BY DEF HardwareSleep
<1>2. /\ phase = "up" /\ n \in ready /\ asleep' = asleep \cup {n} /\ saved' = Save(hw')
      /\ UNCHANGED <<card, cur, depth, geo, ready, vgaRec, cache, phase>>
  BY DEF HardwareSleep, Awake, soft, life
<1>3. /\ Untouched(hw, hw') /\ hw'.vga = hw.vga
      /\ \A c \in Crtcs : SameMode(hw.crtc[c], hw'.crtc[c])
      /\ \A c \in Crtcs \cap Active : ~hw'.crtc[c].enable
  BY <1>1, DPMSOffIs DEF IInv, Typed
<1>4. hw' \in HwType /\ hw'.mc = hw.mc /\ hw'.busy = hw.busy
  BY <1>3 DEF Untouched
<1>5. WithModes \subseteq Crtcs /\ WithModes \subseteq Active
  BY CardIs DEF IInv, Typed
<1>6. /\ saved' \in SaveType /\ saved'.mc = hw'.mc /\ saved'.vga = hw'.vga
      /\ saved'.crtc = hw'.crtc
  BY <1>2, <1>4 DEF Save, SaveType, HwType
<1>7. Typed'
  BY <1>2, <1>4, <1>6, SameCard DEF IInv, Typed
<1>8. Phases' /\ Lost'
  BY <1>2 DEF IInv, Phases, Lost
<1>9. SetUp'
  <2>1. \A c \in WithModes : AsMode(hw'.crtc[c], geo[c], Timing(c, cur)) /\ ~hw'.crtc[c].enable
    BY <1>2, <1>3, <1>5 DEF IInv, SetUp, AsMode, SameMode
  <2> QED
    BY <1>2, <1>5, <1>6, <2>1, SameCard DEF IInv, SetUp
<1>10. McFollows' /\ VgaGone'
  BY <1>2, <1>3, <1>4, <1>6, SameCard DEF IInv, McFollows, VgaGone
<1>11. Fresh' /\ SetupQuiet'
  BY <1>2, <1>4, SameCard DEF IInv, Fresh, SetupQuiet
<1> QED
  BY <1>7, <1>8, <1>9, <1>10, <1>11 DEF IInv

LEMMA HardwareWakeInv ==
  ASSUME IInv, NEW n \in Nubs, HardwareWake(n), UNCHANGED card PROVE IInv'
<1>1. PICK luck \in Lucks : hw' = DPMSOn(Restore(hw, saved, vgaRec, luck))
  BY DEF HardwareWake
<1> DEFINE r == Restore(hw, saved, vgaRec, luck)
<1>2. /\ n \in asleep /\ asleep' = asleep \ {n} /\ phase' = "up"
      /\ UNCHANGED <<card, cur, depth, geo, saved, ready, vgaRec, cache>>
  BY DEF HardwareWake, soft, life
<1>3. /\ hw \in HwType /\ saved \in SaveType /\ vgaRec \in BOOLEAN /\ phase \in {"up", "lost"}
      /\ ready # {}
  BY <1>2 DEF IInv, Typed, Phases
<1>4. /\ r \in HwType /\ ("setup" \in r.busy => "setup" \in hw.busy)
      /\ r.vga = IF vgaRec THEN saved.vga ELSE hw.vga
      /\ \A c \in Crtcs : SameMode(saved.crtc[c], r.crtc[c])
      /\ r.mc \in {hw.mc, saved.mc}
      /\ Quiet(hw) /\ "mc" \notin Faults => r.mc = saved.mc
  BY <1>3, RestoreIs
<1> HIDE DEF r
<1>5. /\ Untouched(r, hw') /\ hw'.vga = r.vga
      /\ \A c \in Crtcs : SameMode(r.crtc[c], hw'.crtc[c])
      /\ \A c \in Crtcs \cap Active : Lit(hw'.crtc[c])
  BY <1>1, <1>4, DPMSOnIs DEF r
<1>6. hw' \in HwType /\ hw'.mc = r.mc /\ hw'.busy = r.busy
  BY <1>5 DEF Untouched
<1>7. WithModes \subseteq Crtcs /\ WithModes \subseteq Active /\ PostVga \in BOOLEAN
  BY CardIs DEF IInv, Typed
<1>8. Typed'
  BY <1>2, <1>3, <1>6, SameCard DEF IInv, Typed
<1>9. Phases' /\ Lost'
  BY <1>2, <1>3 DEF Phases, Lost
<1>10. SetUp'
  <2>1. \A c \in WithModes : AsMode(hw'.crtc[c], geo[c], Timing(c, cur)) /\ Lit(hw'.crtc[c])
    <3>1. \A c \in WithModes : AsMode(saved.crtc[c], geo[c], Timing(c, cur))
      BY <1>2 DEF IInv, SetUp
    <3> QED
      BY <1>4, <1>5, <1>7, <3>1 DEF AsMode, SameMode
  <2>2. \A c \in WithModes : geo[c].mode = cur[c] /\ geo[c].depth \in Depths
    BY <1>3 DEF IInv, SetUp
  <2>3. asleep' # {} => \A c \in WithModes : AsMode(saved.crtc[c], geo[c], Timing(c, cur))
    BY <1>2 DEF IInv, SetUp
  <2> QED
    BY <1>2, <1>7, <2>1, <2>2, <2>3, SameCard DEF SetUp
<1>11. McFollows'
  <2> SUFFICES ASSUME ~PostVga, "mc" \notin Faults PROVE hw'.mc = "driver" /\ saved'.mc = "driver"
    BY <1>2, SameCard DEF McFollows
  <2>1. saved.mc = "driver"
    BY <1>2 DEF IInv, McFollows
  <2>2. CASE phase = "up"
    BY <1>2, <1>4, <1>6, <2>1, <2>2 DEF IInv, McFollows
  <2>3. CASE phase = "lost"
    <3>1. Quiet(hw)
      BY <1>7, <2>3 DEF IInv, Lost, Quiet
    <3> QED
      BY <1>2, <1>4, <1>6, <2>1, <3>1
  <2> QED
    BY <1>3, <2>2, <2>3
<1>12. VgaGone'
  <2> SUFFICES ASSUME PostVga => vgaRec PROVE ~hw'.vga /\ ~saved'.vga
    BY <1>2, SameCard DEF VgaGone
  <2>1. ~saved.vga
    BY <1>2 DEF IInv, VgaGone
  <2>2. CASE vgaRec
    BY <1>2, <1>4, <1>5, <2>1, <2>2
  <2>3. CASE ~vgaRec
    <3>1. ~hw.vga
      BY <1>3, <2>3 DEF IInv, VgaGone, Lost
    <3> QED
      BY <1>2, <1>4, <1>5, <2>1, <2>3, <3>1
  <2> QED
    BY <2>2, <2>3
<1>13. Fresh'
  BY <1>2, <1>3, SameCard DEF IInv, Fresh
<1>14. SetupQuiet'
  BY <1>4, <1>6 DEF IInv, SetupQuiet
<1> QED
  BY <1>8, <1>9, <1>10, <1>11, <1>12, <1>13, <1>14 DEF IInv

(* What the BIOS leaves.                                                   *)
LEMMA PoweredOnIs ==
  ASSUME NEW vga \in BOOLEAN, NEW mc \in {"driver", "bios"}
  PROVE  LET h == PoweredOn(vga, mc)
         IN  /\ h \in HwType /\ h.vga = vga /\ h.busy = {}
             /\ \A c \in Crtcs : h.crtc[c].fb = NoFb /\ (~vga => ~Reading(h.crtc[c]))
<1> DEFINE on(c) == vga /\ c = 0
           f == [c \in Crtcs |-> [OffCrtc EXCEPT !.enable = on(c), !.scan = on(c)]]
<1>1. \A c \in Crtcs : on(c) \in BOOLEAN
  BY Zenon
<1>2. \A c \in Crtcs : ~vga => on(c) = FALSE
  BY Zenon
<1>3. \A c \in Crtcs : f[c] = [OffCrtc EXCEPT !.enable = on(c), !.scan = on(c)]
  BY Zenon
<1>4. PoweredOn(vga, mc) = [mc |-> mc, vga |-> vga, busy |-> {}, crtc |-> [c \in Crtcs |-> f[c]]]
  BY DEF PoweredOn
<1> HIDE DEF on, f
<1>5. OffCrtc \in CrtcRegs /\ OffCrtc.fb = NoFb
  BY DEF OffCrtc, CrtcRegs, NoFb, Fbs, ModeOrNone
<1>6. ASSUME NEW c \in Crtcs
      PROVE  f[c] \in CrtcRegs /\ f[c].fb = NoFb /\ (~vga => ~Reading(f[c]))
  <2>1. on(c) \in BOOLEAN /\ (~vga => on(c) = FALSE)
    BY <1>1, <1>2
  <2>2. f[c] = [OffCrtc EXCEPT !.enable = on(c), !.scan = on(c)]
    BY <1>3
  <2> QED
    BY <1>5, <2>1, <2>2 DEF CrtcRegs, Reading
<1> QED
  BY <1>4, <1>6 DEF HwType

LEMMA PowerLossInv ==
  ASSUME IInv, PowerLoss, UNCHANGED card PROVE IInv'
<1>1. PICK mc \in {"driver", "bios"} : hw' = [PoweredOn(PostVga, mc) EXCEPT !.busy = hw.busy]
  BY DEF PowerLoss
<1>2. /\ phase = "up" /\ ready # {} /\ asleep = ready /\ phase' = "lost"
      /\ UNCHANGED <<card, cur, depth, geo, saved, ready, vgaRec, cache, asleep>>
  BY DEF PowerLoss, soft, life
<1> DEFINE h == PoweredOn(PostVga, mc)
<1>3. /\ h \in HwType /\ h.vga = PostVga
      /\ \A c \in Crtcs : h.crtc[c].fb = NoFb /\ (~PostVga => ~Reading(h.crtc[c]))
  BY CardIs, PoweredOnIs DEF IInv, Typed
<1> HIDE DEF h
<1>4. /\ hw' \in HwType /\ hw'.vga = PostVga /\ hw'.crtc = h.crtc /\ hw'.busy = hw.busy
  <2>1. hw' = [h EXCEPT !.busy = hw.busy] /\ hw \in HwType
    BY <1>1 DEF h, IInv, Typed
  <2> QED
    BY <1>3, <2>1 DEF HwType
<1>5. WithModes \subseteq Crtcs
  BY CardIs DEF IInv, Typed
<1>6. Typed'
  BY <1>2, <1>4, SameCard DEF IInv, Typed
<1>7. Phases' /\ Lost'
  BY <1>2, <1>3, <1>4, SameCard DEF Phases, Lost
<1>8. SetUp'
  BY <1>2, <1>5, SameCard DEF IInv, SetUp
<1>9. McFollows' /\ VgaGone'
  BY <1>2, <1>3, <1>4, SameCard DEF IInv, McFollows, VgaGone
<1>10. Fresh' /\ SetupQuiet'
  BY <1>2, <1>4, SameCard DEF IInv, Fresh, SetupQuiet
<1> QED
  BY <1>6, <1>7, <1>8, <1>9, <1>10 DEF IInv

-----------------------------------------------------------------------------
LEMMA InitInv == ASSUME Init PROVE IInv
<1>1. card \in Cards
  BY DEF Init
<1>2. PICK vga \in BOOLEAN, mc \in {"driver", "bios"} : hw = PoweredOn(vga, mc)
  BY DEF Init
<1>3. hw \in HwType /\ hw.busy = {} /\ \A c \in Crtcs : hw.crtc[c].fb = NoFb
  BY <1>2, PoweredOnIs
<1>4. geo \in [Crtcs -> Fbs]
  BY DEF Init, NoFb, Fbs, ModeOrNone
<1>5. Typed
  BY <1>1, <1>3, <1>4, CardIs DEF Init, Typed, Curs, ModeOrNone
<1>6. Phases /\ SetUp /\ McFollows /\ Lost /\ VgaGone /\ Fresh /\ SetupQuiet
  BY <1>3 DEF Init, Phases, SetUp, McFollows, Lost, VgaGone, Fresh, SetupQuiet
<1> QED
  BY <1>5, <1>6 DEF IInv

LEMMA StepInv == ASSUME IInv, [Next]_vars PROVE IInv'
<1>1. CASE UNCHANGED vars
  <2>1. /\ UNCHANGED <<card, soft, saved, life, cache, asleep, phase>> /\ hw' = hw
    BY <1>1 DEF vars
  <2>2. Untouched(hw, hw') /\ \A c \in Crtcs : SameMode(hw.crtc[c], hw'.crtc[c])
    BY <2>1 DEF Untouched, SameMode, IInv, Typed
  <2>3. phase = "up" => \A c \in WithModes : hw'.crtc[c].enable => Lit(hw'.crtc[c])
    BY <2>1 DEF IInv, SetUp
  <2> QED
    BY <2>1, <2>2, <2>3, PowerInv
<1>2. CASE Next
  BY <1>2, AttachFirstInv, AttachSecondInv, CscSwitchModeInv, AVPowerOnInv, AVPowerOffInv,
     HardwareSleepInv, HardwareWakeInv, FinishFrameInv, PowerLossInv DEF Next
<1> QED
  BY <1>1, <1>2

(* The invariant of every reachable state.                                 *)
THEOREM Invariant == Spec => []IInv
<1>1. Init => IInv
  BY InitInv
<1>2. IInv /\ [Next]_vars => IInv'
  BY StepInv
<1> QED
  BY <1>1, <1>2, PTL DEF Spec

(* The MC's FB location is set up only where nothing reads memory, on all  *)
(* paths through a mode set and whichever CRTC timed out before            *)
(* (rhd_mc.c:715, rhd_driver.c:551).                                       *)
THEOREM SetUpQuiet == Spec => []SetupQuiet
<1>1. IInv => SetupQuiet
  BY DEF IInv
<1> QED
  BY <1>1, Invariant, PTL

(* What is lit shows the mode that was last set, with its timing, clock    *)
(* and outputs: through failed switches, power states, sleep, loss of      *)
(* power and the wake of one nub after the other (rhd_driver.c:1517).      *)
THEOREM LitShowsMode == Spec => []ShowsCurrentMode
<1>1. IInv => ShowsCurrentMode
  <2> SUFFICES ASSUME IInv, phase = "up", NEW c \in WithModes, hw.crtc[c].enable
               PROVE  Shows(c)
    BY DEF ShowsCurrentMode
  <2>1. c \in Crtcs
    BY CardIs DEF IInv, Typed
  <2>2. AsMode(hw.crtc[c], geo[c], Timing(c, cur)) /\ Lit(hw.crtc[c]) /\ geo[c].mode = cur[c]
    BY DEF IInv, SetUp
  <2>3. geo[c] \in Fbs
    BY <2>1 DEF IInv, Typed
  <2>4. geo[c] = [mode |-> cur[c], depth |-> geo[c].depth]
    BY <2>2, <2>3 DEF Fbs
  <2> QED
    BY <2>2, <2>4 DEF Shows, AsMode, Lit
<1> QED
  BY <1>1, Invariant, PTL

(* What is scanned out is where the MC maps it, on cards that post no VGA  *)
(* and whose MC goes idle (rhd_mc.c:652).                                  *)
THEOREM ScansMapped == Spec => []SurfaceMapped
<1>1. IInv => SurfaceMapped
  BY DEF IInv, Typed, McFollows, SurfaceMapped
<1> QED
  BY <1>1, Invariant, PTL

(* VGA does not come back with a wake, unless the BIOS turns it on and the *)
(* driver never saw it on (rhd_vga.c:197, rhd_driver.c:1617).              *)
THEOREM VgaStaysOff == Spec => []VgaOff
<1>1. IInv => VgaOff
  BY DEF IInv, VgaGone, VgaOff
<1> QED
  BY <1>1, Invariant, PTL

(* What a nub reports is what the registers hold, if it is the only one or *)
(* there is one depth (RadeonHD.cpp:405).                                  *)
THEOREM CacheStaysFresh == Spec => []CacheFresh
<1>1. IInv => CacheFresh
  <2> SUFFICES ASSUME IInv, phase = "up", Alone, NEW n \in ready
               PROVE  /\ cache[n].mode = cur[n] /\ cache[n].geo = hw.crtc[n].fb
                      /\ cache[n].depth = hw.crtc[n].fb.depth /\ depth = hw.crtc[n].fb.depth
    BY DEF CacheFresh, Alone
  <2>1. n \in WithModes
    BY CardIs DEF IInv, Typed
  <2>2. hw.crtc[n].fb = geo[n]
    BY <2>1 DEF IInv, SetUp, AsMode
  <2> QED
    BY <2>2 DEF IInv, Fresh
<1> QED
  BY <1>1, Invariant, PTL

(* A dark screen is lit by a power call, a wake or the first mode set, not *)
(* by a mode switch while it is off (rhd_driver.c:1572).                   *)
THEOREM LitByPower == Spec => LitOnlyByPower
<1> DEFINE Unblanks == \E c \in Active : hw.crtc[c].blank /\ ~hw'.crtc[c].blank
           ByPower == \/ hw' = DPMSOn(hw) \/ asleep' # asleep
                      \/ phase = "off" \/ phase' = "lost"
<1>1. ASSUME IInv, [Next]_vars PROVE Unblanks => ByPower
  <2>1. hw \in HwType /\ Active \subseteq Crtcs /\ Nubs \subseteq WithModes
        /\ WithModes \subseteq Crtcs
    BY <1>1, CardIs DEF IInv, Typed
  <2>2. CASE hw' = hw
    BY <2>2
  <2>3. ASSUME NEW n \in Nubs, AttachFirst(n) PROVE ByPower
    BY <2>3 DEF AttachFirst
  <2>4. ASSUME NEW n \in Nubs, NEW m \in Modes, NEW dep \in Depths, CscSwitchMode(n, m, dep)
        PROVE  ~Unblanks
    <3> DEFINE mode == [cur EXCEPT ![n] = m]
    <3>1. PICK luck \in Lucks : hw' = SwitchMode(hw, mode, dep, luck).h
      BY <2>4 DEF CscSwitchMode
    <3>2. card \in Cards /\ dep \in Nat
      BY <1>1, CardIs DEF IInv, Typed
    <3>3. mode \in Curs
      BY <1>1 DEF IInv, Typed, Curs, ModeOrNone
    <3> HIDE DEF mode
    <3>4. \A c \in Crtcs : hw'.crtc[c].blank = hw.crtc[c].blank
      BY <2>1, <3>1, <3>2, <3>3, SwitchModeIs
    <3> QED
      BY <2>1, <3>4
  <2>5. ASSUME NEW n \in Nubs, AVPowerOn(n) PROVE ByPower
    BY <2>5 DEF AVPowerOn
  <2>6. ASSUME NEW n \in Nubs, AVPowerOff(n) PROVE ~Unblanks
    <3>1. PICK luck \in Lucks : hw' = DPMSOff(hw, luck)
      BY <2>6 DEF AVPowerOff
    <3>2. \A c \in Crtcs \cap Active : hw'.crtc[c].blank = TRUE
      BY <2>1, <3>1, DPMSOffIs
    <3> QED
      BY <2>1, <3>2
  <2>7. ASSUME NEW n \in Nubs, HardwareSleep(n) PROVE ByPower
    BY <2>7 DEF HardwareSleep, Awake
  <2>8. ASSUME NEW n \in Nubs, HardwareWake(n) PROVE ByPower
    BY <2>8 DEF HardwareWake
  <2>9. ASSUME NEW c \in Crtcs, FinishFrame(c) PROVE ~Unblanks
    <3> DEFINE r == [hw.crtc[c] EXCEPT !.scan = FALSE]
    <3>1. hw' = OnCrtc(hw, c, r)
      BY <2>1, <2>9 DEF FinishFrame, FrameEnd, OnCrtc, HwType
    <3>2. r \in CrtcRegs /\ r.blank = hw.crtc[c].blank
      <4>1. hw.crtc[c] \in CrtcRegs
        BY <2>1, <2>9, HwIs
      <4> QED
        BY <4>1 DEF CrtcRegs
    <3> HIDE DEF r
    <3>3. \A d \in Crtcs : hw'.crtc[d].blank = hw.crtc[d].blank
      BY <2>1, <3>1, <3>2, OnCrtcIs
    <3> QED
      BY <2>1, <3>3
  <2>10. CASE PowerLoss
    BY <2>10 DEF PowerLoss
  <2>11. ASSUME NEW n \in Nubs, AttachSecond(n) PROVE hw' = hw
    BY <2>11 DEF AttachSecond
  <2>12. UNCHANGED vars => hw' = hw
    BY DEF vars
  <2> HIDE DEF Unblanks, ByPower
  <2>13. CASE UNCHANGED vars
    BY <2>2, <2>12, <2>13 DEF Unblanks
  <2>14. CASE Next
    BY <2>2, <2>3, <2>4, <2>5, <2>6, <2>7, <2>8, <2>9, <2>10, <2>11, <2>14 DEF Next, ByPower
  <2> QED
    BY <1>1, <2>13, <2>14
<1>2. IInv /\ [Next]_vars => [Unblanks => ByPower]_vars
  BY <1>1
<1>3. Spec => [][Unblanks => ByPower]_vars
  BY <1>2, Invariant, PTL DEF Spec
<1> QED
  BY <1>3 DEF LitOnlyByPower
=============================================================================
