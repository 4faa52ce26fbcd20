------------------------------ MODULE Display ------------------------------
(***************************************************************************)
(* The display hardware as the driver sees it, and the mode setting core   *)
(* that drives it: src/rhd/rhd_driver.c with the VGA, memory controller,   *)
(* CRTC and output functions it calls (rhd_vga.c, rhd_mc.c, rhd_crtc.c,    *)
(* rhd_output.c).                                                          *)
(*                                                                         *)
(* The registers are one record, and each driver function is an operator   *)
(* from registers to registers, composed in the order of the calls.  A     *)
(* function that can fail returns [h, ok].  What the hardware may answer   *)
(* is the argument luck: whether a CRTC leaves its frame before the        *)
(* timeout (stop), and the values of the MC idle bit where it is read.     *)
(*                                                                         *)
(* vtSema is not modelled: it is TRUE from the mode set of RHDScreenInit   *)
(* on, and nothing below is called earlier or clears it.  Formats, LUTs,   *)
(* viewport and scaler registers follow the mode and are left out.         *)
(***************************************************************************)
EXTENDS Integers, FiniteSets

CONSTANTS Modes, NoMode,  \* display modes, and a register nobody has set
          Cards           \* the cards considered

VARIABLE card             \* the one this is

Crtcs == {0, 1}

CardType ==
  [depths : SUBSET Nat,         \* values of pScrn->depth
   active : SUBSET Crtcs,       \* the CRTCs with Crtc->Active
   withModes : SUBSET Crtcs,    \* those of them with Crtc->CurrentMode
   nubs : SUBSET Crtcs,         \* the framebuffer nubs; nub n drives CRTC n
   scaled : [Crtcs -> Modes \cup {NoMode}],   \* Crtc->ScaledToMode
   postVga : BOOLEAN,           \* power on reset on wake turns VGA on and
                                \* lights CRTC 0
   faults : SUBSET {"crtc", "mc"}]    \* what may time out

ASSUME ModeAssumption == NoMode \notin Modes
ASSUME CardsAssumption ==
  \A k \in Cards : /\ k \in CardType
                   /\ k.nubs \subseteq k.withModes /\ k.withModes \subseteq k.active

Depths == card.depths
Active == card.active
WithModes == card.withModes
Scaled == card.scaled
PostVga == card.postVga
Faults == card.faults

NoFb == [mode |-> NoMode, depth |-> 0]

Lucks == [stop : IF "crtc" \in Faults THEN [Crtcs -> BOOLEAN]
                 ELSE [Crtcs -> {TRUE}],
          idle : BOOLEAN, idleAgain : BOOLEAN]

(* One CRTC: DxCRTC_CONTROL (enable bit, scanning status, read requests    *)
(* enabled), DxGRPH_ENABLE, DxCRTC_BLANK_CONTROL, the surface programmed   *)
(* by FBSet, the timing of ModeSet, the clock of its PLL, and the power    *)
(* and mode of the outputs it feeds.                                       *)
OffCrtc == [enable |-> FALSE, scan |-> FALSE, reads |-> TRUE, grph |-> FALSE,
            blank |-> FALSE, fb |-> NoFb, timing |-> NoMode, clk |-> NoMode,
            out |-> "shutdown", outMode |-> NoMode]

(* The card: the MC's FB location (the one the driver chose, or another),  *)
(* VGA's memory access, the CRTCs; busy records who wrote the FB location  *)
(* while something was reading memory.                                     *)
(*                                                                         *)
(* What the BIOS leaves behind: in VGA mode it scans out on CRTC 0.        *)
PoweredOn(vga, mc) ==
  [mc |-> mc, vga |-> vga, busy |-> {},
   crtc |-> [c \in Crtcs |-> [OffCrtc EXCEPT !.enable = vga /\ c = 0,
                                             !.scan = vga /\ c = 0]]]

OnCrtc(h, c, r) == [h EXCEPT !.crtc[c] = r]
-----------------------------------------------------------------------------
(* Something is reading memory.                                            *)
Reading(r) == r.scan /\ r.reads
Quiet(h) == ~h.vga /\ \A c \in Crtcs : ~Reading(h.crtc[c])

(* The MC idle bit: while memory is read it may be seen either way.        *)
McIdle(h, bit) == bit \/ (Quiet(h) /\ "mc" \notin Faults)

(* D1CRTCDisable, D2CRTCDisable: the enable bit is cleared even when the   *)
(* wait for the end of the frame times out; a CRTC that is not enabled is  *)
(* not waited for.                                                         *)
CRTCDisable(r, stops) ==
  IF r.enable THEN [r EXCEPT !.enable = FALSE, !.scan = ~stops] ELSE r

CRTCDisabled(r, stops) == r.enable => stops

PowerOnLit(r) ==      \* mutant: power on unblanks
  [r EXCEPT !.grph = TRUE, !.reads = TRUE, !.enable = TRUE, !.scan = TRUE,
            !.blank = FALSE]
PowerOn(r) == [r EXCEPT !.grph = TRUE, !.reads = TRUE, !.enable = TRUE, !.scan = TRUE]
PowerResetReading(r, stops) ==      \* mutant: read requests stay on
  CRTCDisable(r, stops)
PowerReset(r, stops) == CRTCDisable([r EXCEPT !.reads = FALSE], stops)
PowerShutdown(r, stops) == [PowerReset(r, stops) EXCEPT !.grph = FALSE]

BlankAll(h, blank) ==
  [h EXCEPT !.crtc = [c \in Crtcs |-> [h.crtc[c] EXCEPT !.blank = blank]]]

VGALeftOn(h) == h      \* mutant: VGA is not disabled
VGADisable(h) == [h EXCEPT !.vga = FALSE]

(* rhdAllIdle: the first CRTC that cannot be stopped ends it.              *)
AllIdle(h, luck) ==
  LET stopped0 == OnCrtc(h, 0, PowerReset(h.crtc[0], luck.stop[0]))
      stopped  == OnCrtc(stopped0, 1, PowerReset(h.crtc[1], luck.stop[1]))
  IN  IF ~CRTCDisabled(h.crtc[0], luck.stop[0])
        THEN [h |-> stopped0, ok |-> FALSE]
      ELSE IF ~CRTCDisabled(h.crtc[1], luck.stop[1])
        THEN [h |-> stopped, ok |-> FALSE]
      ELSE [h |-> stopped, ok |-> McIdle(stopped, luck.idle)]

McWrite(h, loc, who) ==
  [h EXCEPT !.mc = loc, !.busy = IF Quiet(h) THEN @ ELSE @ \cup {who}]

(* RHDMCSetupFBLocation to FbIntAddress, FbIntSize.                        *)
MCSetupFBLocation(h, luck) ==
  IF ~McIdle(h, luck.idleAgain) THEN [h |-> h, ok |-> FALSE]
  ELSE IF h.mc = "driver" THEN [h |-> h, ok |-> TRUE]
  ELSE [h |-> McWrite(h, "driver", "setup"), ok |-> TRUE]

MCNotRestored(h, saved, luck) == h      \* mutant: the restore is left out

(* RHDMCRestore, after a save.                                             *)
MCRestore(h, saved, luck) ==
  IF McIdle(h, luck.idle) THEN McWrite(h, saved.mc, "restore") ELSE h
-----------------------------------------------------------------------------
Timing(c, cur) == IF Scaled[c] # NoMode THEN Scaled[c] ELSE cur[c]

(* rhdSetMode for one CRTC: FBSet, ModeSet, RHDPLLSet, RHDOutputsMode; then *)
(* the inactive PLLs and outputs go down, the CRTC is powered, and every   *)
(* active output is.  It does not unblank.                                 *)
SetModeCrtc(r, c, cur, depth, stops) ==
  LET t   == Timing(c, cur)
      set == [r EXCEPT !.grph = TRUE, !.fb = [mode |-> cur[c], depth |-> depth],
                       !.reads = TRUE, !.timing = t, !.clk = t, !.outMode = t]
  IN  IF c \in WithModes THEN [PowerOn(set) EXCEPT !.out = "on"]
      ELSE IF c \in Active THEN [PowerOn(r) EXCEPT !.clk = NoMode, !.out = "on"]
      ELSE [PowerShutdown(r, stops) EXCEPT !.clk = NoMode, !.out = "shutdown"]

SetMode(h, cur, depth, luck) ==
  [h EXCEPT !.crtc = [c \in Crtcs |->
     SetModeCrtc(h.crtc[c], c, cur, depth, luck.stop[c])]]

(* RHDPrepareMode: both CRTCs blank, the active outputs off.               *)
PrepareMode(h) ==
  LET b == BlankAll(h, TRUE)
  IN  [b EXCEPT !.crtc = [c \in Crtcs |->
         IF c \in Active THEN [b.crtc[c] EXCEPT !.out = "reset"] ELSE b.crtc[c]]]

(* RHDScreenInit: the only mode set that unblanks.                         *)
ScreenInit(h, cur, depth, luck) ==
  LET idle == AllIdle(VGADisable(h), luck)
      mc   == MCSetupFBLocation(idle.h, luck)
  IN  IF ~idle.ok THEN idle
      ELSE IF ~mc.ok THEN mc
      ELSE [h |-> BlankAll(SetMode(PrepareMode(mc.h), cur, depth, luck), FALSE),
            ok |-> TRUE]

(* RHDSwitchMode: what RHDMCSetupFBLocation returns is not looked at.      *)
SwitchMode(h, cur, depth, luck) ==
  LET idle == AllIdle(VGADisable(h), luck)
      mc   == MCSetupFBLocation(idle.h, luck)
  IN  IF ~idle.ok THEN idle
      ELSE [h |-> SetMode(mc.h, cur, depth, luck), ok |-> TRUE]

(* RHDDisplayPowerManagementSet, On and (Standby, Suspend) Off.            *)
DPMSOn(h) ==
  [h EXCEPT !.crtc = [c \in Crtcs |->
     IF c \in Active THEN [PowerOn(h.crtc[c]) EXCEPT !.out = "on", !.blank = FALSE]
     ELSE h.crtc[c]]]

DPMSOff(h, luck) ==
  [h EXCEPT !.crtc = [c \in Crtcs |->
     IF c \in Active
       THEN [PowerReset(h.crtc[c], luck.stop[c]) EXCEPT !.out = "reset", !.blank = TRUE]
     ELSE h.crtc[c]]]

(* rhdSave reads the registers; rhdRestore writes them back: MC, PLLs, VGA *)
(* (if rhdPtr->VGA exists: vgaRec), CRTCs (without waiting for a frame in   *)
(* progress), outputs.                                                     *)
Save(h) == [mc |-> h.mc, vga |-> h.vga, crtc |-> h.crtc]

CrtcRestoreUnclocked(r, saved, stops) ==      \* mutant: no RHDPLLsRestore
  [saved EXCEPT !.scan = saved.enable \/ (r.scan /\ ~stops), !.clk = r.clk]

CrtcRestore(r, saved, stops) ==
  [saved EXCEPT !.scan = saved.enable \/ (r.scan /\ ~stops)]

Restore(h, saved, vgaRec, luck) ==
  [MCRestore(h, saved, luck) EXCEPT
     !.vga  = IF vgaRec THEN saved.vga ELSE @,
     !.crtc = [c \in Crtcs |->
                 CrtcRestore(h.crtc[c], saved.crtc[c], luck.stop[c])]]

(* A CRTC that timed out finishes its frame later.                         *)
FrameEnd(h, c) == [h EXCEPT !.crtc[c].scan = FALSE]
=============================================================================
