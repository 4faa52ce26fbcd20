-------------------------------- MODULE Nubs --------------------------------
(***************************************************************************)
(* The two NDRVHD drivers (src/RadeonHD.cpp) on one card.  Each framebuffer *)
(* nub has its own driver, with its own copy of the mode it believes to be *)
(* set, but both work on one ScrnInfoRec (xf86Screens[0]) and one set of   *)
(* registers: every mode set, power change, save and restore of one nub    *)
(* acts on both CRTCs.                                                     *)
(*                                                                         *)
(* The framebuffer family calls the drivers of one card one at a time, so  *)
(* a handler is one step.  It puts a nub to sleep (kHardwareSleep) and     *)
(* wakes it (kHardwareWake) in any order of nubs, switches modes only when *)
(* no nub sleeps, and power is only lost when all of them sleep.           *)
(***************************************************************************)
EXTENDS Display

VARIABLES hw,             \* the registers
          cur,            \* Crtc->CurrentMode
          depth,          \* pScrn->depth and bitsPerPixel
          geo,            \* Crtc->Width, Height, Pitch, bpp
          saved,          \* what rhdSave stored
          ready,          \* the nubs with RHDReady
          cache,          \* per nub: fMode, fWidth ... fRowBytes, fDepth, fBitsPerPixel
          asleep,         \* the nubs between kHardwareSleep and kHardwareWake
          vgaRec,         \* rhdPtr->VGA was allocated: VGA was on at RHDVGAInit
          absent,         \* the nubs whose fromRegistryEntry returned NULL
          phase           \* "off", "up", or "lost": power went since the sleep

Depth32 == 32             \* set at start (RadeonController.cpp:358); kDepthMode3

ASSUME DepthAssumption == \A k \in Cards : Depth32 \in k.depths

Nubs == card.nubs

soft == <<cur, depth, geo>>
life == <<ready, absent, vgaRec>>
vars == <<card, hw, soft, saved, life, cache, asleep, phase>>

NoSave == [mc |-> "none"]
NoCache == [mode |-> NoMode]

Init ==
  /\ card \in Cards
  /\ \E vga \in BOOLEAN, mc \in {"driver", "bios"} : hw = PoweredOn(vga, mc)
  /\ cur \in [Crtcs -> Modes \cup {NoMode}]
  /\ \A c \in Crtcs : cur[c] # NoMode <=> c \in WithModes
  /\ depth = Depth32
  /\ geo = [c \in Crtcs |-> NoFb]
  /\ saved = NoSave
  /\ ready = {} /\ absent = {} /\ vgaRec = FALSE
  /\ cache = [n \in Nubs |-> NoCache]
  /\ asleep = {}
  /\ phase = "off"

NewGeo(mode, dep) ==
  [d \in Crtcs |-> IF d \in WithModes THEN [mode |-> mode[d], depth |-> dep] ELSE geo[d]]

(* The copies fromRegistryEntry makes; fDepth is kDepthMode3 whatever the  *)
(* card is set to.                                                         *)
Copied(g) == [mode |-> g.mode, geo |-> g, depth |-> Depth32, bpp |-> g.depth]
-----------------------------------------------------------------------------
(* NDRVHD::fromRegistryEntry while kHardwareReady is not set: RHDPreInit   *)
(* runs RHDScreenInit.  A failure leaves this nub without a driver and the *)
(* property unset, so that the other nub tries again.                      *)
AttachFirst(n) ==
  /\ phase = "off" /\ n \notin absent
  /\ \E luck \in Lucks :
       LET init == ScreenInit(hw, cur, depth, luck)
       IN  /\ hw' = init.h
           /\ IF init.ok
                THEN /\ phase' = "up"
                     /\ geo' = NewGeo(cur, depth)
                     /\ ready' = {n}
                     /\ cache' = [cache EXCEPT ![n] = Copied(geo'[n])]
                     /\ UNCHANGED absent
                ELSE /\ absent' = absent \cup {n}
                     /\ UNCHANGED <<geo, ready, cache, phase>>
  /\ vgaRec' = hw.vga
  /\ UNCHANGED <<cur, depth, saved, asleep>>

AttachSecond(n) ==
  /\ phase = "up" /\ n \notin ready \cup absent /\ asleep = {}
  /\ ready' = ready \cup {n}
  /\ cache' = [cache EXCEPT ![n] = Copied(geo[n])]
  /\ UNCHANGED <<hw, soft, saved, absent, vgaRec, asleep, phase>>

(* cscSwitchMode: CurrentMode and the depth are set first; a failure puts  *)
(* back the old mode and the depth this nub remembers.                     *)
DepthLeft(n, dep) == dep      \* mutant: the depth is not put back
DepthAfterFailure(n, dep) == cache[n].bpp

CscSwitchMode(n, m, dep) ==
  /\ phase = "up" /\ n \in ready /\ asleep = {}
  /\ \E luck \in Lucks :
       LET mode == [cur EXCEPT ![n] = m]
           sw   == SwitchMode(hw, mode, dep, luck)
       IN  /\ hw' = sw.h
           /\ IF sw.ok
                THEN /\ cur' = mode
                     /\ depth' = dep
                     /\ geo' = NewGeo(mode, dep)
                     /\ cache' = [cache EXCEPT ![n] =
                          [mode |-> m, geo |-> geo'[n], depth |-> dep,
                           bpp |-> geo'[n].depth]]
                ELSE /\ depth' = DepthAfterFailure(n, dep)
                     /\ UNCHANGED <<cur, geo, cache>>
  /\ UNCHANGED <<saved, life, asleep, phase>>

(* cscSetPowerState with kAVPowerOn, and with kAVPowerOff, Standby or      *)
(* Suspend.                                                                *)
Awake(n) == phase = "up" /\ n \in ready /\ n \notin asleep

AVPowerOn(n) ==
  /\ Awake(n)
  /\ hw' = DPMSOn(hw)
  /\ UNCHANGED <<soft, saved, life, cache, asleep, phase>>

AVPowerOff(n) ==
  /\ Awake(n)
  /\ \E luck \in Lucks : hw' = DPMSOff(hw, luck)
  /\ UNCHANGED <<soft, saved, life, cache, asleep, phase>>

(* cscSetPowerState with kHardwareSleep.                                   *)
HardwareSleep(n) ==
  /\ Awake(n)
  /\ \E luck \in Lucks : hw' = DPMSOff(hw, luck)
  /\ saved' = Save(hw')
  /\ asleep' = asleep \cup {n}
  /\ UNCHANGED <<soft, life, cache, phase>>

(* cscSetPowerState with kHardwareWake.                                    *)
HardwareWake(n) ==
  /\ n \in asleep
  /\ \E luck \in Lucks : hw' = DPMSOn(Restore(hw, saved, vgaRec, luck))
  /\ asleep' = asleep \ {n}
  /\ phase' = "up"
  /\ UNCHANGED <<soft, saved, life, cache>>

(* The machine loses power and comes back as the BIOS sets it up.          *)
PowerLoss ==
  /\ phase = "up" /\ ready # {} /\ asleep = ready
  /\ phase' = "lost"
  /\ \E mc \in {"driver", "bios"} :
       hw' = [PoweredOn(PostVga, mc) EXCEPT !.busy = hw.busy]
  /\ UNCHANGED <<soft, saved, life, cache, asleep>>

FinishFrame(c) ==
  /\ hw.crtc[c].scan /\ ~hw.crtc[c].enable
  /\ hw' = FrameEnd(hw, c)
  /\ UNCHANGED <<soft, saved, life, cache, asleep, phase>>

Next ==
  /\ \/ \E n \in Nubs :
          \/ AttachFirst(n) \/ AttachSecond(n)
          \/ \E m \in Modes, dep \in Depths : CscSwitchMode(n, m, dep)
          \/ AVPowerOn(n) \/ AVPowerOff(n) \/ HardwareSleep(n) \/ HardwareWake(n)
     \/ \E c \in Crtcs : FinishFrame(c)
     \/ PowerLoss
  /\ UNCHANGED card

Spec == Init /\ [][Next]_vars
-----------------------------------------------------------------------------
(* The memory controller's FB location is set up only when neither VGA nor *)
(* a CRTC reads memory, on every path through a mode set, also after a     *)
(* CRTC timed out in an earlier one.                                       *)
SetupQuiet == "setup" \notin hw.busy

(* A CRTC that fetches a framebuffer fetches from the memory the driver    *)
(* put it in: the MC maps the location its base address was computed for.  *)
(* On a card that posts VGA, or whose MC times out, a wake may find the MC *)
(* busy and skip its restore (rhd_mc.c:670).                               *)
SurfaceMapped ==
  ~PostVga /\ "mc" \notin Faults =>
    \A c \in Crtcs : Reading(hw.crtc[c]) /\ hw.crtc[c].fb # NoFb
                       => hw.mc = "driver"

(* Whenever an active CRTC with a mode runs unblanked, it shows the mode   *)
(* its driver was last told to set, with the timing, clock and outputs of  *)
(* that mode: through switches that fail, power states, sleep, loss of     *)
(* power and the wake of one nub after the other.                          *)
Shows(c) ==
  LET r == hw.crtc[c]
      t == Timing(c, cur)
  IN  /\ r.fb = [mode |-> cur[c], depth |-> geo[c].depth] /\ r.grph /\ r.reads
      /\ r.timing = t /\ r.clk = t /\ r.outMode = t
      /\ r.out = "on"

ShowsCurrentMode ==
  phase = "up" => \A c \in WithModes :
    hw.crtc[c].enable /\ ~hw.crtc[c].blank => Shows(c)

(* What a driver reports (cscGetCurMode, cscGetCurrentMode) is what the    *)
(* registers hold, also after a failed switch and after a wake.  A switch  *)
(* to another depth leaves the copy of the other nub behind: one nub, or   *)
(* one depth.                                                              *)
CacheFresh ==
  /\ phase = "up"
  /\ (\A m, n \in Nubs : m = n) \/ (\A d, e \in Depths : d = e)
  => \A n \in ready :
       /\ cache[n].mode = cur[n]
       /\ cache[n].geo = hw.crtc[n].fb
       /\ cache[n].depth = hw.crtc[n].fb.depth
       /\ depth = hw.crtc[n].fb.depth

(* No VGA access to memory once a driver runs and nobody sleeps; but a VGA *)
(* that the BIOS turns on although the driver never saw it on stays on.    *)
VgaOff ==
  phase = "up" /\ asleep = {} /\ (PostVga => vgaRec) => ~hw.vga

(* A dark screen is lit by kAVPowerOn, a wake or the first mode set, and   *)
(* by nothing else: a mode switch while it is off powers CRTC and outputs  *)
(* but stays black.                                                        *)
LitOnlyByPower ==
  [][(\E c \in Active : hw.crtc[c].blank /\ ~hw'.crtc[c].blank)
       => \/ hw' = DPMSOn(hw) \/ asleep' # asleep
          \/ phase = "off" \/ phase' = "lost"]_vars
=============================================================================
