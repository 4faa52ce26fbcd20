------------------------------ MODULE Encoders ------------------------------
(***************************************************************************)
(* The output blocks and the sequences that set, light, darken, save and   *)
(* restore them: the DACs (src/rhd/rhd_dac.c), TMDSA (rhd_tmds.c), LVTMA   *)
(* as panel link and as TMDSB (rhd_lvtma.c), DDIA (rhd_ddia.c), and the    *)
(* DIG encoder with the LVTMA transmitter of RV620 (rhd_dig.c), with the   *)
(* HDMI engine (rhd_hdmi.c) in front of the TMDS blocks.                   *)
(*                                                                         *)
(* One output at a time: the blocks share no register but those of module  *)
(* Outputs.  x holds a block's registers, as far as a picture depends on   *)
(* them, with what its private record remembers; a driver function is an   *)
(* operator on x.  Voltages, dithering, formats and delays are left out,   *)
(* and so are the waits for the panel sequencer, which nobody checks.      *)
(***************************************************************************)
EXTENDS Integers

CONSTANTS Clocks,         \* pixel clocks of modes, in MHz
          Nubs            \* framebuffer nubs that sleep and wake the card

ASSUME ClocksAssumption == Clocks \subseteq Nat \ {0} /\ Nubs \in Nat \ {0}

NoClock == 0
SingleLimit == 165        \* what one TMDS link carries
TvEncoder == 2            \* in a DAC's source select

R500Dacs == {"DACA", "DACB"}
Dacs == R500Dacs \cup {"DACA_RV620", "DACB_RV620"}
Panels == {"LVDS", "KLDSKP_LVDS"}
Tmdss == {"TMDSA", "TMDSB", "KLDSKP_TMDS"}
Digs == {"KLDSKP_LVDS", "KLDSKP_TMDS"}
Kinds == Dacs \cup Panels \cup Tmdss \cup {"DDIA"}

(* An output as it was attached: its block and CRTC, a single link DVI     *)
(* connector, what a DAC sensed, a panel with two links, a monitor for     *)
(* HDMI, and whether it is active.                                         *)
OutputSet == {o \in [kind : Kinds, crtc : {0, 1}, single : BOOLEAN,
                     sensed : {"VGA", "TV", "COMPONENT"}, wide : BOOLEAN,
                     hdmi : BOOLEAN, active : BOOLEAN] :
  /\ o.single => o.kind \in Tmdss \cup {"DDIA"}
  /\ o.sensed = "TV" => o.kind \in Dacs \ {"DACA"}
  /\ o.sensed = "COMPONENT" => o.kind \in {"DACB", "DACB_RV620"}
  /\ o.wide => o.kind \in Panels
  /\ o.hdmi => o.kind \in Tmdss}

ModeValid(o, c) ==
  CASE o.kind \in Dacs         -> c \in 20..400
    [] o.kind \in Panels       -> TRUE
    [] o.kind = "KLDSKP_TMDS"  -> o.single => c <= SingleLimit
    [] OTHER                   -> c \in 25..(IF o.single THEN 165 ELSE 330)

VARIABLES out,            \* the output; it does not change
          x,              \* its block
          mode,           \* the clock of its CRTC's mode, or NoClock
          saved,          \* the block as saved last
          phase, lit, asleep,
          cold            \* ghost: power went, and no mode set redid what is lost
vars == <<out, x, mode, saved, phase, lit, asleep, cold>>

(* Enable, source, a DAC's standard, TV mux, forced data and power down;   *)
(* the dual link bit, the links that transmit, the transmitter PLL with    *)
(* its reset (for DDIA: the PCIe lanes powered up and mirrored for it, and *)
(* the pixel valid reset), data synchronisation started on a running PLL,  *)
(* LVTMA in TMDS mode, the target of the panel sequencer, HDMI, and the    *)
(* clock of the mode that the registers were set for.  want is the private *)
(* RunsDualLink, state TMDSA's PowerState.                                 *)
NoBlock ==
  [on |-> FALSE, source |-> 0, std |-> "VGA", mux |-> FALSE, forced |-> FALSE,
   down |-> FALSE, dual |-> FALSE, links |-> 0, pll |-> FALSE, held |-> FALSE,
   sync |-> FALSE, tmds |-> FALSE, seq |-> FALSE, hdmi |-> FALSE,
   clk |-> NoClock, want |-> FALSE, state |-> "unknown"]

(* The private record b keeps while the registers become those of r.       *)
Keep(b, r) == [r EXCEPT !.want = b.want, !.state = b.state]

(* RHDDACAInit and its sisters: private records are cleared, and AtomBIOS  *)
(* tells how many links a panel has.                                       *)
NewBlock(o) == [NoBlock EXCEPT !.want = o.wide]

(* What the BIOS leaves in a block: nothing runs, or it shows a picture.   *)
Showing(o, crtc, two, hdmi) ==
  LET linked == o.kind \in Panels \cup Tmdss
  IN  [NoBlock EXCEPT !.on = TRUE, !.source = crtc, !.dual = two, !.hdmi = hdmi,
                      !.links = IF ~linked THEN 0 ELSE IF two THEN 2 ELSE 1,
                      !.pll = linked \/ o.kind = "DDIA", !.sync = linked,
                      !.tmds = o.kind \in {"TMDSB", "KLDSKP_TMDS"},
                      !.seq = o.kind \in Panels]
TwoLinks(o) ==
  IF o.kind \in Panels THEN {o.wide}
  ELSE IF o.kind \in Dacs \/ o.single THEN {FALSE} ELSE BOOLEAN
HdmiOn(o) == IF o.kind \in Tmdss THEN BOOLEAN ELSE {FALSE}
NotShowing == {[NoBlock EXCEPT !.down = d, !.held = d] : d \in BOOLEAN}
Shows(o) == {Showing(o, crtc, two, hdmi) :
               crtc \in {0, 1}, two \in TwoLinks(o), hdmi \in HdmiOn(o)}
Handed(o) == NotShowing \cup Shows(o)
-----------------------------------------------------------------------------
(* DACSense drives the lines through the power down register and leaves    *)
(* them there; DACSenseRV620 puts back what it changed.                    *)
Sensed(o, b) == IF o.kind \in R500Dacs THEN [b EXCEPT !.down = FALSE] ELSE b

(* DACSet, DACSetRV620: the mode does not matter.                          *)
DACSet(o, b) ==
  [b EXCEPT !.std = o.sensed,
            !.source = IF o.sensed = "VGA" THEN o.crtc ELSE TvEncoder,
            !.mux = IF o.kind \in {"DACB", "DACB_RV620"} THEN o.sensed # "VGA" ELSE @,
            !.forced = @ \/ o.kind \in R500Dacs]

DACPower(b, power) ==
  CASE power = "on"    -> [b EXCEPT !.on = TRUE, !.down = FALSE, !.forced = FALSE]
    [] power = "reset" -> b
    [] OTHER           -> [b EXCEPT !.on = FALSE, !.down = TRUE, !.forced = TRUE]
-----------------------------------------------------------------------------
(* A pulse on the reset of the transmitter PLL, and the start of data      *)
(* synchronisation: it counts on a running PLL.                            *)
Pulse(b) == [b EXCEPT !.held = FALSE]
Resync(b) == [b EXCEPT !.sync = b.pll]

WantLinks(b) == IF b.want THEN 2 ELSE 1
Stopped(b) == [b EXCEPT !.on = FALSE, !.links = 0, !.pll = FALSE, !.held = TRUE,
                        !.sync = FALSE, !.hdmi = FALSE]

TMDSASet(o, b, c) ==
  [b EXCEPT !.links = 0, !.source = o.crtc, !.forced = FALSE,
            !.dual = c > SingleLimit, !.want = c > SingleLimit]

(* The block and its PLL are only started after a shutdown, or when the    *)
(* driver does not know how it was left.                                   *)
TMDSAStart(b) == Resync(Pulse([b EXCEPT !.on = TRUE, !.pll = TRUE]))
(* Mutant: a reset also makes an unknown state a known one.                *)
TMDSAPowerRaises(o, b, power) ==
  CASE power = "on" ->
         [(IF b.state \in {"shutdown", "unknown"} THEN TMDSAStart(b) ELSE b)
            EXCEPT !.links = WantLinks(b), !.hdmi = o.hdmi, !.state = "on"]
    [] power = "reset" -> [b EXCEPT !.links = 0, !.state = "reset"]
    [] OTHER -> [Stopped(b) EXCEPT !.state = "shutdown"]
TMDSAPower(o, b, power) ==
  CASE power = "on" ->
         [(IF b.state \in {"shutdown", "unknown"} THEN TMDSAStart(b) ELSE b)
            EXCEPT !.links = WantLinks(b), !.hdmi = o.hdmi, !.state = "on"]
    [] power = "reset" ->
         [b EXCEPT !.links = 0, !.state = IF @ = "on" THEN "reset" ELSE @]
    [] OTHER -> [Stopped(b) EXCEPT !.state = "shutdown"]

(* TMDSB pulses the reset and starts the synchronisation when the mode is  *)
(* set; the PLL may only be enabled by the TMDSBPower that follows.        *)
TMDSBSet(o, b, c) ==
  Resync(Pulse([b EXCEPT !.tmds = TRUE, !.links = 0, !.source = o.crtc,
                         !.forced = FALSE, !.dual = c > SingleLimit,
                         !.want = c > SingleLimit]))
TMDSBPower(o, b, power) ==
  LET t == [b EXCEPT !.tmds = TRUE]
  IN  CASE power = "on" ->
             [t EXCEPT !.on = TRUE, !.links = WantLinks(b), !.pll = TRUE,
                       !.held = FALSE, !.hdmi = o.hdmi]
        [] power = "reset" -> [t EXCEPT !.links = 0]
        [] OTHER -> Stopped(t)

LVDSSet(o, b) ==
  Resync(Pulse([b EXCEPT !.on = TRUE, !.tmds = FALSE, !.source = o.crtc,
                         !.dual = b.want, !.pll = TRUE]))
(* LVDSEnable sets bits and clears none; LVDSDisable does nothing when the *)
(* sequencer is not told to be on.                                         *)
LVDSDisable(b) == IF b.seq THEN [b EXCEPT !.seq = FALSE, !.links = 0] ELSE b
(* Mutant: a reset leaves the panel on, as for the DACs.                   *)
LVDSPowerNoReset(b, power) ==
  CASE power = "on" ->
         [b EXCEPT !.links = IF b.want THEN 2 ELSE IF @ = 0 THEN 1 ELSE @, !.seq = TRUE]
    [] power = "reset" -> b
    [] OTHER -> LVDSDisable(b)
LVDSPower(b, power) ==
  IF power = "on"
  THEN [b EXCEPT !.links = IF b.want THEN 2 ELSE IF @ = 0 THEN 1 ELSE @, !.seq = TRUE]
  ELSE LVDSDisable(b)

(* DDIA has no link enable of its own; it takes the limit for two links.   *)
(* Only a mode set resets the PHY and powers its lanes up.                 *)
DDIAMode(o, b, c) ==
  [b EXCEPT !.held = TRUE, !.pll = TRUE, !.source = o.crtc,
            !.dual = c >= SingleLimit, !.want = c >= SingleLimit]
DDIAPower(b, power) ==
  IF power = "on" THEN [b EXCEPT !.on = TRUE, !.held = FALSE]
  ELSE [b EXCEPT !.on = FALSE]
-----------------------------------------------------------------------------
(* DigMode: on a dual link connector the clock decides; EncoderSet follows *)
(* and LVTMATransmitterSet only sets voltages.                             *)
DigMode(o, b, c) ==
  LET two == IF o.kind = "KLDSKP_TMDS" /\ ~o.single THEN c > SingleLimit ELSE b.want
  IN  [b EXCEPT !.want = two, !.dual = two, !.source = o.crtc]

EncoderPower(b, power) == [b EXCEPT !.on = power = "on"]

TransmitterStart(b) == Resync(Pulse([b EXCEPT !.pll = TRUE]))
LVTMA_TMDSTransmitterPower(b, power) ==
  CASE power = "on" -> [TransmitterStart(b) EXCEPT !.tmds = TRUE, !.links = WantLinks(b)]
    [] power = "reset" -> [b EXCEPT !.links = 0]
    [] OTHER -> [b EXCEPT !.links = 0, !.held = FALSE, !.sync = FALSE]
LVTMA_LVDSTransmitterPower(b, power) ==
  IF power = "on"
  THEN [TransmitterStart(b) EXCEPT !.tmds = FALSE, !.links = WantLinks(b), !.seq = TRUE]
  ELSE [b EXCEPT !.seq = FALSE]
TransmitterPower(o, b, power) ==
  IF o.kind = "KLDSKP_LVDS" THEN LVTMA_LVDSTransmitterPower(b, power)
  ELSE LVTMA_TMDSTransmitterPower(b, power)

(* The encoder first on the way up, the transmitter first on the way down. *)
DigPower(o, b, power) ==
  CASE power = "on" ->
         [TransmitterPower(o, EncoderPower(b, power), power) EXCEPT !.hdmi = o.hdmi]
    [] power = "reset" -> EncoderPower(TransmitterPower(o, b, power), power)
    [] OTHER ->
         [EncoderPower(TransmitterPower(o, b, power), power) EXCEPT !.hdmi = FALSE]
-----------------------------------------------------------------------------
(* Output->Mode, Output->Power.                                            *)
Set(o, b, c) ==
  LET s == CASE o.kind \in Dacs    -> DACSet(o, b)
             [] o.kind = "TMDSA"   -> TMDSASet(o, b, c)
             [] o.kind = "TMDSB"   -> TMDSBSet(o, b, c)
             [] o.kind = "LVDS"    -> LVDSSet(o, b)
             [] o.kind = "DDIA"    -> DDIAMode(o, b, c)
             [] o.kind \in Digs    -> DigMode(o, b, c)
  IN  [s EXCEPT !.clk = c]

Power(o, b, power) ==
  CASE o.kind \in Dacs    -> DACPower(b, power)
    [] o.kind = "TMDSA"   -> TMDSAPower(o, b, power)
    [] o.kind = "TMDSB"   -> TMDSBPower(o, b, power)
    [] o.kind = "LVDS"    -> LVDSPower(b, power)
    [] o.kind = "DDIA"    -> DDIAPower(b, power)
    [] o.kind \in Digs    -> DigPower(o, b, power)

(* Output->Restore: the registers as saved, the private record as it is.   *)
(* DDIARestore leaves the source select and the PHY, which DDIASave does   *)
(* not save either.                                                        *)
DDIARestore(b, s) == Keep(b, [s EXCEPT !.source = b.source, !.pll = b.pll])

(* The DIG transmitter pulses its PLL and starts the synchronisation       *)
(* again; the others write the values of a synchronisation that runs, and  *)
(* do not start one.                                                       *)
DigRestore(b, s) == Keep(b, [s EXCEPT !.sync = @ /\ s.pll])
BlockRestore(b, s) == Keep(b, [s EXCEPT !.sync = s.pll /\ b.pll /\ b.sync])

(* Mutant: the transmitter control is not among the registers.             *)
RestoreNoControl(o, b, s) ==
  CASE o.kind = "DDIA"  -> DDIARestore(b, s)
    [] o.kind \in Digs  -> DigRestore(b, s)
    [] OTHER -> Keep(b, [s EXCEPT !.pll = b.pll, !.held = b.held, !.sync = b.sync])
Restore(o, b, s) ==
  CASE o.kind = "DDIA"  -> DDIARestore(b, s)
    [] o.kind \in Digs  -> DigRestore(b, s)
    [] OTHER            -> BlockRestore(b, s)
-----------------------------------------------------------------------------
(* RHDOutputsPower; RHDOutputsMode, RHDOutputsShutdownInactive and the     *)
(* power up at the end of rhdSetMode.                                      *)
OutputsPower(o, b, power) == IF o.active THEN Power(o, b, power) ELSE b

SetMode(o, b, c) ==
  IF ~o.active THEN Power(o, b, "shutdown")
  ELSE Power(o, IF c = NoClock THEN b ELSE Set(o, b, c), "on")

Init ==
  /\ out \in OutputSet
  /\ mode \in {NoClock} \cup {c \in Clocks : ModeValid(out, c)}
  /\ x \in {Keep(NewBlock(out), h) : h \in Handed(out)}
  /\ saved = NoBlock
  /\ phase = "off" /\ lit = FALSE /\ asleep = 0 /\ cold = FALSE

Sense ==
  /\ phase = "off"
  /\ x' = Sensed(out, x)
  /\ phase' = "sensed"
  /\ UNCHANGED <<out, mode, saved, lit, asleep, cold>>

(* RHDScreenInit: RHDPrepareMode, then rhdSetMode.                         *)
ScreenInit ==
  /\ phase = "sensed"
  /\ x' = SetMode(out, OutputsPower(out, x, "reset"), mode)
  /\ phase' = "up" /\ lit' = TRUE
  /\ UNCHANGED <<out, mode, saved, asleep, cold>>

Awake == phase = "up" /\ asleep < Nubs
SwitchMode ==
  /\ Awake
  /\ mode' \in IF mode = NoClock THEN {NoClock}
               ELSE {c \in Clocks : ModeValid(out, c)}
  /\ x' = SetMode(out, x, mode')
  /\ lit' = TRUE
  /\ cold' = (cold /\ (mode = NoClock \/ out.kind = "TMDSA"))
  /\ UNCHANGED <<out, saved, phase, asleep>>

AVPower(on) ==
  /\ Awake
  /\ x' = OutputsPower(out, x, IF on THEN "on" ELSE "reset") /\ lit' = on
  /\ UNCHANGED <<out, mode, saved, phase, asleep, cold>>

HardwareSleep ==
  /\ Awake
  /\ x' = OutputsPower(out, x, "reset") /\ lit' = FALSE
  /\ saved' = x'
  /\ asleep' = asleep + 1
  /\ UNCHANGED <<out, mode, phase, cold>>

HardwareWake ==
  /\ asleep > 0
  /\ x' = OutputsPower(out, Restore(out, x, saved), "on")
  /\ asleep' = asleep - 1 /\ phase' = "up" /\ lit' = TRUE
  /\ UNCHANGED <<out, mode, saved, cold>>

(* Everybody sleeps, and the BIOS sets the card up anew.                   *)
PowerLoss ==
  /\ phase = "up" /\ asleep = Nubs
  /\ x' \in {Keep(x, h) : h \in Handed(out)}
  /\ phase' = "lost" /\ cold' = TRUE
  /\ UNCHANGED <<out, mode, saved, lit, asleep>>

Next ==
  \/ Sense \/ ScreenInit \/ SwitchMode
  \/ \E on \in BOOLEAN : AVPower(on)
  \/ HardwareSleep \/ HardwareWake \/ PowerLoss

Spec == Init /\ [][Next]_vars
-----------------------------------------------------------------------------
Links(o, b) == IF o.kind = "DDIA" THEN (IF b.dual THEN 2 ELSE 1) ELSE b.links
Transmits(o, b) == IF o.kind \in Panels THEN b.seq ELSE b.links > 0
Single(o, c) == o.single /\ ~(o.kind = "DDIA" /\ c = SingleLimit)

DacDriven(o, b) ==
  /\ b.on /\ ~b.down /\ ~b.forced /\ b.std = o.sensed
  /\ b.source = IF o.sensed = "VGA" THEN o.crtc ELSE TvEncoder
  /\ o.kind \in {"DACB", "DACB_RV620"} => (b.mux <=> o.sensed # "VGA")

LinkDriven(o, b, c) ==
  /\ b.on /\ ~b.held /\ b.hdmi = o.hdmi
  /\ (o.kind = "DDIA" /\ cold) \/ (b.source = o.crtc /\ b.pll)
  /\ Links(o, b) = IF b.dual THEN 2 ELSE 1
  /\ o.kind \in Panels => b.dual = o.wide /\ b.seq
  /\ o.kind \notin Panels /\ c > SingleLimit => Links(o, b) = 2
  /\ Single(o, c) => Links(o, b) = 1
  /\ o.kind # "TMDSA" /\ o.kind # "DDIA" => b.tmds = (o.kind \in Tmdss)
  /\ o.kind \in Digs \/ (o.kind \in {"TMDSA", "LVDS"} /\ ~cold) => b.sync

(* An active output of a lit display is driven as its mode needs: a DAC    *)
(* from its CRTC or the TV encoder, to the standard that was sensed; the   *)
(* others from their CRTC over as many links as the clock needs and the    *)
(* connector has, the links that transmit being those the encoder splits   *)
(* the picture for, with a PLL (for DDIA: lanes) that runs: although       *)
(* private flags are not saved with the registers, DPMS and mode switches  *)
(* come in any order, and the BIOS may have set the block up otherwise.    *)
(* The data is synchronised to a running PLL in the DIG blocks, and in     *)
(* TMDSA and LVDS while they are not cold; of TMDSB that is not claimed,   *)
(* since TMDSBSet starts the synchronisation before TMDSBPower enables the *)
(* PLL.  Nothing is said while the registers are those of another mode,    *)
(* which a second nub's wake can restore.  cold excepts what a loss of     *)
(* power takes until the next mode set: that synchronisation, and DDIA's   *)
(* source and lanes.  Single excepts the DDIA mode of exactly 165 MHz.     *)
Driven ==
  phase = "up" /\ lit /\ out.active /\ mode # NoClock /\ x.clk = mode =>
    IF out.kind \in Dacs THEN DacDriven(out, x) ELSE LinkDriven(out, x, mode)

(* Nothing shows on an output that is not used, however the BIOS left it   *)
(* and whatever is restored, nor on a digital output while the display is  *)
(* dark: no link transmits, a panel is sequenced off.                      *)
Dark ==
  phase = "up" /\ (~out.active \/ ~lit) =>
    /\ out.kind \in Dacs /\ ~out.active => ~x.on /\ x.down
    /\ out.kind \in Tmdss => x.links = 0
    /\ out.kind \in Panels => ~x.seq
    /\ out.kind = "DDIA" => ~x.on
    /\ ~out.active => ~x.hdmi

(* Links that transmit, or a panel that is on, are clocked by a PLL that   *)
(* runs: TMDSA starts its PLL only in some states of its private record,   *)
(* which neither a restore nor a loss of power changes, and registers of   *)
(* another mode may have been restored.                                    *)
Clocked ==
  phase = "up" /\ mode # NoClock /\ Transmits(out, x) => x.on /\ x.pll /\ ~x.held
=============================================================================
