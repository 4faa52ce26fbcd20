------------------------------ MODULE Outputs ------------------------------
(***************************************************************************)
(* From connectors to running outputs on the cards with DIG encoders: what *)
(* rhdModeLayoutSelect attaches, which encoder and CRTC it gives, the      *)
(* link steering the two UNIPHYs share, and the scratch registers that     *)
(* tell AtomBIOS about it (src/rhd/rhd_driver.c, rhd_output.c, rhd_dig.c,  *)
(* rhd_biosscratch.c).                                                     *)
(*                                                                         *)
(* The layout is chosen once; lay holds what it decides.  regs holds the   *)
(* registers and the device the driver last found for each output.  A      *)
(* driver function is an operator on regs, composed in the order of the    *)
(* calls.  Transmitters, HDMI and the differential clock drivers are left  *)
(* out; CRTC and MC are in Display.  Devices and connector types that take *)
(* the same branches are left out.                                         *)
(***************************************************************************)
EXTENDS Integers, SequencesExt

CONSTANTS Cards,          \* [conns, devs, dms59, known]: see CardAssumption
          Nubs,           \* framebuffer nubs that sleep and wake the card
          Unset           \* devices an unset OutputDriverPrivate->Device may be

Dacs == {"DACA", "DACB"}
Digs == {"UNIPHYA", "UNIPHYB", "LVTMA"}
Ids == Dacs \cup Digs
NoOutput == "none"
DIGs == {1, 2}            \* ENCODER_DIG1, ENCODER_DIG2; 0 is ENCODER_NONE
NoCrtc == 2

Devs == {"CRT1", "CRT2", "TV1", "CV", "DFP1", "DFP2", "LCD1"}
NoDevice == "atomNone"
Types == {"PANEL", "DVI", "VGA", "TV"}
Senses == {"none", "VGA", "SVIDEO", "COMPONENT"}

(* A card's connectors with the outputs they carry and their hot plug pin, *)
(* its device list, and two facts of the card table: a DMS-59 connector,   *)
(* and a card that is known there without a connector quirk.               *)
ASSUME CardAssumption ==
  \A c \in Cards :
    /\ c.conns \in Seq([type : Types, outs : Seq(Ids), hpd : BOOLEAN])
    /\ c.devs \in Seq([dev : Devs, out : Ids, type : Types])
    /\ c.dms59 \in BOOLEAN /\ c.known \in BOOLEAN
ASSUME NubsAssumption == Nubs \in Nat \ {0} /\ Unset \subseteq Devs \cup {NoDevice}

VARIABLES card, lay, regs, saved, phase, lit, asleep
vars == <<card, lay, regs, saved, phase, lit, asleep>>

OffDig == [source |-> 0, start |-> FALSE, on |-> FALSE]
DigRegs == [source : {0, 1}, start : BOOLEAN, on : BOOLEAN]

(* ATOM_S3_..._ACTIVE, ATOM_S3_..._CRTC_ACTIVE, ATOM_S0_..., ATOM_S6_...,  *)
(* ATOM_S2_..._DPMS_STATE: the devices whose bit is set.                   *)
Scratch == [on : SUBSET Devs, crtc2 : SUBSET Devs, attached : SUBSET Devs,
            acc : SUBSET Devs, dpms : SUBSET Devs]
AllBits(s) == [on |-> s, crtc2 |-> s, attached |-> s, acc |-> s, dpms |-> s]

NoSave == [dig |-> [o \in Digs |-> [e |-> 0, regs |-> OffDig, steer |-> FALSE]],
           scratch |-> AllBits({}), junk |-> FALSE, rec |-> "none"]
NoLayout == [list |-> <<>>, conn |-> [o \in Ids |-> 0],
             sensed |-> [o \in Ids |-> "none"], active |-> {},
             enc |-> [o \in Ids |-> 0], owner |-> [e \in DIGs |-> NoOutput],
             crtc |-> [o \in Ids |-> NoCrtc], modes |-> {}]
-----------------------------------------------------------------------------
(* The layout.  w is what is plugged in: the connectors whose hot plug pin *)
(* is high, the load on their DACs, and those with a readable monitor.     *)
Conns == 1..Len(card.conns)
Worlds == [hpd : SUBSET Conns, load : [Conns -> Senses], mon : SUBSET Conns]

Outputs == FoldLeft(LAMBDA l, c : l \o SelectSeq(c.outs, LAMBDA o : ~Contains(l, o)),
                    <<>>, card.conns)

Sense(o, type, load) ==
  CASE type \in {"DVI", "VGA"} /\ load = "VGA" -> load
    [] type = "TV" /\ load = "SVIDEO" -> load
    [] type = "TV" /\ load = "COMPONENT" /\ o = "DACB" -> load
    [] OTHER -> "none"

(* rhdOutputConnectorCheck: the first output that senses something, else   *)
(* the first one that cannot sense.  An output takes the last connector.   *)
OutputConnectorCheck(l, i, w) ==
  LET c == card.conns[i]
      Answer(o) == IF o \in Dacs /\ l.sensed[o] = "none"
                   THEN Sense(o, c.type, w.load[i]) ELSE "none"
      answering == SelectSeq(c.outs, LAMBDA o : Answer(o) # "none")
      senseless == SelectSeq(c.outs, LAMBDA o : o \notin Dacs)
  IN  IF answering # <<>>
      THEN LET o == answering[1]
           IN  [l EXCEPT !.conn[o] = i, !.sensed[o] = Answer(o)]
      ELSE IF senseless # <<>> THEN [l EXCEPT !.conn[senseless[1]] = i] ELSE l

Attach(w) ==
  FoldLeft(LAMBDA l, i : IF card.conns[i].hpd /\ i \notin w.hpd /\ ~card.dms59
                         THEN l ELSE OutputConnectorCheck(l, i, w),
           [NoLayout EXCEPT !.list = Outputs], [i \in Conns |-> i])

Map(l, o, e) == [l EXCEPT !.enc[o] = e, !.owner[e] = o, !.active = @ \cup {o}]
AllocFree(l, o) ==
  IF o \in Dacs THEN [l EXCEPT !.active = @ \cup {o}]
  ELSE IF o # "LVTMA" /\ l.owner[1] = NoOutput THEN Map(l, o, 1)
  ELSE IF l.owner[2] = NoOutput THEN Map(l, o, 2) ELSE l

Activate(l, w) ==
  FoldLeft(LAMBDA m, o :
             IF m.conn[o] = 0
                \/ (card.conns[m.conn[o]].type = "PANEL" /\ m.conn[o] \notin w.mon)
             THEN m ELSE AllocFree(m, o),
           l, l.list)

(* RHDIsInternalDisplay: the first active output on a CRTC decides.        *)
Actives(l) == SelectSeq(l.list, LAMBDA o : o \in l.active)
IsInternalDisplay(l, c) ==
  LET on == SelectSeq(Actives(l), LAMBDA o : l.crtc[o] = c)
  IN  on # <<>> /\ on[1] = "LVTMA"
AssignCrtcs(l, first) ==
  LET as == Actives(l)
  IN  [l EXCEPT !.crtc = [o \in Ids |-> IF \E i \in 1..Len(as) : as[i] = o
          THEN ((CHOOSE i \in 1..Len(as) : as[i] = o) - 1 + first) % 2 ELSE NoCrtc]]
SetupCrtcModesPlain(l, w) ==      \* mutant: CRTCs in list order
  LET m == AssignCrtcs(l, 0)
  IN  [m EXCEPT !.modes = {m.crtc[o] : o \in {p \in m.active : m.conn[p] \in w.mon}}]
SetupCrtcModes(l, w) ==
  LET inOrder == AssignCrtcs(l, 0)
      m == IF ~IsInternalDisplay(inOrder, 0) /\ IsInternalDisplay(inOrder, 1)
           THEN AssignCrtcs(l, 1) ELSE inOrder
  IN  [m EXCEPT !.modes = {m.crtc[o] : o \in {p \in m.active : m.conn[p] \in w.mon}}]
-----------------------------------------------------------------------------
(* The scratch registers.                                                  *)
DevicesOf(o) == SelectSeq(card.devs, LAMBDA d : d.out = o)

(* The tests name atomCrtc1 and atomCrtc2, which are 0 and 1, for device   *)
(* ids: of the CRT devices only CRT1, which is 1, is matched.              *)
Wanted(dev, sensed) ==
  CASE dev = "CRT1" -> sensed \in {"VGA", "none"}
    [] dev = "TV1" -> sensed = "SVIDEO"
    [] dev = "CV" -> sensed = "COMPONENT"
    [] OTHER -> TRUE
DeviceFor(o) ==
  LET fit == SelectSeq(DevicesOf(o), LAMBDA d : /\ d.type = card.conns[lay.conn[o]].type
                                                /\ Wanted(d.dev, lay.sensed[o]))
  IN  IF fit = <<>> THEN NoDevice ELSE fit[1].dev

Bit(set, d, value) == (IF value THEN set \cup {d} ELSE set \ {d}) \ {NoDevice}
UpdateBIOSScratchConnected(r, o) ==      \* mutant: a bare output is passed over
  LET d == DeviceFor(o)
  IN  IF lay.conn[o] = 0 \/ d = NoDevice THEN r
      ELSE [r EXCEPT !.device[o] = d,
                     !.scratch.on = Bit(@ \ {x.dev : x \in ToSet(DevicesOf(o))}, d, o \in lay.active)]
UpdateBIOSScratch(r, o) ==
  LET mine == {d.dev : d \in ToSet(DevicesOf(o))}
      d    == DeviceFor(o)
      up   == o \in lay.active
      s    == r.scratch
  IN  IF lay.conn[o] = 0
      THEN [r EXCEPT !.device[o] = NoDevice, !.scratch.on = @ \ mine,
                     !.scratch.acc = @ \ mine,
                     !.scratch.attached = @ \ (mine \ {"CRT1", "CRT2", "TV1", "CV"})]
      ELSE IF d = NoDevice /\ ~card.known THEN r
      ELSE [r EXCEPT
              !.device[o] = IF d = NoDevice THEN @ ELSE d,
              !.scratch = [s EXCEPT
                !.crtc2 = IF up THEN Bit(@, d, lay.crtc[o] = 1) ELSE @,
                !.on = Bit(@ \ mine, d, up),
                !.acc = Bit(@, d, up),
                !.attached = Bit(@, d, d \notin {"CRT1", "CRT2", "TV1", "CV"}
                                       \/ d \in @)]]
ScratchPMState(r, o, off) == [r EXCEPT !.scratch.dpms = Bit(@, r.device[o], off)]
-----------------------------------------------------------------------------
(* The encoders.  LINK_STEER_SWAP crosses the two UNIPHYs.                 *)
ProbeEncoder(r, o) ==
  CASE o = "LVTMA"   -> 2
    [] o = "UNIPHYA" -> IF r.steer THEN 2 ELSE 1
    [] o = "UNIPHYB" -> IF r.steer THEN 1 ELSE 2

EncoderSet(r, o) ==
  LET e == lay.enc[o]
  IN  [r EXCEPT !.dig[e] = [@ EXCEPT !.source = lay.crtc[o], !.start = TRUE],
                !.steer = CASE o = "UNIPHYA" -> e = 2
                            [] o = "UNIPHYB" -> e # 2
                            [] OTHER -> @]

(* An output without an encoder powers the one its link was left on, if    *)
(* that is nobody else's.                                                  *)
EncoderPower(r, o, on) ==
  LET e == IF lay.enc[o] # 0 THEN lay.enc[o] ELSE ProbeEncoder(r, o)
  IN  IF lay.enc[o] = 0 /\ lay.owner[e] # NoOutput THEN r
      ELSE [r EXCEPT !.dig[e].on = on]

(* Output->Mode and Output->Power, in the wrappers of rhd_biosscratch.c.   *)
OutputMode(r, o) ==
  LET s == UpdateBIOSScratch(r, o) IN IF o \in Digs THEN EncoderSet(s, o) ELSE s
OutputPower(r, o, on) ==
  LET s == UpdateBIOSScratch(r, o) IN IF o \in Digs THEN EncoderPower(s, o, on) ELSE s

Over(Op(_, _), r, which) == FoldLeft(Op, r, SelectSeq(lay.list, LAMBDA o : o \in which))
OnCrtc(c) == {o \in lay.active : lay.crtc[o] = c}
Inactive == Ids \ lay.active

OutputsPower(r, on) == Over(LAMBDA s, o : OutputPower(s, o, on), r, lay.active)
OutputsShutdownInactive(r) == Over(LAMBDA s, o : OutputPower(s, o, FALSE), r, Inactive)
OutputsMode(r, c) == IF c \in lay.modes THEN Over(OutputMode, r, OnCrtc(c)) ELSE r
SetMode(r) ==
  OutputsPower(OutputsShutdownInactive(OutputsMode(OutputsMode(r, 0), 1)), TRUE)

DPMS(r, on) ==
  LET Step(s, o) == ScratchPMState(OutputPower(s, o, on), o, ~on)
  IN  Over(Step, Over(Step, r, OnCrtc(0)), OnCrtc(1))

(* RHDOutputsSave, RHDOutputsRestore, and the scratch registers, whose     *)
(* record is freed by the restore and read again by the next one.          *)
EncoderSaveFirst(r, o) ==      \* mutant: DIG1 whatever the link says
  [e |-> 1, regs |-> r.dig[1], steer |-> r.steer]
EncoderSave(r, o) ==
  LET e == ProbeEncoder(r, o) IN [e |-> e, regs |-> r.dig[e], steer |-> r.steer]
Save(r) == [dig |-> [o \in Digs |-> EncoderSave(r, o)], scratch |-> r.scratch,
            junk |-> r.junk, rec |-> "kept"]
EncoderRestore(r, o) ==
  LET s == saved.dig[o]
  IN  IF s.e = 0 THEN r ELSE [r EXCEPT !.dig[s.e] = s.regs, !.steer = s.steer]
OutputsRestore(r) == Over(EncoderRestore, r, Digs)
ScratchContents ==
  CASE saved.rec = "none"  -> {regs.scratch}
    [] saved.rec = "kept"  -> {saved.scratch}
    [] saved.rec = "freed" -> {saved.scratch, AllBits({}), AllBits(Devs)}
-----------------------------------------------------------------------------
CardDevs(c) == {d.dev : d \in ToSet(c.devs)}
Handed(c) == [steer : BOOLEAN, dig : {[e \in DIGs |-> OffDig],
                                      [e \in DIGs |-> [OffDig EXCEPT !.start = TRUE, !.on = TRUE]]},
              scratch : {AllBits({}), AllBits(CardDevs(c))}]
Boot(c, device) == {[steer |-> h.steer, dig |-> h.dig, scratch |-> h.scratch,
                     device |-> device, junk |-> FALSE] : h \in Handed(c)}

Init ==
  /\ card \in Cards
  /\ lay = NoLayout
  /\ \E d \in Unset : regs \in Boot(card, [o \in Ids |-> d])
  /\ saved = NoSave /\ phase = "off" /\ lit = FALSE /\ asleep = 0

(* rhdModeLayoutSelect; without an output RHDPreInit fails, and the next   *)
(* nub starts afresh.                                                      *)
ModeLayoutSelect ==
  /\ phase = "off"
  /\ \E w \in Worlds :
       LET l == Activate(Attach(w), w)
       IN  /\ l.active # {}
           /\ lay' = SetupCrtcModes(l, w)
  /\ phase' = "laid"
  /\ UNCHANGED <<card, regs, saved, lit, asleep>>

(* RHDScreenInit: RHDPrepareMode, then rhdSetMode.                         *)
ScreenInit ==
  /\ phase = "laid"
  /\ regs' = SetMode(OutputsPower(regs, FALSE))
  /\ phase' = "up" /\ lit' = TRUE
  /\ UNCHANGED <<card, lay, saved, asleep>>

Awake == phase = "up" /\ asleep < Nubs
SwitchMode ==
  /\ Awake
  /\ regs' = [SetMode(regs) EXCEPT !.junk = FALSE] /\ lit' = TRUE
  /\ UNCHANGED <<card, lay, saved, phase, asleep>>

AVPower(on) ==
  /\ Awake
  /\ regs' = DPMS(regs, on) /\ lit' = on
  /\ UNCHANGED <<card, lay, saved, phase, asleep>>

HardwareSleep ==
  /\ Awake
  /\ regs' = DPMS(regs, FALSE) /\ lit' = FALSE
  /\ saved' = Save(regs')
  /\ asleep' = asleep + 1
  /\ UNCHANGED <<card, lay, phase>>

HardwareWake ==
  /\ asleep > 0
  /\ \E s \in ScratchContents :
       regs' = DPMS([OutputsRestore(regs) EXCEPT !.scratch = s,
                                                 !.junk = saved.junk \/ saved.rec = "freed"], TRUE)
  /\ saved' = [saved EXCEPT !.rec = "freed"]
  /\ asleep' = asleep - 1 /\ phase' = "up" /\ lit' = TRUE
  /\ UNCHANGED <<card, lay>>

(* Everybody sleeps, and the BIOS sets the card up anew.                   *)
PowerLoss ==
  /\ phase = "up" /\ asleep = Nubs
  /\ regs' \in Boot(card, regs.device)
  /\ phase' = "lost"
  /\ UNCHANGED <<card, lay, saved, lit, asleep>>

Next ==
  \/ ModeLayoutSelect \/ ScreenInit \/ SwitchMode
  \/ \E on \in BOOLEAN : AVPower(on)
  \/ HardwareSleep \/ HardwareWake \/ PowerLoss

Spec == Init /\ [][Next]_vars
-----------------------------------------------------------------------------
(* Every active digital output has an encoder of its own, LVTMA the only   *)
(* one it can use; the encoder takes its CRTC's picture, runs while the    *)
(* display is lit, and the link steering leads to that output: whatever    *)
(* other outputs do to the steering register, through DPMS, mode switches, *)
(* sleep and a BIOS that set it otherwise.                                 *)
LeadsTo(r, e, o) ==
  CASE o = "LVTMA" -> e = 2 [] OTHER -> e = ProbeEncoder(r, o)
Routed ==
  phase = "up" => \A o \in lay.active \cap Digs : lay.crtc[o] \in lay.modes =>
    LET e == lay.enc[o]
    IN  /\ e # 0 /\ lay.owner[e] = o /\ LeadsTo(regs, e, o)
        /\ regs.dig[e] = [source |-> lay.crtc[o], start |-> TRUE, on |-> lit]

(* What AtomBIOS reads in its scratch registers (RHDGetDeviceOnCrtc): a    *)
(* device is active if and only if an active output drives it, and on that *)
(* output's CRTC.  Of an output whose device is not in the table, and of   *)
(* an unused one after a restore from the freed record, nothing is said.   *)
Found(o) == lay.conn[o] = 0 \/ DeviceFor(o) # NoDevice
ScratchTells ==
  phase = "up" => \A o \in ToSet(lay.list) : Found(o) =>
    \A x \in ToSet(DevicesOf(o)) :
      /\ o \in lay.active \/ ~regs.junk =>
           (x.dev \in regs.scratch.on
             <=> o \in lay.active /\ x.dev = DeviceFor(o))
      /\ o \in lay.active /\ x.dev = DeviceFor(o) =>
           (x.dev \in regs.scratch.crtc2 <=> lay.crtc[o] = 1)

(* "the boot display (mostly internal one) must stick to the same VRAM     *)
(* area used by Crtc 0" (rhd_driver.c:1130), with up to three outputs.     *)
InternalFirst ==
  "LVTMA" \in lay.active /\ Len(Actives(lay)) <= 3 => lay.crtc["LVTMA"] = 0
=============================================================================
