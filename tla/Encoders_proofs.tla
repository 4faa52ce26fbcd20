-------------------------- MODULE Encoders_proofs --------------------------
(***************************************************************************)
(* What holds of the output blocks for every set of pixel clocks and every *)
(* number of nubs.  Dark and Clocked are not inductive: a wake writes back *)
(* what was saved, so the saved registers must be dark and clocked too,    *)
(* and TMDSA is only restarted in some states of its private record, so    *)
(* the state must tell whether its PLL runs.  IInv says so.                *)
(* Driven rests on IInv and on Wired, which says of the registers, and of  *)
(* those saved, that they are those of some mode set, and of the private   *)
(* flags that they are those of the current mode.                          *)
(***************************************************************************)
EXTENDS Encoders, TLAPS

USE DEF Kinds, Dacs, R500Dacs, Panels, Tmdss, Digs, SingleLimit, TvEncoder, NoClock

(* The registers and private records there may be.                         *)
Blocks ==
  [on : BOOLEAN, source : {0, 1, 2}, std : {"VGA", "TV", "COMPONENT"},
   mux : BOOLEAN, forced : BOOLEAN, down : BOOLEAN, dual : BOOLEAN,
   links : {0, 1, 2}, pll : BOOLEAN, held : BOOLEAN, sync : BOOLEAN,
   tmds : BOOLEAN, seq : BOOLEAN, hdmi : BOOLEAN, clk : Nat, want : BOOLEAN,
   state : {"unknown", "shutdown", "reset", "on"}]

(* What a kind of block does not have stays clear.                         *)
Fits(o, b) ==
  /\ b.hdmi => o.kind \in Tmdss
  /\ b.links # 0 => o.kind \in Panels \cup Tmdss
(* No link transmits, and a panel is sequenced off.                        *)
Still(o, b) ==
  /\ o.kind \in Tmdss => b.links = 0
  /\ o.kind \in Panels => ~b.seq
  /\ o.kind = "DDIA" => ~b.on
(* The block is shut down.                                                 *)
Gone(o, b) ==
  /\ o.kind \in Dacs => ~b.on /\ b.down
  /\ Still(o, b) /\ ~b.hdmi
Ready(b) == b.on /\ b.pll /\ ~b.held
(* The blocks whose PLL is not started by each power on.                   *)
Starts(o, c) == o.kind = "TMDSA" \/ (o.kind = "LVDS" /\ c # NoClock)
(* A state of TMDSA that Power does not restart from.                      *)
Started(b) == b.state \in {"on", "reset"}

Typed ==
  /\ out \in OutputSet /\ x \in Blocks /\ saved \in Blocks
  /\ mode \in Nat /\ asleep \in Nat
  /\ phase \in {"off", "sensed", "up", "lost"} /\ lit \in BOOLEAN
  /\ Fits(out, x) /\ Fits(out, saved)
  /\ phase \in {"off", "sensed"} => asleep = 0 /\ x.state = "unknown"

DarkSaved ==
  asleep > 0 => /\ Still(out, saved)
                /\ ~out.active => Gone(out, saved)
DarkNow ==
  phase = "up" => /\ ~lit => Still(out, x)
                  /\ ~out.active => Gone(out, x)

ReadySaved == asleep > 0 /\ out.active /\ Starts(out, mode) => Ready(saved)
ReadyNow ==
  out.active /\ Starts(out, mode) =>
    /\ phase = "up" => Ready(x)
    /\ phase \in {"up", "lost"} /\ out.kind = "TMDSA" => Started(x)

IInv == Typed /\ DarkSaved /\ DarkNow /\ ReadySaved /\ ReadyNow /\ Clocked
-----------------------------------------------------------------------------
LEMMA OutputType ==
  ASSUME NEW o \in OutputSet
  PROVE  /\ o.kind \in Kinds /\ o.crtc \in {0, 1} /\ o.single \in BOOLEAN
         /\ o.sensed \in {"VGA", "TV", "COMPONENT"} /\ o.wide \in BOOLEAN
         /\ o.hdmi \in BOOLEAN /\ o.active \in BOOLEAN
         /\ o.hdmi => o.kind \in Tmdss
BY DEF OutputSet

(* What the operators that several blocks share do to the fields that the  *)
(* properties are about.                                                   *)
Same(b, r) ==
  /\ r \in Blocks
  /\ r.on = b.on /\ r.down = b.down /\ r.links = b.links /\ r.seq = b.seq
  /\ r.hdmi = b.hdmi /\ r.state = b.state

LEMMA StartLemma ==
  ASSUME NEW b \in Blocks
  PROVE  /\ TransmitterStart(b) \in Blocks /\ Same(b, TransmitterStart(b))
         /\ TransmitterStart(b).pll /\ ~TransmitterStart(b).held
         /\ TMDSAStart(b) \in Blocks /\ Ready(TMDSAStart(b))
         /\ TMDSAStart(b).hdmi = b.hdmi
BY DEF TransmitterStart, TMDSAStart, Pulse, Resync, Ready, Same, Blocks

LEMMA StoppedLemma ==
  ASSUME NEW b \in Blocks
  PROVE  /\ Stopped(b) \in Blocks
         /\ ~Stopped(b).on /\ Stopped(b).links = 0 /\ ~Stopped(b).hdmi
         /\ Stopped(b).state = b.state
BY ZenonT(60) DEF Stopped, Blocks

LEMMA WantLinksLemma ==
  ASSUME NEW b \in Blocks
  PROVE  WantLinks(b) \in {1, 2}
BY DEF WantLinks
-----------------------------------------------------------------------------
(* What Output->Power has to do, whatever the block: it leaves a block, a  *)
(* shutdown ends everything, a reset what transmits, and a power on starts *)
(* nothing without a clock if the blocks whose PLL it does not start run.  *)
PowerOK(o, b, p, r) ==
  /\ r \in Blocks /\ Fits(o, r)
  /\ p = "shutdown" => Gone(o, r)
  /\ p = "reset" =>
       /\ Still(o, r)
       /\ o.kind \in {"TMDSA", "LVDS"} /\ Ready(b) => Ready(r)
       /\ o.kind = "TMDSA" => (Started(r) <=> Started(b))
  /\ p = "on" =>
       /\ /\ o.kind = "LVDS" => Ready(b)
          /\ o.kind = "TMDSA" /\ Started(b) => Ready(b)
          => /\ Transmits(o, r) => Ready(r)
             /\ o.kind \in {"TMDSA", "LVDS"} => Ready(r)
       /\ o.kind = "TMDSA" => Started(r)

LEMMA DACPowerOK ==
  ASSUME NEW o \in OutputSet, NEW b \in Blocks, NEW p \in {"on", "reset", "shutdown"},
         Fits(o, b), o.kind \in Dacs
  PROVE  PowerOK(o, b, p, Power(o, b, p))
<1>1. Power(o, b, p) = DACPower(b, p)
  BY DEF Power
<1> DEFINE r == Power(o, b, p)
<1>2. CASE p = "on"
  <2>1. r = [b EXCEPT !.on = TRUE, !.down = FALSE, !.forced = FALSE]
    BY <1>1, <1>2 DEF DACPower
  <2>2. r \in Blocks /\ r.links = b.links /\ r.hdmi = b.hdmi
    BY <2>1, ZenonT(60) DEF Blocks
  <2> QED
    BY <1>2, <2>2 DEF PowerOK, Fits, Transmits
<1>3. CASE p = "reset"
  BY <1>1, <1>3 DEF DACPower, Blocks, PowerOK, Fits, Still
<1>4. CASE p = "shutdown"
  <2>1. r = [b EXCEPT !.on = FALSE, !.down = TRUE, !.forced = TRUE]
    BY <1>1, <1>4 DEF DACPower
  <2>2. r \in Blocks /\ ~r.on /\ r.down /\ r.links = b.links /\ r.hdmi = b.hdmi
    BY <2>1 DEF Blocks
  <2> QED
    BY <1>4, <2>2 DEF PowerOK, Fits, Still, Gone
<1> QED
  BY <1>2, <1>3, <1>4

LEMMA TMDSAPowerOK ==
  ASSUME NEW o \in OutputSet, NEW b \in Blocks, NEW p \in {"on", "reset", "shutdown"},
         Fits(o, b), o.kind = "TMDSA"
  PROVE  PowerOK(o, b, p, Power(o, b, p))
<1>1. Power(o, b, p) = TMDSAPower(o, b, p)
  BY DEF Power
<1>2. CASE p = "on"
  <2> DEFINE s == IF b.state \in {"shutdown", "unknown"} THEN TMDSAStart(b) ELSE b
             r == Power(o, b, p)
  <2>1. s \in Blocks /\ (~Started(b) \/ Ready(b) => Ready(s))
    BY StartLemma DEF Started, Blocks
  <2>2. o.hdmi \in BOOLEAN /\ WantLinks(b) \in {0, 1, 2}
    BY OutputType, WantLinksLemma
  <2>3. r = [s EXCEPT !.links = WantLinks(b), !.hdmi = o.hdmi, !.state = "on"]
    BY <1>1, <1>2 DEF TMDSAPower
  <2> HIDE DEF s
  <2>4. r \in Blocks /\ Fits(o, r) /\ Started(r)
    BY <2>1, <2>2, <2>3, ZenonT(60) DEF Blocks, Fits, Started
  <2>5. Ready(s) => Ready(r)
    BY <2>1, <2>3 DEF Blocks, Ready
  <2> QED
    BY <1>2, <2>1, <2>4, <2>5 DEF PowerOK
<1>3. CASE p = "reset"
  <2> DEFINE r == Power(o, b, p)
             state == IF b.state = "on" THEN "reset" ELSE b.state
  <2>1. r = [b EXCEPT !.links = 0, !.state = state]
    BY <1>1, <1>3 DEF TMDSAPower
  <2>2. state \in {"unknown", "shutdown", "reset"}
    BY DEF Blocks
  <2>3. r \in Blocks /\ r.links = 0 /\ r.hdmi = b.hdmi /\ r.state = state
    BY <2>1, <2>2 DEF Blocks
  <2>4. Ready(b) => Ready(r)
    BY <2>1 DEF Ready, Blocks
  <2> QED
    BY <1>3, <2>2, <2>3, <2>4 DEF PowerOK, Fits, Still, Started
<1>4. CASE p = "shutdown"
  <2>1. Power(o, b, p) = [Stopped(b) EXCEPT !.state = "shutdown"]
    BY <1>1, <1>4 DEF TMDSAPower
  <2> QED
    BY <1>4, <2>1, StoppedLemma DEF Blocks, PowerOK, Fits, Still, Gone
<1> QED
  BY <1>2, <1>3, <1>4

LEMMA TMDSBPowerOK ==
  ASSUME NEW o \in OutputSet, NEW b \in Blocks, NEW p \in {"on", "reset", "shutdown"},
         Fits(o, b), o.kind = "TMDSB"
  PROVE  PowerOK(o, b, p, Power(o, b, p))
<1> DEFINE t == [b EXCEPT !.tmds = TRUE]
           r == Power(o, b, p)
<1>1. r = TMDSBPower(o, b, p)
  BY DEF Power
<1>2. t \in Blocks /\ t.hdmi = b.hdmi
  BY DEF Blocks
<1>3. CASE p = "on"
  <2>1. o.hdmi \in BOOLEAN /\ WantLinks(b) \in {0, 1, 2}
    BY OutputType, WantLinksLemma
  <2>2. r = [t EXCEPT !.on = TRUE, !.links = WantLinks(b), !.pll = TRUE,
                      !.held = FALSE, !.hdmi = o.hdmi]
    BY <1>1, <1>3 DEF TMDSBPower
  <2> HIDE DEF t
  <2>3. r \in Blocks /\ r.on /\ r.pll /\ ~r.held
    BY <1>2, <2>1, <2>2, ZenonT(60) DEF Blocks
  <2> QED
    BY <1>3, <2>3 DEF PowerOK, Fits, Ready
<1>4. CASE p = "reset"
  <2>1. r = [t EXCEPT !.links = 0]
    BY <1>1, <1>4 DEF TMDSBPower
  <2>2. r \in Blocks /\ r.links = 0 /\ r.hdmi = b.hdmi
    BY <2>1 DEF Blocks
  <2> QED
    BY <1>4, <2>2 DEF PowerOK, Fits, Still
<1>5. CASE p = "shutdown"
  <2>1. r = Stopped(t)
    BY <1>1, <1>5 DEF TMDSBPower
  <2> QED
    BY <1>2, <1>5, <2>1, StoppedLemma DEF PowerOK, Fits, Still, Gone
<1> QED
  BY <1>3, <1>4, <1>5

LEMMA LVDSPowerOK ==
  ASSUME NEW o \in OutputSet, NEW b \in Blocks, NEW p \in {"on", "reset", "shutdown"},
         Fits(o, b), o.kind = "LVDS"
  PROVE  PowerOK(o, b, p, Power(o, b, p))
<1> DEFINE r == Power(o, b, p)
<1>1. r = LVDSPower(b, p)
  BY DEF Power
<1>2. CASE p = "on"
  <2> DEFINE links == IF b.want THEN 2 ELSE IF b.links = 0 THEN 1 ELSE b.links
  <2>1. links \in {0, 1, 2}
    BY DEF Blocks
  <2>2. r = [b EXCEPT !.links = links, !.seq = TRUE]
    BY <1>1, <1>2 DEF LVDSPower
  <2> HIDE DEF links
  <2>3. r \in Blocks /\ r.hdmi = b.hdmi /\ (Ready(b) => Ready(r))
    BY <2>1, <2>2, ZenonT(60) DEF Blocks, Ready
  <2> QED
    BY <1>2, <2>3 DEF PowerOK, Fits
<1>3. CASE p \in {"reset", "shutdown"}
  <2>1. r = LVDSDisable(b)
    BY <1>1, <1>3 DEF LVDSPower
  <2>2. r \in Blocks /\ ~r.seq /\ r.hdmi = b.hdmi
    <3>1. CASE b.seq
      <4>1. r = [b EXCEPT !.seq = FALSE, !.links = 0]
        BY <2>1, <3>1 DEF LVDSDisable
      <4> QED
        BY <4>1, ZenonT(60) DEF Blocks
    <3>2. CASE ~b.seq
      <4>1. r = b
        BY <2>1, <3>2 DEF LVDSDisable
      <4> QED
        BY <3>2, <4>1
    <3> QED
      BY <3>1, <3>2
  <2>3. Ready(b) => Ready(r)
    BY <2>1 DEF LVDSDisable, Blocks, Ready
  <2> QED
    BY <1>3, <2>2, <2>3 DEF PowerOK, Fits, Still, Gone
<1> QED
  BY <1>2, <1>3

LEMMA DDIAPowerOK ==
  ASSUME NEW o \in OutputSet, NEW b \in Blocks, NEW p \in {"on", "reset", "shutdown"},
         Fits(o, b), o.kind = "DDIA"
  PROVE  PowerOK(o, b, p, Power(o, b, p))
<1> DEFINE r == Power(o, b, p)
<1>1. r = DDIAPower(b, p)
  BY DEF Power
<1>2. r \in Blocks /\ r.links = b.links /\ r.hdmi = b.hdmi
  BY <1>1, ZenonT(60) DEF DDIAPower, Blocks
<1>3. p # "on" => ~r.on
  BY <1>1 DEF DDIAPower, Blocks
<1> QED
  BY <1>2, <1>3 DEF PowerOK, Fits, Still, Gone, Transmits

LEMMA EncoderPowerLemma ==
  ASSUME NEW b \in Blocks, NEW p \in {"on", "reset", "shutdown"}
  PROVE  LET e == EncoderPower(b, p)
         IN  /\ e \in Blocks /\ e.on = (p = "on")
             /\ e.links = b.links /\ e.seq = b.seq /\ e.hdmi = b.hdmi
             /\ e.pll = b.pll /\ e.held = b.held
<1> DEFINE on == p = "on"
<1>1. on \in BOOLEAN
  OBVIOUS
<1>2. EncoderPower(b, p) = [b EXCEPT !.on = on]
  BY Zenon DEF EncoderPower
<1> HIDE DEF on
<1>3. LET e == EncoderPower(b, p)
      IN  /\ e \in Blocks /\ e.on = on
          /\ e.links = b.links /\ e.seq = b.seq /\ e.hdmi = b.hdmi
          /\ e.pll = b.pll /\ e.held = b.held
  BY <1>1, <1>2 DEF Blocks
<1> QED
  BY <1>3 DEF on

TransmitterOK(o, b, p, t) ==
  /\ t \in Blocks /\ t.on = b.on /\ t.hdmi = b.hdmi
  /\ p = "on" => t.pll /\ ~t.held
  /\ p # "on" => Still(o, t)

LEMMA TransmitterPowerLemma ==
  ASSUME NEW o \in OutputSet, NEW b \in Blocks, NEW p \in {"on", "reset", "shutdown"},
         o.kind \in Digs
  PROVE  TransmitterOK(o, b, p, TransmitterPower(o, b, p))
<1> DEFINE s == TransmitterStart(b)
           t == TransmitterPower(o, b, p)
<1>1. s \in Blocks /\ s.on = b.on /\ s.hdmi = b.hdmi /\ s.pll /\ ~s.held
  BY StartLemma DEF Same
<1>2. WantLinks(b) \in {0, 1, 2}
  BY WantLinksLemma
<1>3. CASE o.kind = "KLDSKP_TMDS"
  <2>1. CASE p = "on"
    <3>1. t = [s EXCEPT !.tmds = TRUE, !.links = WantLinks(b)]
      BY <1>3, <2>1 DEF TransmitterPower, LVTMA_TMDSTransmitterPower
    <3> HIDE DEF s
    <3>2. t \in Blocks /\ t.on = s.on /\ t.hdmi = s.hdmi /\ t.pll = s.pll /\ t.held = s.held
      BY <1>1, <1>2, <3>1, ZenonT(60) DEF Blocks
    <3> QED
      BY <1>1, <2>1, <3>2 DEF TransmitterOK
  <2>2. CASE p = "reset"
    <3>1. t = [b EXCEPT !.links = 0]
      BY <1>3, <2>2 DEF TransmitterPower, LVTMA_TMDSTransmitterPower
    <3> QED
      BY <1>3, <2>2, <3>1 DEF Blocks, Still, TransmitterOK
  <2>3. CASE p = "shutdown"
    <3>1. t = [b EXCEPT !.links = 0, !.held = FALSE, !.sync = FALSE]
      BY <1>3, <2>3 DEF TransmitterPower, LVTMA_TMDSTransmitterPower
    <3> QED
      BY <1>3, <2>3, <3>1, ZenonT(60) DEF Blocks, Still, TransmitterOK
  <2> QED
    BY <2>1, <2>2, <2>3
<1>4. CASE o.kind = "KLDSKP_LVDS"
  <2>1. CASE p = "on"
    <3>1. t = [s EXCEPT !.tmds = FALSE, !.links = WantLinks(b), !.seq = TRUE]
      BY <1>4, <2>1 DEF TransmitterPower, LVTMA_LVDSTransmitterPower
    <3> HIDE DEF s
    <3>2. t \in Blocks
      <4> DEFINE u == [s EXCEPT !.tmds = FALSE, !.links = WantLinks(b)]
      <4>1. u \in Blocks
        BY <1>1, <1>2 DEF Blocks
      <4>2. t = [u EXCEPT !.seq = TRUE]
        BY <1>1, <3>1 DEF Blocks
      <4> HIDE DEF u
      <4> QED
        BY <4>1, <4>2 DEF Blocks
    <3>3. t.on = s.on /\ t.hdmi = s.hdmi /\ t.pll = s.pll /\ t.held = s.held
      BY <1>1, <3>1, ZenonT(60) DEF Blocks
    <3> QED
      BY <1>1, <2>1, <3>2, <3>3 DEF TransmitterOK
  <2>2. CASE p # "on"
    <3>1. t = [b EXCEPT !.seq = FALSE]
      BY <1>4, <2>2 DEF TransmitterPower, LVTMA_LVDSTransmitterPower
    <3> QED
      BY <1>4, <2>2, <3>1 DEF Blocks, Still, TransmitterOK
  <2> QED
    BY <2>1, <2>2
<1> QED
  BY <1>3, <1>4

LEMMA DigPowerOK ==
  ASSUME NEW o \in OutputSet, NEW b \in Blocks, NEW p \in {"on", "reset", "shutdown"},
         Fits(o, b), o.kind \in Digs
  PROVE  PowerOK(o, b, p, Power(o, b, p))
<1> DEFINE r == Power(o, b, p)
<1>1. r = DigPower(o, b, p)
  BY DEF Power
<1>2. CASE p = "on"
  <2> DEFINE e == EncoderPower(b, p)
             t == TransmitterPower(o, e, p)
  <2>1. e \in Blocks /\ e.on
    BY <1>2, EncoderPowerLemma
  <2>2. t \in Blocks /\ t.on /\ t.pll /\ ~t.held
    <3> HIDE DEF e
    <3> QED
      BY <1>2, <2>1, TransmitterPowerLemma DEF TransmitterOK
  <2>3. o.hdmi \in BOOLEAN /\ (o.hdmi => o.kind \in Tmdss)
    BY OutputType
  <2>4. r = [t EXCEPT !.hdmi = o.hdmi]
    BY <1>1, <1>2 DEF DigPower
  <2> HIDE DEF t
  <2>5. r \in Blocks /\ Ready(r) /\ r.hdmi = o.hdmi
    BY <2>2, <2>3, <2>4 DEF Blocks, Ready
  <2> QED
    BY <1>2, <2>3, <2>5 DEF PowerOK, Fits
<1>3. CASE p \in {"reset", "shutdown"}
  <2> DEFINE t == TransmitterPower(o, b, p)
             e == EncoderPower(t, p)
  <2>1. t \in Blocks /\ t.hdmi = b.hdmi /\ Still(o, t)
    BY <1>3, TransmitterPowerLemma DEF TransmitterOK
  <2>2. e \in Blocks /\ e.links = t.links /\ e.seq = t.seq /\ e.hdmi = t.hdmi
    <3> HIDE DEF t
    <3> QED
      BY <2>1, EncoderPowerLemma
  <2>3. Still(o, e)
    BY <2>1, <2>2 DEF Still
  <2>4. r = IF p = "reset" THEN e ELSE [e EXCEPT !.hdmi = FALSE]
    BY <1>1, <1>3 DEF DigPower
  <2> HIDE DEF e, t
  <2>5. r \in Blocks /\ Still(o, r) /\ (r.hdmi => b.hdmi) /\ (p = "shutdown" => ~r.hdmi)
    <3>1. CASE p = "reset"
      BY <2>1, <2>2, <2>3, <2>4, <3>1
    <3>2. CASE p = "shutdown"
      <4>1. r = [e EXCEPT !.hdmi = FALSE]
        BY <2>4, <3>2
      <4>2. /\ r \in Blocks /\ ~r.hdmi /\ r.on = e.on /\ r.links = e.links
            /\ r.seq = e.seq
        BY <2>2, <4>1, ZenonT(60) DEF Blocks
      <4> QED
        BY <2>3, <3>2, <4>2 DEF Still
    <3> QED
      BY <1>3, <3>1, <3>2
  <2> QED
    BY <1>3, <2>5 DEF PowerOK, Fits, Gone
<1> QED
  BY <1>2, <1>3

LEMMA PowerLemma ==
  ASSUME NEW o \in OutputSet, NEW b \in Blocks, NEW p \in {"on", "reset", "shutdown"},
         Fits(o, b)
  PROVE  PowerOK(o, b, p, Power(o, b, p))
<1>1. o.kind \in Kinds
  BY OutputType
<1> QED
  BY <1>1, DACPowerOK, TMDSAPowerOK, TMDSBPowerOK, LVDSPowerOK, DDIAPowerOK, DigPowerOK
-----------------------------------------------------------------------------
(* What Output->Mode does: LVDS starts its PLL, TMDSA leaves it to Power.  *)
SetOK(o, b, r) ==
  /\ r \in Blocks /\ Fits(o, r)
  /\ o.kind = "LVDS" => Ready(r)
  /\ o.kind = "TMDSA" => /\ Started(r) <=> Started(b)
                         /\ Ready(b) => Ready(r)

LEMMA PulseLemma ==
  ASSUME NEW b \in Blocks
  PROVE  LET r == Resync(Pulse(b))
         IN  r \in Blocks /\ ~r.held /\ r.pll = b.pll /\ r.on = b.on
             /\ r.hdmi = b.hdmi /\ r.links = b.links
BY DEF Resync, Pulse, Blocks

(* The operators without the clock they are for.                           *)
Programmed(o, b, c) ==
  CASE o.kind \in Dacs    -> DACSet(o, b)
    [] o.kind = "TMDSA"   -> TMDSASet(o, b, c)
    [] o.kind = "TMDSB"   -> TMDSBSet(o, b, c)
    [] o.kind = "LVDS"    -> LVDSSet(o, b)
    [] o.kind = "DDIA"    -> DDIAMode(o, b, c)
    [] o.kind \in Digs    -> DigMode(o, b, c)

LEMMA ProgrammedLemma ==
  ASSUME NEW o \in OutputSet, NEW b \in Blocks, NEW c \in Nat, Fits(o, b)
  PROVE  SetOK(o, b, Programmed(o, b, c))
<1> DEFINE r == Programmed(o, b, c)
<1>1. /\ o.kind \in Kinds /\ o.crtc \in {0, 1, 2}
      /\ o.sensed \in {"VGA", "TV", "COMPONENT"}
  BY OutputType
<1>2. CASE o.kind \in Dacs
  <2> DEFINE tv     == o.sensed # "VGA"
             force  == b.forced \/ o.kind \in R500Dacs
             mux    == IF o.kind \in {"DACB", "DACB_RV620"} THEN tv ELSE b.mux
             source == IF o.sensed = "VGA" THEN o.crtc ELSE TvEncoder
  <2>1. force \in BOOLEAN /\ tv \in BOOLEAN /\ b.mux \in BOOLEAN
    BY DEF Blocks
  <2>2. mux \in BOOLEAN
    <3> HIDE DEF tv
    <3> QED
      BY <2>1
  <2>3. source \in {0, 1, 2}
    BY <1>1
  <2>4. DACSet(o, b) = [b EXCEPT !.std = o.sensed, !.source = source, !.mux = mux,
                                 !.forced = force]
    BY Zenon DEF DACSet
  <2>5. r = DACSet(o, b)
    BY <1>2 DEF Programmed
  <2> HIDE DEF tv, force, mux, source
  <2>6. r \in Blocks /\ r.hdmi = b.hdmi /\ r.links = b.links
    <3>1. DACSet(o, b) \in Blocks
      BY <1>1, <2>1, <2>2, <2>3, <2>4, ZenonT(60) DEF Blocks
    <3>2. r \in Blocks
      BY <2>5, <3>1
    <3>3. r.hdmi = b.hdmi /\ r.links = b.links
      BY <1>1, <2>1, <2>2, <2>3, <2>4, <2>5 DEF Blocks
    <3> QED
      BY <3>2, <3>3
  <2> QED
    BY <1>2, <2>6 DEF SetOK, Fits
<1>3. CASE o.kind \in {"TMDSA", "TMDSB"}
  <2> DEFINE two == c > SingleLimit
             a   == [b EXCEPT !.links = 0, !.source = o.crtc, !.forced = FALSE,
                              !.dual = two, !.want = two]
             t   == [b EXCEPT !.tmds = TRUE, !.links = 0, !.source = o.crtc,
                              !.forced = FALSE, !.dual = two, !.want = two]
  <2>1. two \in BOOLEAN
    OBVIOUS
  <2>2. TMDSASet(o, b, c) = a /\ TMDSBSet(o, b, c) = Resync(Pulse(t))
    BY Zenon DEF TMDSASet, TMDSBSet
  <2>3. r = IF o.kind = "TMDSA" THEN a ELSE Resync(Pulse(t))
    BY <1>3, <2>2, Zenon DEF Programmed
  <2> HIDE DEF two
  <2>4. /\ a \in Blocks /\ a.hdmi = b.hdmi /\ a.on = b.on /\ a.pll = b.pll
        /\ a.held = b.held /\ a.state = b.state
    BY <1>1, <2>1, ZenonT(60) DEF Blocks
  <2>5. t \in Blocks
    <3> DEFINE u == [a EXCEPT !.tmds = TRUE]
    <3>1. u \in Blocks
      <4> HIDE DEF a
      <4> QED
        BY <2>4 DEF Blocks
    <3>2. t = u
      BY DEF Blocks
    <3> QED
      BY <3>1, <3>2
  <2>6. t.hdmi = b.hdmi
    BY DEF Blocks
  <2> HIDE DEF a, t
  <2>7. CASE o.kind = "TMDSA"
    BY <2>3, <2>4, <2>7 DEF SetOK, Fits, Ready, Started
  <2>8. CASE o.kind = "TMDSB"
    BY <2>3, <2>5, <2>6, <2>8, PulseLemma DEF SetOK, Fits
  <2> QED
    BY <1>3, <2>7, <2>8
<1>4. CASE o.kind = "LVDS"
  <2> DEFINE s == [b EXCEPT !.on = TRUE, !.tmds = FALSE, !.source = o.crtc,
                            !.dual = b.want, !.pll = TRUE]
  <2>1. s \in Blocks
    BY <1>1 DEF Blocks
  <2>2. s.on /\ s.pll /\ s.hdmi = b.hdmi
    BY DEF Blocks
  <2>3. r = Resync(Pulse(s))
    BY <1>4 DEF Programmed, LVDSSet
  <2> HIDE DEF s
  <2> QED
    BY <1>4, <2>1, <2>2, <2>3, PulseLemma DEF SetOK, Fits, Ready
<1>5. CASE o.kind = "DDIA"
  <2> DEFINE two == c >= SingleLimit
  <2>1. two \in BOOLEAN
    OBVIOUS
  <2>2. DDIAMode(o, b, c) = [b EXCEPT !.held = TRUE, !.pll = TRUE, !.source = o.crtc,
                                      !.dual = two, !.want = two]
    BY Zenon DEF DDIAMode
  <2>3. r = DDIAMode(o, b, c)
    BY <1>5 DEF Programmed
  <2> HIDE DEF two
  <2>4. r \in Blocks /\ r.hdmi = b.hdmi /\ r.links = b.links
    <3>1. DDIAMode(o, b, c) \in Blocks
      BY <1>1, <2>1, <2>2, ZenonT(60) DEF Blocks
    <3>2. r \in Blocks
      BY <2>3, <3>1
    <3>3. r.hdmi = b.hdmi /\ r.links = b.links
      BY <1>1, <2>1, <2>2, <2>3 DEF Blocks
    <3> QED
      BY <3>2, <3>3
  <2> QED
    BY <1>5, <2>4 DEF SetOK, Fits
<1>6. CASE o.kind \in Digs
  <2> DEFINE over == c > SingleLimit
             two  == IF o.kind = "KLDSKP_TMDS" /\ ~o.single THEN over ELSE b.want
  <2>1. over \in BOOLEAN /\ b.want \in BOOLEAN
    BY DEF Blocks
  <2>2. two \in BOOLEAN
    <3> HIDE DEF over
    <3> QED
      BY <2>1
  <2>3. DigMode(o, b, c) = [b EXCEPT !.want = two, !.dual = two, !.source = o.crtc]
    BY Zenon DEF DigMode
  <2>4. r = DigMode(o, b, c)
    BY <1>6 DEF Programmed
  <2> HIDE DEF over, two
  <2>5. r \in Blocks /\ r.hdmi = b.hdmi /\ r.links = b.links
    <3>1. DigMode(o, b, c) \in Blocks
      BY <1>1, <2>2, <2>3, ZenonT(60) DEF Blocks
    <3>2. r \in Blocks
      BY <2>4, <3>1
    <3>3. r.hdmi = b.hdmi /\ r.links = b.links
      BY <1>1, <2>2, <2>3, <2>4 DEF Blocks
    <3> QED
      BY <3>2, <3>3
  <2> QED
    BY <1>6, <2>5 DEF SetOK, Fits
<1> QED
  BY <1>1, <1>2, <1>3, <1>4, <1>5, <1>6

LEMMA SetLemma ==
  ASSUME NEW o \in OutputSet, NEW b \in Blocks, NEW c \in Nat, Fits(o, b)
  PROVE  SetOK(o, b, Set(o, b, c))
<1> DEFINE s == Programmed(o, b, c)
           r == Set(o, b, c)
<1>1. SetOK(o, b, s)
  BY ProgrammedLemma
<1>2. r = [s EXCEPT !.clk = c]
  BY Zenon DEF Set, Programmed
<1> HIDE DEF s, r
<1>3. s \in Blocks
  BY <1>1 DEF SetOK
<1>4. r \in Blocks
  BY <1>2, <1>3 DEF Blocks
<1>5. /\ r.on = s.on /\ r.pll = s.pll /\ r.held = s.held /\ r.state = s.state
      /\ r.hdmi = s.hdmi /\ r.links = s.links
  BY <1>2, <1>3 DEF Blocks
<1>6. SetOK(o, b, r)
  BY <1>1, <1>4, <1>5 DEF SetOK, Fits, Ready, Started
<1> QED
  BY <1>6 DEF r

(* The three restores as one update of the saved registers.                *)
LEMMA RestoreForm ==
  ASSUME NEW o \in OutputSet, NEW b \in Blocks, NEW s \in Blocks
  PROVE  LET source == IF o.kind = "DDIA" THEN b.source ELSE s.source
             pll    == IF o.kind = "DDIA" THEN b.pll ELSE s.pll
             sync   == CASE o.kind = "DDIA" -> s.sync
                         [] o.kind \in Digs -> s.sync /\ s.pll
                         [] OTHER           -> s.pll /\ b.pll /\ b.sync
         IN  Restore(o, b, s)
               = Keep(b, [s EXCEPT !.source = source, !.pll = pll, !.sync = sync])
<1>1. CASE o.kind = "DDIA"
  <2>1. [s EXCEPT !.source = b.source, !.pll = b.pll, !.sync = s.sync]
          = [s EXCEPT !.source = b.source, !.pll = b.pll]
    BY DEF Blocks
  <2> QED
    BY <1>1, <2>1 DEF Restore, DDIARestore
<1>2. CASE o.kind \in Digs
  <2>1. [s EXCEPT !.source = s.source, !.pll = s.pll, !.sync = s.sync /\ s.pll]
          = [s EXCEPT !.sync = s.sync /\ s.pll]
    BY DEF Blocks
  <2> QED
    BY <1>2, <2>1 DEF Restore, DigRestore
<1>3. CASE o.kind # "DDIA" /\ o.kind \notin Digs
  <2>1. [s EXCEPT !.source = s.source, !.pll = s.pll,
                  !.sync = s.pll /\ b.pll /\ b.sync]
          = [s EXCEPT !.sync = s.pll /\ b.pll /\ b.sync]
    BY DEF Blocks
  <2> QED
    BY <1>3, <2>1 DEF Restore, BlockRestore
<1> QED
  BY <1>1, <1>2, <1>3

(* What Output->Restore does: the registers that matter here are those     *)
(* that were saved, the state is the one the driver remembers.             *)
LEMMA RestoreLemma ==
  ASSUME NEW o \in OutputSet, NEW b \in Blocks, NEW s \in Blocks
  PROVE  LET r == Restore(o, b, s)
         IN  /\ r \in Blocks /\ r.state = b.state
             /\ r.on = s.on /\ r.down = s.down /\ r.held = s.held
             /\ o.kind # "DDIA" => r.pll = s.pll
             /\ r.links = s.links /\ r.seq = s.seq /\ r.hdmi = s.hdmi
<1> DEFINE source == IF o.kind = "DDIA" THEN b.source ELSE s.source
           pll    == IF o.kind = "DDIA" THEN b.pll ELSE s.pll
           sync   == CASE o.kind = "DDIA" -> s.sync
                       [] o.kind \in Digs -> s.sync /\ s.pll
                       [] OTHER           -> s.pll /\ b.pll /\ b.sync
           t      == [s EXCEPT !.source = source, !.pll = pll, !.sync = sync]
           r      == Restore(o, b, s)
<1>2. sync \in BOOLEAN /\ pll \in BOOLEAN /\ source \in {0, 1, 2}
  BY DEF Blocks
<1>3. r = Keep(b, t)
  BY RestoreForm
<1> HIDE DEF source, pll, sync
<1>4. t \in Blocks
  BY <1>2 DEF Blocks
<1>5. /\ t.on = s.on /\ t.down = s.down /\ t.pll = pll /\ t.held = s.held
      /\ t.links = s.links /\ t.seq = s.seq /\ t.hdmi = s.hdmi
  BY DEF Blocks
<1> HIDE DEF t
<1>6. Keep(b, t) \in Blocks
  BY <1>4 DEF Keep, Blocks
<1>7. /\ Keep(b, t).state = b.state /\ Keep(b, t).on = t.on
      /\ Keep(b, t).down = t.down /\ Keep(b, t).pll = t.pll
      /\ Keep(b, t).held = t.held /\ Keep(b, t).links = t.links
      /\ Keep(b, t).seq = t.seq /\ Keep(b, t).hdmi = t.hdmi
  BY <1>4 DEF Keep, Blocks
<1> QED
  BY <1>3, <1>5, <1>6, <1>7 DEF pll

(* What the BIOS hands over is a block.                                    *)
LEMMA OffLemma ==
  ASSUME NEW o \in OutputSet, NEW d \in BOOLEAN
  PROVE  LET h == [NoBlock EXCEPT !.down = d, !.held = d]
         IN  h \in Blocks /\ Fits(o, h)
<1>1. NoBlock \in Blocks
  BY DEF NoBlock, Blocks
<1>2. ~NoBlock.hdmi /\ NoBlock.links = 0
  BY DEF NoBlock
<1> DEFINE h == [NoBlock EXCEPT !.down = d, !.held = d]
<1>3. h \in Blocks /\ h.hdmi = NoBlock.hdmi /\ h.links = NoBlock.links
  BY <1>1 DEF Blocks
<1> QED
  BY <1>2, <1>3 DEF Fits

LEMMA ShowingLemma ==
  ASSUME NEW o \in OutputSet, NEW crtc \in {0, 1}, NEW two \in BOOLEAN,
         NEW hdmi \in BOOLEAN, hdmi => o.kind \in Tmdss
  PROVE  LET h == Showing(o, crtc, two, hdmi)
         IN  h \in Blocks /\ Fits(o, h)
<1> DEFINE linked == o.kind \in Panels \cup Tmdss
           tmds   == o.kind \in {"TMDSB", "KLDSKP_TMDS"}
           seq    == o.kind \in Panels
           links  == IF ~linked THEN 0 ELSE IF two THEN 2 ELSE 1
           pll    == linked \/ o.kind = "DDIA"
           h      == Showing(o, crtc, two, hdmi)
           u      == [NoBlock EXCEPT !.on = TRUE, !.source = crtc, !.dual = two,
                                     !.hdmi = hdmi]
           v      == [u EXCEPT !.links = links, !.pll = pll, !.sync = linked]
<1>1. /\ linked \in BOOLEAN /\ tmds \in BOOLEAN /\ seq \in BOOLEAN
      /\ pll \in BOOLEAN /\ links \in {0, 1, 2}
  OBVIOUS
<1>2. h = [NoBlock EXCEPT !.on = TRUE, !.source = crtc, !.dual = two, !.hdmi = hdmi,
                          !.links = links, !.pll = pll, !.sync = linked,
                          !.tmds = tmds, !.seq = seq]
  BY Zenon DEF Showing
<1>3. links # 0 => o.kind \in Panels \cup Tmdss
  OBVIOUS
<1> HIDE DEF linked, tmds, seq, links, pll
<1>4. NoBlock \in Blocks
  BY DEF NoBlock, Blocks
<1>5. u \in Blocks /\ u.hdmi = hdmi
  BY <1>4, ZenonT(60) DEF Blocks
<1>6. h = [v EXCEPT !.tmds = tmds, !.seq = seq]
  BY <1>2
<1> HIDE DEF u
<1>7. v \in Blocks /\ v.hdmi = u.hdmi /\ v.links = links
  BY <1>1, <1>5 DEF Blocks
<1> HIDE DEF v
<1>8. h \in Blocks
  BY <1>1, <1>6, <1>7, ZenonT(60) DEF Blocks
<1>9. h.hdmi = v.hdmi /\ h.links = v.links
  BY <1>6, <1>7 DEF Blocks
<1> QED
  BY <1>3, <1>5, <1>7, <1>8, <1>9 DEF Fits

LEMMA HandedLemma ==
  ASSUME NEW o \in OutputSet, NEW b \in Blocks, NEW h \in Handed(o)
  PROVE  Keep(b, h) \in Blocks /\ Fits(o, Keep(b, h)) /\ Keep(b, h).state = b.state
<1>1. h \in Blocks /\ Fits(o, h)
  <2>1. /\ TwoLinks(o) \subseteq BOOLEAN /\ HdmiOn(o) \subseteq BOOLEAN
        /\ o.kind \notin Tmdss => HdmiOn(o) = {FALSE}
    BY OutputType DEF TwoLinks, HdmiOn
  <2>2. CASE h \in NotShowing
    <3>1. PICK d \in BOOLEAN : h = [NoBlock EXCEPT !.down = d, !.held = d]
      BY <2>2 DEF NotShowing
    <3> QED
      BY <3>1, OffLemma
  <2>3. CASE h \in Shows(o)
    <3>1. PICK crtc \in {0, 1}, two \in TwoLinks(o), hdmi \in HdmiOn(o) :
            h = Showing(o, crtc, two, hdmi)
      BY <2>3 DEF Shows
    <3>2. crtc \in {0, 1} /\ two \in BOOLEAN /\ hdmi \in BOOLEAN
          /\ (hdmi => o.kind \in Tmdss)
      BY <2>1, <3>1
    <3> QED
      BY <3>1, <3>2, ShowingLemma
  <2> QED
    BY <2>2, <2>3 DEF Handed
<1>2. Keep(b, h) \in Blocks
  BY <1>1 DEF Keep, Blocks
<1>3. /\ Keep(b, h).state = b.state /\ Keep(b, h).hdmi = h.hdmi
      /\ Keep(b, h).links = h.links
  BY <1>1 DEF Keep, Blocks
<1> QED
  BY <1>1, <1>2, <1>3 DEF Fits
-----------------------------------------------------------------------------
LEMMA QuietLemma ==
  ASSUME NEW o \in OutputSet, NEW b, Fits(o, b), Still(o, b)
  PROVE  ~Transmits(o, b)
<1>1. o.kind \in Panels => ~b.seq
  BY DEF Still
<1>2. o.kind \notin Panels => b.links = 0
  BY DEF Still, Fits
<1> QED
  BY <1>1, <1>2 DEF Transmits

LEMMA SensedLemma ==
  ASSUME NEW o \in OutputSet, NEW b \in Blocks, Fits(o, b)
  PROVE  /\ Sensed(o, b) \in Blocks /\ Fits(o, Sensed(o, b))
         /\ Sensed(o, b).state = b.state
<1> DEFINE r == Sensed(o, b)
<1>1. r \in Blocks /\ r.links = b.links /\ r.hdmi = b.hdmi /\ r.state = b.state
  <2> DEFINE u == [b EXCEPT !.down = FALSE]
  <2>1. u \in Blocks /\ u.links = b.links /\ u.hdmi = b.hdmi /\ u.state = b.state
    BY DEF Blocks
  <2>2. r = u \/ r = b
    BY DEF Sensed
  <2> QED
    BY <2>1, <2>2
<1> QED
  BY <1>1 DEF Fits

(* What a mode set makes of an output: one that is not used is shut down,  *)
(* another is clocked if the private record of TMDSA could be believed.    *)
SetModeOK(o, c, r) ==
  /\ r \in Blocks /\ Fits(o, r)
  /\ ~o.active => Gone(o, r)
  /\ o.active /\ Starts(o, c) => Ready(r)
  /\ o.active /\ o.kind = "TMDSA" => Started(r)
  /\ c # NoClock /\ Transmits(o, r) => Ready(r)

LEMMA SetModeLemma ==
  ASSUME NEW o \in OutputSet, NEW b \in Blocks, NEW c \in Nat, Fits(o, b),
         o.kind = "TMDSA" /\ o.active /\ Started(b) => Ready(b)
  PROVE  SetModeOK(o, c, SetMode(o, b, c))
<1> DEFINE r == SetMode(o, b, c)
<1>1. CASE ~o.active
  <2>1. r = Power(o, b, "shutdown")
    BY <1>1 DEF SetMode
  <2>2. r \in Blocks /\ Fits(o, r) /\ Gone(o, r)
    BY <2>1, PowerLemma DEF PowerOK
  <2>3. ~Transmits(o, r)
    BY <2>2, QuietLemma DEF Gone
  <2> QED
    BY <1>1, <2>2, <2>3 DEF SetModeOK
<1>2. CASE o.active
  <2> DEFINE s == IF c = NoClock THEN b ELSE Set(o, b, c)
  <2>1. /\ s \in Blocks /\ Fits(o, s)
        /\ o.kind = "LVDS" /\ c # NoClock => Ready(s)
        /\ o.kind = "TMDSA" /\ Started(s) => Ready(s)
    BY <1>2, SetLemma DEF SetOK
  <2>2. r = Power(o, s, "on")
    BY <1>2 DEF SetMode
  <2> HIDE DEF s
  <2>3. PowerOK(o, s, "on", r)
    BY <2>1, <2>2, PowerLemma
  <2>4. r \in Blocks /\ Fits(o, r) /\ (o.kind = "TMDSA" => Started(r))
    BY <2>3 DEF PowerOK
  <2>5. c # NoClock \/ o.kind = "TMDSA" =>
          /\ Transmits(o, r) => Ready(r)
          /\ o.kind \in {"TMDSA", "LVDS"} => Ready(r)
    BY <2>1, <2>3 DEF PowerOK
  <2> QED
    BY <1>2, <2>4, <2>5 DEF SetModeOK, Starts
<1> QED
  BY <1>1, <1>2
-----------------------------------------------------------------------------
LEMMA InitIInv == Init => IInv
<1> SUFFICES ASSUME Init PROVE IInv
  OBVIOUS
<1> USE DEF Init
<1>1. NoBlock \in Blocks /\ ~NoBlock.hdmi /\ NoBlock.links = 0 /\ NoBlock.state = "unknown"
  BY DEF NoBlock, Blocks
<1>2. NewBlock(out) \in Blocks /\ NewBlock(out).state = "unknown"
  <2>1. out.wide \in BOOLEAN
    BY OutputType
  <2>2. NewBlock(out) = [NoBlock EXCEPT !.want = out.wide]
    BY DEF NewBlock
  <2> QED
    BY <1>1, <2>1, <2>2 DEF Blocks
<1>3. PICK h \in Handed(out) : x = Keep(NewBlock(out), h)
  OBVIOUS
<1>4. x \in Blocks /\ Fits(out, x) /\ x.state = "unknown"
  BY <1>2, <1>3, HandedLemma
<1>5. saved \in Blocks /\ Fits(out, saved)
  BY <1>1 DEF Fits
<1>6. mode \in Nat
  BY ClocksAssumption
<1>7. Typed
  BY <1>4, <1>5, <1>6 DEF Typed
<1> QED
  BY <1>7 DEF IInv, DarkSaved, DarkNow, ReadySaved, ReadyNow, Clocked

(* DPMS off and the reset before sleep leave a display dark and clocked.   *)
LEMMA ResetLemma ==
  ASSUME IInv, phase = "up"
  PROVE  LET r == OutputsPower(out, x, "reset")
         IN  /\ r \in Blocks /\ Fits(out, r) /\ Still(out, r) /\ ~Transmits(out, r)
             /\ ~out.active => Gone(out, r)
             /\ out.active /\ Starts(out, mode) => Ready(r)
             /\ out.active /\ out.kind = "TMDSA" => Started(r)
<1> DEFINE r == OutputsPower(out, x, "reset")
<1>1. /\ out \in OutputSet /\ x \in Blocks /\ Fits(out, x)
      /\ ~out.active => Gone(out, x)
      /\ out.active /\ Starts(out, mode) => Ready(x)
      /\ out.active /\ out.kind = "TMDSA" => Started(x)
  BY DEF IInv, Typed, DarkNow, ReadyNow, Starts
<1>2. CASE ~out.active
  <2>1. r = x
    BY <1>2 DEF OutputsPower
  <2> QED
    BY <1>1, <1>2, <2>1, QuietLemma DEF Gone
<1>3. CASE out.active
  <2>1. r = Power(out, x, "reset")
    BY <1>3 DEF OutputsPower
  <2>2. PowerOK(out, x, "reset", r)
    BY <1>1, <2>1, PowerLemma
  <2>3. r \in Blocks /\ Fits(out, r) /\ Still(out, r)
    BY <2>2 DEF PowerOK
  <2>4. /\ out.kind \in {"TMDSA", "LVDS"} /\ Ready(x) => Ready(r)
        /\ out.kind = "TMDSA" => (Started(r) <=> Started(x))
    BY <2>2 DEF PowerOK
  <2> QED
    BY <1>1, <1>3, <2>3, <2>4, QuietLemma DEF Starts
<1> QED
  BY <1>2, <1>3

(* A power on does what a mode set does, if LVDS has been set up.          *)
LEMMA OnLemma ==
  ASSUME NEW o \in OutputSet, NEW b \in Blocks, NEW c, Fits(o, b),
         ~o.active => Gone(o, b),
         o.active /\ o.kind = "LVDS" /\ c # NoClock => Ready(b),
         o.active /\ o.kind = "TMDSA" /\ Started(b) => Ready(b)
  PROVE  SetModeOK(o, c, OutputsPower(o, b, "on"))
<1> DEFINE r == OutputsPower(o, b, "on")
<1>1. CASE ~o.active
  <2>1. r = b /\ ~Transmits(o, b)
    BY <1>1, QuietLemma DEF OutputsPower, Gone
  <2> QED
    BY <1>1, <2>1 DEF SetModeOK
<1>2. CASE o.active
  <2>1. r = Power(o, b, "on")
    BY <1>2 DEF OutputsPower
  <2>2. PowerOK(o, b, "on", r)
    BY <2>1, PowerLemma
  <2>3. r \in Blocks /\ Fits(o, r) /\ (o.kind = "TMDSA" => Started(r))
    BY <2>2 DEF PowerOK
  <2>4. c # NoClock \/ o.kind = "TMDSA" =>
          /\ Transmits(o, r) => Ready(r)
          /\ o.kind \in {"TMDSA", "LVDS"} => Ready(r)
    BY <1>2, <2>2 DEF PowerOK
  <2> QED
    BY <1>2, <2>3, <2>4 DEF SetModeOK, Starts
<1> QED
  BY <1>1, <1>2

LEMMA StepIInv == IInv /\ [Next]_vars => IInv'
<1> SUFFICES ASSUME IInv, [Next]_vars PROVE IInv'
  OBVIOUS
<1>1. /\ out \in OutputSet /\ x \in Blocks /\ saved \in Blocks
      /\ mode \in Nat /\ asleep \in Nat /\ lit \in BOOLEAN
      /\ Fits(out, x) /\ Fits(out, saved) /\ Nubs \in Nat
  BY ClocksAssumption DEF IInv, Typed
<1>2. ASSUME SetModeOK(out, mode', x'), out' = out, phase' = "up", lit', Typed'
      PROVE  DarkNow' /\ ReadyNow' /\ Clocked'
  <2>1. DarkNow'
    BY <1>2 DEF SetModeOK, DarkNow
  <2>2. ReadyNow'
    BY <1>2 DEF SetModeOK, ReadyNow
  <2>3. Clocked'
    BY <1>2 DEF SetModeOK, Clocked, Ready
  <2> QED
    BY <2>1, <2>2, <2>3
<1>3. CASE Sense
  <2>1. /\ phase = "off" /\ x' = Sensed(out, x) /\ phase' = "sensed"
        /\ UNCHANGED <<out, mode, saved, lit, asleep, cold>>
    BY <1>3 DEF Sense
  <2>2. asleep = 0 /\ x.state = "unknown"
    BY <2>1 DEF IInv, Typed
  <2>3. x' \in Blocks /\ Fits(out, x') /\ x'.state = x.state
    BY <1>1, <2>1, SensedLemma
  <2>4. Typed'
    BY <1>1, <2>1, <2>2, <2>3 DEF Typed
  <2> QED
    BY <2>1, <2>2, <2>4
    DEF IInv, DarkSaved, DarkNow, ReadySaved, ReadyNow, Clocked
<1>4. CASE ScreenInit
  <2> DEFINE b == OutputsPower(out, x, "reset")
  <2>1. /\ phase = "sensed" /\ x' = SetMode(out, b, mode)
        /\ phase' = "up" /\ lit' = TRUE
        /\ UNCHANGED <<out, mode, saved, asleep, cold>>
    BY <1>4 DEF ScreenInit
  <2>2. asleep = 0 /\ x.state = "unknown"
    BY <2>1 DEF IInv, Typed
  <2>3. /\ b \in Blocks /\ Fits(out, b)
        /\ out.kind = "TMDSA" /\ out.active => ~Started(b)
    <3>1. CASE ~out.active
      BY <1>1, <3>1 DEF OutputsPower
    <3>2. CASE out.active
      <4>1. PowerOK(out, x, "reset", b)
        BY <1>1, <3>2, PowerLemma DEF OutputsPower
      <4>2. ~Started(x)
        BY <2>2 DEF Started
      <4> QED
        BY <4>1, <4>2 DEF PowerOK
    <3> QED
      BY <3>1, <3>2
  <2> HIDE DEF b
  <2>4. SetModeOK(out, mode', x')
    BY <1>1, <2>1, <2>3, SetModeLemma
  <2>5. Typed'
    BY <1>1, <2>1, <2>4 DEF Typed, SetModeOK
  <2>6. DarkNow' /\ ReadyNow' /\ Clocked'
    BY <1>2, <2>1, <2>4, <2>5
  <2> QED
    BY <2>1, <2>2, <2>5, <2>6 DEF IInv, DarkSaved, ReadySaved
<1>5. CASE SwitchMode
  <2>1. /\ phase = "up" /\ x' = SetMode(out, x, mode') /\ lit' = TRUE
        /\ UNCHANGED <<out, saved, phase, asleep>>
    BY <1>5 DEF SwitchMode, Awake
  <2>2. mode' \in Nat /\ (mode' # NoClock => mode # NoClock)
    BY <1>1, <1>5, ClocksAssumption DEF SwitchMode
  <2>3. out.kind = "TMDSA" /\ out.active => Ready(x)
    BY <2>1 DEF IInv, ReadyNow, Starts
  <2>4. SetModeOK(out, mode', x')
    BY <1>1, <2>1, <2>2, <2>3, SetModeLemma
  <2>5. Typed'
    BY <1>1, <2>1, <2>2, <2>4 DEF Typed, SetModeOK
  <2>6. DarkNow' /\ ReadyNow' /\ Clocked'
    BY <1>2, <2>1, <2>4, <2>5
  <2>7. DarkSaved'
    BY <2>1 DEF IInv, DarkSaved
  <2>8. ReadySaved'
    BY <2>1, <2>2 DEF IInv, ReadySaved, Starts
  <2> QED
    BY <2>5, <2>6, <2>7, <2>8 DEF IInv
<1>6. ASSUME NEW on \in BOOLEAN, AVPower(on) PROVE IInv'
  <2>1. /\ phase = "up" /\ x' = OutputsPower(out, x, IF on THEN "on" ELSE "reset")
        /\ lit' = on /\ UNCHANGED <<out, mode, saved, phase, asleep, cold>>
    BY <1>6 DEF AVPower, Awake
  <2>2. DarkSaved' /\ ReadySaved'
    BY <2>1 DEF IInv, DarkSaved, ReadySaved
  <2>3. CASE on
    <3>1. /\ ~out.active => Gone(out, x)
          /\ out.active /\ Starts(out, mode) => Ready(x)
      BY <2>1 DEF IInv, DarkNow, ReadyNow
    <3>2. SetModeOK(out, mode', x')
      BY <1>1, <2>1, <2>3, <3>1, OnLemma DEF Starts
    <3>3. Typed'
      BY <1>1, <2>1, <3>2 DEF Typed, SetModeOK
    <3>4. DarkNow' /\ ReadyNow' /\ Clocked'
      BY <1>2, <2>1, <2>3, <3>2, <3>3
    <3> QED
      BY <2>2, <3>3, <3>4 DEF IInv
  <2>4. CASE ~on
    <3>1. x' = OutputsPower(out, x, "reset")
      BY <2>1, <2>4
    <3>2. /\ x' \in Blocks /\ Fits(out, x') /\ Still(out, x') /\ ~Transmits(out, x')
          /\ ~out.active => Gone(out, x')
          /\ out.active /\ Starts(out, mode) => Ready(x')
          /\ out.active /\ out.kind = "TMDSA" => Started(x')
      BY <2>1, <3>1, ResetLemma
    <3>3. Typed'
      BY <1>1, <2>1, <3>2 DEF Typed
    <3> QED
      BY <2>1, <2>2, <3>2, <3>3 DEF IInv, DarkNow, ReadyNow, Clocked
  <2> QED
    BY <2>3, <2>4
<1>7. CASE HardwareSleep
  <2>1. /\ phase = "up" /\ x' = OutputsPower(out, x, "reset") /\ lit' = FALSE
        /\ saved' = x' /\ asleep' = asleep + 1
        /\ UNCHANGED <<out, mode, phase, cold>>
    BY <1>7 DEF HardwareSleep, Awake
  <2>2. /\ x' \in Blocks /\ Fits(out, x') /\ Still(out, x') /\ ~Transmits(out, x')
        /\ ~out.active => Gone(out, x')
        /\ out.active /\ Starts(out, mode) => Ready(x')
        /\ out.active /\ out.kind = "TMDSA" => Started(x')
    BY <2>1, ResetLemma
  <2>3. Typed'
    <3>1. saved' \in Blocks /\ Fits(out, saved')
      BY <2>1, <2>2
    <3>2. asleep' \in Nat
      <4>1. asleep' = asleep + 1
        BY <2>1
      <4> QED
        BY <1>1, <4>1
    <3>3. lit' \in BOOLEAN /\ phase' = "up" /\ out' = out /\ mode' = mode
      BY <2>1
    <3> QED
      BY <1>1, <2>2, <3>1, <3>2, <3>3 DEF Typed
  <2> QED
    BY <2>1, <2>2, <2>3
    DEF IInv, DarkSaved, DarkNow, ReadySaved, ReadyNow, Clocked
<1>8. CASE HardwareWake
  <2> DEFINE r == Restore(out, x, saved)
  <2>1. /\ asleep > 0 /\ x' = OutputsPower(out, r, "on")
        /\ asleep' = asleep - 1 /\ phase' = "up" /\ lit' = TRUE
        /\ UNCHANGED <<out, mode, saved, cold>>
    BY <1>8 DEF HardwareWake
  <2>2. /\ r \in Blocks /\ r.on = saved.on /\ r.down = saved.down
        /\ out.kind # "DDIA" => r.pll = saved.pll
        /\ r.held = saved.held /\ r.links = saved.links
        /\ r.seq = saved.seq /\ r.hdmi = saved.hdmi
    BY <1>1, RestoreLemma
  <2> HIDE DEF r
  <2>3. Fits(out, r)
    BY <1>1, <2>2 DEF Fits
  <2>4. ~out.active => Gone(out, r)
    BY <2>1, <2>2 DEF IInv, DarkSaved, Gone, Still
  <2>5. out.active /\ Starts(out, mode) => Ready(r)
    BY <2>1, <2>2 DEF IInv, ReadySaved, Ready, Starts
  <2>6. SetModeOK(out, mode', x')
    BY <1>1, <2>1, <2>2, <2>3, <2>4, <2>5, OnLemma DEF Starts
  <2>7. Typed'
    BY <1>1, <2>1, <2>6 DEF Typed, SetModeOK
  <2>8. DarkNow' /\ ReadyNow' /\ Clocked'
    BY <1>2, <2>1, <2>6, <2>7
  <2>9. DarkSaved' /\ ReadySaved'
    BY <1>1, <2>1 DEF IInv, DarkSaved, ReadySaved
  <2> QED
    BY <2>7, <2>8, <2>9 DEF IInv
<1>9. CASE PowerLoss
  <2>1. /\ phase = "up" /\ phase' = "lost"
        /\ UNCHANGED <<out, mode, saved, lit, asleep>>
    BY <1>9 DEF PowerLoss
  <2>2. PICK h \in Handed(out) : x' = Keep(x, h)
    BY <1>9 DEF PowerLoss
  <2>3. x' \in Blocks /\ Fits(out, x') /\ x'.state = x.state
    BY <1>1, <2>2, HandedLemma
  <2>4. Typed'
    BY <1>1, <2>1, <2>3 DEF Typed
  <2>5. DarkSaved' /\ DarkNow' /\ ReadySaved' /\ Clocked'
    BY <2>1 DEF IInv, DarkSaved, DarkNow, ReadySaved, Clocked
  <2>6. ReadyNow'
    BY <2>1, <2>3 DEF IInv, ReadyNow, Started
  <2> QED
    BY <2>4, <2>5, <2>6 DEF IInv
<1>10. CASE UNCHANGED vars
  BY <1>10 DEF vars, IInv, Typed, DarkSaved, DarkNow, ReadySaved, ReadyNow, Clocked
<1> QED
  BY <1>3, <1>4, <1>5, <1>6, <1>7, <1>8, <1>9, <1>10 DEF Next

LEMMA SpecIInv == Spec => []IInv
  BY InitIInv, StepIInv, PTL DEF Spec

(* Nothing shows on an output that is not used, nor on a digital output of *)
(* a dark display, for every set of modes and however many nubs sleep and  *)
(* wake: what rhdSetMode's RHDOutputsShutdownInactive shuts down, or the   *)
(* reset of RHDOutputsPower darkens, no restore lights again               *)
(* (rhd_output.c:62, RadeonHD.cpp:485).                                    *)
THEOREM DarkHolds == Spec => []Dark
<1>1. IInv => Dark
  <2> SUFFICES ASSUME IInv, phase = "up", ~out.active \/ ~lit PROVE Dark
    BY DEF Dark
  <2>1. Still(out, x) /\ (~out.active => Gone(out, x))
    BY DEF IInv, DarkNow, Gone
  <2> QED
    BY <2>1 DEF Dark, Still, Gone
<1> QED
  BY SpecIInv, <1>1, PTL

(* No link transmits and no panel is on without a PLL that runs, although  *)
(* TMDSA starts its PLL only in some states of a private record that is    *)
(* not saved with its registers (rhd_tmds.c:403).                          *)
THEOREM ClockedHolds == Spec => []Clocked
<1>1. IInv => Clocked
  BY DEF IInv
<1> QED
  BY SpecIInv, <1>1, PTL
-----------------------------------------------------------------------------
(* Driven.  What a mode set writes for the clock it is for, a reset, a     *)
(* power on and a restore leave, so the registers, and the saved ones, are *)
(* always marked by some mode set; what a power on writes holds while the  *)
(* display is lit; and the private flag that says how many links run,      *)
(* which is not saved, is always that of the current mode.                 *)
TwoFor(o, c) ==
  CASE o.kind \in Panels -> o.wide
    [] o.kind = "DDIA"   -> c >= SingleLimit
    [] OTHER             -> c > SingleLimit
Marked(o, b) ==
  b.clk # NoClock =>
    /\ o.kind \in Dacs =>
         /\ b.std = o.sensed
         /\ b.source = IF o.sensed = "VGA" THEN o.crtc ELSE TvEncoder
         /\ o.kind \in {"DACB", "DACB_RV620"} => (b.mux <=> o.sensed # "VGA")
    /\ o.kind \notin Dacs => (b.dual <=> TwoFor(o, b.clk))
    /\ o.kind \notin Dacs \cup {"DDIA"} => b.source = o.crtc
    /\ o.kind = "LVDS" => ~b.tmds
(* LVDS enables links and does not disable any: there must be none too     *)
(* many.                                                                   *)
Linked(o, b) == o.kind = "LVDS" => b.links \in {0, IF o.wide THEN 2 ELSE 1}
WantedPanel(o, b) ==
  /\ o.kind \in Panels => (b.want <=> o.wide)
  /\ o.kind = "KLDSKP_TMDS" /\ o.single => ~b.want
Wanted(o, b, c) ==
  /\ WantedPanel(o, b)
  /\ c # NoClock /\ o.kind \in Tmdss => (b.want <=> c > SingleLimit)
(* What a power on leaves.                                                 *)
Lighted(o, b) ==
  /\ o.kind \in Dacs => b.on /\ ~b.down /\ ~b.forced
  /\ o.kind \notin Dacs => (b.hdmi <=> o.hdmi)
  /\ o.kind \in Panels \cup Tmdss => b.links = WantLinks(b)
  /\ o.kind \in Panels => b.seq
  /\ o.kind = "DDIA" => b.on /\ ~b.held
  /\ o.kind \in Digs \cup {"TMDSB"} =>
       b.on /\ b.pll /\ ~b.held /\ (b.tmds <=> o.kind \in Tmdss)
  /\ o.kind \in Digs => b.sync

MarkedNow == out.active => Marked(out, x) /\ Marked(out, saved)
LinkedNow == out.active => Linked(out, x) /\ Linked(out, saved)
WantedNow ==
  out.active =>
    /\ WantedPanel(out, x)
    /\ phase \in {"up", "lost"} => Wanted(out, x, mode)
SourceNow ==
  out.active /\ out.kind = "DDIA" /\ mode # NoClock /\ phase = "up" /\ ~cold =>
    x.source = out.crtc /\ x.pll
SyncedNow ==
  out.active /\ Starts(out, mode) /\ phase = "up" /\ ~cold => x.sync
ValidNow == (mode # NoClock => ModeValid(out, mode)) /\ (phase = "lost" => cold)
LightedNow == phase = "up" /\ lit /\ out.active => Lighted(out, x)

Wired ==
  /\ MarkedNow /\ LinkedNow /\ WantedNow /\ SourceNow /\ SyncedNow
  /\ ValidNow /\ LightedNow
-----------------------------------------------------------------------------
(* What every power on and every reset of a block in use leaves.           *)
Kept(o, b, r) ==
  /\ r \in Blocks /\ r.clk = b.clk /\ r.source = b.source /\ r.dual = b.dual
  /\ r.std = b.std /\ r.mux = b.mux /\ r.want = b.want
  /\ o.kind = "LVDS" => r.tmds = b.tmds
  /\ o.kind = "DDIA" => r.pll = b.pll
  /\ Linked(o, b) => Linked(o, r)
OnOK(o, b, r) ==
  /\ Kept(o, b, r) /\ Lighted(o, r)
  /\ o.kind = "TMDSA" /\ (~Started(b) \/ b.sync) => r.sync
  /\ o.kind = "LVDS" /\ b.sync => r.sync
ResetOK(o, b, r) ==
  /\ Kept(o, b, r)
  /\ o.kind \in {"TMDSA", "LVDS"} => r.sync = b.sync

LEMMA StartFields ==
  ASSUME NEW b \in Blocks
  PROVE  /\ TransmitterStart(b) = [b EXCEPT !.pll = TRUE, !.held = FALSE, !.sync = TRUE]
         /\ TMDSAStart(b) =
              [b EXCEPT !.on = TRUE, !.pll = TRUE, !.held = FALSE, !.sync = TRUE]
BY DEF TransmitterStart, TMDSAStart, Pulse, Resync, Blocks

LEMMA DACKeeps ==
  ASSUME NEW o \in OutputSet, NEW b \in Blocks, o.kind \in Dacs
  PROVE  OnOK(o, b, Power(o, b, "on")) /\ ResetOK(o, b, Power(o, b, "reset"))
<1>1. Power(o, b, "reset") = b
  BY DEF Power, DACPower
<1> DEFINE r == Power(o, b, "on")
<1>2. r = [b EXCEPT !.on = TRUE, !.down = FALSE, !.forced = FALSE]
  BY DEF Power, DACPower
<1>3. /\ r \in Blocks /\ r.clk = b.clk /\ r.source = b.source /\ r.dual = b.dual
      /\ r.std = b.std /\ r.mux = b.mux /\ r.want = b.want
      /\ r.on /\ ~r.down /\ ~r.forced
  BY <1>2 DEF Blocks
<1> QED
  BY <1>1, <1>3 DEF OnOK, ResetOK, Kept, Linked, Lighted

LEMMA TMDSAKeeps ==
  ASSUME NEW o \in OutputSet, NEW b \in Blocks, o.kind = "TMDSA"
  PROVE  OnOK(o, b, Power(o, b, "on")) /\ ResetOK(o, b, Power(o, b, "reset"))
<1>1. ResetOK(o, b, Power(o, b, "reset"))
  <2> DEFINE r == Power(o, b, "reset")
             state == IF b.state = "on" THEN "reset" ELSE b.state
  <2>1. r = [b EXCEPT !.links = 0, !.state = state]
    BY DEF Power, TMDSAPower
  <2>2. state \in {"unknown", "shutdown", "reset"}
    BY DEF Blocks
  <2> HIDE DEF state
  <2>3. /\ r \in Blocks /\ r.clk = b.clk /\ r.source = b.source /\ r.dual = b.dual
        /\ r.std = b.std /\ r.mux = b.mux /\ r.want = b.want /\ r.sync = b.sync
    <3>1. r \in Blocks
      BY <2>1, <2>2, ZenonT(60) DEF Blocks
    <3>2. /\ r.clk = b.clk /\ r.source = b.source /\ r.dual = b.dual
         /\ r.std = b.std /\ r.mux = b.mux /\ r.want = b.want
         /\ r.sync = b.sync
      BY <2>1, <2>2 DEF Blocks
    <3> QED
      BY <3>1, <3>2
  <2> QED
    BY <2>3 DEF ResetOK, Kept, Linked
<1>2. OnOK(o, b, Power(o, b, "on"))
  <2> DEFINE s == IF b.state \in {"shutdown", "unknown"} THEN TMDSAStart(b) ELSE b
             r == Power(o, b, "on")
  <2>1. /\ s \in Blocks /\ s.clk = b.clk /\ s.source = b.source /\ s.dual = b.dual
        /\ s.std = b.std /\ s.mux = b.mux /\ s.want = b.want
        /\ ~Started(b) \/ b.sync => s.sync
    <3> DEFINE t == TMDSAStart(b)
    <3>1. /\ t \in Blocks /\ t.clk = b.clk /\ t.source = b.source /\ t.dual = b.dual
          /\ t.std = b.std /\ t.mux = b.mux /\ t.want = b.want /\ t.sync
      <4>1. t = [b EXCEPT !.on = TRUE, !.pll = TRUE, !.held = FALSE, !.sync = TRUE]
        BY StartFields
      <4> HIDE DEF t
      <4> QED
        BY <4>1 DEF Blocks
    <3>2. b.state \in {"shutdown", "unknown"} <=> ~Started(b)
      BY DEF Started, Blocks
    <3> HIDE DEF t
    <3>3. s = IF b.state \in {"shutdown", "unknown"} THEN t ELSE b
      BY DEF t
    <3> QED
      BY <3>1, <3>2, <3>3
  <2>2. o.hdmi \in BOOLEAN /\ WantLinks(b) \in {0, 1, 2}
    BY OutputType, WantLinksLemma
  <2>3. r = [s EXCEPT !.links = WantLinks(b), !.hdmi = o.hdmi, !.state = "on"]
    BY DEF Power, TMDSAPower
  <2> HIDE DEF s
  <2>4. /\ r \in Blocks /\ r.clk = s.clk /\ r.source = s.source /\ r.dual = s.dual
        /\ r.std = s.std /\ r.mux = s.mux /\ r.want = s.want /\ r.sync = s.sync
        /\ r.links = WantLinks(b) /\ r.hdmi = o.hdmi
    <3>1. r \in Blocks
      BY <2>1, <2>2, <2>3, ZenonT(60) DEF Blocks
    <3>2. /\ r.clk = s.clk /\ r.source = s.source /\ r.dual = s.dual
         /\ r.std = s.std /\ r.mux = s.mux /\ r.want = s.want
         /\ r.sync = s.sync /\ r.links = WantLinks(b) /\ r.hdmi = o.hdmi
      BY <2>1, <2>2, <2>3 DEF Blocks
    <3> QED
      BY <3>1, <3>2
  <2>5. WantLinks(r) = WantLinks(b)
    BY <2>1, <2>4 DEF WantLinks
  <2> HIDE DEF r
  <2>15. OnOK(o, b, r)
    BY <2>1, <2>4, <2>5 DEF OnOK, Kept, Linked, Lighted
  <2> QED
    BY <2>15 DEF r
<1> QED
  BY <1>1, <1>2

LEMMA TMDSBKeeps ==
  ASSUME NEW o \in OutputSet, NEW b \in Blocks, o.kind = "TMDSB"
  PROVE  OnOK(o, b, Power(o, b, "on")) /\ ResetOK(o, b, Power(o, b, "reset"))
<1>1. ResetOK(o, b, Power(o, b, "reset"))
  <2> DEFINE r == Power(o, b, "reset")
  <2>1. r = [b EXCEPT !.tmds = TRUE, !.links = 0]
    BY DEF Power, TMDSBPower, Blocks
  <2>2. /\ r \in Blocks /\ r.clk = b.clk /\ r.source = b.source /\ r.dual = b.dual
        /\ r.std = b.std /\ r.mux = b.mux /\ r.want = b.want
    BY <2>1 DEF Blocks
  <2> QED
    BY <2>2 DEF ResetOK, Kept, Linked
<1>2. OnOK(o, b, Power(o, b, "on"))
  <2> DEFINE r == Power(o, b, "on")
             links == WantLinks(b)
  <2>1. o.hdmi \in BOOLEAN /\ links \in {0, 1, 2}
    BY OutputType, WantLinksLemma
  <2>2. r = [b EXCEPT !.tmds = TRUE, !.on = TRUE, !.links = links, !.pll = TRUE,
                      !.held = FALSE, !.hdmi = o.hdmi]
    BY DEF Power, TMDSBPower, Blocks
  <2> HIDE DEF links
  <2>3. /\ r \in Blocks /\ r.clk = b.clk /\ r.source = b.source /\ r.dual = b.dual
        /\ r.std = b.std /\ r.mux = b.mux /\ r.want = b.want
        /\ r.links = links /\ r.hdmi = o.hdmi /\ r.tmds /\ r.on /\ r.pll /\ ~r.held
    <3>1. r \in Blocks
      BY <2>1, <2>2, ZenonT(60) DEF Blocks
    <3>2. /\ r.clk = b.clk /\ r.source = b.source /\ r.dual = b.dual
         /\ r.std = b.std /\ r.mux = b.mux /\ r.want = b.want
         /\ r.links = links /\ r.hdmi = o.hdmi /\ r.tmds /\ r.on /\ r.pll /\ ~r.held
      BY <2>1, <2>2 DEF Blocks
    <3> QED
      BY <3>1, <3>2
  <2>4. WantLinks(r) = WantLinks(b)
    BY <2>3 DEF WantLinks
  <2> HIDE DEF r
  <2>15. OnOK(o, b, r)
    BY <2>3, <2>4 DEF OnOK, Kept, Linked, Lighted, links
  <2> QED
    BY <2>15 DEF r
<1> QED
  BY <1>1, <1>2

LEMMA LVDSKeeps ==
  ASSUME NEW o \in OutputSet, NEW b \in Blocks, o.kind = "LVDS",
         Fits(o, b), Linked(o, b), WantedPanel(o, b)
  PROVE  OnOK(o, b, Power(o, b, "on")) /\ ResetOK(o, b, Power(o, b, "reset"))
<1>1. ResetOK(o, b, Power(o, b, "reset"))
  <2> DEFINE r == Power(o, b, "reset")
             d == [b EXCEPT !.seq = FALSE, !.links = 0]
  <2>1. r = d \/ r = b
    BY DEF Power, LVDSPower, LVDSDisable
  <2>2. /\ d \in Blocks /\ d.clk = b.clk /\ d.source = b.source /\ d.dual = b.dual
        /\ d.std = b.std /\ d.mux = b.mux /\ d.want = b.want
        /\ d.tmds = b.tmds /\ d.sync = b.sync /\ d.links = 0
    BY DEF Blocks
  <2>3. ResetOK(o, b, d)
    BY <2>2 DEF ResetOK, Kept, Linked
  <2>4. ResetOK(o, b, b)
    BY DEF ResetOK, Kept
  <2> QED
    BY <2>1, <2>3, <2>4
<1>2. OnOK(o, b, Power(o, b, "on"))
  <2> DEFINE r == Power(o, b, "on")
             links == IF b.want THEN 2 ELSE IF b.links = 0 THEN 1 ELSE b.links
  <2>1. b.want \in BOOLEAN /\ o.wide \in BOOLEAN /\ (b.want <=> o.wide)
    BY OutputType DEF WantedPanel, Blocks
  <2>2. links = (IF o.wide THEN 2 ELSE 1) /\ links = WantLinks(b)
    BY <2>1 DEF Linked, WantLinks
  <2>3. links \in {0, 1, 2}
    BY <2>2
  <2>4. r = [b EXCEPT !.links = links, !.seq = TRUE]
    BY DEF Power, LVDSPower
  <2> HIDE DEF links
  <2>5. /\ r \in Blocks /\ r.clk = b.clk /\ r.source = b.source /\ r.dual = b.dual
        /\ r.std = b.std /\ r.mux = b.mux /\ r.want = b.want /\ r.tmds = b.tmds
        /\ r.sync = b.sync /\ r.links = links /\ r.hdmi = b.hdmi /\ r.seq
    <3>1. r \in Blocks
      BY <2>3, <2>4, ZenonT(60) DEF Blocks
    <3>2. /\ r.clk = b.clk /\ r.source = b.source /\ r.dual = b.dual
         /\ r.std = b.std /\ r.mux = b.mux /\ r.want = b.want
         /\ r.tmds = b.tmds /\ r.sync = b.sync /\ r.links = links
         /\ r.hdmi = b.hdmi /\ r.seq
      BY <2>3, <2>4 DEF Blocks
    <3> QED
      BY <3>1, <3>2
  <2>6. WantLinks(r) = links
    BY <2>2, <2>5 DEF WantLinks
  <2>7. ~r.hdmi /\ ~o.hdmi
    BY <2>5, OutputType DEF Fits
  <2> HIDE DEF r
  <2>8. Linked(o, r)
    BY <2>2, <2>5 DEF Linked
  <2>9. Kept(o, b, r)
    BY <2>5, <2>8 DEF Kept
  <2>10. Lighted(o, r)
    BY <2>5, <2>6, <2>7 DEF Lighted
  <2>15. OnOK(o, b, r)
    BY <2>5, <2>9, <2>10 DEF OnOK
  <2> QED
    BY <2>15 DEF r
<1> QED
  BY <1>1, <1>2

LEMMA DDIAKeeps ==
  ASSUME NEW o \in OutputSet, NEW b \in Blocks, o.kind = "DDIA", Fits(o, b)
  PROVE  OnOK(o, b, Power(o, b, "on")) /\ ResetOK(o, b, Power(o, b, "reset"))
<1>1. ResetOK(o, b, Power(o, b, "reset"))
  <2> DEFINE r == Power(o, b, "reset")
  <2>1. r = [b EXCEPT !.on = FALSE]
    BY DEF Power, DDIAPower
  <2>2. /\ r \in Blocks /\ r.clk = b.clk /\ r.source = b.source /\ r.dual = b.dual
        /\ r.std = b.std /\ r.mux = b.mux /\ r.want = b.want /\ r.pll = b.pll
    BY <2>1 DEF Blocks
  <2> QED
    BY <2>2 DEF ResetOK, Kept, Linked
<1>2. OnOK(o, b, Power(o, b, "on"))
  <2> DEFINE r == Power(o, b, "on")
  <2>1. r = [b EXCEPT !.on = TRUE, !.held = FALSE]
    BY DEF Power, DDIAPower
  <2>2. /\ r \in Blocks /\ r.clk = b.clk /\ r.source = b.source /\ r.dual = b.dual
        /\ r.std = b.std /\ r.mux = b.mux /\ r.want = b.want /\ r.pll = b.pll
        /\ r.on /\ ~r.held /\ r.hdmi = b.hdmi
    BY <2>1 DEF Blocks
  <2>3. ~r.hdmi /\ ~o.hdmi
    BY <2>2, OutputType DEF Fits
  <2> HIDE DEF r
  <2>15. OnOK(o, b, r)
    BY <2>2, <2>3 DEF OnOK, Kept, Linked, Lighted
  <2> QED
    BY <2>15 DEF r
<1> QED
  BY <1>1, <1>2

LEMMA DigKeeps ==
  ASSUME NEW o \in OutputSet, NEW b \in Blocks, o.kind \in Digs
  PROVE  OnOK(o, b, Power(o, b, "on")) /\ ResetOK(o, b, Power(o, b, "reset"))
<1>1. ResetOK(o, b, Power(o, b, "reset"))
  <2> DEFINE r == Power(o, b, "reset")
             t == TransmitterPower(o, b, "reset")
  <2>1. t = [b EXCEPT !.links = 0] \/ t = [b EXCEPT !.seq = FALSE]
    BY DEF TransmitterPower, LVTMA_TMDSTransmitterPower, LVTMA_LVDSTransmitterPower
  <2>2. /\ t \in Blocks /\ t.clk = b.clk /\ t.source = b.source /\ t.dual = b.dual
        /\ t.std = b.std /\ t.mux = b.mux /\ t.want = b.want
    <3>1. CASE t = [b EXCEPT !.links = 0]
      BY <3>1, ZenonT(60) DEF Blocks
    <3>2. CASE t = [b EXCEPT !.seq = FALSE]
      BY <3>2, ZenonT(60) DEF Blocks
    <3> QED
      BY <2>1, <3>1, <3>2
  <2>3. r = [t EXCEPT !.on = FALSE]
    BY DEF Power, DigPower, EncoderPower
  <2> HIDE DEF t
  <2>4. /\ r \in Blocks /\ r.clk = b.clk /\ r.source = b.source /\ r.dual = b.dual
        /\ r.std = b.std /\ r.mux = b.mux /\ r.want = b.want
    <3> HIDE DEF r
    <3> QED
      <4>1. r \in Blocks
        BY <2>2, <2>3, ZenonT(60) DEF Blocks
      <4>2. /\ r.clk = t.clk /\ r.source = t.source /\ r.dual = t.dual
            /\ r.std = t.std /\ r.mux = t.mux /\ r.want = t.want
        BY <2>2, <2>3 DEF Blocks
      <4> QED
        BY <2>2, <4>1, <4>2
  <2> HIDE DEF r
  <2>15. ResetOK(o, b, r)
    BY <2>4 DEF ResetOK, Kept, Linked
  <2> QED
    BY <2>15 DEF r
<1>2. OnOK(o, b, Power(o, b, "on"))
  <2> DEFINE r == Power(o, b, "on")
             e == [b EXCEPT !.on = TRUE]
             s == [e EXCEPT !.pll = TRUE, !.held = FALSE, !.sync = TRUE]
             t == TransmitterPower(o, EncoderPower(b, "on"), "on")
  <2>1. EncoderPower(b, "on") = e /\ e \in Blocks
    BY DEF EncoderPower, Blocks
  <2>2. TransmitterStart(e) = s
    BY <2>1, StartFields
  <2>3. /\ s \in Blocks /\ s.clk = b.clk /\ s.source = b.source /\ s.dual = b.dual
        /\ s.std = b.std /\ s.mux = b.mux /\ s.want = b.want
        /\ s.on /\ s.pll /\ ~s.held /\ s.sync
    BY DEF Blocks
  <2>4. WantLinks(e) = WantLinks(b) /\ WantLinks(b) \in {0, 1, 2}
    BY WantLinksLemma DEF WantLinks, Blocks
  <2>5. t = IF o.kind = "KLDSKP_LVDS"
            THEN [s EXCEPT !.tmds = FALSE, !.links = WantLinks(b), !.seq = TRUE]
            ELSE [s EXCEPT !.tmds = TRUE, !.links = WantLinks(b)]
    BY <2>1, <2>2, <2>4, Zenon
    DEF TransmitterPower, LVTMA_TMDSTransmitterPower, LVTMA_LVDSTransmitterPower
  <2> HIDE DEF s
  <2>6. /\ t \in Blocks /\ t.clk = b.clk /\ t.source = b.source /\ t.dual = b.dual
        /\ t.std = b.std /\ t.mux = b.mux /\ t.want = b.want
        /\ t.on /\ t.pll /\ ~t.held /\ t.sync /\ t.links = WantLinks(b)
        /\ (t.tmds <=> o.kind # "KLDSKP_LVDS") /\ (o.kind = "KLDSKP_LVDS" => t.seq)
    <3>1. CASE o.kind = "KLDSKP_LVDS"
      <4>1. t = [s EXCEPT !.tmds = FALSE, !.links = WantLinks(b), !.seq = TRUE]
        BY <2>5, <3>1
      <4> HIDE DEF t
      <4> QED
        <5>1. t \in Blocks
          BY <2>3, <2>4, <4>1, ZenonT(60) DEF Blocks
        <5>2. /\ t.clk = s.clk /\ t.source = s.source /\ t.dual = s.dual
             /\ t.std = s.std /\ t.mux = s.mux /\ t.want = s.want
             /\ t.on = s.on /\ t.pll = s.pll /\ t.held = s.held /\ t.sync = s.sync
             /\ t.links = WantLinks(b) /\ ~t.tmds /\ t.seq
          BY <2>3, <2>4, <4>1 DEF Blocks
        <5> QED
          BY <2>3, <3>1, <5>1, <5>2
    <3>2. CASE o.kind # "KLDSKP_LVDS"
      <4>1. t = [s EXCEPT !.tmds = TRUE, !.links = WantLinks(b)]
        BY <2>5, <3>2
      <4> HIDE DEF t
      <4> QED
        BY <2>3, <2>4, <3>2, <4>1 DEF Blocks
    <3> QED
      BY <3>1, <3>2
  <2>7. r = [t EXCEPT !.hdmi = o.hdmi] /\ o.hdmi \in BOOLEAN
    BY OutputType DEF Power, DigPower
  <2> HIDE DEF t
  <2>8. /\ r \in Blocks /\ r.clk = b.clk /\ r.source = b.source /\ r.dual = b.dual
        /\ r.std = b.std /\ r.mux = b.mux /\ r.want = b.want
        /\ r.on /\ r.pll /\ ~r.held /\ r.sync /\ r.links = WantLinks(b)
        /\ (r.tmds <=> o.kind # "KLDSKP_LVDS") /\ (o.kind = "KLDSKP_LVDS" => r.seq)
        /\ r.hdmi = o.hdmi
    BY <2>6, <2>7 DEF Blocks
  <2>9. WantLinks(r) = WantLinks(b)
    BY <2>8 DEF WantLinks
  <2> HIDE DEF r
  <2>15. OnOK(o, b, r)
    BY <2>8, <2>9 DEF OnOK, Kept, Linked, Lighted
  <2> QED
    BY <2>15 DEF r
<1> QED
  BY <1>1, <1>2

LEMMA PowerKeeps ==
  ASSUME NEW o \in OutputSet, NEW b \in Blocks,
         Fits(o, b), Linked(o, b), WantedPanel(o, b)
  PROVE  OnOK(o, b, Power(o, b, "on")) /\ ResetOK(o, b, Power(o, b, "reset"))
<1>1. o.kind \in Kinds
  BY OutputType
<1> QED
  BY <1>1, DACKeeps, TMDSAKeeps, TMDSBKeeps, LVDSKeeps, DDIAKeeps, DigKeeps
-----------------------------------------------------------------------------
(* What Output->Mode writes, whatever was there.                           *)
ProgramOK(o, b, c, s) ==
  /\ o.kind \in Dacs =>
       /\ s.std = o.sensed
       /\ s.source = IF o.sensed = "VGA" THEN o.crtc ELSE TvEncoder
       /\ o.kind \in {"DACB", "DACB_RV620"} => (s.mux <=> o.sensed # "VGA")
  /\ o.kind \notin Dacs => (s.dual <=> TwoFor(o, c)) /\ s.source = o.crtc
  /\ o.kind = "LVDS" => ~s.tmds /\ s.sync /\ s.links = b.links
  /\ o.kind = "TMDSA" => s.sync = b.sync
  /\ o.kind = "DDIA" => s.pll
  /\ Wanted(o, s, c)

LEMMA PulseKeeps ==
  ASSUME NEW b \in Blocks
  PROVE  LET r == Resync(Pulse(b))
         IN  /\ r.source = b.source /\ r.dual = b.dual /\ r.want = b.want
             /\ r.tmds = b.tmds /\ r.links = b.links /\ r.sync = b.pll
BY DEF Resync, Pulse, Blocks

LEMMA ProgramMarks ==
  ASSUME NEW o \in OutputSet, NEW b \in Blocks, NEW c \in Nat, c # NoClock,
         ModeValid(o, c), WantedPanel(o, b)
  PROVE  ProgramOK(o, b, c, Programmed(o, b, c))
<1> DEFINE r == Programmed(o, b, c)
<1>1. /\ o.kind \in Kinds /\ o.crtc \in {0, 1, 2} /\ o.single \in BOOLEAN
      /\ o.sensed \in {"VGA", "TV", "COMPONENT"} /\ o.wide \in BOOLEAN
  BY OutputType
<1>2. CASE o.kind \in Dacs
  <2> DEFINE tv     == o.sensed # "VGA"
             force  == b.forced \/ o.kind \in R500Dacs
             two    == o.kind \in {"DACB", "DACB_RV620"}
             mux    == IF two THEN tv ELSE b.mux
             source == IF o.sensed = "VGA" THEN o.crtc ELSE TvEncoder
  <2>1. r = [b EXCEPT !.std = o.sensed, !.source = source, !.mux = mux, !.forced = force]
    BY <1>2, Zenon DEF DACSet, Programmed
  <2> HIDE DEF force, mux, source
  <2>2. r.std = o.sensed /\ r.source = source /\ r.mux = mux
    BY <2>1 DEF Blocks
  <2>3. two => (mux <=> tv)
    BY Zenon DEF mux
  <2> QED
    BY <1>2, <2>2, <2>3 DEF ProgramOK, Wanted, WantedPanel, source
<1>3. CASE o.kind \in {"TMDSA", "TMDSB"}
  <2> DEFINE two == c > SingleLimit
             a   == [b EXCEPT !.links = 0, !.source = o.crtc, !.forced = FALSE,
                              !.dual = two, !.want = two]
             t   == [b EXCEPT !.tmds = TRUE, !.links = 0, !.source = o.crtc,
                              !.forced = FALSE, !.dual = two, !.want = two]
  <2>1. two \in BOOLEAN
    OBVIOUS
  <2>2. TMDSASet(o, b, c) = a /\ TMDSBSet(o, b, c) = Resync(Pulse(t))
    BY Zenon DEF TMDSASet, TMDSBSet
  <2>3. r = IF o.kind = "TMDSA" THEN a ELSE Resync(Pulse(t))
    BY <1>3, <2>2, Zenon DEF Programmed
  <2>4. two <=> TwoFor(o, c)
    BY <1>3 DEF TwoFor
  <2> HIDE DEF two
  <2>5. a.source = o.crtc /\ a.dual = two /\ a.want = two /\ a.sync = b.sync
    BY <2>1 DEF Blocks
  <2>6. t.source = o.crtc /\ t.dual = two /\ t.want = two /\ t \in Blocks
    BY <1>1, <2>1, ZenonT(60) DEF Blocks
  <2> HIDE DEF a, t
  <2>7. r.source = o.crtc /\ r.dual = two /\ r.want = two
    BY <2>3, <2>5, <2>6, PulseKeeps
  <2>8. o.kind = "TMDSA" => r.sync = b.sync
    BY <2>3, <2>5
  <2> HIDE DEF r
  <2>9. ProgramOK(o, b, c, r)
    BY <1>3, <2>4, <2>7, <2>8 DEF ProgramOK, Wanted, WantedPanel, two
  <2> QED
    BY <2>9 DEF r
<1>4. CASE o.kind = "LVDS"
  <2> DEFINE s == [b EXCEPT !.on = TRUE, !.tmds = FALSE, !.source = o.crtc,
                            !.dual = b.want, !.pll = TRUE]
  <2>1. /\ s \in Blocks /\ s.pll /\ ~s.tmds /\ s.source = o.crtc /\ s.dual = b.want
        /\ s.want = b.want /\ s.links = b.links
    BY <1>1 DEF Blocks
  <2>2. r = Resync(Pulse(s))
    BY <1>4 DEF Programmed, LVDSSet
  <2> HIDE DEF s
  <2>3. /\ r.source = o.crtc /\ r.dual = b.want /\ r.want = b.want
        /\ ~r.tmds /\ r.links = b.links /\ r.sync
    BY <2>1, <2>2, PulseKeeps
  <2> HIDE DEF r
  <2>4. (b.want <=> o.wide) /\ (TwoFor(o, c) <=> o.wide)
    BY <1>4 DEF WantedPanel, TwoFor
  <2>5. ProgramOK(o, b, c, r)
    BY <1>4, <2>3, <2>4 DEF ProgramOK, Wanted, WantedPanel
  <2> QED
    BY <2>5 DEF r
<1>5. CASE o.kind = "DDIA"
  <2> DEFINE two == c >= SingleLimit
  <2>1. two \in BOOLEAN
    OBVIOUS
  <2>2. r = [b EXCEPT !.held = TRUE, !.pll = TRUE, !.source = o.crtc,
                      !.dual = two, !.want = two]
    BY <1>5, Zenon DEF DDIAMode, Programmed
  <2>3. two <=> TwoFor(o, c)
    BY <1>5 DEF TwoFor
  <2> HIDE DEF two, r
  <2>4. r.source = o.crtc /\ r.dual = two /\ r.pll
    BY <2>1, <2>2 DEF Blocks
  <2>5. ProgramOK(o, b, c, r)
    BY <1>5, <2>3, <2>4 DEF ProgramOK, Wanted, WantedPanel
  <2> QED
    BY <2>5 DEF r
<1>6. CASE o.kind \in Digs
  <2> DEFINE over == c > SingleLimit
             two  == IF o.kind = "KLDSKP_TMDS" /\ ~o.single THEN over ELSE b.want
  <2>1. over \in BOOLEAN /\ b.want \in BOOLEAN
    BY DEF Blocks
  <2>2. r = [b EXCEPT !.want = two, !.dual = two, !.source = o.crtc]
    BY <1>6, Zenon DEF DigMode, Programmed
  <2>3. CASE o.kind = "KLDSKP_TMDS"
    <3>1. o.single => ~over /\ ~b.want
      BY <1>1, <2>3 DEF ModeValid, WantedPanel
    <3>2. over <=> TwoFor(o, c)
      BY <2>3 DEF TwoFor
    <3> HIDE DEF over
    <3>3. two <=> over
      BY <2>3, <3>1, Zenon
    <3> HIDE DEF two, r
    <3>4. r.source = o.crtc /\ r.dual = two /\ r.want = two
      BY <2>1, <2>2 DEF Blocks
    <3>5. o.single => ~two
      BY <3>1, <3>3
    <3>6. ProgramOK(o, b, c, r)
      BY <2>3, <3>2, <3>3, <3>4, <3>5 DEF ProgramOK, Wanted, WantedPanel, over
    <3> QED
      BY <3>6 DEF r
  <2>4. CASE o.kind = "KLDSKP_LVDS"
    <3>1. two = b.want
      BY <2>4
    <3>2. (b.want <=> o.wide) /\ (TwoFor(o, c) <=> o.wide)
      BY <2>4 DEF WantedPanel, TwoFor
    <3> HIDE DEF two, r
    <3>3. r.source = o.crtc /\ r.dual = two /\ r.want = two
      BY <2>1, <2>2 DEF Blocks
    <3>4. ProgramOK(o, b, c, r)
      BY <2>4, <3>1, <3>2, <3>3 DEF ProgramOK, Wanted, WantedPanel
    <3> QED
      BY <3>4 DEF r
  <2> QED
    BY <1>6, <2>3, <2>4
<1> QED
  BY <1>1, <1>2, <1>3, <1>4, <1>5, <1>6

(* After a mode set the block is marked for its clock.                     *)
LEMMA SetMarks ==
  ASSUME NEW o \in OutputSet, NEW b \in Blocks, NEW c \in Nat, c # NoClock,
         ModeValid(o, c), Fits(o, b), Linked(o, b), WantedPanel(o, b)
  PROVE  LET s == Set(o, b, c)
         IN  /\ s \in Blocks /\ Fits(o, s) /\ s.clk = c
             /\ Marked(o, s) /\ Linked(o, s) /\ Wanted(o, s, c)
             /\ o.kind = "DDIA" => s.source = o.crtc /\ s.pll
             /\ o.kind = "LVDS" => s.sync
             /\ o.kind = "TMDSA" => s.sync = b.sync /\ (Started(s) <=> Started(b))
<1> DEFINE p == Programmed(o, b, c)
           s == Set(o, b, c)
<1>1. SetOK(o, b, p) /\ SetOK(o, b, s)
  BY ProgrammedLemma, SetLemma
<1>2. ProgramOK(o, b, c, p)
  BY ProgramMarks
<1>3. s = [p EXCEPT !.clk = c]
  BY Zenon DEF Set, Programmed
<1>4. p \in Blocks /\ s \in Blocks /\ Fits(o, s)
  BY <1>1 DEF SetOK
<1> HIDE DEF p, s
<1>5. /\ s.clk = c /\ s.std = p.std /\ s.source = p.source /\ s.mux = p.mux
      /\ s.dual = p.dual /\ s.tmds = p.tmds /\ s.links = p.links
      /\ s.want = p.want /\ s.sync = p.sync /\ s.pll = p.pll
  BY <1>3, <1>4 DEF Blocks
<1>6. Marked(o, s)
  BY <1>2, <1>5 DEF Marked, ProgramOK
<1>7. Linked(o, s)
  BY <1>2, <1>5 DEF Linked, ProgramOK
<1>8. Wanted(o, s, c)
  BY <1>2, <1>5 DEF Wanted, WantedPanel, ProgramOK
<1>9. o.kind = "TMDSA" => (Started(s) <=> Started(b))
  BY <1>1 DEF SetOK
<1>10. /\ o.kind = "DDIA" => s.source = o.crtc /\ s.pll
       /\ o.kind = "LVDS" => s.sync
       /\ o.kind = "TMDSA" => s.sync = b.sync
  BY <1>2, <1>5 DEF ProgramOK
<1> QED
  BY <1>4, <1>5, <1>6, <1>7, <1>8, <1>9, <1>10 DEF s
-----------------------------------------------------------------------------
LEMMA KeptMarks ==
  ASSUME NEW o \in OutputSet, NEW b \in Blocks, NEW r, NEW c, Kept(o, b, r),
         Marked(o, b), Linked(o, b), Wanted(o, b, c)
  PROVE  Marked(o, r) /\ Linked(o, r) /\ Wanted(o, r, c)
BY DEF Kept, Marked, Linked, Wanted, WantedPanel

(* What a power on, and a reset, do to an output in use.                   *)
LEMMA OnWires ==
  ASSUME NEW o \in OutputSet, NEW b \in Blocks, NEW c, o.active, Fits(o, b),
         Marked(o, b), Linked(o, b), Wanted(o, b, c)
  PROVE  LET r == Power(o, b, "on")
         IN  /\ Marked(o, r) /\ Linked(o, r) /\ Wanted(o, r, c) /\ Lighted(o, r)
             /\ r.source = b.source /\ (o.kind = "DDIA" => r.pll = b.pll)
             /\ o.kind = "TMDSA" /\ (~Started(b) \/ b.sync) => r.sync
             /\ o.kind = "LVDS" /\ b.sync => r.sync
<1> DEFINE r == Power(o, b, "on")
<1>1. WantedPanel(o, b)
  BY DEF Wanted
<1>2. OnOK(o, b, r)
  BY <1>1, PowerKeeps
<1> HIDE DEF r
<1>3. Marked(o, r) /\ Linked(o, r) /\ Wanted(o, r, c)
  BY <1>2, KeptMarks DEF OnOK
<1> QED
  BY <1>2, <1>3 DEF OnOK, Kept, r

LEMMA ResetWires ==
  ASSUME NEW o \in OutputSet, NEW b \in Blocks, NEW c, o.active, Fits(o, b),
         Marked(o, b), Linked(o, b), Wanted(o, b, c)
  PROVE  LET r == Power(o, b, "reset")
         IN  /\ Marked(o, r) /\ Linked(o, r) /\ Wanted(o, r, c)
             /\ r.source = b.source /\ (o.kind = "DDIA" => r.pll = b.pll)
             /\ o.kind \in {"TMDSA", "LVDS"} => r.sync = b.sync
<1> DEFINE r == Power(o, b, "reset")
<1>1. WantedPanel(o, b)
  BY DEF Wanted
<1>2. ResetOK(o, b, r)
  BY <1>1, PowerKeeps
<1> HIDE DEF r
<1>3. Marked(o, r) /\ Linked(o, r) /\ Wanted(o, r, c)
  BY <1>2, KeptMarks DEF ResetOK
<1> QED
  BY <1>2, <1>3 DEF ResetOK, Kept, r

(* A mode set drives an output in use; without a mode it is only lit.      *)
LEMMA SetModeWires ==
  ASSUME NEW o \in OutputSet, NEW b \in Blocks, NEW c \in Nat, o.active,
         c # NoClock => ModeValid(o, c), Fits(o, b),
         Marked(o, b), Linked(o, b), WantedPanel(o, b)
  PROVE  LET r == SetMode(o, b, c)
         IN  /\ Marked(o, r) /\ Linked(o, r) /\ Wanted(o, r, c) /\ Lighted(o, r)
             /\ o.kind = "DDIA" /\ c # NoClock => r.source = o.crtc /\ r.pll
             /\ o.kind = "TMDSA" /\ (~Started(b) \/ b.sync) => r.sync
             /\ o.kind = "LVDS" /\ c # NoClock => r.sync
<1> DEFINE s == IF c = NoClock THEN b ELSE Set(o, b, c)
           r == SetMode(o, b, c)
<1>1. /\ s \in Blocks /\ Fits(o, s)
      /\ Marked(o, s) /\ Linked(o, s) /\ Wanted(o, s, c)
      /\ o.kind = "DDIA" /\ c # NoClock => s.source = o.crtc /\ s.pll
      /\ o.kind = "LVDS" /\ c # NoClock => s.sync
      /\ o.kind = "TMDSA" => s.sync = b.sync /\ (Started(s) <=> Started(b))
  <2>1. CASE c = NoClock
    BY <2>1 DEF Wanted
  <2>2. CASE c # NoClock
    BY <2>2, SetMarks
  <2> QED
    BY <2>1, <2>2
<1>2. r = Power(o, s, "on")
  BY DEF SetMode
<1> HIDE DEF s, r
<1>3. /\ Marked(o, r) /\ Linked(o, r) /\ Wanted(o, r, c) /\ Lighted(o, r)
      /\ r.source = s.source /\ (o.kind = "DDIA" => r.pll = s.pll)
      /\ o.kind = "TMDSA" /\ (~Started(s) \/ s.sync) => r.sync
      /\ o.kind = "LVDS" /\ s.sync => r.sync
  BY <1>1, <1>2, OnWires
<1> QED
  BY <1>1, <1>3 DEF r

(* A restore brings the marks back, and leaves the private flags.          *)
LEMMA RestoreWires ==
  ASSUME NEW o \in OutputSet, NEW b \in Blocks, NEW s \in Blocks, NEW c,
         Marked(o, s), Linked(o, s), Wanted(o, b, c)
  PROVE  LET r == Restore(o, b, s)
         IN  /\ Marked(o, r) /\ Linked(o, r) /\ Wanted(o, r, c)
             /\ o.kind = "DDIA" => r.source = b.source /\ r.pll = b.pll
             /\ o.kind \in {"TMDSA", "LVDS"} /\ s.pll /\ b.pll /\ b.sync => r.sync
<1> DEFINE source == IF o.kind = "DDIA" THEN b.source ELSE s.source
           pll    == IF o.kind = "DDIA" THEN b.pll ELSE s.pll
           sync   == CASE o.kind = "DDIA" -> s.sync
                       [] o.kind \in Digs -> s.sync /\ s.pll
                       [] OTHER           -> s.pll /\ b.pll /\ b.sync
           t      == [s EXCEPT !.source = source, !.pll = pll, !.sync = sync]
           r      == Restore(o, b, s)
<1>2. sync \in BOOLEAN /\ pll \in BOOLEAN /\ source \in {0, 1, 2}
  BY DEF Blocks
<1>3. r = Keep(b, t)
  BY RestoreForm
<1>4. o.kind \in {"TMDSA", "LVDS"} /\ s.pll /\ b.pll /\ b.sync => sync
  OBVIOUS
<1>5. /\ o.kind = "DDIA" => source = b.source /\ pll = b.pll
      /\ o.kind # "DDIA" => source = s.source
  OBVIOUS
<1> HIDE DEF source, pll, sync
<1>6. /\ t \in Blocks /\ t.clk = s.clk /\ t.std = s.std /\ t.mux = s.mux
      /\ t.dual = s.dual /\ t.tmds = s.tmds /\ t.links = s.links
      /\ t.source = source /\ t.pll = pll /\ t.sync = sync
  BY <1>2 DEF Blocks
<1> HIDE DEF t
<1>7. r = [t EXCEPT !.want = b.want, !.state = b.state]
  BY <1>3 DEF Keep
<1> HIDE DEF r
<1>8. /\ r.clk = s.clk /\ r.std = s.std /\ r.mux = s.mux /\ r.dual = s.dual
      /\ r.tmds = s.tmds /\ r.links = s.links /\ r.source = source
      /\ r.pll = pll /\ r.sync = sync /\ r.want = b.want
  BY <1>6, <1>7 DEF Blocks
<1>9. Marked(o, r)
  BY <1>5, <1>8 DEF Marked
<1>10. Linked(o, r) /\ Wanted(o, r, c)
  BY <1>8 DEF Linked, Wanted, WantedPanel
<1> QED
  BY <1>4, <1>5, <1>8, <1>9, <1>10 DEF r

(* The BIOS marks nothing, and drives no more links than a panel has.      *)
LEMMA HandedWires ==
  ASSUME NEW o \in OutputSet, NEW b \in Blocks, NEW h \in Handed(o)
  PROVE  LET r == Keep(b, h)
         IN  r.clk = NoClock /\ r.want = b.want /\ Linked(o, r)
<1>1. h \in Blocks /\ h.clk = NoClock /\ Linked(o, h)
  <2>1. NoBlock \in Blocks /\ NoBlock.clk = NoClock /\ NoBlock.links = 0
    BY DEF NoBlock, Blocks
  <2>2. CASE h \in NotShowing
    <3>1. PICK d \in BOOLEAN : h = [NoBlock EXCEPT !.down = d, !.held = d]
      BY <2>2 DEF NotShowing
    <3>2. h \in Blocks /\ h.clk = NoBlock.clk /\ h.links = NoBlock.links
      <4>1. h \in Blocks
        BY <2>1, <3>1, ZenonT(60) DEF Blocks
      <4>2. h.clk = NoBlock.clk /\ h.links = NoBlock.links
        BY <2>1, <3>1 DEF Blocks
      <4> QED
        BY <4>1, <4>2
    <3> QED
      BY <2>1, <3>2 DEF Linked
  <2>3. CASE h \in Shows(o)
    <3>1. PICK crtc \in {0, 1}, two \in TwoLinks(o), hdmi \in HdmiOn(o) :
            h = Showing(o, crtc, two, hdmi)
      BY <2>3 DEF Shows
    <3>2. /\ two \in BOOLEAN /\ hdmi \in BOOLEAN /\ (hdmi => o.kind \in Tmdss)
          /\ o.kind \in Panels => two = o.wide
      BY <3>1, OutputType DEF TwoLinks, HdmiOn
    <3>3. h \in Blocks
      BY <3>1, <3>2, ShowingLemma
    <3> DEFINE linked == o.kind \in Panels \cup Tmdss
               tmds   == o.kind \in {"TMDSB", "KLDSKP_TMDS"}
               seq    == o.kind \in Panels
               links  == IF ~linked THEN 0 ELSE IF two THEN 2 ELSE 1
               pll    == linked \/ o.kind = "DDIA"
    <3>4. h = [NoBlock EXCEPT !.on = TRUE, !.source = crtc, !.dual = two, !.hdmi = hdmi,
                              !.links = links, !.pll = pll, !.sync = linked,
                              !.tmds = tmds, !.seq = seq]
      BY <3>1, Zenon DEF Showing
    <3>5. o.kind = "LVDS" => links = IF o.wide THEN 2 ELSE 1
      BY <3>2
    <3> HIDE DEF linked, tmds, seq, links, pll
    <3>6. h.clk = NoBlock.clk /\ h.links = links
      BY <2>1, <3>4 DEF Blocks
    <3> QED
      BY <2>1, <3>3, <3>5, <3>6 DEF Linked
  <2> QED
    BY <2>2, <2>3 DEF Handed
<1> DEFINE r == Keep(b, h)
<1>2. r.clk = h.clk /\ r.want = b.want /\ r.links = h.links
  BY <1>1 DEF Keep, Blocks
<1> HIDE DEF r
<1>3. r.clk = NoClock /\ r.want = b.want /\ Linked(o, r)
  BY <1>1, <1>2 DEF Linked
<1> QED
  BY <1>3 DEF r
-----------------------------------------------------------------------------
LEMMA InitWired == Init => Wired
<1> SUFFICES ASSUME Init PROVE Wired
  OBVIOUS
<1> USE DEF Init
<1>1. out \in OutputSet /\ out.wide \in BOOLEAN /\ (out.wide => out.kind \in Panels)
  BY DEF OutputSet
<1>2. NoBlock \in Blocks /\ NoBlock.clk = NoClock /\ NoBlock.links = 0
  BY DEF NoBlock, Blocks
<1>3. NewBlock(out) \in Blocks /\ NewBlock(out).want = out.wide
  <2>1. NewBlock(out) = [NoBlock EXCEPT !.want = out.wide]
    BY DEF NewBlock
  <2> QED
    BY <1>1, <1>2, <2>1 DEF Blocks
<1>4. PICK h \in Handed(out) : x = Keep(NewBlock(out), h)
  OBVIOUS
<1>5. x.clk = NoClock /\ x.want = out.wide /\ Linked(out, x)
  BY <1>1, <1>3, <1>4, HandedWires
<1>6. MarkedNow /\ LinkedNow
  BY <1>2, <1>5 DEF MarkedNow, LinkedNow, Marked, Linked
<1>7. WantedNow
  BY <1>1, <1>5 DEF WantedNow, WantedPanel
<1>8. ValidNow
  BY DEF ValidNow
<1> QED
  BY <1>6, <1>7, <1>8 DEF Wired, SourceNow, SyncedNow, LightedNow

(* A mode stays one that the output takes.                                 *)
LEMMA StepValid == ValidNow /\ [Next]_vars => ValidNow'
BY DEF ValidNow, Next, Sense, ScreenInit, SwitchMode, AVPower, HardwareSleep,
       HardwareWake, PowerLoss, Awake, vars

LEMMA StepWired == IInv /\ Wired /\ [Next]_vars => Wired'
<1> SUFFICES ASSUME IInv, Wired, [Next]_vars PROVE Wired'
  OBVIOUS
<1>1. /\ out \in OutputSet /\ x \in Blocks /\ saved \in Blocks
      /\ mode \in Nat /\ asleep \in Nat /\ Fits(out, x) /\ Fits(out, saved)
      /\ mode # NoClock => ModeValid(out, mode)
  BY DEF IInv, Typed, Wired, ValidNow
<1>2. ValidNow'
  BY StepValid DEF Wired
<1>3. out' = out
  BY DEF Next, Sense, ScreenInit, SwitchMode, AVPower, HardwareSleep,
         HardwareWake, PowerLoss, vars
<1>4. CASE ~out.active
  BY <1>2, <1>3, <1>4
  DEF Wired, MarkedNow, LinkedNow, WantedNow, SourceNow, SyncedNow, LightedNow
<1>5. CASE out.active
  <2>1. /\ Marked(out, x) /\ Marked(out, saved) /\ Linked(out, x) /\ Linked(out, saved)
        /\ WantedPanel(out, x)
        /\ phase \in {"up", "lost"} => Wanted(out, x, mode)
    BY <1>5 DEF Wired, MarkedNow, LinkedNow, WantedNow
  <2>2. phase = "up" /\ ~cold =>
          /\ out.kind = "DDIA" /\ mode # NoClock => x.source = out.crtc /\ x.pll
          /\ Starts(out, mode) => x.sync /\ x.pll
    BY <1>5 DEF Wired, SourceNow, SyncedNow, IInv, ReadyNow, Ready
  <2>3. ASSUME /\ Marked(out', x') /\ Marked(out', saved')
               /\ Linked(out', x') /\ Linked(out', saved')
               /\ Wanted(out', x', mode')
               /\ ~cold' /\ phase' = "up" =>
                    /\ out'.kind = "DDIA" /\ mode' # NoClock =>
                         x'.source = out'.crtc /\ x'.pll
                    /\ Starts(out', mode') => x'.sync
               /\ phase' = "up" /\ lit' => Lighted(out', x')
        PROVE  Wired'
    BY <1>2, <2>3
    DEF Wired, MarkedNow, LinkedNow, WantedNow, SourceNow, SyncedNow, LightedNow, Wanted
  <2>4. CASE Sense
    <3>1. /\ phase' = "sensed" /\ x' = Sensed(out, x) /\ saved' = saved
      BY <2>4 DEF Sense
    <3> DEFINE d == [x EXCEPT !.down = FALSE]
    <3>2. x' = d \/ x' = x
      BY <3>1 DEF Sensed
    <3>3. /\ d.clk = x.clk /\ d.std = x.std /\ d.source = x.source /\ d.mux = x.mux
          /\ d.dual = x.dual /\ d.tmds = x.tmds /\ d.links = x.links /\ d.want = x.want
      BY <1>1 DEF Blocks
    <3> HIDE DEF d
    <3>4. Marked(out, x') /\ Linked(out, x') /\ WantedPanel(out, x')
      BY <2>1, <3>2, <3>3 DEF Marked, Linked, WantedPanel
    <3> QED
      BY <1>2, <1>3, <2>1, <3>1, <3>4
      DEF Wired, MarkedNow, LinkedNow, WantedNow, SourceNow, SyncedNow, LightedNow
  <2>5. CASE ScreenInit
    <3> DEFINE b == OutputsPower(out, x, "reset")
    <3>1. /\ phase = "sensed" /\ x' = SetMode(out, b, mode)
          /\ UNCHANGED <<mode, saved>>
      BY <2>5 DEF ScreenInit
    <3>2. b = Power(out, x, "reset")
      BY <1>5 DEF OutputsPower
    <3>3. Wanted(out, x, NoClock)
      BY <2>1 DEF Wanted
    <3>4. Marked(out, b) /\ Linked(out, b) /\ Wanted(out, b, NoClock)
      BY <1>1, <1>5, <2>1, <3>2, <3>3, ResetWires
    <3>5. b \in Blocks /\ Fits(out, b) /\ (out.kind = "TMDSA" => ~Started(b))
      <4>1. PowerOK(out, x, "reset", b)
        BY <1>1, <3>2, PowerLemma
      <4>2. ~Started(x)
        BY <3>1 DEF IInv, Typed, Started
      <4> QED
        BY <4>1, <4>2 DEF PowerOK
    <3>6. WantedPanel(out, b)
      BY <3>4 DEF Wanted
    <3> HIDE DEF b
    <3>7. /\ Marked(out, x') /\ Linked(out, x') /\ Wanted(out, x', mode)
          /\ Lighted(out, x')
          /\ out.kind = "DDIA" /\ mode # NoClock => x'.source = out.crtc /\ x'.pll
          /\ Starts(out, mode) => x'.sync
      BY <1>1, <1>5, <3>1, <3>4, <3>5, <3>6, SetModeWires DEF Starts
    <3> QED
      BY <1>3, <2>1, <2>3, <3>1, <3>7
  <2>6. CASE SwitchMode
    <3>1. /\ phase = "up" /\ x' = SetMode(out, x, mode') /\ saved' = saved
          /\ cold' = (cold /\ (mode = NoClock \/ out.kind = "TMDSA"))
      BY <2>6 DEF SwitchMode, Awake
    <3>2. /\ mode' \in Nat /\ (mode' # NoClock <=> mode # NoClock)
          /\ mode' # NoClock => ModeValid(out, mode')
      BY <2>6, ClocksAssumption DEF SwitchMode
    <3>3. out.kind = "TMDSA" /\ ~cold' => x.sync
      BY <2>2, <3>1 DEF Starts
    <3>4. /\ Marked(out, x') /\ Linked(out, x') /\ Wanted(out, x', mode')
          /\ Lighted(out, x')
          /\ out.kind = "DDIA" /\ mode' # NoClock => x'.source = out.crtc /\ x'.pll
          /\ out.kind = "TMDSA" /\ x.sync => x'.sync
          /\ out.kind = "LVDS" /\ mode' # NoClock => x'.sync
      BY <1>1, <1>5, <2>1, <3>1, <3>2, SetModeWires
    <3>5. Starts(out, mode') /\ ~cold' => x'.sync
      BY <3>3, <3>4 DEF Starts
    <3> QED
      BY <1>3, <2>1, <2>3, <3>1, <3>4, <3>5
  <2>7. ASSUME phase = "up", x' = OutputsPower(out, x, "reset"), ~lit',
               saved' \in {saved, x'}, UNCHANGED <<mode, phase, cold>>
        PROVE  Wired'
    <3>1. x' = Power(out, x, "reset")
      BY <1>5, <2>7 DEF OutputsPower
    <3>2. /\ Marked(out, x') /\ Linked(out, x') /\ Wanted(out, x', mode)
          /\ x'.source = x.source /\ (out.kind = "DDIA" => x'.pll = x.pll)
          /\ out.kind \in {"TMDSA", "LVDS"} => x'.sync = x.sync
      BY <1>1, <1>5, <2>1, <2>7, <3>1, ResetWires
    <3>3. ~cold => /\ out.kind = "DDIA" /\ mode # NoClock => x'.source = out.crtc /\ x'.pll
                   /\ Starts(out, mode) => x'.sync
      BY <2>2, <2>7, <3>2 DEF Starts
    <3>4. Marked(out, saved') /\ Linked(out, saved')
      BY <2>1, <2>7, <3>2
    <3> QED
      BY <1>3, <2>3, <2>7, <3>2, <3>3, <3>4
  <2>8. ASSUME NEW on \in BOOLEAN, AVPower(on) PROVE Wired'
    <3>1. /\ phase = "up" /\ x' = OutputsPower(out, x, IF on THEN "on" ELSE "reset")
          /\ lit' = on /\ UNCHANGED <<mode, saved, phase, cold>>
      BY <2>8 DEF AVPower, Awake
    <3>2. CASE ~on
      BY <2>7, <3>1, <3>2
    <3>3. CASE on
      <4>1. x' = Power(out, x, "on")
        BY <1>5, <3>1, <3>3 DEF OutputsPower
      <4>2. /\ Marked(out, x') /\ Linked(out, x') /\ Wanted(out, x', mode)
            /\ Lighted(out, x') /\ x'.source = x.source /\ (out.kind = "DDIA" => x'.pll = x.pll)
            /\ out.kind \in {"TMDSA", "LVDS"} /\ x.sync => x'.sync
        BY <1>1, <1>5, <2>1, <3>1, <4>1, OnWires
      <4>3. ~cold => /\ out.kind = "DDIA" /\ mode # NoClock => x'.source = out.crtc /\ x'.pll
                     /\ Starts(out, mode) => x'.sync
        BY <2>2, <3>1, <4>2 DEF Starts
      <4> QED
        BY <1>3, <2>1, <2>3, <3>1, <4>2, <4>3
    <3> QED
      BY <3>2, <3>3
  <2>9. CASE HardwareSleep
    <3>1. /\ phase = "up" /\ x' = OutputsPower(out, x, "reset") /\ lit' = FALSE
          /\ saved' = x' /\ UNCHANGED <<mode, phase, cold>>
      BY <2>9 DEF HardwareSleep, Awake
    <3> QED
      BY <2>7, <3>1
  <2>10. CASE HardwareWake
    <3> DEFINE r == Restore(out, x, saved)
    <3>1. /\ asleep > 0 /\ x' = OutputsPower(out, r, "on") /\ phase' = "up"
          /\ UNCHANGED <<mode, saved, cold>>
      BY <2>10 DEF HardwareWake
    <3>2. phase \in {"up", "lost"} /\ (~cold => phase = "up")
      BY <3>1 DEF IInv, Typed, Wired, ValidNow
    <3>3. /\ Marked(out, r) /\ Linked(out, r) /\ Wanted(out, r, mode)
          /\ out.kind = "DDIA" => r.source = x.source /\ r.pll = x.pll
          /\ out.kind \in {"TMDSA", "LVDS"} /\ saved.pll /\ x.pll /\ x.sync => r.sync
      BY <1>1, <2>1, <3>2, RestoreWires
    <3>4. r \in Blocks /\ Fits(out, r)
      BY <1>1, RestoreLemma DEF Fits
    <3>5. x' = Power(out, r, "on")
      BY <1>5, <3>1 DEF OutputsPower
    <3> HIDE DEF r
    <3>6. /\ Marked(out, x') /\ Linked(out, x') /\ Wanted(out, x', mode)
          /\ Lighted(out, x') /\ x'.source = r.source
          /\ out.kind = "DDIA" => x'.pll = r.pll
          /\ out.kind \in {"TMDSA", "LVDS"} /\ r.sync => x'.sync
      BY <1>1, <1>5, <3>3, <3>4, <3>5, OnWires
    <3>7. Starts(out, mode) => saved.pll
      BY <1>5, <3>1 DEF IInv, ReadySaved, Ready
    <3>8. ~cold => /\ out.kind = "DDIA" /\ mode # NoClock => x'.source = out.crtc /\ x'.pll
                   /\ Starts(out, mode) => x'.sync
      BY <2>2, <3>2, <3>3, <3>6, <3>7 DEF Starts
    <3> QED
      BY <1>3, <2>1, <2>3, <3>1, <3>6, <3>8
  <2>11. CASE PowerLoss
    <3>1. /\ phase = "up" /\ phase' = "lost" /\ UNCHANGED <<mode, saved>>
      BY <2>11 DEF PowerLoss
    <3>2. PICK h \in Handed(out) : x' = Keep(x, h)
      BY <2>11 DEF PowerLoss
    <3>3. x'.clk = NoClock /\ x'.want = x.want /\ Linked(out, x')
      BY <1>1, <3>2, HandedWires
    <3>4. Marked(out, x') /\ Wanted(out, x', mode)
      BY <2>1, <3>1, <3>3 DEF Marked, Wanted, WantedPanel
    <3> QED
      BY <1>3, <2>1, <2>3, <3>1, <3>3, <3>4
  <2>12. CASE UNCHANGED vars
    BY <2>12 DEF vars, Wired, MarkedNow, LinkedNow, WantedNow, SourceNow, SyncedNow,
                 ValidNow, LightedNow
  <2> QED
    BY <2>4, <2>5, <2>6, <2>8, <2>9, <2>10, <2>11, <2>12 DEF Next
<1> QED
  BY <1>4, <1>5

(* What is lit is driven as its mode needs, whichever of two nubs' mode    *)
(* switches, DPMS calls, sleeps and wakes came before, for every set of    *)
(* modes: the links a block transmits, which Power takes from a private    *)
(* flag, are those its encoder was set up for (rhd_tmds.c:421,             *)
(* rhd_lvtma.c:1229, rhd_dig.c:1577), although the registers are restored  *)
(* and the flag is not.                                                    *)
THEOREM DrivenHolds == Spec => []Driven
<1>1. IInv /\ Wired => Driven
  <2> SUFFICES ASSUME IInv, Wired, phase = "up", lit, out.active,
                      mode # NoClock, x.clk = mode
               PROVE  IF out.kind \in Dacs THEN DacDriven(out, x)
                      ELSE LinkDriven(out, x, mode)
    BY DEF Driven
  <2>1. /\ out \in OutputSet /\ x \in Blocks /\ mode \in Nat /\ ModeValid(out, mode)
        /\ Marked(out, x) /\ Wanted(out, x, mode) /\ Lighted(out, x)
        /\ out.kind = "DDIA" => cold \/ (x.source = out.crtc /\ x.pll)
        /\ Starts(out, mode) => Ready(x) /\ (cold \/ x.sync)
    BY DEF IInv, Typed, ReadyNow, Wired, ValidNow, MarkedNow, WantedNow, LightedNow,
           SourceNow, SyncedNow
  <2>2. out.kind \in Kinds /\ out.wide \in BOOLEAN /\ out.single \in BOOLEAN
    BY <2>1, OutputType
  <2>3. CASE out.kind \in Dacs
    BY <2>1, <2>3 DEF Marked, Lighted, DacDriven
  <2>4. CASE out.kind \notin Dacs
    <3>1. x.on /\ ~x.held /\ (out.kind # "DDIA" => x.pll)
      BY <2>1, <2>2, <2>4 DEF Lighted, Starts, Ready
    <3>2. (x.hdmi <=> out.hdmi) /\ x.hdmi \in BOOLEAN /\ out.hdmi \in BOOLEAN
      BY <2>1, <2>4, OutputType DEF Lighted, Blocks
    <3>3. (out.kind = "DDIA" /\ cold) \/ (x.source = out.crtc /\ x.pll)
      BY <2>1, <2>4, <3>1 DEF Marked
    <3>4. (x.dual <=> TwoFor(out, mode)) /\ x.dual \in BOOLEAN
      BY <2>1, <2>4 DEF Marked, Blocks
    <3>5. Links(out, x) = IF x.dual THEN 2 ELSE 1
      <4>1. CASE out.kind = "DDIA"
        BY <4>1 DEF Links
      <4>2. CASE out.kind # "DDIA"
        <5>1. x.want <=> x.dual
          BY <2>1, <2>2, <2>4, <3>4, <4>2 DEF Wanted, WantedPanel, TwoFor
        <5>2. Links(out, x) = WantLinks(x)
          BY <2>1, <2>2, <2>4, <4>2 DEF Links, Lighted
        <5> QED
          BY <5>1, <5>2 DEF WantLinks
      <4> QED
        BY <4>1, <4>2
    <3>6. out.kind \in Panels => x.dual = out.wide /\ x.seq
      BY <2>1, <2>2, <3>4 DEF TwoFor, Lighted
    <3>7. out.kind \notin Panels /\ mode > SingleLimit => Links(out, x) = 2
      BY <2>1, <2>4, <3>4, <3>5 DEF TwoFor
    <3>8. Single(out, mode) => Links(out, x) = 1
      <4> SUFFICES ASSUME Single(out, mode) PROVE ~TwoFor(out, mode)
        BY <3>4, <3>5
      <4>1. out.single /\ out.kind \in Tmdss \cup {"DDIA"}
        BY <2>1 DEF Single, OutputSet
      <4>2. mode <= SingleLimit
        BY <2>1, <4>1 DEF ModeValid
      <4>3. out.kind = "DDIA" => mode # SingleLimit
        BY DEF Single
      <4> QED
        BY <2>1, <4>1, <4>2, <4>3 DEF TwoFor
    <3>9. out.kind \notin {"TMDSA", "DDIA"} => x.tmds = (out.kind \in Tmdss)
      BY <2>1, <2>2, <2>4 DEF Lighted, Marked, Blocks
    <3>10. out.kind \in Digs \/ (out.kind \in {"TMDSA", "LVDS"} /\ ~cold) => x.sync
      BY <2>1 DEF Lighted, Starts
    <3>11. LinkDriven(out, x, mode)
      BY <3>1, <3>2, <3>3, <3>5, <3>6, <3>7, <3>8, <3>9, <3>10 DEF LinkDriven
    <3> QED
      BY <2>4, <3>11
  <2> QED
    BY <2>3, <2>4
<1>2. Spec => []Wired
  BY InitWired, StepWired, SpecIInv, PTL DEF Spec
<1> QED
  BY <1>1, <1>2, SpecIInv, PTL
=============================================================================
