-------------------------------- MODULE PLL --------------------------------
(***************************************************************************)
(* The two pixel clock PLLs, src/rhd/rhd_pll.c: their power sequences, the *)
(* multiplexer that gives each CRTC one of them, the DCCG clock of the     *)
(* RV620 family that hooks off a running PLL, and save and restore around  *)
(* sleep.                                                                  *)
(*                                                                         *)
(* The registers are a record and a function of the driver is an operator  *)
(* on it, built from single register writes.  Each write ends in Settle,   *)
(* what the hardware makes of it: a CRTC changes owner only while its      *)
(* current PLL is active (the comment at rhd_pll.c:341), and a DCCG clock  *)
(* left on a stopped PLL is remembered.                                    *)
(*                                                                         *)
(* PLL and CRTC numbers are 0 and 1, as PLL_ID_PLL1 and PLL_ID_PLL2 are;   *)
(* PLL n serves CRTC n (rhd_driver.c:1199).  Anti-glitch reset, spread     *)
(* spectrum and the separate dividers are left out: clk stands for them.   *)
(***************************************************************************)
EXTENDS Integers

CONSTANTS Family,         \* "R500" or "RV620"
          Active,         \* the CRTCs rhdSetMode sets a mode on
          Clocks,         \* pixel clocks, as dividers of the PLL
          NoClock,        \* dividers the driver did not write
          Computable,     \* the clocks PLLCalculate finds dividers for
          KeepRunning     \* RV620: PLLs with EXTn_DIFF_POST_DIV_CNTL & 0x100

PLLs == {0, 1}
External == 3             \* DCCG_DISP_CLK_SRCSEL: no PLL

ASSUME FamilyAssumption == Family \in {"R500", "RV620"}
ASSUME ActiveAssumption == Active \subseteq PLLs /\ KeepRunning \subseteq PLLs
ASSUME ClockAssumption == NoClock \notin Clocks /\ Computable \subseteq Clocks

VARIABLES hw,             \* the registers
          active,         \* PLL->Active
          current,        \* PLL->CurrentClock
          store,          \* PLL->Store...
          phase           \* "boot", "up", "asleep", "lost" (power went since the
                          \* save), "waking" (the other nub still sleeps)

vars == <<hw, active, current, store, phase>>

Regs == [reset : [PLLs -> BOOLEAN], down : [PLLs -> BOOLEAN],
         locked : [PLLs -> BOOLEAN], clk : [PLLs -> Clocks \cup {NoClock}],
         sel : [PLLs -> PLLs],        \* PCLK_CRTCn_CNTL bit 16
         own : [PLLs -> PLLs],        \* the PLL that does clock the CRTC
         dccg : PLLs \cup {External}, \* DCCG_DISP_CLK_SRCSEL
         dccgStopped : BOOLEAN]

Running(h, p) == ~h.reset[p] /\ ~h.down[p]

Settle(h) ==
  [h EXCEPT !.own = [c \in PLLs |-> IF Running(h, h.own[c]) THEN h.sel[c] ELSE h.own[c]],
            !.dccgStopped = @ \/ (h.dccg \in PLLs /\ ~Running(h, h.dccg))]

(* Any state a BIOS may hand over with a running DCCG clock.               *)
BiosLeft(r, s, d) ==
  Settle([reset |-> r, down |-> r, locked |-> [p \in PLLs |-> ~r[p]],
          clk |-> [p \in PLLs |-> NoClock], sel |-> s, own |-> s,
          dccg |-> d, dccgStopped |-> FALSE])

Handed ==
  {BiosLeft(r, s, d) :
     r \in [PLLs -> BOOLEAN], s \in [PLLs -> PLLs], d \in PLLs \cup {External}}

FromBios == {h \in Handed : ~h.dccgStopped /\ (Family = "R500" => h.dccg = External)}
-----------------------------------------------------------------------------
(* Writes of PnPLL_CNTL: bit 0, bit 1, both.                               *)
SetReset(h, p, on) == Settle([h EXCEPT !.reset[p] = on, !.locked[p] = @ /\ ~on])
SetDown(h, p, on) == Settle([h EXCEPT !.down[p] = on, !.locked[p] = @ /\ ~on])
SetBoth(h, p, reset, down) == Settle([h EXCEPT !.reset[p] = reset, !.down[p] = down])

(* PLL1Calibrate, PLL2Calibrate: a lock that does not come is only logged. *)
Calibrate(h, p, locks) ==
  [SetReset(SetReset(h, p, TRUE), p, FALSE) EXCEPT !.locked[p] = locks]

(* R500PLLnSetLow and RV620PLLnSetLow.                                     *)
R500SetLow(h, p, clk, locks) ==
  LET stopped == SetBoth(SetDown(h, p, FALSE), p, TRUE, TRUE)
  IN  Calibrate(SetDown([stopped EXCEPT !.clk[p] = clk], p, FALSE), p, locks)

RV620SetLow(h, p, clk, locks) ==
  LET stopped == SetDown(SetReset(h, p, TRUE), p, TRUE)
  IN  Calibrate(SetDown([stopped EXCEPT !.clk[p] = clk], p, FALSE), p, locks)

SetLow(h, p, clk, locks) ==
  IF Family = "R500" THEN R500SetLow(h, p, clk, locks)
  ELSE RV620SetLow(h, p, clk, locks)

(* R500PLLCRTCGrab.  PLL2IsCurrent is a Bool, and Bool is a char           *)
(* (src/rhd/xf86/xf86.h:24): bit 16 of the register does not fit in it.    *)
PLL2IsCurrent(h, c) == (h.sel[c] * 65536) % 256 # 0

PokeLeftOn(h, p) ==      \* mutant: the PLL poked is not put back
  IF Running(h, p) THEN h ELSE SetBoth(h, p, FALSE, FALSE)
Poke(h, p) ==
  IF Running(h, p) THEN h
  ELSE SetBoth(SetBoth(h, p, FALSE, FALSE), p, h.reset[p], h.down[p])

Grab(h, p, c) ==
  Poke(Settle([h EXCEPT !.sel[c] = p]), IF PLL2IsCurrent(h, c) THEN 1 ELSE 0)

(* RV620DCCGCLKSet, RV620DCCGCLKAvailable.                                 *)
DccgSet(h, src) == Settle([h EXCEPT !.dccg = src])
DccgAvailable(h, p) == h.dccg \in {p, External}
DccgLeft(h, p) == h      \* mutant: the clock stays on the PLL to be set
DccgReset(h, p) == IF h.dccg = p THEN DccgSet(h, External) ELSE h
DccgRelease(h, p) ==
  LET other == 1 - p
  IN  IF h.dccg # p THEN h
      ELSE IF Running(h, other) /\ h.locked[other] THEN DccgSet(h, other)
      ELSE DccgSet(h, External)
-----------------------------------------------------------------------------
(* PLL->Set: R500PLLnSet, RV620PLLnSet.                                    *)
R500Set(h, p, clk, locks) == Grab(SetLow(h, p, clk, locks), p, p)

RV620Set(h, p, clk, locks) ==
  IF DccgAvailable(h, p)
    THEN DccgSet(Grab(SetLow(DccgReset(h, p), p, clk, locks), p, p), p)
  ELSE Grab(SetLow(h, p, clk, locks), p, p)

Set(h, p, clk, locks) ==
  IF Family = "R500" THEN R500Set(h, p, clk, locks)
  ELSE RV620Set(h, p, clk, locks)

(* PLL->Power with RHD_POWER_SHUTDOWN.                                     *)
R500Shutdown(h, p) == SetDown(SetReset(h, p, TRUE), p, TRUE)

RV620ShutdownUnreset(h, p) ==      \* mutant: reset only what is powered down
  IF p \in KeepRunning THEN DccgRelease(h, p)
  ELSE SetDown(SetReset(DccgRelease(h, p), p, TRUE), p, TRUE)

RV620Shutdown(h, p) ==
  LET stopped == SetReset(DccgRelease(h, p), p, TRUE)
  IN  IF p \in KeepRunning THEN stopped ELSE SetDown(stopped, p, TRUE)

Shutdown(h, p) == IF Family = "R500" THEN R500Shutdown(h, p) ELSE RV620Shutdown(h, p)

(* PLL->Save.  For PLL 2 the owner flags lose bit 16 in a Bool, too.       *)
Owner(h, p, c) ==
  IF p = 0 THEN h.sel[c] = 0 ELSE (h.sel[c] * 65536) % 256 # 0

Save(h, p) ==
  [active |-> Running(h, p), clk |-> h.clk[p],
   owner |-> {c \in PLLs : Owner(h, p, c)},
   dccgOwner |-> DccgAvailable(h, p), dccg |-> h.dccg]

(* PLL->Restore.                                                           *)
GrabAll(h, p, cs) ==
  LET first == IF 0 \in cs THEN Grab(h, p, 0) ELSE h
  IN  IF 1 \in cs THEN Grab(first, p, 1) ELSE first

Back(h, p, s, locks) ==
  IF s.active THEN SetLow(h, p, s.clk, locks)
  ELSE [Shutdown(h, p) EXCEPT !.clk[p] = s.clk]

R500Restore(h, p, s, locks) == GrabAll(Back(h, p, s, locks), p, s.owner)

(* The DCCG clock goes external first and back in the end; PLL 1, set up   *)
(* again, takes it before the grabs already.                               *)
RV620Restore(h, p, s, locks) ==
  LET free  == IF DccgAvailable(h, p) THEN DccgSet(h, External) ELSE h
      back  == Back(free, p, s, locks)
      early == IF p = 0 /\ s.active /\ s.dccgOwner THEN DccgSet(back, s.dccg) ELSE back
      done  == GrabAll(early, p, s.owner)
  IN  IF s.dccgOwner THEN DccgSet(done, s.dccg) ELSE done

Restore(h, p, s, locks) ==
  IF Family = "R500" THEN R500Restore(h, p, s, locks)
  ELSE RV620Restore(h, p, s, locks)
-----------------------------------------------------------------------------
NoStore == [active |-> FALSE]

Init ==
  /\ hw \in FromBios
  /\ active = [p \in PLLs |-> FALSE]
  /\ current = [p \in PLLs |-> NoClock]
  /\ store = [p \in PLLs |-> NoStore]
  /\ phase = "boot"

(* rhdSetMode: RHDPLLSet for each CRTC in turn, which leaves a PLL alone   *)
(* when PLLCalculate fails, then RHDPLLsShutdownInactive.                  *)
SetsAll(clocks) == Active      \* mutant: PLLCalculate's result is not looked at
Sets(clocks) == {p \in Active : clocks[p] \in Computable}

SetMode(clocks, locks) ==
  LET sets == Sets(clocks)
      act  == [p \in PLLs |-> active[p] \/ p \in sets]
      h0   == IF 0 \in sets THEN Set(hw, 0, clocks[0], locks[0]) ELSE hw
      h1   == IF 1 \in sets THEN Set(h0, 1, clocks[1], locks[1]) ELSE h0
      h2   == IF act[0] THEN h1 ELSE Shutdown(h1, 0)
  IN  /\ phase \in {"boot", "up"}
      /\ hw' = IF act[1] THEN h2 ELSE Shutdown(h2, 1)
      /\ active' = act
      /\ current' = [p \in PLLs |-> IF p \in sets THEN clocks[p] ELSE current[p]]
      /\ phase' = "up"
      /\ UNCHANGED store

(* RHDPLLsSave, at kHardwareSleep.                                         *)
PLLsSave ==
  /\ phase \in {"up", "asleep", "waking"}
  /\ store' = [p \in PLLs |-> Save(hw, p)]
  /\ phase' = "asleep"
  /\ UNCHANGED <<hw, active, current>>

PowerLoss ==
  /\ phase = "asleep"
  /\ \E h \in FromBios : hw' = [h EXCEPT !.dccgStopped = hw.dccgStopped]
  /\ phase' = "lost"
  /\ UNCHANGED <<active, current, store>>

(* RHDPLLsRestore, at kHardwareWake; the second nub restores once more.    *)
(* Modes are taken to be set only when no nub sleeps (see Nubs).           *)
PLLsRestore(locks) ==
  /\ phase \in {"asleep", "lost", "waking"}
  /\ hw' = Restore(Restore(hw, 0, store[0], locks[0]), 1, store[1], locks[1])
  /\ phase' \in {"up", "waking"}
  /\ UNCHANGED <<active, current, store>>

Next ==
  \/ \E locks \in [PLLs -> BOOLEAN] :
       \/ \E clocks \in [PLLs -> Clocks] : SetMode(clocks, locks)
       \/ PLLsRestore(locks)
  \/ PLLsSave
  \/ PowerLoss

Spec == Init /\ [][Next]_vars
-----------------------------------------------------------------------------
TypeOK ==
  /\ hw \in Regs
  /\ active \in [PLLs -> BOOLEAN]
  /\ current \in [PLLs -> Computable \cup {NoClock}]
  /\ phase \in {"boot", "up", "asleep", "lost", "waking"}

(* RV620: the DCCG clock never hooks off a PLL that is in reset or powered *)
(* down, not even between two register writes of one function: "no longer  *)
(* hardlock" (rhd_pll.c:1046).                                             *)
DccgRuns == ~hw.dccgStopped

(* A PLL the driver has set runs at the clock it was last set to, and one  *)
(* it has not set is held in reset: after mode sets that fail on one CRTC, *)
(* pokes for an owner change, saves and restores.                          *)
PllAsSet ==
  phase \in {"up", "asleep", "waking"} => \A p \in PLLs :
    IF active[p] THEN Running(hw, p) /\ hw.clk[p] = current[p]
    ELSE hw.reset[p]
=============================================================================
