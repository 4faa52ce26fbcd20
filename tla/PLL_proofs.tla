----------------------------- MODULE PLL_proofs -----------------------------
(***************************************************************************)
(* What PLL's run checks, for both families, every set of active CRTCs, of *)
(* clocks, of clocks with dividers and of PLLs that may not be powered     *)
(* down.                                                                   *)
(***************************************************************************)
EXTENDS PLL, TLAPS

(* The DCCG clock hooks off no PLL, or off one that runs, and was never    *)
(* left on one that stopped.                                               *)
OnRunning(h) == h.dccg \in PLLs => Running(h, h.dccg)
Hooked(h) == ~h.dccgStopped /\ OnRunning(h)

(* A register write changes PLL p alone.                                   *)
Touches(h, g, p) ==
  /\ g \in Regs /\ g.dccg = h.dccg
  /\ \A q \in PLLs \ {p} :
       g.reset[q] = h.reset[q] /\ g.down[q] = h.down[q] /\ g.clk[q] = h.clk[q]

LEMMA TouchesOnce ==
  ASSUME NEW g, NEW h, NEW i, NEW p, Touches(g, h, p), Touches(h, i, p)
  PROVE  Touches(g, i, p)
  BY DEF Touches

LEMMA RegsIs ==
  ASSUME NEW h \in Regs
  PROVE  /\ h.reset \in [PLLs -> BOOLEAN] /\ h.down \in [PLLs -> BOOLEAN]
         /\ h.locked \in [PLLs -> BOOLEAN] /\ h.clk \in [PLLs -> Clocks \cup {NoClock}]
         /\ h.sel \in [PLLs -> PLLs] /\ h.own \in [PLLs -> PLLs]
         /\ h.dccg \in PLLs \cup {External} /\ h.dccgStopped \in BOOLEAN
  BY DEF Regs

(* What the hardware makes of a write leaves the registers as written; it  *)
(* remembers a DCCG clock on a stopped PLL.                                *)
LEMMA SettleIs ==
  ASSUME NEW h \in Regs
  PROVE  /\ Settle(h) \in Regs
         /\ Settle(h).reset = h.reset /\ Settle(h).down = h.down
         /\ Settle(h).locked = h.locked /\ Settle(h).clk = h.clk
         /\ Settle(h).sel = h.sel /\ Settle(h).dccg = h.dccg
         /\ ~h.dccgStopped /\ OnRunning(h) => Hooked(Settle(h))
         /\ ~Settle(h).dccgStopped => OnRunning(h)
<1> DEFINE own == [c \in PLLs |-> IF Running(h, h.own[c]) THEN h.sel[c] ELSE h.own[c]]
           stopped == h.dccgStopped \/ (h.dccg \in PLLs /\ ~Running(h, h.dccg))
<1>1. own \in [PLLs -> PLLs]
  BY RegsIs
<1>2. stopped \in BOOLEAN
  BY Zenon
<1>3. Settle(h) = [[h EXCEPT !.own = own] EXCEPT !.dccgStopped = stopped]
  BY Zenon DEF Settle
<1>4. ~h.dccgStopped /\ OnRunning(h) => ~stopped
  BY DEF OnRunning
<1>6. ~stopped => OnRunning(h)
  BY DEF OnRunning
<1> HIDE DEF own, stopped
<1>5. /\ Settle(h) \in Regs /\ Settle(h).dccgStopped = stopped
      /\ Settle(h).reset = h.reset /\ Settle(h).down = h.down
      /\ Settle(h).locked = h.locked /\ Settle(h).clk = h.clk
      /\ Settle(h).sel = h.sel /\ Settle(h).dccg = h.dccg
  BY <1>1, <1>2, <1>3 DEF Regs
<1> QED
  BY <1>4, <1>5, <1>6 DEF Hooked, OnRunning, Running

(* The writes of PnPLL_CNTL, and of the dividers.                          *)
LEMMA SetResetIs ==
  ASSUME NEW h \in Regs, NEW p \in PLLs, NEW on \in BOOLEAN
  PROVE  LET g == SetReset(h, p, on)
         IN  /\ Touches(h, g, p)
             /\ g.reset[p] = on /\ g.down[p] = h.down[p] /\ g.clk[p] = h.clk[p]
             /\ Hooked(h) /\ h.dccg # p => Hooked(g)
<1> DEFINE lock == h.locked[p] /\ ~on
           f == [[h EXCEPT !.reset[p] = on] EXCEPT !.locked[p] = lock]
<1>1. lock \in BOOLEAN
  BY Zenon
<1>2. SetReset(h, p, on) = Settle(f)
  <2>1. [h EXCEPT !.reset[p] = on, !.locked[p] = @ /\ ~on] = f
    BY Zenon, RegsIs
  <2> QED
    BY <2>1, Zenon DEF SetReset
<1> HIDE DEF lock
<1>3. /\ f \in Regs /\ f.dccg = h.dccg /\ f.dccgStopped = h.dccgStopped
      /\ f.reset = [h.reset EXCEPT ![p] = on] /\ f.down = h.down /\ f.clk = h.clk
  BY <1>1 DEF Regs
<1> HIDE DEF f
<1>4. Hooked(h) /\ h.dccg # p => OnRunning(f) /\ ~f.dccgStopped
  BY <1>3 DEF Hooked, OnRunning, Running, Regs
<1> QED
  BY <1>2, <1>3, <1>4, SettleIs DEF Touches, Regs

LEMMA SetDownIs ==
  ASSUME NEW h \in Regs, NEW p \in PLLs, NEW on \in BOOLEAN
  PROVE  LET g == SetDown(h, p, on)
         IN  /\ Touches(h, g, p)
             /\ g.down[p] = on /\ g.reset[p] = h.reset[p] /\ g.clk[p] = h.clk[p]
             /\ Hooked(h) /\ h.dccg # p => Hooked(g)
<1> DEFINE lock == h.locked[p] /\ ~on
           f == [[h EXCEPT !.down[p] = on] EXCEPT !.locked[p] = lock]
<1>1. lock \in BOOLEAN
  BY Zenon
<1>2. SetDown(h, p, on) = Settle(f)
  <2>1. [h EXCEPT !.down[p] = on, !.locked[p] = @ /\ ~on] = f
    BY Zenon, RegsIs
  <2> QED
    BY <2>1, Zenon DEF SetDown
<1> HIDE DEF lock
<1>3. /\ f \in Regs /\ f.dccg = h.dccg /\ f.dccgStopped = h.dccgStopped
      /\ f.down = [h.down EXCEPT ![p] = on] /\ f.reset = h.reset /\ f.clk = h.clk
  BY <1>1 DEF Regs
<1> HIDE DEF f
<1>4. Hooked(h) /\ h.dccg # p => OnRunning(f) /\ ~f.dccgStopped
  BY <1>3 DEF Hooked, OnRunning, Running, Regs
<1> QED
  BY <1>2, <1>3, <1>4, SettleIs DEF Touches, Regs

LEMMA SetBothIs ==
  ASSUME NEW h \in Regs, NEW p \in PLLs, NEW reset \in BOOLEAN, NEW down \in BOOLEAN
  PROVE  LET g == SetBoth(h, p, reset, down)
         IN  /\ Touches(h, g, p)
             /\ g.reset[p] = reset /\ g.down[p] = down /\ g.clk[p] = h.clk[p]
             /\ Hooked(h) /\ h.dccg # p => Hooked(g)
<1> DEFINE f == [[h EXCEPT !.reset[p] = reset] EXCEPT !.down[p] = down]
<1>1. SetBoth(h, p, reset, down) = Settle(f)
  BY Zenon DEF SetBoth
<1>2. /\ f \in Regs /\ f.dccg = h.dccg /\ f.dccgStopped = h.dccgStopped
      /\ f.down = [h.down EXCEPT ![p] = down] /\ f.reset = [h.reset EXCEPT ![p] = reset]
      /\ f.clk = h.clk
  BY DEF Regs
<1> HIDE DEF f
<1>3. Hooked(h) /\ h.dccg # p => OnRunning(f) /\ ~f.dccgStopped
  BY <1>2 DEF Hooked, OnRunning, Running, Regs
<1> QED
  BY <1>1, <1>2, <1>3, SettleIs DEF Touches, Regs

LEMMA ClkIs ==
  ASSUME NEW h \in Regs, NEW p \in PLLs, NEW clk \in Clocks \cup {NoClock}
  PROVE  LET g == [h EXCEPT !.clk[p] = clk]
         IN  /\ Touches(h, g, p)
             /\ g.reset[p] = h.reset[p] /\ g.down[p] = h.down[p] /\ g.clk[p] = clk
             /\ Hooked(h) => Hooked(g)
  BY DEF Regs, Touches, Hooked, OnRunning, Running

LEMMA LockedIs ==
  ASSUME NEW h \in Regs, NEW p \in PLLs, NEW locks \in BOOLEAN
  PROVE  LET g == [h EXCEPT !.locked[p] = locks]
         IN  /\ Touches(h, g, p)
             /\ g.reset[p] = h.reset[p] /\ g.down[p] = h.down[p] /\ g.clk[p] = h.clk[p]
             /\ Hooked(h) => Hooked(g)
  BY DEF Regs, Touches, Hooked, OnRunning, Running

(* SetLow leaves the PLL running at its new clock, whatever it did before  *)
(* and whether or not it locks.                                            *)
LEMMA CalibrateIs ==
  ASSUME NEW h \in Regs, NEW p \in PLLs, NEW locks \in BOOLEAN
  PROVE  LET g == Calibrate(h, p, locks)
         IN  /\ Touches(h, g, p)
             /\ ~g.reset[p] /\ g.down[p] = h.down[p] /\ g.clk[p] = h.clk[p]
             /\ Hooked(h) /\ h.dccg # p => Hooked(g)
<1> DEFINE a == SetReset(h, p, TRUE)
           b == SetReset(a, p, FALSE)
           g == [b EXCEPT !.locked[p] = locks]
<1>1. /\ Touches(h, a, p) /\ a.down[p] = h.down[p] /\ a.clk[p] = h.clk[p]
      /\ Hooked(h) /\ h.dccg # p => Hooked(a)
  BY SetResetIs
<1>2. a \in Regs /\ a.dccg = h.dccg
  BY <1>1 DEF Touches
<1>3. /\ Touches(a, b, p) /\ b.down[p] = a.down[p] /\ b.clk[p] = a.clk[p]
      /\ b.reset[p] = FALSE /\ (Hooked(a) /\ a.dccg # p => Hooked(b))
  BY <1>2, SetResetIs
<1>4. b \in Regs
  BY <1>3 DEF Touches
<1>5. /\ Touches(b, g, p) /\ g.reset[p] = b.reset[p] /\ g.down[p] = b.down[p]
      /\ g.clk[p] = b.clk[p] /\ (Hooked(b) => Hooked(g))
  BY <1>4, LockedIs
<1>6. Calibrate(h, p, locks) = g
  BY DEF Calibrate
<1> HIDE DEF a, b, g
<1>7. Touches(h, g, p)
  BY <1>1, <1>3, <1>5, TouchesOnce
<1> QED
  BY <1>1, <1>2, <1>3, <1>5, <1>6, <1>7

(* What it does to the PLL it sets up.                                     *)
SetUp(h, g, p, clk) ==
  /\ Touches(h, g, p)
  /\ Running(g, p) /\ g.clk[p] = clk
  /\ Hooked(h) /\ h.dccg # p => Hooked(g)

LEMMA PowerUp ==
  ASSUME NEW h \in Regs, NEW p \in PLLs, NEW clk \in Clocks \cup {NoClock},
         NEW locks \in BOOLEAN
  PROVE  SetUp(h, Calibrate(SetDown([h EXCEPT !.clk[p] = clk], p, FALSE), p, locks), p, clk)
<1> DEFINE a == [h EXCEPT !.clk[p] = clk]
           b == SetDown(a, p, FALSE)
           c == Calibrate(b, p, locks)
<1>1. Touches(h, a, p) /\ a.clk[p] = clk /\ (Hooked(h) => Hooked(a))
  BY ClkIs
<1>2. a \in Regs /\ a.dccg = h.dccg
  BY <1>1 DEF Touches
<1> HIDE DEF a
<1>3. /\ Touches(a, b, p) /\ b.down[p] = FALSE /\ b.clk[p] = a.clk[p]
      /\ Hooked(a) /\ a.dccg # p => Hooked(b)
  BY <1>2, SetDownIs
<1>4. b \in Regs /\ b.dccg = a.dccg
  BY <1>3 DEF Touches
<1> HIDE DEF b
<1>5. /\ Touches(b, c, p) /\ ~c.reset[p] /\ c.down[p] = b.down[p] /\ c.clk[p] = b.clk[p]
      /\ Hooked(b) /\ b.dccg # p => Hooked(c)
  BY <1>4, CalibrateIs
<1> HIDE DEF c
<1>6. Touches(h, c, p)
  BY <1>1, <1>3, <1>5, TouchesOnce
<1>7. SetUp(h, c, p, clk)
  BY <1>1, <1>2, <1>3, <1>4, <1>5, <1>6 DEF SetUp, Running
<1> QED
  BY <1>7 DEF a, b, c

LEMMA SetLowIs ==
  ASSUME NEW h \in Regs, NEW p \in PLLs, NEW clk \in Clocks \cup {NoClock},
         NEW locks \in BOOLEAN
  PROVE  SetUp(h, SetLow(h, p, clk, locks), p, clk)
<1>1. ASSUME NEW s, Touches(h, s, p), Hooked(h) /\ h.dccg # p => Hooked(s)
      PROVE  SetUp(h, Calibrate(SetDown([s EXCEPT !.clk[p] = clk], p, FALSE), p, locks), p, clk)
  <2> DEFINE g == Calibrate(SetDown([s EXCEPT !.clk[p] = clk], p, FALSE), p, locks)
  <2>1. s \in Regs /\ s.dccg = h.dccg
    BY <1>1 DEF Touches
  <2>2. SetUp(s, g, p, clk)
    BY <2>1, PowerUp
  <2> HIDE DEF g
  <2>3. Touches(h, g, p)
    BY <1>1, <2>2, TouchesOnce DEF SetUp
  <2>4. SetUp(h, g, p, clk)
    BY <1>1, <2>1, <2>2, <2>3 DEF SetUp
  <2> QED
    BY <2>4 DEF g
<1>2. CASE Family = "R500"
  <2> DEFINE a == SetDown(h, p, FALSE)
             b == SetBoth(a, p, TRUE, TRUE)
  <2>1. Touches(h, a, p) /\ (Hooked(h) /\ h.dccg # p => Hooked(a))
    BY SetDownIs
  <2>2. a \in Regs /\ a.dccg = h.dccg
    BY <2>1 DEF Touches
  <2>3. Touches(a, b, p) /\ (Hooked(a) /\ a.dccg # p => Hooked(b))
    BY <2>2, SetBothIs
  <2>4. SetLow(h, p, clk, locks) = Calibrate(SetDown([b EXCEPT !.clk[p] = clk], p, FALSE), p, locks)
    BY <1>2, Zenon DEF SetLow, R500SetLow
  <2> HIDE DEF a, b
  <2> QED
    BY <1>1, <2>1, <2>2, <2>3, <2>4, TouchesOnce
<1>3. CASE Family # "R500"
  <2> DEFINE a == SetReset(h, p, TRUE)
             b == SetDown(a, p, TRUE)
  <2>1. Touches(h, a, p) /\ (Hooked(h) /\ h.dccg # p => Hooked(a))
    BY SetResetIs
  <2>2. a \in Regs /\ a.dccg = h.dccg
    BY <2>1 DEF Touches
  <2>3. Touches(a, b, p) /\ (Hooked(a) /\ a.dccg # p => Hooked(b))
    BY <2>2, SetDownIs
  <2>4. SetLow(h, p, clk, locks) = Calibrate(SetDown([b EXCEPT !.clk[p] = clk], p, FALSE), p, locks)
    BY <1>3, Zenon DEF SetLow, RV620SetLow
  <2> HIDE DEF a, b
  <2> QED
    BY <1>1, <2>1, <2>2, <2>3, <2>4, TouchesOnce
<1> QED
  BY <1>2, <1>3

(* An owner change leaves both PLLs as they are: the poke of one that is   *)
(* off puts it back, and no DCCG clock is on that one.                     *)
Same(h, g) ==
  /\ g \in Regs /\ g.dccg = h.dccg
  /\ \A q \in PLLs : g.reset[q] = h.reset[q] /\ g.down[q] = h.down[q] /\ g.clk[q] = h.clk[q]
  /\ Hooked(h) => Hooked(g)

LEMMA SameTwice ==
  ASSUME NEW g, NEW h, NEW i, Same(g, h), Same(h, i) PROVE Same(g, i)
  BY DEF Same

LEMMA PokeIs ==
  ASSUME NEW h \in Regs, NEW p \in PLLs
  PROVE  Same(h, Poke(h, p))
<1>1. CASE Running(h, p)
  BY <1>1 DEF Poke, Same
<1>2. CASE ~Running(h, p)
  <2> DEFINE a == SetBoth(h, p, FALSE, FALSE)
             b == SetBoth(a, p, h.reset[p], h.down[p])
  <2>1. h.reset[p] \in BOOLEAN /\ h.down[p] \in BOOLEAN
    BY RegsIs
  <2>2. /\ Touches(h, a, p) /\ a.clk[p] = h.clk[p]
        /\ Hooked(h) /\ h.dccg # p => Hooked(a)
    BY SetBothIs
  <2>3. a \in Regs /\ a.dccg = h.dccg
    BY <2>2 DEF Touches
  <2> HIDE DEF a
  <2>4. /\ Touches(a, b, p) /\ b.reset[p] = h.reset[p] /\ b.down[p] = h.down[p]
        /\ b.clk[p] = a.clk[p]
        /\ Hooked(a) /\ a.dccg # p => Hooked(b)
    BY <2>1, <2>3, SetBothIs
  <2>5. Hooked(h) => h.dccg # p
    BY <1>2 DEF Hooked, OnRunning
  <2>6. Poke(h, p) = b
    BY <1>2, Zenon DEF Poke, a
  <2> HIDE DEF b
  <2> QED
    BY <2>2, <2>3, <2>4, <2>5, <2>6 DEF Same, Touches
<1> QED
  BY <1>1, <1>2

LEMMA GrabIs ==
  ASSUME NEW h \in Regs, NEW p \in PLLs, NEW c \in PLLs
  PROVE  Same(h, Grab(h, p, c))
<1> DEFINE f == [h EXCEPT !.sel[c] = p]
           q == IF PLL2IsCurrent(h, c) THEN 1 ELSE 0
<1>1. /\ f \in Regs /\ f.reset = h.reset /\ f.down = h.down /\ f.clk = h.clk
      /\ f.dccg = h.dccg /\ f.dccgStopped = h.dccgStopped
  BY DEF Regs
<1>2. Hooked(h) => ~f.dccgStopped /\ OnRunning(f)
  BY <1>1 DEF Hooked, OnRunning, Running
<1> HIDE DEF f
<1>3. Same(h, Settle(f))
  BY <1>1, <1>2, SettleIs DEF Same
<1>4. q \in PLLs
  BY DEF PLLs
<1>5. Grab(h, p, c) = Poke(Settle(f), q)
  BY Zenon DEF Grab, f
<1> HIDE DEF q
<1> QED
  <2>1. Settle(f) \in Regs
    BY <1>3 DEF Same
  <2>2. Same(Settle(f), Poke(Settle(f), q))
    BY <1>4, <2>1, PokeIs
  <2> QED
    BY <1>3, <1>5, <2>2, SameTwice

LEMMA GrabAllIs ==
  ASSUME NEW h \in Regs, NEW p \in PLLs, NEW cs
  PROVE  Same(h, GrabAll(h, p, cs))
<1> DEFINE a == IF 0 \in cs THEN Grab(h, p, 0) ELSE h
           b == IF 1 \in cs THEN Grab(a, p, 1) ELSE a
<1>1. 0 \in PLLs /\ 1 \in PLLs
  BY DEF PLLs
<1>2. Same(h, h)
  BY DEF Same
<1>3. Same(h, a)
  BY <1>1, <1>2, GrabIs
<1> HIDE DEF a
<1>4. Same(h, b)
  <2>1. a \in Regs
    BY <1>3 DEF Same
  <2>2. Same(a, Grab(a, p, 1))
    BY <1>1, <2>1, GrabIs
  <2> QED
    BY <1>3, <2>2, SameTwice
<1> QED
  BY <1>4 DEF GrabAll, a

(* The DCCG clock moved to a PLL that runs, or off all.                    *)
LEMMA DccgSetIs ==
  ASSUME NEW h \in Regs, NEW src \in PLLs \cup {External}
  PROVE  LET g == DccgSet(h, src)
         IN  /\ g \in Regs /\ g.dccg = src
             /\ g.reset = h.reset /\ g.down = h.down /\ g.clk = h.clk
             /\ Hooked(h) /\ (src \in PLLs => Running(h, src)) => Hooked(g)
<1> DEFINE f == [h EXCEPT !.dccg = src]
<1>1. /\ f \in Regs /\ f.dccg = src /\ f.reset = h.reset /\ f.down = h.down
      /\ f.clk = h.clk /\ f.dccgStopped = h.dccgStopped
  BY DEF Regs
<1>2. Hooked(h) /\ (src \in PLLs => Running(h, src)) => ~f.dccgStopped /\ OnRunning(f)
  BY <1>1 DEF Hooked, OnRunning, Running
<1> HIDE DEF f
<1> QED
  BY <1>1, <1>2, SettleIs DEF DccgSet, f
-----------------------------------------------------------------------------
(* The contracts of the PLL's functions.  R500 has no DCCG clock.          *)
Fine(h) == Hooked(h) /\ (Family = "R500" => h.dccg = External)

OthersKept(h, g, p) ==
  /\ g \in Regs
  /\ \A q \in PLLs \ {p} :
       g.reset[q] = h.reset[q] /\ g.down[q] = h.down[q] /\ g.clk[q] = h.clk[q]

LEMMA SetIs ==
  ASSUME NEW h \in Regs, NEW p \in PLLs, NEW clk \in Clocks, NEW locks \in BOOLEAN
  PROVE  LET g == Set(h, p, clk, locks)
         IN  /\ OthersKept(h, g, p) /\ Running(g, p) /\ g.clk[p] = clk
             /\ Fine(h) => Fine(g)
<1>1. CASE Family = "R500"
  <2> DEFINE a == SetLow(h, p, clk, locks)
             b == Grab(a, p, p)
  <2>1. SetUp(h, a, p, clk)
    BY SetLowIs
  <2>2. a \in Regs
    BY <2>1 DEF SetUp, Touches
  <2> HIDE DEF a
  <2>3. Same(a, b)
    BY <2>2, GrabIs
  <2>4. Set(h, p, clk, locks) = b
    BY <1>1, Zenon DEF Set, R500Set, a
  <2>5. Fine(h) => Hooked(b) /\ b.dccg = External
    BY <1>1, <2>1, <2>3 DEF SetUp, Touches, Same, Fine, PLLs, External
  <2> HIDE DEF b
  <2> QED
    BY <1>1, <2>1, <2>3, <2>4, <2>5 DEF SetUp, Touches, Same, OthersKept, Running, Fine
<1>2. CASE Family # "R500" /\ DccgAvailable(h, p)
  <2> DEFINE z == DccgReset(h, p)
             a == SetLow(z, p, clk, locks)
             b == Grab(a, p, p)
             c == DccgSet(b, p)
  <2>1. /\ z \in Regs /\ z.dccg = External /\ (Hooked(h) => Hooked(z))
        /\ z.reset = h.reset /\ z.down = h.down /\ z.clk = h.clk
    <3>1. External \notin PLLs
      BY DEF PLLs, External
    <3> QED
      BY <1>2, <3>1, DccgSetIs DEF DccgReset, DccgAvailable
  <2> HIDE DEF z
  <2>2. SetUp(z, a, p, clk)
    BY <2>1, SetLowIs
  <2>3. a \in Regs
    BY <2>2 DEF SetUp, Touches
  <2> HIDE DEF a
  <2>4. Same(a, b)
    BY <2>3, GrabIs
  <2> HIDE DEF b
  <2>5. b \in Regs /\ Running(b, p) /\ b.clk[p] = clk /\ (Hooked(h) => Hooked(b))
    BY <2>1, <2>2, <2>4 DEF SetUp, Touches, Same, Running, PLLs, External
  <2>6. /\ c \in Regs /\ c.reset = b.reset /\ c.down = b.down /\ c.clk = b.clk
        /\ Hooked(b) => Hooked(c)
    BY <2>5, DccgSetIs
  <2>7. Set(h, p, clk, locks) = c
    BY <1>2, Zenon DEF Set, RV620Set, a, b, z
  <2> HIDE DEF c
  <2>8. OthersKept(h, c, p)
    BY <2>1, <2>2, <2>4, <2>6 DEF SetUp, Touches, Same, OthersKept
  <2> QED
    BY <1>2, <2>5, <2>6, <2>7, <2>8 DEF Running, Fine
<1>3. CASE Family # "R500" /\ ~DccgAvailable(h, p)
  <2> DEFINE a == SetLow(h, p, clk, locks)
             b == Grab(a, p, p)
  <2>1. SetUp(h, a, p, clk)
    BY SetLowIs
  <2>2. a \in Regs
    BY <2>1 DEF SetUp, Touches
  <2> HIDE DEF a
  <2>3. Same(a, b)
    BY <2>2, GrabIs
  <2>4. Set(h, p, clk, locks) = b
    BY <1>3, Zenon DEF Set, RV620Set, a
  <2>5. h.dccg # p
    BY <1>3 DEF DccgAvailable
  <2>6. Fine(h) => Hooked(b)
    BY <2>1, <2>3, <2>5 DEF SetUp, Same, Fine
  <2> HIDE DEF b
  <2> QED
    BY <1>3, <2>1, <2>3, <2>4, <2>6 DEF SetUp, Touches, Same, OthersKept, Running, Fine
<1> QED
  BY <1>1, <1>2, <1>3

LEMMA DccgReleaseIs ==
  ASSUME NEW h \in Regs, NEW p \in PLLs
  PROVE  LET g == DccgRelease(h, p)
         IN  /\ g \in Regs /\ g.reset = h.reset /\ g.down = h.down /\ g.clk = h.clk
             /\ g.dccg # p /\ (Hooked(h) => Hooked(g))
<1>1. /\ 1 - p \in PLLs /\ 1 - p # p /\ External \notin PLLs
  BY DEF PLLs, External
<1>2. CASE h.dccg # p
  BY <1>2 DEF DccgRelease
<1>3. CASE h.dccg = p /\ Running(h, 1 - p) /\ h.locked[1 - p]
  <2>1. DccgRelease(h, p) = DccgSet(h, 1 - p)
    BY <1>3, Zenon DEF DccgRelease
  <2> QED
    BY <1>1, <1>3, <2>1, DccgSetIs
<1>4. CASE h.dccg = p /\ ~(Running(h, 1 - p) /\ h.locked[1 - p])
  <2>1. DccgRelease(h, p) = DccgSet(h, External)
    BY <1>4, Zenon DEF DccgRelease
  <2> QED
    BY <1>1, <2>1, DccgSetIs
<1> QED
  BY <1>2, <1>3, <1>4

(* A PLL that is shut down is in reset, and no clock is left on it.        *)
LEMMA ShutdownIs ==
  ASSUME NEW h \in Regs, NEW p \in PLLs
  PROVE  LET g == Shutdown(h, p)
         IN  OthersKept(h, g, p) /\ g.reset[p] = TRUE /\ (Fine(h) => Fine(g))
<1>1. External \notin PLLs
  BY DEF PLLs, External
<1>2. CASE Family = "R500"
  <2> DEFINE a == SetReset(h, p, TRUE)
             b == SetDown(a, p, TRUE)
  <2>1. /\ Touches(h, a, p) /\ a.reset[p] = TRUE
        /\ Hooked(h) /\ h.dccg # p => Hooked(a)
    BY SetResetIs
  <2>2. a \in Regs /\ a.dccg = h.dccg
    BY <2>1 DEF Touches
  <2> HIDE DEF a
  <2>3. /\ Touches(a, b, p) /\ b.reset[p] = a.reset[p]
        /\ Hooked(a) /\ a.dccg # p => Hooked(b)
    BY <2>2, SetDownIs
  <2>4. Shutdown(h, p) = b
    BY <1>2, Zenon DEF Shutdown, R500Shutdown, a
  <2> HIDE DEF b
  <2> QED
    BY <1>1, <1>2, <2>1, <2>2, <2>3, <2>4 DEF OthersKept, Touches, Fine
<1>3. CASE Family # "R500"
  <2> DEFINE z == DccgRelease(h, p)
             a == SetReset(z, p, TRUE)
             b == SetDown(a, p, TRUE)
  <2>1. /\ z \in Regs /\ z.reset = h.reset /\ z.down = h.down /\ z.clk = h.clk
        /\ z.dccg # p /\ (Hooked(h) => Hooked(z))
    BY DccgReleaseIs
  <2> HIDE DEF z
  <2>2. /\ Touches(z, a, p) /\ a.reset[p] = TRUE
        /\ Hooked(z) /\ z.dccg # p => Hooked(a)
    BY <2>1, SetResetIs
  <2>3. a \in Regs /\ a.dccg = z.dccg
    BY <2>2 DEF Touches
  <2> HIDE DEF a
  <2>4. /\ Touches(a, b, p) /\ b.reset[p] = a.reset[p]
        /\ Hooked(a) /\ a.dccg # p => Hooked(b)
    BY <2>3, SetDownIs
  <2>5. Shutdown(h, p) = IF p \in KeepRunning THEN a ELSE b
    BY <1>3, Zenon DEF Shutdown, RV620Shutdown, a, z
  <2> HIDE DEF b
  <2> QED
    BY <1>3, <2>1, <2>2, <2>3, <2>4, <2>5 DEF OthersKept, Touches, Fine
<1> QED
  BY <1>2, <1>3

(* What PLL->Save must have found for a restore to be right: the DCCG      *)
(* clock saved for a PLL is off all PLLs, or on that one, which ran.       *)
Storable(s, p) ==
  /\ s.active \in BOOLEAN /\ s.clk \in Clocks \cup {NoClock}
  /\ s.dccgOwner => s.dccg = External \/ (s.dccg = p /\ s.active)

LEMMA SaveIs ==
  ASSUME NEW h \in Regs, NEW p \in PLLs, Hooked(h)
  PROVE  LET s == Save(h, p)
         IN  /\ Storable(s, p) /\ s.clk = h.clk[p]
             /\ s.active <=> Running(h, p)
<1> DEFINE run == Running(h, p)
           avail == DccgAvailable(h, p)
           owns == {c \in PLLs : Owner(h, p, c)}
<1>1. avail <=> h.dccg \in {p, External}
  BY DEF DccgAvailable
<1>2. avail => h.dccg = External \/ (h.dccg = p /\ run)
  BY DEF DccgAvailable, Hooked, OnRunning
<1>3. h.clk[p] \in Clocks \cup {NoClock}
  BY RegsIs
<1>6. run \in BOOLEAN
  BY Zenon DEF Running
<1>4. Save(h, p) = [active |-> run, clk |-> h.clk[p], owner |-> owns,
                    dccgOwner |-> avail, dccg |-> h.dccg]
  BY Zenon DEF Save
<1> HIDE DEF run, avail, owns
<1>5. /\ Save(h, p).active = run /\ Save(h, p).clk = h.clk[p]
      /\ Save(h, p).dccgOwner = avail /\ Save(h, p).dccg = h.dccg
  BY <1>4
<1> QED
  BY <1>2, <1>3, <1>5, <1>6 DEF Storable, run

AsSaved(g, p, s) ==
  IF s.active THEN Running(g, p) /\ g.clk[p] = s.clk ELSE g.reset[p] = TRUE

(* PLL->Restore brings a PLL back as it was saved, running at its clock or *)
(* in reset.                                                               *)
LEMMA BackIs ==
  ASSUME NEW h \in Regs, NEW p \in PLLs, NEW s, Storable(s, p), NEW locks \in BOOLEAN,
         h.dccg # p
  PROVE  LET g == Back(h, p, s, locks)
         IN  /\ OthersKept(h, g, p) /\ (Fine(h) => Fine(g))
             /\ AsSaved(g, p, s)
<1>1. CASE s.active
  <2> DEFINE a == SetLow(h, p, s.clk, locks)
  <2>1. SetUp(h, a, p, s.clk)
    BY SetLowIs DEF Storable
  <2>2. Back(h, p, s, locks) = a
    BY <1>1, Zenon DEF Back
  <2> HIDE DEF a
  <2> QED
    BY <1>1, <2>1, <2>2 DEF SetUp, Touches, OthersKept, Fine, AsSaved
<1>2. CASE ~s.active
  <2> DEFINE a == Shutdown(h, p)
             b == [a EXCEPT !.clk[p] = s.clk]
  <2>1. OthersKept(h, a, p) /\ a.reset[p] = TRUE /\ (Fine(h) => Fine(a))
    BY ShutdownIs
  <2>2. a \in Regs
    BY <2>1 DEF OthersKept
  <2> HIDE DEF a
  <2>3. Touches(a, b, p) /\ b.reset[p] = a.reset[p] /\ (Hooked(a) => Hooked(b))
    BY <2>2, ClkIs DEF Storable
  <2>4. Back(h, p, s, locks) = b
    BY <1>2, Zenon DEF Back, a
  <2> HIDE DEF b
  <2> QED
    BY <1>2, <2>1, <2>3, <2>4 DEF Touches, OthersKept, Fine, AsSaved
<1> QED
  BY <1>1, <1>2

LEMMA RestoreIs ==
  ASSUME NEW h \in Regs, NEW p \in PLLs, NEW s, Storable(s, p), NEW locks \in BOOLEAN,
         Fine(h)
  PROVE  LET g == Restore(h, p, s, locks)
         IN  /\ OthersKept(h, g, p) /\ Fine(g)
             /\ AsSaved(g, p, s)
<1>1. External \notin PLLs /\ External \in PLLs \cup {External}
  BY DEF PLLs, External
<1>2. CASE Family = "R500"
  <2> DEFINE a == Back(h, p, s, locks)
             b == GrabAll(a, p, s.owner)
  <2>1. h.dccg # p
    BY <1>1, <1>2 DEF Fine
  <2>2. /\ OthersKept(h, a, p) /\ Fine(a)
        /\ AsSaved(a, p, s)
    BY <2>1, BackIs
  <2>3. a \in Regs
    BY <2>2 DEF OthersKept
  <2> HIDE DEF a
  <2>4. Same(a, b)
    BY <2>3, GrabAllIs
  <2>5. Restore(h, p, s, locks) = b
    BY <1>2, Zenon DEF Restore, R500Restore, a
  <2> HIDE DEF b
  <2> QED
    BY <2>2, <2>4, <2>5 DEF OthersKept, Same, Fine, Running, AsSaved
<1>3. CASE Family # "R500"
  <2> DEFINE z == IF DccgAvailable(h, p) THEN DccgSet(h, External) ELSE h
             a == Back(z, p, s, locks)
             e == IF p = 0 /\ s.active /\ s.dccgOwner THEN DccgSet(a, s.dccg) ELSE a
             b == GrabAll(e, p, s.owner)
             c == IF s.dccgOwner THEN DccgSet(b, s.dccg) ELSE b
  <2>1. /\ z \in Regs /\ z.reset = h.reset /\ z.down = h.down /\ z.clk = h.clk
        /\ z.dccg # p /\ Hooked(z)
    <3>1. CASE DccgAvailable(h, p)
      BY <1>1, <3>1, DccgSetIs DEF Fine
    <3>2. CASE ~DccgAvailable(h, p)
      BY <3>2 DEF DccgAvailable, Fine
    <3> QED
      BY <3>1, <3>2
  <2> HIDE DEF z
  <2>2. Fine(z)
    BY <1>3, <2>1 DEF Fine
  <2>3. /\ OthersKept(z, a, p) /\ Hooked(a)
        /\ AsSaved(a, p, s)
    BY <2>1, <2>2, BackIs DEF Fine
  <2>4. a \in Regs
    BY <2>3 DEF OthersKept
  <2> HIDE DEF a
  <2>5. s.dccgOwner => s.dccg \in PLLs \cup {External} /\ (s.dccg \in PLLs => s.dccg = p /\ s.active)
    BY <1>1 DEF Storable
  <2>6. /\ e \in Regs /\ e.reset = a.reset /\ e.down = a.down /\ e.clk = a.clk /\ Hooked(e)
    <3>1. CASE p = 0 /\ s.active /\ s.dccgOwner
      BY <2>3, <2>4, <2>5, <3>1, DccgSetIs DEF AsSaved
    <3>2. CASE ~(p = 0 /\ s.active /\ s.dccgOwner)
      BY <2>3, <2>4, <3>2
    <3> QED
      BY <3>1, <3>2
  <2> HIDE DEF e
  <2>7. Same(e, b)
    BY <2>6, GrabAllIs
  <2> HIDE DEF b
  <2>8. /\ b \in Regs /\ Hooked(b)
        /\ s.active => Running(b, p)
    BY <2>3, <2>6, <2>7 DEF Same, Running, AsSaved
  <2>9. /\ c \in Regs /\ c.reset = b.reset /\ c.down = b.down /\ c.clk = b.clk /\ Hooked(c)
    <3>1. CASE s.dccgOwner
      BY <2>5, <2>8, <3>1, DccgSetIs
    <3>2. CASE ~s.dccgOwner
      BY <2>8, <3>2
    <3> QED
      BY <3>1, <3>2
  <2>10. Restore(h, p, s, locks) = c
    BY <1>3, Zenon DEF Restore, RV620Restore, a, b, e, z
  <2> HIDE DEF c
  <2>11. OthersKept(h, c, p)
    BY <2>1, <2>3, <2>6, <2>7, <2>9 DEF OthersKept, Same
  <2>12. AsSaved(c, p, s)
    BY <2>3, <2>6, <2>7, <2>9 DEF Same, Running, AsSaved
  <2> QED
    BY <1>3, <2>9, <2>10, <2>11, <2>12 DEF Fine
<1> QED
  BY <1>2, <1>3
-----------------------------------------------------------------------------
(* The invariant: a saved PLL is what the driver set it to.                *)
Stored ==
  phase \in {"asleep", "lost", "waking"} => \A p \in PLLs :
    /\ Storable(store[p], p) /\ (store[p].active <=> active[p])
    /\ active[p] => store[p].clk = current[p]

NoneSet == phase = "boot" => \A p \in PLLs : ~active[p]

IInv == TypeOK /\ Fine(hw) /\ PllAsSet /\ Stored /\ NoneSet

(* What FromBios hands over.                                               *)
LEMMA HandedIs ==
  ASSUME NEW h \in FromBios
  PROVE  h \in Regs /\ Fine(h)
<1>1. PICK r \in [PLLs -> BOOLEAN], s \in [PLLs -> PLLs], d \in PLLs \cup {External} :
        h = BiosLeft(r, s, d)
  BY DEF FromBios, Handed
<1> DEFINE lock == [p \in PLLs |-> ~r[p]]
           f == [reset |-> r, down |-> r, locked |-> lock,
                 clk |-> [p \in PLLs |-> NoClock], sel |-> s, own |-> s,
                 dccg |-> d, dccgStopped |-> FALSE]
<1>2. lock \in [PLLs -> BOOLEAN]
  BY Zenon
<1> HIDE DEF lock
<1>3. f \in Regs /\ f.reset = r /\ f.down = r /\ f.dccg = d
  BY <1>2 DEF Regs
<1>4. h = Settle(f)
  BY <1>1, Zenon DEF lock, BiosLeft
<1> HIDE DEF f
<1>5. /\ h \in Regs /\ h.reset = r /\ h.down = r /\ h.dccg = d
  BY <1>3, <1>4, SettleIs
<1>6. ~h.dccgStopped /\ (Family = "R500" => h.dccg = External)
  BY DEF FromBios
<1>7. OnRunning(h)
  BY <1>3, <1>4, <1>5, <1>6, SettleIs DEF OnRunning, Running
<1> QED
  BY <1>5, <1>6, <1>7 DEF Fine, Hooked

(* One PLL as PllAsSet wants it; a function on the other leaves it so.     *)
AsSet(h, p, on, clk) == IF on THEN Running(h, p) /\ h.clk[p] = clk ELSE h.reset[p]

LEMMA AsSetKept ==
  ASSUME NEW h, NEW g, NEW p \in PLLs, NEW q \in PLLs, p # q, OthersKept(h, g, q),
         NEW on, NEW clk, AsSet(h, p, on, clk)
  PROVE  AsSet(g, p, on, clk)
  BY DEF AsSet, OthersKept, Running

LEMMA SetSets ==
  ASSUME NEW h \in Regs, Fine(h), NEW p \in PLLs, NEW clk \in Clocks, NEW locks \in BOOLEAN
  PROVE  LET g == Set(h, p, clk, locks)
         IN  g \in Regs /\ Fine(g) /\ OthersKept(h, g, p) /\ AsSet(g, p, TRUE, clk)
<1> DEFINE g == Set(h, p, clk, locks)
<1>1. OthersKept(h, g, p) /\ Running(g, p) /\ g.clk[p] = clk /\ Fine(g)
  BY SetIs
<1> HIDE DEF g
<1>2. g \in Regs /\ AsSet(g, p, TRUE, clk)
  BY <1>1 DEF OthersKept, AsSet
<1> QED
  BY <1>1, <1>2 DEF g

LEMMA ShutdownSets ==
  ASSUME NEW h \in Regs, Fine(h), NEW p \in PLLs, NEW clk
  PROVE  LET g == Shutdown(h, p)
         IN  g \in Regs /\ Fine(g) /\ OthersKept(h, g, p) /\ AsSet(g, p, FALSE, clk)
<1> DEFINE g == Shutdown(h, p)
<1>1. OthersKept(h, g, p) /\ g.reset[p] = TRUE /\ Fine(g)
  BY ShutdownIs
<1> HIDE DEF g
<1>2. g \in Regs /\ AsSet(g, p, FALSE, clk)
  BY <1>1 DEF OthersKept, AsSet
<1> QED
  BY <1>1, <1>2 DEF g

LEMMA SetModeInv ==
  ASSUME IInv, NEW locks \in [PLLs -> BOOLEAN], NEW clocks \in [PLLs -> Clocks],
         SetMode(clocks, locks)
  PROVE  IInv'
<1> DEFINE sets == Sets(clocks)
           act  == [p \in PLLs |-> active[p] \/ p \in sets]
           cur  == [p \in PLLs |-> IF p \in sets THEN clocks[p] ELSE current[p]]
           h0   == IF 0 \in sets THEN Set(hw, 0, clocks[0], locks[0]) ELSE hw
           h1   == IF 1 \in sets THEN Set(h0, 1, clocks[1], locks[1]) ELSE h0
           h2   == IF act[0] THEN h1 ELSE Shutdown(h1, 0)
           h3   == IF act[1] THEN h2 ELSE Shutdown(h2, 1)
<1>1. /\ phase \in {"boot", "up"} /\ hw' = h3 /\ active' = act /\ current' = cur
      /\ phase' = "up"
  BY Zenon DEF SetMode
<1>2. 0 \in PLLs /\ 1 \in PLLs /\ PLLs = {0, 1}
  BY DEF PLLs
<1>3. hw \in Regs /\ Fine(hw)
  BY DEF IInv, TypeOK
<1>4. \A p \in PLLs : clocks[p] \in Clocks /\ locks[p] \in BOOLEAN
  OBVIOUS
<1>5. \A p \in sets : clocks[p] \in Computable
  BY DEF Sets
<1>6. \A p \in PLLs : act[p] <=> active[p] \/ p \in sets
  OBVIOUS
<1>7. \A p \in PLLs : cur[p] = IF p \in sets THEN clocks[p] ELSE current[p]
  OBVIOUS
<1>8. act \in [PLLs -> BOOLEAN]
  BY Zenon
<1>9. cur \in [PLLs -> Computable \cup {NoClock}]
  BY <1>5 DEF IInv, TypeOK
<1>10. \A p \in PLLs : active[p] => AsSet(hw, p, TRUE, current[p])
  BY <1>1 DEF IInv, PllAsSet, NoneSet, AsSet
<1> HIDE DEF act, cur, sets
(* After the Sets, what is active runs as it was set.                      *)
<1>11. h0 \in Regs /\ Fine(h0) /\ OthersKept(hw, h0, 0)
       /\ (act[0] => AsSet(h0, 0, TRUE, cur[0]))
  <2>1. CASE 0 \in sets
    <3>1. h0 = Set(hw, 0, cur[0], locks[0]) /\ cur[0] \in Clocks
      BY <1>2, <1>4, <1>7, <2>1
    <3> HIDE DEF h0
    <3> QED
      BY <1>2, <1>3, <1>4, <3>1, SetSets
  <2>2. CASE 0 \notin sets
    <3>1. h0 = hw /\ OthersKept(hw, hw, 0)
      BY <1>3, <2>2 DEF OthersKept
    <3>2. act[0] => active[0] /\ cur[0] = current[0]
      BY <1>2, <1>6, <1>7, <2>2
    <3> HIDE DEF h0
    <3>3. active[0] => AsSet(hw, 0, TRUE, current[0])
      BY <1>2, <1>10
    <3> QED
      BY <1>3, <3>1, <3>2, <3>3
  <2> QED
    BY <2>1, <2>2
<1> HIDE DEF h0
<1>12. h1 \in Regs /\ Fine(h1) /\ OthersKept(h0, h1, 1)
       /\ (act[1] => AsSet(h1, 1, TRUE, cur[1]))
  <2>1. CASE 1 \in sets
    <3>1. h1 = Set(h0, 1, cur[1], locks[1]) /\ cur[1] \in Clocks
      BY <1>2, <1>4, <1>7, <2>1
    <3> HIDE DEF h1
    <3> QED
      BY <1>2, <1>4, <1>11, <3>1, SetSets
  <2>2. CASE 1 \notin sets
    <3>1. h1 = h0 /\ OthersKept(h0, h0, 1)
      BY <1>11, <2>2 DEF OthersKept
    <3>2. act[1] => active[1] /\ cur[1] = current[1]
      BY <1>2, <1>6, <1>7, <2>2
    <3> HIDE DEF h1
    <3>3. active[1] => AsSet(hw, 1, TRUE, current[1])
      BY <1>2, <1>10
    <3>4. active[1] => AsSet(h0, 1, TRUE, current[1])
      BY <1>2, <1>11, <3>3 DEF AsSet, OthersKept, Running
    <3> QED
      BY <1>11, <3>1, <3>2, <3>4
  <2> QED
    BY <2>1, <2>2
<1>13. act[0] => AsSet(h1, 0, TRUE, cur[0])
  BY ZenonT(60), <1>2, <1>11, <1>12, AsSetKept
<1> HIDE DEF h1
(* And after RHDPLLsShutdownInactive the others are in reset.              *)
<1>14. h2 \in Regs /\ Fine(h2) /\ OthersKept(h1, h2, 0) /\ AsSet(h2, 0, act[0], cur[0])
  <2>1. CASE act[0]
    <3>1. h2 = h1 /\ OthersKept(h1, h1, 0) /\ act[0] = TRUE
      BY <1>2, <1>8, <1>12, <2>1 DEF OthersKept
    <3> HIDE DEF h2
    <3> QED
      BY <1>12, <1>13, <3>1
  <2>2. CASE ~act[0]
    <3>1. h2 = Shutdown(h1, 0) /\ act[0] = FALSE
      BY <1>2, <1>8, <2>2
    <3> HIDE DEF h2
    <3> QED
      BY <1>2, <1>12, <3>1, ShutdownSets
  <2> QED
    BY <2>1, <2>2
<1>15. act[1] => AsSet(h2, 1, TRUE, cur[1])
  BY <1>2, <1>12, <1>14, AsSetKept
<1> HIDE DEF h2
<1>16. h3 \in Regs /\ Fine(h3) /\ OthersKept(h2, h3, 1) /\ AsSet(h3, 1, act[1], cur[1])
  <2>1. CASE act[1]
    <3>1. h3 = h2 /\ OthersKept(h2, h2, 1) /\ act[1] = TRUE
      BY <1>2, <1>8, <1>14, <2>1 DEF OthersKept
    <3> HIDE DEF h3
    <3> QED
      BY <1>14, <1>15, <3>1
  <2>2. CASE ~act[1]
    <3>1. h3 = Shutdown(h2, 1) /\ act[1] = FALSE
      BY <1>2, <1>8, <2>2
    <3> HIDE DEF h3
    <3> QED
      BY <1>2, <1>14, <3>1, ShutdownSets
  <2> QED
    BY <2>1, <2>2
<1>17. AsSet(h3, 0, act[0], cur[0])
  BY <1>2, <1>14, <1>16, AsSetKept
<1> HIDE DEF h3
<1>18. TypeOK'
  BY <1>1, <1>8, <1>9, <1>16, Zenon DEF TypeOK
<1>19. Fine(hw)'
  BY <1>1, <1>16 DEF Fine, Hooked, OnRunning, Running
<1>20. PllAsSet'
  BY <1>1, <1>2, <1>16, <1>17 DEF PllAsSet, AsSet, Running
<1>21. Stored' /\ NoneSet'
  BY <1>1 DEF Stored, NoneSet
<1> QED
  BY <1>18, <1>19, <1>20, <1>21 DEF IInv

LEMMA PLLsSaveInv == ASSUME IInv, PLLsSave PROVE IInv'
<1>1. /\ phase \in {"up", "asleep", "waking"} /\ phase' = "asleep"
      /\ store' = [p \in PLLs |-> Save(hw, p)] /\ UNCHANGED <<hw, active, current>>
  BY DEF PLLsSave
<1>2. hw \in Regs /\ Hooked(hw)
  BY DEF IInv, TypeOK, Fine
<1>3. ASSUME NEW p \in PLLs
      PROVE  /\ Storable(store'[p], p) /\ (store'[p].active <=> active[p])
             /\ active[p] => store'[p].clk = current[p]
  <2>1. /\ Storable(store'[p], p) /\ store'[p].clk = hw.clk[p]
        /\ store'[p].active <=> Running(hw, p)
    BY <1>1, <1>2, SaveIs
  <2>2. IF active[p] THEN Running(hw, p) /\ hw.clk[p] = current[p] ELSE hw.reset[p]
    BY <1>1 DEF IInv, PllAsSet
  <2>3. active[p] <=> Running(hw, p)
    BY <2>2 DEF Running
  <2> QED
    BY <2>1, <2>2, <2>3
<1>4. TypeOK'
  BY <1>1, Zenon DEF IInv, TypeOK
<1>5. Fine(hw)' /\ PllAsSet' /\ NoneSet'
  BY <1>1 DEF IInv, Fine, Hooked, OnRunning, PllAsSet, NoneSet, Running
<1>6. Stored'
  BY <1>1, <1>3 DEF Stored
<1> QED
  BY <1>4, <1>5, <1>6 DEF IInv

LEMMA PowerLossInv == ASSUME IInv, PowerLoss PROVE IInv'
<1>1. phase = "asleep" /\ phase' = "lost" /\ UNCHANGED <<active, current, store>>
  BY DEF PowerLoss
<1>2. PICK h \in FromBios : hw' = [h EXCEPT !.dccgStopped = hw.dccgStopped]
  BY DEF PowerLoss
<1>3. ~hw.dccgStopped /\ hw.dccgStopped \in BOOLEAN
  BY RegsIs DEF IInv, TypeOK, Fine, Hooked
<1>4. h \in Regs /\ Fine(h)
  BY HandedIs
<1>5. /\ hw' \in Regs /\ hw'.dccgStopped = hw.dccgStopped
      /\ hw'.reset = h.reset /\ hw'.down = h.down /\ hw'.dccg = h.dccg
  BY <1>2, <1>3, <1>4 DEF Regs
<1>6. Fine(hw')
  BY <1>3, <1>4, <1>5 DEF Fine, Hooked, OnRunning, Running
<1>7. TypeOK'
  BY <1>1, <1>5, Zenon DEF IInv, TypeOK
<1>8. PllAsSet' /\ Stored' /\ NoneSet'
  BY <1>1 DEF IInv, PllAsSet, Stored, NoneSet
<1> QED
  BY <1>6, <1>7, <1>8 DEF IInv, Fine, Hooked, OnRunning, Running

LEMMA PLLsRestoreInv ==
  ASSUME IInv, NEW locks \in [PLLs -> BOOLEAN], PLLsRestore(locks)
  PROVE  IInv'
<1> DEFINE h0 == Restore(hw, 0, store[0], locks[0])
           h1 == Restore(h0, 1, store[1], locks[1])
<1>1. /\ phase \in {"asleep", "lost", "waking"} /\ phase' \in {"up", "waking"}
      /\ hw' = h1 /\ UNCHANGED <<active, current, store>>
  BY Zenon DEF PLLsRestore
<1>2. 0 \in PLLs /\ 1 \in PLLs /\ PLLs = {0, 1}
  BY DEF PLLs
<1>3. hw \in Regs /\ Fine(hw)
  BY DEF IInv, TypeOK
<1>4. \A p \in PLLs : /\ Storable(store[p], p) /\ (store[p].active <=> active[p])
                      /\ active[p] => store[p].clk = current[p]
  BY <1>1 DEF IInv, Stored
<1>5. locks[0] \in BOOLEAN /\ locks[1] \in BOOLEAN
  BY <1>2
<1>6. OthersKept(hw, h0, 0) /\ Fine(h0) /\ AsSaved(h0, 0, store[0])
  BY <1>2, <1>3, <1>4, <1>5, RestoreIs
<1>7. h0 \in Regs
  BY <1>6 DEF OthersKept
<1> HIDE DEF h0
<1>8. OthersKept(h0, h1, 1) /\ Fine(h1) /\ AsSaved(h1, 1, store[1])
  BY <1>2, <1>4, <1>5, <1>6, <1>7, RestoreIs
<1> HIDE DEF h1
<1>9. AsSet(h0, 0, active[0], current[0]) /\ AsSet(h1, 1, active[1], current[1])
  BY <1>2, <1>4, <1>6, <1>8 DEF AsSaved, AsSet
<1>10. AsSet(h1, 0, active[0], current[0])
  BY <1>2, <1>8, <1>9, AsSetKept
<1>11. TypeOK'
  BY <1>1, <1>8, Zenon DEF IInv, TypeOK, OthersKept
<1>12. Fine(hw)'
  BY <1>1, <1>8 DEF Fine, Hooked, OnRunning, Running
<1>13. PllAsSet'
  BY <1>1, <1>2, <1>9, <1>10 DEF PllAsSet, AsSet, Running
<1>14. Stored' /\ NoneSet'
  BY <1>1, <1>4 DEF Stored, Storable, NoneSet
<1> QED
  BY <1>11, <1>12, <1>13, <1>14 DEF IInv

(* The invariant of every reachable state.                                 *)
THEOREM Invariant == Spec => []IInv
<1>1. Init => IInv
  <2> SUFFICES ASSUME Init PROVE IInv
    OBVIOUS
  <2>1. hw \in Regs /\ Fine(hw)
    BY HandedIs DEF Init
  <2>2. TypeOK /\ PllAsSet /\ Stored /\ NoneSet
    BY <2>1 DEF Init, TypeOK, PllAsSet, Stored, NoneSet
  <2> QED
    BY <2>1, <2>2 DEF IInv
<1>2. IInv /\ [Next]_vars => IInv'
  <2> SUFFICES ASSUME IInv, [Next]_vars PROVE IInv'
    OBVIOUS
  <2>1. CASE UNCHANGED vars
    <3>1. TypeOK'
      BY <2>1, Zenon DEF IInv, TypeOK, vars
    <3>2. Fine(hw)' /\ PllAsSet' /\ Stored' /\ NoneSet'
      BY <2>1 DEF IInv, vars, Fine, Hooked, OnRunning, PllAsSet, Stored, Storable,
                  NoneSet, Running
    <3> QED
      BY <3>1, <3>2 DEF IInv
  <2>2. CASE Next
    BY <2>2, SetModeInv, PLLsSaveInv, PowerLossInv, PLLsRestoreInv DEF Next
  <2> QED
    BY <2>1, <2>2
<1> QED
  BY <1>1, <1>2, PTL DEF Spec

(* The registers keep their types.                                         *)
THEOREM TypeCorrect == Spec => []TypeOK
<1>1. IInv => TypeOK
  BY DEF IInv
<1> QED
  BY <1>1, Invariant, PTL

(* The DCCG clock never hooks off a stopped PLL, not between two register  *)
(* writes either: "no longer hardlock" (rhd_pll.c:1046).                   *)
THEOREM NoHardlock == Spec => []DccgRuns
<1>1. IInv => DccgRuns
  BY DEF IInv, Fine, Hooked, DccgRuns
<1> QED
  BY <1>1, Invariant, PTL

(* A PLL the driver has set runs at the clock it was last set to, and one  *)
(* it has not set is in reset, through failed mode sets, owner changes,    *)
(* sleep and two nubs that restore.                                        *)
THEOREM RunsAsSet == Spec => []PllAsSet
<1>1. IInv => PllAsSet
  BY DEF IInv
<1> QED
  BY <1>1, Invariant, PTL
=============================================================================
