------------------------------- MODULE MCNubs -------------------------------
(* Nubs on three cards with two modes.  The first has both nubs, CRTC 1    *)
(* scales to a panel's native mode, VGA is posted on wake, CRTCs and MC    *)
(* may time out.  The others post no VGA, so that the MC follows, and only *)
(* their CRTCs time out; they have both nubs at one depth, or one nub with *)
(* two depths and a CRTC that has no mode.                                 *)
EXTENDS Nubs

CONSTANTS m1, m2

MCModes == {m1, m2}

Panel == [depths |-> {32}, active |-> {0, 1}, withModes |-> {0, 1}, nubs |-> {0, 1},
          scaled |-> [c \in Crtcs |-> IF c = 0 THEN m2 ELSE NoMode],
          postVga |-> TRUE, faults |-> {"crtc", "mc"}]
Pair == [Panel EXCEPT !.scaled = [c \in Crtcs |-> NoMode], !.postVga = FALSE,
                      !.faults = {"crtc"}]
Lone == [Pair EXCEPT !.depths = {16, 32}, !.withModes = {0}, !.nubs = {0}]

MCCards == {Panel, Pair, Lone}
=============================================================================
