------------------------------- MODULE MCPLL -------------------------------
(* PLL on two cards: of the RV620 family, where PLL 2 may not be powered   *)
(* down, and of the R500 family.                                           *)
EXTENDS PLL

VARIABLE card

R500 == INSTANCE PLL WITH Family <- "R500", KeepRunning <- {}

MCInit == (card = "RV620" /\ Init) \/ (card = "R500" /\ R500!Init)
MCNext ==
  /\ (card = "RV620" /\ Next) \/ (card = "R500" /\ R500!Next)
  /\ UNCHANGED card

MCSpec == MCInit /\ [][MCNext]_<<vars, card>>
=============================================================================
