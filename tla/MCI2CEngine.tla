---------------------------- MODULE MCI2CEngine ----------------------------
(* I2CEngine on an EDID block of different bytes, which takes three chunks *)
(* of four.                                                                *)
EXTENDS I2CEngine

MCBlock == [i \in 1..10 |-> 10 + i]
=============================================================================
