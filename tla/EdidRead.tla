------------------------------ MODULE EdidRead ------------------------------
(***************************************************************************)
(* What reading an EDID block promises, whatever engine does it            *)
(* (xf86DoEDID_DDC2 in src/rhd/xf86/xf86DDC.c and its callers): each       *)
(* request is answered, by the monitor's block or by none.  Attempts,      *)
(* chunks and engines are not seen here.                                   *)
(***************************************************************************)
CONSTANTS Block, NoBlock

VARIABLES reader,    \* "idle", "reading", "done"
          result,    \* the block handed out
          broken     \* the engine took the end of an old transaction for a
                     \* new one's: then nothing is promised but an answer

vars == <<reader, result, broken>>

Init == reader = "idle" /\ result = NoBlock /\ broken = FALSE

Request ==
  /\ reader = "idle" /\ reader' = "reading"
  /\ UNCHANGED result

Work == reader = "reading" /\ UNCHANGED <<reader, result>>

Answer ==
  /\ reader = "reading" /\ reader' = "done"
  /\ result' \in {Block, NoBlock} \/ broken'

Return ==
  /\ reader = "done" /\ reader' = "idle"
  /\ result' = NoBlock

Next ==
  /\ Request \/ Work \/ Answer \/ Return
  /\ broken' \in BOOLEAN

SafeSpec == Init /\ [][Next]_vars
Answers == reader = "reading" ~> reader = "done"
Spec == SafeSpec /\ Answers
=============================================================================
