----------------------------- MODULE MCMonitor -----------------------------
(* Monitors whose blocks make the cases: no timing at all, the preferred   *)
(* one behind an unusable one, the biggest at either end of the list, a    *)
(* size known twice.  One panel meets every block; then three outputs for  *)
(* two CRTCs, a panel that crosses the CRTCs, and outputs that need the    *)
(* EDIDs of the user, twice for the same one.                              *)
EXTENDS Monitor

S == <<2, 2>>
M == <<3, 2>>
L == <<4, 3>>
MCSynth == <<<<2, 1>>, S, <<3, 4>>, S, M, L>>

DT(size, good) == [type |-> "DT", size |-> size, good |-> good]
Std(sizes) == [type |-> "STD", sizes |-> sizes]
Other == [type |-> "OTHER"]
Sections == {DT(M, TRUE), DT(L, TRUE), DT(S, FALSE), Std(<<S, L>>), Std(<<>>), Other}
EdidsOf(est, std, det) ==
  [established : est, standard : std, preferred : BOOLEAN, detailed : det]
Many == EdidsOf({<<>>, <<S>>, <<S, L>>}, {<<>>, <<M>>}, [1..2 -> Sections])
Few == EdidsOf({<<S>>}, {<<>>}, {<<DT(S, FALSE), DT(M, TRUE), DT(L, TRUE)>>})
         \cup EdidsOf({<<>>}, {<<>>}, {<<Other>>})

Out(kind, internal) == [kind |-> kind, internal |-> internal]
User(match, edid, fixed) == [match |-> match, edid |-> edid, fixed |-> fixed]
Big == [established |-> <<S, L>>, standard |-> <<M>>, preferred |-> FALSE, detailed |-> <<>>]

MCLayouts ==
  {[outs |-> <<Out("PANEL", TRUE)>>, opts |-> <<>>, edids |-> Many, modes |-> {M}],
   [outs |-> <<Out("DDC", FALSE), Out("TV", FALSE), Out("PANEL", TRUE)>>, opts |-> <<>>,
    edids |-> Few, modes |-> {M}],
   [outs |-> <<Out("DDC", FALSE), Out("PANEL", TRUE)>>, opts |-> <<User({2}, Big, FALSE)>>,
    edids |-> Few \cup {Big}, modes |-> {L}],
   [outs |-> <<Out("none", FALSE), Out("TV", FALSE)>>,
    opts |-> <<User({1}, Big, TRUE), User({1, 2}, Big, FALSE)>>,
    edids |-> {Big}, modes |-> {S}]}
=============================================================================
