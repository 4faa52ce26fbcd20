----------------------------- MODULE MCOutputs -----------------------------
(* Cards whose connectors make the cases: a laptop whose panel comes last, *)
(* two DVI-I with a UNIPHY and a DAC each, three digital connectors for    *)
(* two encoders in the order that crosses the links, and a TV on the DAC   *)
(* of another connector.                                                   *)
EXTENDS Outputs

C(type, outs, hpd) == [type |-> type, outs |-> outs, hpd |-> hpd]
D(dev, out, type) == [dev |-> dev, out |-> out, type |-> type]
Dvi == <<D("DFP1", "UNIPHYA", "DVI"), D("DFP2", "UNIPHYB", "DVI"),
         D("CRT1", "DACA", "DVI"), D("CRT2", "DACB", "DVI")>>

MCCards ==
  {[conns |-> <<C("VGA", <<"DACA">>, FALSE), C("DVI", <<"UNIPHYB">>, TRUE),
                C("PANEL", <<"LVTMA">>, FALSE)>>,
    devs |-> <<D("CRT1", "DACA", "VGA"), D("DFP2", "UNIPHYB", "DVI"),
               D("LCD1", "LVTMA", "PANEL")>>, dms59 |-> FALSE, known |-> FALSE],
   [conns |-> <<C("DVI", <<"UNIPHYA", "DACA">>, TRUE), C("DVI", <<"UNIPHYB", "DACB">>, TRUE)>>,
    devs |-> Dvi, dms59 |-> TRUE, known |-> TRUE],
   [conns |-> <<C("DVI", <<"UNIPHYB">>, TRUE), C("PANEL", <<"LVTMA">>, FALSE),
                C("DVI", <<"UNIPHYA">>, TRUE)>>,
    devs |-> <<D("DFP2", "UNIPHYB", "DVI"), D("LCD1", "LVTMA", "PANEL"),
               D("DFP1", "UNIPHYA", "DVI")>>, dms59 |-> FALSE, known |-> FALSE],
   [conns |-> <<C("VGA", <<"DACB">>, FALSE), C("TV", <<"DACB">>, FALSE),
                C("DVI", <<"UNIPHYA", "DACB">>, TRUE)>>,
    devs |-> <<D("CRT2", "DACB", "VGA"), D("CRT2", "DACB", "DVI"), D("TV1", "DACB", "TV"),
               D("DFP1", "UNIPHYA", "DVI")>>, dms59 |-> FALSE, known |-> TRUE]}
=============================================================================
