----------------------------- MODULE MCAtomExec -----------------------------
(* AtomExec on two families of BIOS images: tables that call each other,   *)
(* and one table with a command of each kind on parts of words.            *)
EXTENDS AtomExec

Ws(i) == [at |-> "ws", i |-> i]
Ps(i) == [at |-> "ps", i |-> i]
Direct(w) == [at |-> "direct", word |-> w]
Move(d, s) == [op |-> "move", dest |-> d, source |-> s, sa |-> 0, da |-> 0]

(* Three tables, of one, two and no dwords of parameters.                  *)
MCPS == <<1, 2, 0>>

Calls == {[op |-> "call", table |-> t] : t \in 2 .. 4}
Moves(i) == {Move(Ps(i), Direct(Bits)), Move(Ws(0), Ps(0)), Move(Ps(1), Ws(0)),
             Move([at |-> "reg", i |-> 0], Ps(0))}
Others == {[op |-> "jump", cond |-> "always", to |-> 3], [op |-> "jumpne", to |-> 1],
           [op |-> "notimplemented"], [op |-> "invalid"]}

MCPrograms ==
  {<<<<a, b, c>>, <<d, e>>, <<f>>>> :
     a \in Calls \cup Moves(1), b \in Calls \cup Others, c \in {[op |-> "call", table |-> 2]} \cup Moves(0),
     d \in Calls \cup Moves(2), e \in {[op |-> "call", table |-> 3], Move(Ws(0), Ps(0)), Move(Ps(1), Ws(0))},
     f \in {Move(Ps(0), Direct(Bits)), Move(Ws(0), Ps(0)), [op |-> "invalid"],
            [op |-> "call", table |-> 1]}}

(* Load two words, then a command on any parts of one and of the other, or *)
(* of a constant: those the command can fetch.                             *)
Ops == Writers \cup {"compare", "test", "mul"}
Loaded == {{0, 3, 5, 6}, {1, 2, 4, 6, 7}}
Sources == {{0}, {1, 2, 7}, {0, 3, 4, 6}, 0 .. 7}
On(d, w, c) == <<<<Move(Ws(0), Direct(d)), Move(Ws(1), Direct(w)), c>>>>
Op(op, d, s, sa, da) == [op |-> op, dest |-> d, source |-> s, or |-> {0}, sa |-> sa, da |-> da]
OpPrograms ==
  {On(d, s, Op(op, Ws(0), Ws(1), sa, da)) :
     d \in Loaded, s \in Sources, op \in Ops \ {"mask", "shiftleft", "shiftright"},
     sa \in 0 .. 7, da \in 0 .. 3}
  \cup
  UNION {{On(d, {}, Op(op, Ws(0), Direct(s \cap Fetched([op |-> op, sa |-> sa])), sa, da)) :
            d \in Loaded, s \in Sources, da \in 0 .. 3} : op \in Ops, sa \in 0 .. 7}

(* A division, what is left of it compared and told apart.                 *)
DivPrograms ==
  {<<<<Move([at |-> "quotient"], Direct(d)),
       [op |-> "div", dest |-> [at |-> "quotient"], source |-> Direct(s), sa |-> 4, da |-> 0],
       Move(Ws(0), [at |-> "remainder"]),
       [op |-> "compare", dest |-> Ws(0), source |-> [at |-> "quotient"], sa |-> sa, da |-> 0],
       [op |-> "jumpe", cond |-> "above", to |-> 7],
       [op |-> "switch", source |-> Ws(0), sa |-> sa,
        cases |-> <<[value |-> {0}, to |-> 5], [value |-> {1}, to |-> 7]>>]>>>> :
     d \in SUBSET AlignmentMask(1), s \in (SUBSET AlignmentMask(4)) \ {{}}, sa \in {0, 5}}

Images == MCPrograms \cup OpPrograms \cup DivPrograms
=============================================================================
