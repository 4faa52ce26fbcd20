------------------------------ MODULE MCMsgLog ------------------------------
(* Small instances of MsgLog.  The messages are chosen so that one is a    *)
(* prefix of another (a false repeat), one repeats, one is longer than     *)
(* LineSize, and two of them with a repeat line overrun the buffer.        *)
EXTENDS MsgLog, TLC

MCMessages == {<<"a">>, <<"a", "b">>, <<"c", "c", "c">>}
MCTwoMessages == {<<"a">>, <<"c", "c", "c">>}
MCLetters == {<<"a">>, <<"c">>}
MCFirstMsg == <<"a", "r">>
MCRepeatLine == <<"r", "r">>
MCChars == {"a", "b", "c", "r"}

Symmetry == Permutations(Threads) \cup Permutations(Controllers)
=============================================================================
