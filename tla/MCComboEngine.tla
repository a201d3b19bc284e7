---------------------------- MODULE MCComboEngine ----------------------------
(* Three combos over two outcomes: 1 buys both, 2 sells some of both, 3 sells *)
(* some of the first.  The best round of all three leaves a residual that two *)
(* of them could keep, and a netting of 1 and 2 leaves both with the first.   *)
EXTENDS ComboEngine

Two == {1, 2}
Three == {1, 2, 3}
LastTwo == {2, 3}
None == {}

BuySellSell ==
  <<[x |-> 3, y |-> 1], [x |-> -2, y |-> -1], [x |-> -2, y |-> 0]>>
Takers == <<"u1", "u2", "u3">>
Outcomes == {"x", "y"}
FirstTwo == [a1 |-> 1, a2 |-> 2]
Calls == {"a1", "a2"}
=============================================================================
