------------------------- MODULE MCExecutionOrders -------------------------
(***************************************************************************)
(* Bounds for ExecutionOrders.  One leg under requests of both kinds, while *)
(* the clocks run; a route of two legs, the second of them checked, that   *)
(* waits for its signatures, while the clocks run and things fail; and one *)
(* leg that is submitted by the order and past it at the same time.  What  *)
(* a scene leaves out another has, except that nothing fails and no clock  *)
(* runs while two submissions overlap.                                     *)
(***************************************************************************)
EXTENDS ExecutionOrders

TwoScenes ==
  { [legs |-> 1, checked |-> {}, requests |-> {"place", "sign"}, may |-> {"age"}],
    [legs |-> 2, checked |-> {2}, requests |-> {"sign"}, may |-> {"fail", "age"}] }

DirectScene == [legs |-> 1, checked |-> {}, requests |-> {"sign", "direct"}, may |-> {}]
ThreeScenes == TwoScenes \cup {DirectScene}
=============================================================================
