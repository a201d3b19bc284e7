---------------------------- MODULE MCRiskEngine ----------------------------
(***************************************************************************)
(* Bounds for RiskEngine: two calls that accept one RFQ and a third that   *)
(* accepts another RFQ of the same account; three bookings, two of them of *)
(* the same execution.                                                     *)
(***************************************************************************)
EXTENDS RiskEngine

CONSTANTS first, again, other, bookFirst, rebookFirst, bookOther

MCRfqOf == [c \in {first, again, other} |-> IF c = other THEN "r2" ELSE "r1"]
MCAccountOf == [r \in {"r1", "r2"} |-> "acct"]
MCNotional == [c \in {first, again, other} |-> IF c = other THEN 2 ELSE 1]
MCExecutionOf ==
  [u \in {bookFirst, rebookFirst, bookOther} |->
     IF u = bookOther THEN "e2" ELSE "e1"]
MCGrantOf == [e \in {"e1", "e2"} |-> IF e = "e2" THEN other ELSE first]
=============================================================================
