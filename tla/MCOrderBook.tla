---------------------------- MODULE MCOrderBook ----------------------------
(***************************************************************************)
(* Bounds for OrderBook: two attempts on two resting orders, one of them   *)
(* large enough for two trades; and one attempt on one order while keys    *)
(* expire, a rebuild is started and the reconciliation job runs.           *)
(***************************************************************************)
EXTENDS OrderBook

CONSTANTS a1, a2, rebuilder, reconciler

TwoSizes == <<2, 1>>
TwoScenes ==
  { [clients |-> {a1, a2}, open |-> {1, 2}, expiring |-> FALSE],
    [clients |-> {a1, rebuilder, reconciler}, open |-> {1}, expiring |-> TRUE] }
=============================================================================
