---------------------------- MODULE CrossLedger ----------------------------
(***************************************************************************)
(* What internal crossing promises about the books of record: a resting    *)
(* order is only ever consumed by trades, each pair of orders trades at    *)
(* most once, and a trade takes no more than the resting order still has   *)
(* nor than the incoming order asks for.                                   *)
(***************************************************************************)
EXTENDS Naturals, Functions

CONSTANTS Makers, Takers,   \* resting orders and incoming orders
          SizeOf            \* the size each of them was placed with

VARIABLES open,             \* open[m]: what is left of the resting order m
          traded            \* traded[t][m]: the size t and m have traded, or 0

Init ==
  /\ open = [m \in Makers |-> SizeOf[m]]
  /\ traded = [t \in Takers |-> [m \in Makers |-> 0]]

Match(t, m, q) ==
  /\ traded[t][m] = 0
  /\ q <= open[m]
  /\ open' = [open EXCEPT ![m] = @ - q]
  /\ traded' = [traded EXCEPT ![t][m] = q]

Next == \E t \in Takers, m \in Makers : \E q \in 1..SizeOf[t] : Match(t, m, q)

Spec == Init /\ [][Next]_<<open, traded>>

\* Every unit a resting order has lost is in exactly one of its trades.
Conserved ==
  \A m \in Makers : open[m] + SumFunction([t \in Takers |-> traded[t][m]]) = SizeOf[m]
=============================================================================
