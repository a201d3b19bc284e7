------------------------- MODULE MCMatchTransaction -------------------------
(***************************************************************************)
(* Bounds for MatchTransaction: one resting order that two incoming orders *)
(* want more of than it has, one of them in two transactions, and a fourth *)
(* transaction that matches the same two users the other way round.        *)
(***************************************************************************)
EXTENDS MatchTransaction, TLC

CONSTANTS x1, x2, x3, x4, ann, bob

O(user, side, price, size) == [user |-> user, side |-> side, price |-> price, size |-> size]

\* ann rests 1 (sell) and bob rests 2 (buy); bob sends 3 and 4, ann sends 5.
Crossed == << O(ann, "sell", 3, 3), O(bob, "buy", 4, 2), O(bob, "buy", 3, 2),
              O(bob, "buy", 5, 2), O(ann, "sell", 4, 1) >>

\* x1 and x2 match the same pair, as a retried call does.
MCTakerOf == (x1 :> 3) @@ (x2 :> 3) @@ (x3 :> 4) @@ (x4 :> 5)
MCMakerOf == (x1 :> 1) @@ (x2 :> 1) @@ (x3 :> 1) @@ (x4 :> 2)
MCWanted == (x1 :> 2) @@ (x2 :> 2) @@ (x3 :> 2) @@ (x4 :> 1)
=============================================================================
