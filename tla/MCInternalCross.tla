-------------------------- MODULE MCInternalCross --------------------------
(***************************************************************************)
(* Bounds for InternalCross: two resting orders and two incoming ones on   *)
(* one market, or two resting orders and one call with its retry, in id    *)
(* orders that interleave and sizes that leave a rest.                     *)
(***************************************************************************)
EXTENDS InternalCross, TLC

CONSTANTS a1, a2, ann, bob, cat, dan, safe, other

O(user, side, price, size, profile, created) ==
  [user |-> user, side |-> side, price |-> price, size |-> size,
   profile |-> profile, created |-> created]

\* Two buyers sweep two sell orders at different prices.
Sweep == << O(ann, "sell", 5, 3, NoProfile, 1), O(bob, "buy", 6, 3, NoProfile, 0),
            O(cat, "sell", 6, 1, NoProfile, 0), O(dan, "buy", 6, 2, NoProfile, 0) >>

\* bob sells against two bids: the better one of a profile he does not trust, the
\* other his own.
Bids == << O(ann, "buy", 5, 2, other, 1), O(bob, "sell", 4, 1, safe, 0),
           O(bob, "buy", 4, 2, NoProfile, 0) >>

\* Two callers, or one call and its retry.
OnePerTaker == (a1 :> 2) @@ (a2 :> 4)
RetriedTaker == (a1 :> 2) @@ (a2 :> 2)
=============================================================================
