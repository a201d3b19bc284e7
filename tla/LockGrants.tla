----------------------------- MODULE LockGrants -----------------------------
(***************************************************************************)
(* What a caller of the order locker relies on: a handle covers a set of   *)
(* order ids, it is obtained in one step, and no two handles that exist at *)
(* the same time cover the same order.  OrderLocker is shown to implement  *)
(* this module as long as no lock outlives its time to live while it is    *)
(* still in use.                                                           *)
(***************************************************************************)
CONSTANTS Workers, Orders

VARIABLE grant      \* grant[w]: the orders w holds a handle for

Init == grant = [w \in Workers |-> {}]

Take(w, S) ==
  /\ grant[w] = {}
  /\ S # {}
  /\ \A v \in Workers : grant[v] \cap S = {}
  /\ grant' = [grant EXCEPT ![w] = S]

\* A handle is given back order by order, or lost at once when its holder dies.
GiveBack(w, S) ==
  /\ S \subseteq grant[w]
  /\ S # grant[w]
  /\ grant' = [grant EXCEPT ![w] = S]

Next == \E w \in Workers, S \in SUBSET Orders : Take(w, S) \/ GiveBack(w, S)

Spec == Init /\ [][Next]_grant
=============================================================================
