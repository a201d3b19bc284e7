---------------------------- MODULE MCPlanRunner ----------------------------
(***************************************************************************)
(* Bounds for PlanRunner: one call on a plan with a step on each of two    *)
(* legs, one of them with the dearer of its two providers; one call with a *)
(* retry on one leg; two calls on a plan of one step, where a call may     *)
(* stop anywhere without dying, for invariants ask no fairness; and a call *)
(* beside an operator, on a plan that gets no fallback steps.              *)
(***************************************************************************)
EXTENDS PlanRunner, TLC

CONSTANTS r1, r2, left, right

S(leg, provider) == [leg |-> leg, provider |-> provider]

TwoEach == (left :> {1, 2}) @@ (right :> {2, 3})

TwoLegs == [calls |-> {r1}, planned |-> << S(left, 1), S(right, 3) >>,
            attempts |-> 1, rows |-> 4, policies |-> BOOLEAN, mayDie |-> TRUE,
            mayExpire |-> FALSE, retries |-> {}, careful |-> TRUE]
Retries == [TwoLegs EXCEPT !.planned = << S(right, 2) >>, !.attempts = 2, !.rows = 2,
                           !.mayExpire = TRUE]
TwoCalls == [calls |-> {r1, r2}, planned |-> << S(left, 1) >>,
             attempts |-> 1, rows |-> 2, policies |-> {FALSE}, mayDie |-> FALSE,
             mayExpire |-> TRUE, retries |-> {}, careful |-> TRUE]
Operated == [TwoCalls EXCEPT !.retries = {r2}, !.mayDie = TRUE, !.rows = 1]

PlanScenes == {TwoLegs, Retries, TwoCalls, Operated}
=============================================================================
