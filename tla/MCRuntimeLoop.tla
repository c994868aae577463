---------------------------- MODULE MCRuntimeLoop ---------------------------
(* Instances of RuntimeLoop for TLC. *)
EXTENDS RuntimeLoop, TLC

Alike == UNION {Permutations(S) : S \in {Process, Point}}

\* One task; two in a row; two side by side, which overshoot the budget.
AllPlans == {<<1>>, <<1, 1>>, <<2>>}
OnePlan  == {<<1>>}
=============================================================================
