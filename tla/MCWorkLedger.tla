---------------------------- MODULE MCWorkLedger ----------------------------
(* The first plan has two parallel-safe items and a third that needs one of *)
(* them; the second plan, where there is one, has an item the learner must  *)
(* confirm.                                                                 *)
EXTENDS WorkLedger, TLC

CONSTANTS explain, quiz, deck, publish

MCPlanOf == [w \in Work |-> IF w = publish THEN 2 ELSE 1]
MCTier   == [w \in Work |-> IF w = deck THEN 1 ELSE 0]
MCDeps   == [w \in Work |-> IF w = deck THEN {explain, quiz} ELSE {}]

Symmetry ==
  Permutations(Process) \cup Permutations(Execution) \cup Permutations({explain, quiz})
=============================================================================
