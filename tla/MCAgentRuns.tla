---------------------------- MODULE MCAgentRuns -----------------------------
(* Instances of AgentRuns for TLC: tiers whose runs meet in each way the      *)
(* dispatcher has, the smaller ones with a fault.                             *)
EXTENDS AgentRuns

CONSTANTS s1, m1, c1

\* One task beside the serial one, which delegates.
Mixed == [safe |-> {s1}, serial |-> <<m1>>, faults |-> 0,
          delegate |-> [r \in {s1, m1} |-> IF r = m1 THEN c1 ELSE None]]

\* A delegating task alone, awaited in its turn or at the join.
InTurn == [safe |-> {}, serial |-> <<m1>>, faults |-> 1, delegate |-> [r \in {m1} |-> c1]]
AtJoin == [safe |-> {s1}, serial |-> <<>>, faults |-> 1, delegate |-> [r \in {s1} |-> c1]]

\* Two tasks in a row.
InARow == [safe |-> {}, serial |-> <<s1, m1>>, faults |-> 1,
           delegate |-> [r \in {s1, m1} |-> None]]

MCTiers == {Mixed, InTurn, AtJoin, InARow}
=============================================================================
