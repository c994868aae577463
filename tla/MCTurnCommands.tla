--------------------------- MODULE MCTurnCommands ---------------------------
(* Two processes, seen from sides that `about` chooses between: a message   *)
(* that may steer, resume or open a turn, with a third execution and any    *)
(* fault; or a blocking question and its answer, with leases that lapse     *)
(* under a live owner and turns that end partial; or, with neither, what    *)
(* becomes of a task after crashes and failures.                            *)
EXTENDS TurnRunner, TLC

CONSTANTS j3, Sides

VARIABLE about

\* A step that makes a lease lapse, and whether its owner is alive.
Lapses(c) == row[c].fresh /\ row'[c].disp = "delivered" /\ ~row'[c].fresh
Alive(c) == \E j \in Job : row[c].owner = j /\ job[j].cmd = c /\ Beating(j)

\* A process that dies has an execution or a message to lose.
Busy(p) ==
    \/ \E j \in Job : job[j].at = p
    \/ \E m \in Message : req[m].at = p /\ req[m].pc \in {"route", "mark"}

AboutMessages ==
    /\ \A i \in DOMAIN inbox' : inbox'[i] \notin Answer
    /\ \A j \in Job : job'[j].out # "partial"
    /\ \A c \in Command : Lapses(c) => ~Alive(c)
    /\ \A p \in Process : "startup" \in wake'[p] \ wake[p] => Busy(p)
AboutAnswers ==
    /\ \A m \in Message : req'[m] = NoReq
    /\ job'[j3] = Free
    /\ ~\E p \in Process : Crash(p)
    /\ ~\E j \in Job : BeginFail(j) \/ GraphFail(j)

MCInit == Init /\ about \in Sides
MCNext ==
    /\ Next
    /\ about = "messages" => AboutMessages
    /\ about = "answers" => AboutAnswers
    /\ UNCHANGED about
MCSpec     == MCInit /\ [][MCNext]_<<vars, about>>
MCFairSpec == MCSpec /\ Fairness

SymmetryButOne == Permutations(Job \ {j3}) \cup Permutations(Process)
=============================================================================
