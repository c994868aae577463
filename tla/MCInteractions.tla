--------------------------- MODULE MCInteractions ---------------------------
(* The questions of two processes, seen from sides that `about` chooses     *)
(* between: requests that race for the one question of a turn, with faults; *)
(* the rows of several turns, with a fault and a learner who answers once;  *)
(* or two questions in a row, each of them raced for.                       *)
EXTENDS Interactions, TLC

CONSTANT Sides

VARIABLE about

Buffers == Len(buffer') > Len(buffer)
Busy    == {r \in Request : req'[r].pc # "free"}

AboutRaces == Buffers => emitted = 0
AboutRows  ==
    /\ faults' <= 1
    /\ \A r, s \in Busy : r = s
    /\ \A r \in Request : req'[r].out # "error"
    /\ \E p \in Process :
         /\ wake' \cup {run'.at} \cup {req'[r].at : r \in Busy} \subseteq {p, NoP}
         /\ \A x \in Process : x # p => up'[x] = "up"
AboutTalk  == faults' = 0

MCInit == Init /\ about \in Sides
MCNext ==
    /\ Next
    /\ about = "races" => AboutRaces
    /\ about = "rows" => AboutRows
    /\ about = "talk" => AboutTalk
    /\ UNCHANGED about
MCSpec == MCInit /\ [][MCNext]_<<vars, about>>

Alike == UNION {Permutations(S) : S \in {Process, Question, Request, Key, Value}}
=============================================================================
