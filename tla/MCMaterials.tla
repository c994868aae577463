---------------------------- MODULE MCMaterials ----------------------------
(* Instances of Materials, WorkspaceFiles and LectureDeck for TLC.  They   *)
(* share no variable; `scene` chooses which of them a behaviour is about.  *)
EXTENDS Materials, WorkspaceFiles, LectureDeck, TLC

VARIABLE scene

MCBoxes == {Home, [Home EXCEPT !.h = 300], [Home EXCEPT !.h = 600]}

Busy(S) == Cardinality({j \in S : job'[j] # Idle})

(* Behaviours of the workspace: requests that overlap, beside the           *)
(* projections of one process; projections of two processes; and failures  *)
(* of either, with fewer blobs.                                            *)
Shares == {"requests", "processes", "failures"}
Workspace ==
    \/ scene = "requests" /\ Busy(Projection) <= 1 /\ run' \in Ended \cup {Api}
    \/ /\ \/ scene = "processes" /\ faults' = 0
          \/ scene = "failures" /\ used' <= 2
       /\ Busy(Request) <= 1 /\ \A u \in Request : job'[u].pc # "adding"

MCInit ==
    /\ scene \in {"attempts", "deck"} \cup Shares
    /\ Init /\ (scene # "attempts" => kind = "visual")
    /\ FilesInit /\ (scene \notin {"processes", "failures"} => run = Api)
    /\ DeckInit

MCNext ==
    /\ \/ scene = "attempts" /\ MaterialsNext /\ UNCHANGED <<files, deck>>
       \/ scene \in Shares /\ FilesNext /\ Workspace /\ UNCHANGED <<materials, deck>>
       \/ scene = "deck" /\ DeckNext /\ UNCHANGED <<materials, files>>
    /\ UNCHANGED scene

MCSpec == MCInit /\ [][MCNext]_<<materials, files, deck, scene>>

Alike == UNION {Permutations(S) : S \in {Projection, Request, Page}}
=============================================================================
