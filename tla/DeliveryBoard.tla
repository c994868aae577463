--------------------------- MODULE DeliveryBoard ---------------------------
(***************************************************************************)
(* The board of one task: artifacts that wait for a decision and artifacts *)
(* in the learner's queue (runtime/nodes/orchestration.py 219-378,         *)
(* runtime/nodes/execution.py 165-195, runtime/guardrails.py 325-362,      *)
(* application/agent_tasks.py 986-1047, store/runtime_state.py 479-495).   *)
(*                                                                         *)
(* Every writer reads the whole board in one transaction and saves the     *)
(* whole board in another.  The dispatch node and the acknowledgement hold *)
(* a lock in between, which is memory of their process; the orchestrate    *)
(* node awaits the model in between, without the lock.  One execution of   *)
(* the task is alive at a time.                                            *)
(***************************************************************************)
EXTENDS Naturals, Sequences, FiniteSets, SequencesExt

CONSTANTS
  Process,
  Artifact,
  Task,           \* task keys: <<step, planned task>>
  Makes,          \* the artifact each task produces
  Orders,         \* ranks of the artifacts in the orders a plan may ask for
  MaxRevisions,   \* MAX_REVISIONS_PER_TASK
  MaxOpen,        \* MAX_OPEN_HOLDS
  Request,        \* acknowledgements under way
  Key,            \* idempotency keys
  MaxCrashes,     \* bound on crashes
  None            \* no process, artifact, task or key

ASSUME BoardAssumption ==
  /\ None \notin Process \cup Artifact \cup Task \cup Key \cup Nat
  /\ Makes \in [Task -> Artifact]
  /\ Orders \subseteq [Artifact -> Nat]
  /\ IsFiniteSet(Task)
  /\ MaxRevisions \in Nat /\ MaxOpen \in Nat /\ MaxCrashes \in Nat

VARIABLES
  board,      \* the column agent_task_state.board
  run,        \* the execution of the task: where, what it does, the board it has read
  todo,       \* planned tasks not settled yet, each with its revision number
  fresh,      \* task keys not used so far
  ack,        \* acknowledgements: where, what they do, the board they will save
  commands,   \* artifact of the delivery_ack command of a key
  revised,    \* history: revisions of a task that produced its artifact again
  split,      \* history: two processes have held their locks at the same time
  crashes

vars == <<board, run, todo, fresh, ack, commands, revised, split, crashes>>

\* Some tasks, each with a number of revisions.
Numbered == [Task -> Nat \cup {None}]
NoTasks  == [t \in Task |-> None]
In(f)    == {t \in Task : f[t] # None}

Item  == [artifact: Artifact, state: {"queued", "unlocked", "consumed"}]
Board == [holds: Numbered, delivery: Seq(Item), cursor: Nat]

EmptyBoard == [holds |-> NoTasks, delivery |-> <<>>, cursor |-> 0]

Run == [pc: {"idle", "planning", "closing", "storing"}, at: Process \cup {None},
        board: Board, task: Task \cup {None}, closing: SUBSET Task,
        revisions: Numbered, order: [Artifact -> Nat]]
Ack == [pc: {"idle", "waiting", "saving"}, at: Process \cup {None},
        artifact: Artifact \cup {None}, board: Board]

IdleAt(p) == [pc |-> "idle", at |-> p, board |-> EmptyBoard, task |-> None,
              closing |-> {}, revisions |-> NoTasks, order |-> [a \in Artifact |-> 0]]
NoAck == [pc |-> "idle", at |-> None, artifact |-> None, board |-> EmptyBoard]

Init ==
  /\ board = EmptyBoard
  /\ run = IdleAt(None)
  /\ todo = NoTasks
  /\ fresh = Task
  /\ ack = [r \in Request |-> NoAck]
  /\ commands = [k \in Key |-> None]
  /\ revised = [t \in Task |-> 0]
  /\ split = FALSE
  /\ crashes = 0

Without(f, t) == [f EXCEPT ![t] = None]

-----------------------------------------------------------------------------
(* The orchestrate node *)

Start(p) ==
  /\ run.at = None
  /\ run' = IdleAt(p)
  /\ UNCHANGED <<board, todo, fresh, ack, commands, revised, split, crashes>>

ReadForPlan ==
  /\ run.at # None /\ run.pc = "idle"
  /\ todo = NoTasks
  /\ run' = [run EXCEPT !.pc = "planning", !.board = board]
  /\ UNCHANGED <<board, todo, fresh, ack, commands, revised, split, crashes>>

\* Too many holds close them all.
Crowded(b) == Cardinality(In(b.holds)) > MaxOpen

\* Mutant: a hold may be revised once more than the limit.
GrantedOnceMore(b, revise, spent) ==
  {t \in revise : ~spent /\ ~Crowded(b) /\ b.holds[t] <= MaxRevisions}

\* apply_hold_policy: the revisions it lets pass; the others become closings.
Granted(b, revise, spent) ==
  {t \in revise : ~spent /\ ~Crowded(b) /\ b.holds[t] < MaxRevisions}

Closing(b, revise, close, spent) ==
  IF Crowded(b) THEN In(b.holds)
                ELSE close \cup (revise \ Granted(b, revise, spent))

\* The plan names holds to revise and holds to close.  It may name any order
\* of the artifacts, so the order kept from earlier plans decides nothing.
\* spent: the budget is exhausted or the goal is reached.
Decide ==
  /\ run.pc = "planning"
  /\ \E revise \in SUBSET In(run.board.holds), close \in SUBSET In(run.board.holds),
        spent \in BOOLEAN, order \in Orders :
       run' = [run EXCEPT
         !.pc = "closing",
         !.closing = Closing(run.board, revise, close, spent),
         !.revisions = [t \in Task |->
           IF t \in Granted(run.board, revise, spent) THEN run.board.holds[t] + 1 ELSE None],
         !.order = order]
  /\ UNCHANGED <<board, todo, fresh, ack, commands, revised, split, crashes>>

\* An artifact new to the queue goes before the first of a later rank.
Places(q, a, order) ==
  {i \in 1..Len(q) + 1 :
     /\ \A j \in 1..i - 1 : order[q[j].artifact] <= order[a]
     /\ i <= Len(q) => order[q[i].artifact] > order[a]}

Enqueued(q, a, order) ==
  IF \E i \in DOMAIN q : q[i].artifact = a THEN {q}
  ELSE {InsertAt(q, i, [artifact |-> a, state |-> "queued"]) : i \in Places(q, a, order)}

Close(t) ==
  /\ run.pc = "closing"
  /\ t \in run.closing
  /\ \E q \in Enqueued(run.board.delivery, Makes[t], run.order) :
       run' = [run EXCEPT
         !.closing = run.closing \ {t},
         !.board = [holds    |-> Without(run.board.holds, t),
                    delivery |-> q,
                    cursor   |-> run.board.cursor]]
  /\ UNCHANGED <<board, todo, fresh, ack, commands, revised, split, crashes>>

Mark(q, i, state) == ReplaceAt(q, i, [artifact |-> q[i].artifact, state |-> state])

Unlock(q, cursor) == IF cursor < Len(q) THEN Mark(q, cursor + 1, "unlocked") ELSE q

\* Tasks of the plan run beside the revisions; check_plan may refuse any.
SavePlan ==
  /\ run.pc = "closing"
  /\ run.closing = {}
  /\ board' = [holds    |-> run.board.holds,
               delivery |-> Unlock(run.board.delivery, run.board.cursor),
               cursor   |-> run.board.cursor]
  /\ \E go \in SUBSET (fresh \cup In(run.revisions)) :
       /\ todo' = [t \in Task |-> IF t \notin go THEN None
                                  ELSE IF t \in In(run.revisions) THEN run.revisions[t] ELSE 0]
       /\ fresh' = fresh \ go
  /\ run' = IdleAt(run.at)
  /\ UNCHANGED <<ack, commands, revised, split, crashes>>

-----------------------------------------------------------------------------
(* The dispatch node *)

\* hold_sweep_locks[task_id] of a process: held from the read to the save.
LockFree(p) ==
  /\ ~(run.pc = "storing" /\ run.at = p)
  /\ \A r \in Request : ~(ack[r].pc = "saving" /\ ack[r].at = p)

\* The lock of another process is held.
LockedElsewhere(p) == \E q \in Process \ {p} : ~LockFree(q)

\* Mutant: the outcome is stored without the lock.
ReadForHoldUnlocked(t) ==
  /\ run.at # None /\ run.pc = "idle"
  /\ t \in In(todo)
  /\ run' = [run EXCEPT !.pc = "storing", !.board = board, !.task = t]
  /\ UNCHANGED <<board, todo, fresh, ack, commands, revised, split, crashes>>

\* The task has produced its artifact and satisfied its condition: it is held.
ReadForHold(t) ==
  /\ run.at # None /\ run.pc = "idle"
  /\ t \in In(todo)
  /\ LockFree(run.at)
  /\ run' = [run EXCEPT !.pc = "storing", !.board = board, !.task = t]
  /\ UNCHANGED <<board, todo, fresh, ack, commands, revised, split, crashes>>

Revisions(b, t) == IF b.holds[t] = None THEN 0 ELSE b.holds[t]

SaveHold ==
  /\ run.pc = "storing"
  /\ LET t == run.task
         n == IF todo[t] > 0 THEN todo[t] ELSE Revisions(run.board, t)
     IN  /\ board' = [holds    |-> [run.board.holds EXCEPT ![t] = n],
                      delivery |-> run.board.delivery,
                      cursor   |-> run.board.cursor]
         /\ revised' = [revised EXCEPT ![t] = IF todo[t] > 0 THEN revised[t] + 1 ELSE revised[t]]
         /\ todo' = Without(todo, t)
  /\ split' = (split \/ LockedElsewhere(run.at))
  /\ run' = IdleAt(run.at)
  /\ UNCHANGED <<fresh, ack, commands, crashes>>

\* It failed, was blocked, fell short of its condition or was never reached.
NotHeld(t) ==
  /\ run.at # None /\ run.pc = "idle"
  /\ t \in In(todo)
  /\ todo' = Without(todo, t)
  /\ UNCHANGED <<board, run, fresh, ack, commands, revised, split, crashes>>

\* The turn ends, fails or is cancelled.
Leave ==
  /\ run.at # None
  /\ run' = IdleAt(None)
  /\ todo' = NoTasks
  /\ UNCHANGED <<board, fresh, ack, commands, revised, split, crashes>>

-----------------------------------------------------------------------------
(* ack_delivery *)

\* A key that is known already is answered at once, as a duplicate or refused.
Acknowledge(r, p, a, k) ==
  /\ ack[r].pc = "idle"
  /\ k \in Key => commands[k] = None
  /\ commands' = [j \in Key |-> IF j = k THEN a ELSE commands[j]]
  /\ ack' = [ack EXCEPT ![r] = [pc |-> "waiting", at |-> p, artifact |-> a,
                                board |-> EmptyBoard]]
  /\ UNCHANGED <<board, run, todo, fresh, revised, split, crashes>>

Queued(b) == {b.delivery[i].artifact : i \in DOMAIN b.delivery}

\* Mutant: any queued item may be acknowledged.
AnyQueued(b, a) == a \in Queued(b)

\* Only the item at the cursor may be acknowledged.
AtCursor(b, a) == b.cursor < Len(b.delivery) /\ b.delivery[b.cursor + 1].artifact = a

\* An item that has been consumed is answered as such.
Consumed(b, a) ==
  \E i \in DOMAIN b.delivery : b.delivery[i].artifact = a /\ b.delivery[i].state = "consumed"

\* Mutant: the next item stays queued.
ConsumedOnly(b) ==
  [holds    |-> b.holds,
   delivery |-> Mark(b.delivery, b.cursor + 1, "consumed"),
   cursor   |-> b.cursor + 1]

\* The item at the cursor is consumed and the next one unlocked.
Consume(b) ==
  [holds    |-> b.holds,
   delivery |-> Unlock(Mark(b.delivery, b.cursor + 1, "consumed"), b.cursor + 1),
   cursor   |-> b.cursor + 1]

SavingFrom(r, b) ==
  /\ ack' = [ack EXCEPT ![r] = [pc |-> "saving", at |-> ack[r].at,
                                artifact |-> ack[r].artifact, board |-> b]]
  /\ UNCHANGED <<board, run, todo, fresh, commands, revised, split, crashes>>

\* Mutant: the acknowledgement does not wait for the lock.
ReadForAckUnlocked(r) ==
  /\ ack[r].pc = "waiting"
  /\ ~Consumed(board, ack[r].artifact) /\ AtCursor(board, ack[r].artifact)
  /\ SavingFrom(r, Consume(board))

ReadForAck(r) ==
  /\ ack[r].pc = "waiting"
  /\ LockFree(ack[r].at)
  /\ ~Consumed(board, ack[r].artifact) /\ AtCursor(board, ack[r].artifact)
  /\ SavingFrom(r, Consume(board))

\* Consumed before, unknown, or not at the cursor: nothing is written.
Answered(r) ==
  /\ ack[r].pc = "waiting"
  /\ LockFree(ack[r].at)
  /\ Consumed(board, ack[r].artifact) \/ ~AtCursor(board, ack[r].artifact)
  /\ ack' = [ack EXCEPT ![r] = NoAck]
  /\ UNCHANGED <<board, run, todo, fresh, commands, revised, split, crashes>>

SaveAck(r) ==
  /\ ack[r].pc = "saving"
  /\ board' = ack[r].board
  /\ split' = (split \/ LockedElsewhere(ack[r].at))
  /\ ack' = [ack EXCEPT ![r] = NoAck]
  /\ UNCHANGED <<run, todo, fresh, commands, revised, crashes>>

\* The event of the next item cannot be appended.
AckFails(r) ==
  /\ ack[r].pc = "saving"
  /\ ack[r].board.cursor < Len(ack[r].board.delivery)
  /\ ack' = [ack EXCEPT ![r] = NoAck]
  /\ UNCHANGED <<board, run, todo, fresh, commands, revised, split, crashes>>

-----------------------------------------------------------------------------
(* Processes *)

\* The checkpoint keeps the plan; a node that was interrupted runs again.
Crash(p) ==
  /\ crashes < MaxCrashes
  /\ crashes' = crashes + 1
  /\ run' = IF run.at = p THEN IdleAt(None) ELSE run
  /\ ack' = [r \in Request |-> IF ack[r].at = p THEN NoAck ELSE ack[r]]
  /\ UNCHANGED <<board, todo, fresh, commands, revised, split>>

RunStep ==
  \/ ReadForPlan \/ Decide \/ SavePlan \/ SaveHold \/ Leave
  \/ \E t \in Task : Close(t) \/ ReadForHold(t) \/ NotHeld(t)
  \/ \E p \in Process : Start(p)

AckStep(r) ==
  \/ \E p \in Process, a \in Artifact, k \in Key \cup {None} : Acknowledge(r, p, a, k)
  \/ ReadForAck(r) \/ Answered(r) \/ SaveAck(r) \/ AckFails(r)

Next ==
  \/ RunStep
  \/ \E r \in Request : AckStep(r)
  \/ \E p \in Process : Crash(p)

Spec == Init /\ [][Next]_vars

-----------------------------------------------------------------------------
(* Properties *)

\* Type invariant; the cursor of every copy of the board is within its queue.
TypeOK ==
  /\ board \in Board /\ board.cursor <= Len(board.delivery)
  /\ run \in Run /\ run.board.cursor <= Len(run.board.delivery)
  /\ todo \in Numbered
  /\ fresh \in SUBSET Task
  /\ ack \in [Request -> Ack]
  /\ \A r \in Request : ack[r].board.cursor <= Len(ack[r].board.delivery)
  /\ commands \in [Key -> Artifact \cup {None}]
  /\ revised \in [Task -> Nat]
  /\ split \in BOOLEAN
  /\ crashes \in Nat

\* The artifacts on a board: held, or in the queue.
Kept(b) == Queued(b) \cup {Makes[t] : t \in In(b.holds)}

\* An artifact that has reached the board never vanishes from it, although the
\* planner, the dispatch node and the acknowledgements overwrite the whole board
\* with what they have read before, as long as the locks of two processes are
\* not held at the same time (board_lock in runtime/nodes/execution.py).
ArtifactsKept ==
  [][~split' => Kept(board) \subseteq Kept(board')]_vars

\* What the learner has consumed on the way to the cursor.
Passed(b) ==
  {b.delivery[i].artifact : i \in {j \in 1..b.cursor : b.delivery[j].state = "consumed"}}

\* Only the save of a plan takes an acknowledgement back: the lock, where one
\* process holds it, protects it from the dispatch node and from the other
\* acknowledgements (application/agent_tasks.py, ack_delivery).
AcksKept ==
  [][~split' /\ (run.pc = "closing" => UNCHANGED run)
       => Passed(board) \subseteq Passed(board')]_vars

\* The learner is never stuck in front of a locked queue: the item at the cursor
\* is unlocked, whoever wrote the board last (orchestrate, ack_delivery).
HeadUnlocked ==
  board.cursor < Len(board.delivery) => board.delivery[board.cursor + 1].state = "unlocked"

\* A task is revised at most MAX_REVISIONS_PER_TASK times, whatever copies of
\* its hold are written back (apply_hold_policy).
RevisedBounded ==
  ~split => \A t \in Task : revised[t] <= MaxRevisions

\* What "one task-scoped lock shared with delivery acknowledgements" and "the
\* learner's order" promise, without the conditions.
AcksStay == [][Passed(board) \subseteq Passed(board')]_vars
NothingSkipped == \A i \in 1..board.cursor : board.delivery[i].state = "consumed"
=============================================================================
