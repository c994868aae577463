----------------------------- MODULE TurnRunner -----------------------------
(***************************************************************************)
(* One learner thread of LingxiLearn: its durable command inbox (database  *)
(* rows), the task row that elects the running execution, and the          *)
(* coroutines of several server processes that accept learner input, claim *)
(* commands under a lease, run the graph, steer it, acknowledge and hand   *)
(* over (application/runtime_adapter.py, application/agent_tasks.py,       *)
(* store/repositories/work_ledger.py, store/repositories/agent_tasks.py).  *)
(*                                                                         *)
(* One action is one database transaction together with the process-local  *)
(* code up to the next await; between two actions anything may happen.     *)
(***************************************************************************)
EXTENDS Naturals, Sequences, FiniteSets

CONSTANTS
  Process,     \* server processes sharing the database
  Job,         \* pool of execution identities; one is reused once forgotten
  Initial,     \* the initial_prompt command, accepted with the task
  Message,     \* message commands the learner may send
  Answer,      \* interaction_answer commands the learner may send
  Outcomes,    \* how a graph that does not raise may leave the turn
  NoJob, NoCmd,
  SlowOwners,  \* may a lease lapse while its owner is alive (missed heartbeats)?
  Faults,      \* which of FaultKinds the environment may commit
  MaxFaults    \* bound on how many it commits

Command == {Initial} \cup Message \cup Answer

FaultKinds == {"failure", "crash", "retry", "cancel"}

ASSUME ConstantsAssumption ==
  /\ NoJob \notin Job \cup Process
  /\ NoCmd \notin Command
  /\ Initial \notin Message \cup Answer
  /\ Message \cap Answer = {}
  /\ Outcomes \subseteq {"completed", "awaiting_user", "partial", "failed"}
  /\ SlowOwners \in BOOLEAN
  /\ Faults \subseteq FaultKinds
  /\ MaxFaults \in Nat

VARIABLES
  \* database
  status,      \* agent_tasks.status
  thread,      \* agent_tasks.thread_status: "cancelled", or "open" for the rest
  inbox,       \* command_inbox ids in sequence order
  row,         \* the delivery columns of each command_inbox row
  ckpt,        \* applied_command_ids in the thread's graph checkpoint
  asking,      \* turn of the pending blocking interaction, or NoCmd
  \* process memory
  wake,        \* spawned drain coroutines that have not taken the lock yet
  drive,       \* spawned _drive_agent_task coroutines that have not started
  drain,       \* the drain coroutine holding the process's conversation lock
  job,         \* executions between claim_command_delivery and their end
  active,      \* _active_steering: the live execution of each process
  req,         \* agent_message request handlers
  killing,     \* next step of each process's cancel_agent_task
  \* history
  faults,      \* how many faults the environment has committed
  settled,     \* commands for which an execution persisted a success
  reclaimed    \* has reclaim_running ever let an execution take a running task?

dbVars   == <<status, thread, inbox, row, ckpt, asking>>
taskVars == <<status, thread>>
memVars  == <<wake, drive, drain, job, active, req, killing>>
history  == <<faults, settled, reclaimed>>
vars     == <<dbVars, memVars, history>>

-----------------------------------------------------------------------------
(* Types and null records *)

Status     == {"queued", "running", "awaiting_user", "completed", "partial",
               "failed", "cancelled"}
Mode       == {"new_turn", "resume", "steering"}
Delivery   == {"absent", "pending", "delivered", "transfer_pending", "applied"}
DrainKind  == {"pending", "retry", "answers", "startup"}
Via        == {"direct", "pending", "retry", "answers"}
JobPc      == {"free", "claim", "task", "release", "begin", "attach", "join",
               "seed", "run", "settle", "ack", "transfer", "zombie", "ghost"}

Row == [disp: Delivery, mode: Mode, owner: Job \cup {NoJob}, fresh: BOOLEAN,
        turn: Command \cup {NoCmd}]
Execution == [pc: JobPc, at: Process \cup {NoJob}, cmd: Command \cup {NoCmd},
              via: Via, reclaim: BOOLEAN, out: Outcomes \cup {"none", "raises"},
              seen: SUBSET Command, sent: SUBSET Command, queue: SUBSET Command,
              mark: Command \cup {NoCmd}]
Drain   == [pc: {"idle", "gate", "drive"}, kind: DrainKind \ {"startup"},
            cmd: Command \cup {NoCmd}, orphan: BOOLEAN]
Request == [pc: {"idle", "append", "route", "mark", "done"},
            at: Process \cup {NoJob}, mode: Mode, turn: Command \cup {NoCmd},
            exec: Job \cup {NoJob}]

NoRow   == [disp |-> "absent", mode |-> "new_turn", owner |-> NoJob,
            fresh |-> FALSE, turn |-> NoCmd]
NewRow(mode, turn) ==
  [disp |-> "pending", mode |-> mode, owner |-> NoJob, fresh |-> FALSE, turn |-> turn]
Free    == [pc |-> "free", at |-> NoJob, cmd |-> NoCmd, via |-> "direct",
            reclaim |-> FALSE, out |-> "none", seen |-> {}, sent |-> {},
            queue |-> {}, mark |-> NoCmd]
NoDrain == [pc |-> "idle", kind |-> "pending", cmd |-> NoCmd, orphan |-> FALSE]
NoReq   == [pc |-> "idle", at |-> NoJob, mode |-> "new_turn", turn |-> NoCmd,
            exec |-> NoJob]

-----------------------------------------------------------------------------
(* Reading the inbox *)

Accepted(c)  == row[c].disp # "absent"
Unapplied(c) == row[c].disp \notin {"absent", "applied"}
Index        == 1..Len(inbox)

\* Mutant: a command under a lease is left out, as if it were already running.
TodoUnleased(kind) == {i \in Index : row[inbox[i]].disp \in {"pending", "transfer_pending"}}

\* Positions of the commands a drain considers.
Todo(kind) == {i \in Index : /\ Unapplied(inbox[i])
                             /\ kind = "answers" => inbox[i] \in Answer}

\* The newest turn is the one the last turn-opening command created.
LatestTurn(t) ==
  \E i \in Index : /\ inbox[i] = t
                   /\ row[t].turn = t
                   /\ \A k \in Index : row[inbox[k]].turn = inbox[k] => k <= i

Accept(c, mode, turn) ==
  /\ inbox' = Append(inbox, c)
  /\ row' = [row EXCEPT ![c] = NewRow(mode, turn)]

\* A lease is claimable when nobody holds it or the holder's has lapsed.
Claimable(c) ==
  \/ row[c].disp \in {"pending", "transfer_pending"}
  \/ row[c].disp = "delivered" /\ ~row[c].fresh

\* Mutant: the update forgets its "consumed_at IS NULL" condition.
DeliveredAlways(c, j) ==
  [row EXCEPT ![c] = [@ EXCEPT !.disp = "delivered", !.owner = j, !.fresh = TRUE]]

Delivered(c, j) ==
  IF Unapplied(c)
    THEN [row EXCEPT ![c] = [@ EXCEPT !.disp = "delivered", !.owner = j, !.fresh = TRUE]]
    ELSE row

Released(cs, mode) ==
  [c \in Command |->
     IF c \in cs /\ Unapplied(c)
       THEN [row[c] EXCEPT !.disp = "transfer_pending", !.owner = NoJob,
                           !.mode = IF mode = "keep" THEN @ ELSE mode]
       ELSE row[c]]

Consumed(cs) ==
  [c \in Command |->
     IF c \in cs /\ Unapplied(c) THEN [row[c] EXCEPT !.disp = "applied"]
                                 ELSE row[c]]

-----------------------------------------------------------------------------
(* Executions and locks *)

Running ==
  {j \in Job : job[j].pc \in {"begin", "attach", "join", "seed", "run", "settle"}}

\* The live graph is published and its delivery set not seeded: the execution is
\* between the two, or a cancel has stopped it there and left the entry behind.
Unseeded(j) == job[j].pc \in {"join", "seed", "ghost"}

\* graph.steer queues the command, _steering_deliveries remembers it.
Steered(e, c) == [e EXCEPT !.sent = @ \cup {c}, !.queue = @ \cup {c}]

Beating(j) == job[j].pc \in {"task", "begin", "attach", "join", "seed", "run",
                             "settle", "ack", "transfer"}

Forgotten(j) ==
  /\ job[j] = Free
  /\ \A c \in Command : row[c].owner # j
  /\ \A p \in Process : active[p] # j
  /\ \A m \in Message : req[m].exec # j

Locked(p) ==
  \/ drain[p].pc # "idle"
  \/ \E j \in Job : /\ job[j].at = p
                    /\ job[j].via # "direct"
                    /\ job[j].pc \notin {"free", "zombie", "ghost"}

\* Mutant: recovery tries once and gives up on a live lease.
EndUnownedForGood(j) ==
  /\ job' = [job EXCEPT ![j] = Free]
  /\ UNCHANGED wake

\* The execution returns False: it did not run.  Only the startup loop of
\* _recover_pending_commands tries again, and only while the task is running.
EndUnowned(j) ==
  /\ job' = [job EXCEPT ![j] = Free]
  /\ wake' = IF job[j].via = "retry" /\ status = "running"
               THEN [wake EXCEPT ![job[j].at] = @ \cup {"retry"}]
               ELSE wake

Fault(kind) ==
  /\ kind \in Faults
  /\ faults < MaxFaults
  /\ faults' = faults + 1

-----------------------------------------------------------------------------
(* create_agent_task has committed: the task is queued, its initial command *)
(* is in the inbox and start_turn has been spawned in one process.          *)

Init ==
  /\ status = "queued"
  /\ thread = "open"
  /\ inbox = <<Initial>>
  /\ row = [c \in Command |->
              IF c = Initial
                THEN NewRow("new_turn", Initial) ELSE NoRow]
  /\ ckpt = {}
  /\ asking = NoCmd
  /\ wake = [p \in Process |-> {}]
  /\ \E q \in Process :
       drive = [p \in Process |-> IF p = q THEN {Initial} ELSE {}]
  /\ drain = [p \in Process |-> NoDrain]
  /\ job = [j \in Job |-> Free]
  /\ active = [p \in Process |-> NoJob]
  /\ req = [m \in Message |-> NoReq]
  /\ killing = [p \in Process |-> "idle"]
  /\ faults = 0
  /\ settled = {}
  /\ reclaimed = FALSE

-----------------------------------------------------------------------------
(* agent_message: read the thread, append the command, route it *)

MessageRead(m, p) ==
  /\ req[m].pc = "idle"
  /\ thread # "cancelled"
  /\ LET live == status \in {"queued", "running", "awaiting_user"}
     IN \E t \in Command :
          /\ LatestTurn(t)
          /\ req' = [req EXCEPT ![m] =
               [pc   |-> "append",
                at   |-> p,
                mode |-> IF ~live THEN "new_turn"
                         ELSE IF status = "awaiting_user" THEN "resume"
                         ELSE "steering",
                turn |-> IF live THEN t ELSE m,
                exec |-> NoJob]]
  /\ UNCHANGED <<dbVars, wake, drive, drain, job, active, killing, history>>

MessageAppend(m) ==
  /\ req[m].pc = "append"
  /\ Accept(m, req[m].mode, req[m].turn)
  /\ req' = [req EXCEPT ![m].pc = "route"]
  /\ UNCHANGED <<taskVars, ckpt, asking, wake, drive, drain, job, active,
                 killing, history>>

\* The delivery_mode that append_command returned routes it.  Steering goes to
\* the graph this process runs, whatever its turn, and to a drain when it runs
\* none.
MessageRoute(m) ==
  LET p == req[m].at
      a == active[p]
      mode == req[m].mode
      steer == mode = "steering" /\ a # NoJob
  IN /\ req[m].pc = "route"
     /\ drive' = IF mode = "resume" THEN [drive EXCEPT ![p] = @ \cup {m}] ELSE drive
     /\ wake' = IF mode = "new_turn" \/ (mode = "steering" /\ a = NoJob)
                  THEN [wake EXCEPT ![p] = @ \cup {"pending"}] ELSE wake
     /\ IF steer /\ m \notin job[a].sent
          THEN /\ job' = [job EXCEPT ![a] = Steered(@, m)]
               /\ req' = [req EXCEPT ![m] = [@ EXCEPT !.pc = "mark", !.exec = a]]
          ELSE /\ req' = [req EXCEPT ![m].pc = "done"]
               /\ UNCHANGED job
     /\ UNCHANGED <<dbVars, drain, active, killing, history>>

\* mark_command_delivered after graph.steer: no check of the current owner.
MessageMark(m) ==
  /\ req[m].pc = "mark"
  /\ row' = Delivered(m, req[m].exec)
  /\ req' = [req EXCEPT ![m] = [@ EXCEPT !.pc = "done", !.exec = NoJob]]
  /\ UNCHANGED <<taskVars, inbox, ckpt, asking, wake, drive, drain, job, active,
                 killing, history>>

\* A client retry with the same idempotency key finds the command appended, and
\* routes it by the mode its row has then.
MessageRetry(m, p) ==
  /\ req[m].pc = "done"
  /\ thread # "cancelled"
  /\ Unapplied(m)
  /\ Fault("retry")
  /\ req' = [req EXCEPT ![m] = [@ EXCEPT !.pc = "route", !.at = p,
                                          !.mode = row[m].mode]]
  /\ UNCHANGED <<dbVars, wake, drive, drain, job, active, killing, settled, reclaimed>>

(* answer_agent_interaction *)

\* claim_interaction_answer resolves the interaction and appends its command.
AnswerAccept(a, p) ==
  /\ ~Accepted(a)
  /\ asking # NoCmd
  /\ Accept(a, "resume", asking)
  /\ asking' = NoCmd
  /\ drive' = [drive EXCEPT ![p] = @ \cup {a}]
  /\ UNCHANGED <<taskVars, ckpt, wake, drain, job, active, req, killing, history>>

\* The duplicate and already_resolved outcomes schedule a drain.
AnswerRetry(a, p) ==
  /\ Accepted(a)
  /\ Fault("retry")
  /\ wake' = [wake EXCEPT ![p] = @ \cup {"answers"}]
  /\ UNCHANGED <<dbVars, drive, drain, job, active, req, killing, settled, reclaimed>>

-----------------------------------------------------------------------------
(* _drain_pending_commands, _recover_pending_commands and                    *)
(* _drain_interaction_continuations, serialised per process by the           *)
(* conversation lock                                                         *)

\* orphan: the head is leased and is no steering, so that even a running task
\* may be taken over for it.
DrainRead(p, kind) ==
  LET todo == Todo(kind)
      gate(c) == [pc |-> "gate", kind |-> kind, cmd |-> c,
                  orphan |-> row[c].disp = "delivered" /\ row[c].mode # "steering"]
  IN /\ kind \in wake[p] \ {"startup"}
     /\ ~Locked(p)
     /\ wake' = [wake EXCEPT ![p] = @ \ {kind}]
     /\ \/ todo = {} /\ UNCHANGED drain
        \/ \E i \in todo : /\ \A k \in todo : i <= k
                           /\ drain' = [drain EXCEPT ![p] = gate(inbox[i])]
     /\ UNCHANGED <<dbVars, drive, job, active, req, killing, history>>

DrainGate(p) ==
  LET kind == drain[p].kind
      stop == \/ thread = "cancelled"
              \/ kind = "answers" /\ status \in {"queued", "running"}
              \/ kind # "answers" /\ status = "cancelled"
              \/ kind # "answers" /\ status = "running" /\ ~drain[p].orphan
  IN /\ drain[p].pc = "gate"
     /\ drain' = [drain EXCEPT ![p] =
                    IF stop THEN NoDrain ELSE [@ EXCEPT !.pc = "drive"]]
     /\ wake' = IF stop /\ kind = "retry" /\ status = "running"
                  THEN [wake EXCEPT ![p] = @ \cup {"retry"}] ELSE wake
     /\ UNCHANGED <<dbVars, drive, job, active, req, killing, history>>

(* _run_agent_task *)

\* Snapshot of the command; reclaim_running is decided here.
Start(p, c, via, j) ==
  IF row[c].disp = "applied" \/ status = "cancelled"
    THEN UNCHANGED job
    ELSE /\ Forgotten(j)
         /\ job' = [job EXCEPT ![j] =
              [pc |-> "claim", at |-> p, cmd |-> c, via |-> via,
               reclaim |-> row[c].disp = "delivered" /\ row[c].mode # "steering",
               out |-> "none", seen |-> {}, sent |-> {}, queue |-> {},
               mark |-> NoCmd]]

StartDirect(p, c, j) ==
  /\ c \in drive[p]
  /\ drive' = [drive EXCEPT ![p] = @ \ {c}]
  /\ Start(p, c, "direct", j)
  /\ UNCHANGED <<dbVars, wake, drain, active, req, killing, history>>

StartDrained(p, j) ==
  /\ drain[p].pc = "drive"
  /\ Start(p, drain[p].cmd, drain[p].kind, j)
  /\ drain' = [drain EXCEPT ![p] = NoDrain]
  /\ UNCHANGED <<dbVars, wake, drive, active, req, killing, history>>

ClaimDelivery(j) ==
  LET c == job[j].cmd
  IN /\ job[j].pc = "claim"
     /\ IF Claimable(c)
          THEN /\ row' = Delivered(c, j)
               /\ job' = [job EXCEPT ![j].pc = "task"]
               /\ UNCHANGED wake
          ELSE EndUnowned(j) /\ UNCHANGED row
     /\ UNCHANGED <<taskVars, inbox, ckpt, asking, drive, drain, active, req,
                    killing, history>>

\* Mutant: the claim checks for a cancelled task only.
ClaimableWhileRunning(j) == thread # "cancelled" /\ status # "cancelled"

\* Mutant: the claim checks for a running task only.
ClaimableThoughCancelled(j) == status = "running" => job[j].reclaim

\* The condition of the update in claim_agent_task.
TaskClaimable(j) ==
  /\ thread # "cancelled"
  /\ status # "cancelled"
  /\ status = "running" => job[j].reclaim

\* A graph parked at its await_user node raises on a chat message: it accepts
\* interaction answers only.
Refuses(e) ==
  /\ status = "awaiting_user"
  /\ e.cmd \in Message
  /\ row[e.cmd].mode # "new_turn"

Elected(e) == [e EXCEPT !.pc = "begin", !.out = IF Refuses(e) THEN "raises" ELSE @]

\* The conditional update elects the running execution.
ClaimTask(j) ==
  LET open == TaskClaimable(j)
  IN /\ job[j].pc = "task"
     /\ job' = [job EXCEPT ![j] = IF open THEN Elected(@) ELSE [@ EXCEPT !.pc = "release"]]
     /\ status' = IF open THEN "running" ELSE status
     /\ reclaimed' = (reclaimed \/ (open /\ status = "running" /\ job[j].reclaim))
     /\ UNCHANGED <<thread, inbox, row, ckpt, asking, wake, drive, drain, active,
                    req, killing, faults, settled>>

Release(j) ==
  /\ job[j].pc = "release"
  /\ row' = Released({job[j].cmd}, "keep")
  /\ EndUnowned(j)
  /\ UNCHANGED <<taskVars, inbox, ckpt, asking, drive, drain, active, req,
                 killing, history>>

\* create_agent_execution and set_agent_thread_status(running).
Begin(j) ==
  /\ job[j].pc = "begin"
  /\ job' = [job EXCEPT ![j].pc = "attach"]
  /\ thread' = "open"
  /\ UNCHANGED <<status, inbox, row, ckpt, asking, wake, drive, drain, active,
                 req, killing, history>>

\* Failure before the graph starts: the turn fails, nothing is drained.
BeginFail(j) ==
  /\ job[j].pc = "begin"
  /\ Fault("failure")
  /\ status' = "failed"
  /\ thread' = "open"
  /\ job' = [job EXCEPT ![j] = Free]
  /\ UNCHANGED <<inbox, row, ckpt, asking, wake, drive, drain, active, req,
                 killing, settled, reclaimed>>

\* Publish the live graph: from here on messages of this process are steered to
\* it.  A pump that a cancelled run left behind here finds itself replaced.
Publish(j) ==
  LET stale == {i \in Job : job[i].pc \in {"zombie", "ghost"} /\ job[i].at = job[j].at}
  IN /\ job[j].pc = "attach"
     /\ active' = [active EXCEPT ![job[j].at] = j]
     /\ job' = [i \in Job |->
                  IF i = j THEN [job[j] EXCEPT !.pc = "join"]
                  ELSE IF i \in stale THEN Free ELSE job[i]]
     /\ UNCHANGED <<dbVars, wake, drive, drain, req, killing, history>>

\* aget_state: what the checkpoint has applied.
ReadCheckpoint(j) ==
  /\ job[j].pc = "join"
  /\ job' = [job EXCEPT ![j] = [@ EXCEPT !.pc = "seed", !.seen = ckpt]]
  /\ UNCHANGED <<dbVars, wake, drive, drain, active, req, killing, history>>

\* consume_command of one of those commands.
ConsumeSeen(j, c) ==
  /\ job[j].pc = "seed"
  /\ c \in job[j].seen
  /\ Unapplied(c)
  /\ row' = Consumed({c})
  /\ UNCHANGED <<taskVars, inbox, ckpt, asking, wake, drive, drain, job, active,
                 req, killing, history>>

\* Mutant: a new execution starts with an empty delivery set.
NothingSeeded(j) == {}

\* What is added to _steering_deliveries of a new execution.
Seeded(j) == job[j].seen

\* The delivery set is seeded once they are all consumed, and the graph starts.
Seed(j) ==
  /\ job[j].pc = "seed"
  /\ \A c \in job[j].seen : ~Unapplied(c)
  /\ job' = [job EXCEPT ![j] = [job[j] EXCEPT !.pc = "run", !.seen = {},
                                              !.sent = job[j].sent \cup Seeded(j)]]
  /\ UNCHANGED <<dbVars, wake, drive, drain, active, req, killing, history>>

\* The steering pump (and the deferred steering of the start): graph.steer.
PumpSteer(j, c) ==
  /\ job[j].pc \in {"run", "zombie"}
  /\ active[job[j].at] = j
  /\ job[j].mark = NoCmd
  /\ c \in Message /\ Unapplied(c)
  /\ row[c].mode = "steering"
  /\ row[c].turn = row[job[j].cmd].turn
  /\ c # job[j].cmd
  /\ c \notin job[j].sent
  /\ job' = [job EXCEPT ![j] = [Steered(@, c) EXCEPT !.mark = c]]
  /\ UNCHANGED <<dbVars, wake, drive, drain, active, req, killing, history>>

PumpMark(j) ==
  /\ job[j].mark # NoCmd
  /\ row' = Delivered(job[j].mark, j)
  /\ job' = [job EXCEPT ![j].mark = NoCmd]
  /\ UNCHANGED <<taskVars, inbox, ckpt, asking, wake, drive, drain, active, req,
                 killing, history>>

\* orchestrate drains the steering channel; the node's checkpoint records it.
GraphDrain(j) ==
  /\ job[j].pc = "run"
  /\ job[j].out # "raises"
  /\ job[j].queue # {}
  /\ ckpt' = ckpt \cup job[j].queue
  /\ job' = [job EXCEPT ![j].queue = {}]
  /\ UNCHANGED <<taskVars, inbox, row, asking, wake, drive, drain, active, req,
                 killing, history>>

\* request_interaction: the question is durable before the run has ended, and
\* binds the run to park at await_user.
GraphAsk(j) ==
  /\ job[j].pc = "run"
  /\ job[j].out = "none"
  /\ asking = NoCmd
  /\ "awaiting_user" \in Outcomes
  /\ job' = [job EXCEPT ![j].out = "awaiting_user"]
  /\ \E t \in Command : LatestTurn(t) /\ asking' = t
  /\ UNCHANGED <<taskVars, inbox, row, ckpt, wake, drive, drain, active, req,
                 killing, history>>

\* A streamed item after a cancel: the run returns and leaves its pump behind.
StreamCancelled(j) ==
  /\ job[j].pc = "run"
  /\ status = "cancelled"
  /\ job' = [job EXCEPT ![j].pc = "zombie"]
  /\ UNCHANGED <<dbVars, wake, drive, drain, active, req, killing, history>>

Detached(j) ==
  [p \in Process |-> IF p = job[j].at /\ active[p] = j THEN NoJob ELSE active[p]]

\* Mutant: the run keeps the outcome it started with.
OutcomeNotRead(j, out) == job[j].out

\* _agent_task_status projects the final graph state.
FinalOutcome(j, out) == out

GraphEnd(j, out) ==
  /\ job[j].pc = "run"
  /\ job[j].out \in {"none", out}
  /\ out = "awaiting_user" => job[j].out = out \/ asking # NoCmd
  /\ active' = Detached(j)
  /\ job' = [job EXCEPT ![j] = [@ EXCEPT !.pc = "settle", !.out = FinalOutcome(j, out),
                        !.mark = NoCmd,
                        !.queue = {}]]
  /\ UNCHANGED <<dbVars, wake, drive, drain, req, killing, history>>

\* The turn fails, the thread reopens, only answers are drained.
FailTurn(j) ==
  /\ active' = Detached(j)
  /\ status' = "failed"
  /\ thread' = "open"
  /\ wake' = [wake EXCEPT ![job[j].at] = @ \cup {"answers"}]
  /\ job' = [job EXCEPT ![j] = Free]
  /\ UNCHANGED <<inbox, row, ckpt, asking, drive, drain, req, killing, settled,
                 reclaimed>>

GraphRaise(j) ==
  /\ job[j].pc = "run"
  /\ job[j].out = "raises"
  /\ FailTurn(j)
  /\ UNCHANGED faults

GraphFail(j) ==
  /\ job[j].pc \in {"attach", "join", "seed", "run"}
  /\ Fault("failure")
  /\ FailTurn(j)

Success(j) == job[j].out \in {"completed", "awaiting_user"}

\* The outcome becomes durable; whoever else wrote the status is overwritten.
Settle(j) ==
  /\ job[j].pc = "settle"
  /\ status' = job[j].out
  /\ thread' = "open"
  /\ settled' = IF Success(j) THEN settled \cup {job[j].cmd} ELSE settled
  /\ job' = [job EXCEPT ![j].pc = "ack"]
  /\ UNCHANGED <<inbox, row, ckpt, asking, wake, drive, drain, active, req,
                 killing, faults, reclaimed>>

\* Mutant: a failed or partial run acknowledges too.
AckedAnyway(j) == {c \in ckpt \cup {job[j].cmd} : row[c].owner = j}

\* The primary and the checkpointed commands that this execution still owns.
Acked(j) ==
  IF Success(j) THEN {c \in ckpt \cup {job[j].cmd} : row[c].owner = j} ELSE {}

Ack(j) ==
  /\ job[j].pc = "ack"
  /\ row' = Consumed(Acked(j))
  /\ job' = [job EXCEPT ![j].pc = "transfer"]
  /\ UNCHANGED <<taskVars, inbox, ckpt, asking, wake, drive, drain, active, req,
                 killing, history>>

\* Unapplied steering of the turn is handed over; both drains are spawned.
Transfer(j) ==
  LET left == {c \in Message : /\ Unapplied(c)
                               /\ row[c].mode = "steering"
                               /\ row[c].turn = row[job[j].cmd].turn}
      mode == IF job[j].out = "awaiting_user" THEN "resume" ELSE "new_turn"
  IN /\ job[j].pc = "transfer"
     /\ row' = IF Success(j) THEN Released(left, mode) ELSE row
     /\ wake' = [wake EXCEPT ![job[j].at] = @ \cup {"answers", "pending"}]
     /\ job' = [job EXCEPT ![j] = Free]
     /\ UNCHANGED <<taskVars, inbox, ckpt, asking, drive, drain, active, req,
                    killing, history>>

-----------------------------------------------------------------------------
(* Leases *)

\* 30 seconds without a heartbeat.
LeaseLapse(c) ==
  /\ row[c].disp = "delivered"
  /\ row[c].fresh
  /\ \/ SlowOwners
     \/ ~(\E j \in Job : row[c].owner = j /\ job[j].cmd = c /\ Beating(j))
  /\ row' = [row EXCEPT ![c].fresh = FALSE]
  /\ UNCHANGED <<taskVars, inbox, ckpt, asking, memVars, history>>

Heartbeat(j) ==
  /\ job[j].pc \in {"attach", "join", "seed", "run", "settle", "ack", "transfer"}
  /\ row[job[j].cmd].owner = j
  /\ row[job[j].cmd].disp = "delivered"
  /\ ~row[job[j].cmd].fresh
  /\ row' = [row EXCEPT ![job[j].cmd].fresh = TRUE]
  /\ UNCHANGED <<taskVars, inbox, ckpt, asking, memVars, history>>

-----------------------------------------------------------------------------
(* cancel_agent_task *)

\* The status is read first, the work items are cancelled, and only then is the
\* task marked: the turn may have ended in between.
CancelRead(p) ==
  /\ killing[p] = "idle"
  /\ status \notin {"completed", "partial", "failed", "cancelled"}
  /\ Fault("cancel")
  /\ killing' = [killing EXCEPT ![p] = "mark"]
  /\ UNCHANGED <<dbVars, wake, drive, drain, job, active, req, settled, reclaimed>>

CancelMark(p) ==
  /\ killing[p] = "mark"
  /\ status' = "cancelled"
  /\ thread' = "cancelled"
  /\ killing' = [killing EXCEPT ![p] = "kill"]
  /\ UNCHANGED <<inbox, row, ckpt, asking, wake, drive, drain, job, active, req,
                 history>>

\* What a cancelled run leaves behind: its steering entry, and its pump when that
\* had been started.
Left(e) ==
  [e EXCEPT !.pc = IF @ \in {"join", "seed"} THEN "ghost" ELSE "zombie", !.seen = {}]

\* cancel_run cancels the runners of this process only; CancelledError skips
\* the run's exception handler, so a published entry stays behind.
CancelKill(p) ==
  /\ killing[p] = "kill"
  /\ killing' = [killing EXCEPT ![p] = "idle"]
  /\ job' = [j \in Job |->
               IF job[j].at # p \/ job[j].pc \in {"zombie", "ghost"} THEN job[j]
               ELSE IF active[p] = j THEN Left(job[j]) ELSE Free]
  /\ UNCHANGED <<dbVars, wake, drive, drain, active, req, history>>

(* Process death and startup recovery *)

Crash(p) ==
  /\ Fault("crash")
  /\ wake' = [wake EXCEPT ![p] = {"startup"}]
  /\ drive' = [drive EXCEPT ![p] = {}]
  /\ drain' = [drain EXCEPT ![p] = NoDrain]
  /\ job' = [j \in Job |-> IF job[j].at = p THEN Free ELSE job[j]]
  /\ active' = [active EXCEPT ![p] = NoJob]
  /\ req' = [m \in Message |->
               IF req[m].at # p THEN req[m]
               ELSE IF req[m].pc = "append" THEN NoReq
               ELSE [req[m] EXCEPT !.pc = "done", !.exec = NoJob]]
  /\ killing' = [killing EXCEPT ![p] = "idle"]
  /\ UNCHANGED <<dbVars, settled, reclaimed>>

Startup(p) ==
  /\ "startup" \in wake[p]
  /\ wake' = [wake EXCEPT ![p] =
       (@ \ {"startup"})
         \cup (IF status = "queued" THEN {"pending"} ELSE {})
         \cup (IF status # "cancelled" /\ Todo("retry") # {} THEN {"retry"} ELSE {})]
  /\ drive' = [drive EXCEPT ![p] = @ \cup {a \in Answer : Unapplied(a)}]
  /\ UNCHANGED <<dbVars, drain, job, active, req, killing, history>>

-----------------------------------------------------------------------------
RunStep(j) ==
  \/ ClaimDelivery(j) \/ ClaimTask(j) \/ Release(j) \/ Begin(j) \/ Publish(j)
  \/ ReadCheckpoint(j) \/ Seed(j) \/ \E c \in Command : ConsumeSeen(j, c)
  \/ GraphDrain(j) \/ GraphRaise(j) \/ \E out \in Outcomes : GraphEnd(j, out)
  \/ Settle(j) \/ Ack(j) \/ Transfer(j) \/ PumpMark(j)
  \/ \E c \in Message : PumpSteer(j, c)

ProcessStep(p) ==
  \/ \E kind \in DrainKind : DrainRead(p, kind)
  \/ DrainGate(p)
  \/ \E j \in Job : StartDrained(p, j)
  \/ \E j \in Job, c \in Command : StartDirect(p, c, j)
  \/ Startup(p)
  \/ CancelMark(p)
  \/ CancelKill(p)

Learner ==
  \/ \E p \in Process, m \in Message : MessageRead(m, p) \/ MessageRetry(m, p)
  \/ \E p \in Process, a \in Answer : AnswerAccept(a, p) \/ AnswerRetry(a, p)
  \/ \E p \in Process : CancelRead(p)

RequestStep(m) == MessageAppend(m) \/ MessageRoute(m) \/ MessageMark(m)

Environment ==
  \/ \E j \in Job : \/ GraphAsk(j) \/ StreamCancelled(j) \/ Heartbeat(j)
                    \/ BeginFail(j) \/ GraphFail(j)
  \/ \E c \in Command : LeaseLapse(c)
  \/ \E p \in Process : Crash(p)

Next ==
  \/ \E j \in Job : RunStep(j)
  \/ \E p \in Process : ProcessStep(p)
  \/ \E m \in Message : RequestStep(m)
  \/ Learner
  \/ Environment

Spec == Init /\ [][Next]_vars

-----------------------------------------------------------------------------
(* Fairness.  A coroutine that is not waiting for something is eventually   *)
(* scheduled; asyncio.Lock wakes its waiters in order, so a spawned drain   *)
(* gets the conversation lock even though others keep taking it; a lease    *)
(* without a heartbeat lapses; a restarted process recovers.  Nothing is    *)
(* assumed of the learner, of faults, or of when a graph asks a question.   *)

Fairness ==
  /\ \A j \in Job : WF_vars(RunStep(j))
  /\ \A m \in Message : WF_vars(RequestStep(m))
  /\ \A c \in Command : WF_vars(LeaseLapse(c))
  /\ \A p \in Process :
       /\ \A kind \in DrainKind : SF_vars(DrainRead(p, kind))
       /\ WF_vars(DrainGate(p))
       /\ WF_vars(\E j \in Job : StartDrained(p, j))
       /\ \A c \in Command : WF_vars(\E j \in Job : StartDirect(p, c, j))
       /\ WF_vars(Startup(p) \/ CancelMark(p) \/ CancelKill(p))

FairSpec == Spec /\ Fairness

-----------------------------------------------------------------------------
(* Properties *)

\* Every variable keeps the shape of the columns and fields it stands for.
TypeOK ==
  /\ status \in Status
  /\ thread \in {"open", "cancelled"}
  /\ inbox \in Seq(Command)
  /\ row \in [Command -> Row]
  /\ ckpt \subseteq Command
  /\ asking \in Command \cup {NoCmd}
  /\ wake \in [Process -> SUBSET DrainKind]
  /\ drive \in [Process -> SUBSET Command]
  /\ drain \in [Process -> Drain]
  /\ job \in [Job -> Execution]
  /\ active \in [Process -> Job \cup {NoJob}]
  /\ req \in [Message -> Request]
  /\ killing \in [Process -> {"idle", "mark", "kill"}]
  /\ faults \in 0..MaxFaults
  /\ settled \subseteq Command
  /\ reclaimed \in BOOLEAN

\* "Only then may the primary command be acknowledged" (runtime_adapter.py:1197):
\* whatever crashes, fails or is taken over, a command is consumed only once an
\* execution persisted its successful outcome or a checkpoint contains it.
AckAfterOutcome ==
  \A c \in Command : row[c].disp = "applied" => c \in settled \cup ckpt

\* claim_agent_task elects one execution: two run at the same time only if one
\* was let in by reclaim_running, never by a race of request handlers, drains,
\* recoveries and a cancellation that the running execution later overwrites.
OverlapNeedsReclaim ==
  ~reclaimed => \A i, j \in Running : i = j

\* "Run accepted commands in ledger order" (runtime_adapter.py:1285): an
\* execution started by the pending drain works on a command before which
\* everything accepted is already applied, also while new commands arrive and
\* other processes claim, transfer and acknowledge.
HeadOfLine ==
  \A j \in Job :
    job[j].pc \notin {"free", "zombie", "ghost"} /\ job[j].via \in {"pending", "retry"} =>
      \A i, k \in Index :
        i < k /\ inbox[k] = job[j].cmd => row[inbox[i]].disp = "applied"

\* Steering recorded in the checkpoint is not handed to a later graph again,
\* although its row may still be unapplied when that graph starts: a graph whose
\* delivery set is seeded (runtime_adapter.py:983) refuses it, from its pump, from
\* a late route and from a retry, also when a cancel has left the pump behind.
\* Between 971 and 983 the graph is published and its set is empty: see
\* SteeredByNone.
SteeredOnce ==
  [][~reclaimed' =>
       \A j \in Job : ~Unseeded(j) =>
         (job'[j].queue \ job[j].queue) \cap ckpt = {}]_vars

\* Once a cancelled task has no execution left, nothing brings it back: no drain,
\* recovery, retry or answer in any process starts one or changes the status.
CancelledStaysQuiet ==
  [][status = "cancelled" /\ Running = {} =>
       status' = "cancelled" /\ Running' = {}]_vars

Ledger == INSTANCE CommandLedger WITH
            accepted <- inbox,
            recorded <- settled \cup ckpt,
            acked    <- {c \in Command : row[c].disp = "applied"}

\* The inbox implements the abstract ledger: order of acceptance is kept, no
\* command is accepted twice, an acknowledgement follows the durable effect and
\* is never undone by a late lease write, transfer or heartbeat.
ImplementsLedger == Ledger!Spec

\* Recovery after a restart finds a task left running and ends its turn, by
\* retrying until the dead execution's lease lapses (runtime_adapter.py:1344).
RunningEnds == status = "running" ~> status # "running"

-----------------------------------------------------------------------------
(* Claims of the code's comments that the code does not keep *)

Applied(c) == row[c].disp = "applied"

\* claim_agent_task: a conditional update "prevents startup recovery, retries,
\* and the original request from running the same task twice"
\* (store/repositories/agent_tasks.py:322).
RunExclusion == \A i, j \in Running : i = j

\* The finishing execution drains answers "so a learner who answers quickly is
\* not left waiting for a process restart" (runtime_adapter.py:1355).
AnswersApplied == \A a \in Answer : Accepted(a) ~> Applied(a)

\* "A failed turn closes only the turn; the thread returns to open so the learner
\* can keep talking" (runtime_adapter.py:1131).
TalksAfterFailure ==
  \A m \in Message :
    (req[m].pc = "append" /\ req[m].mode = "new_turn" /\ status = "failed") ~> Applied(m)

\* "A message while the graph waits resumes the current turn" (agent_tasks.py:690).
ResumesWaitingTurn ==
  \A m \in Message : (Accepted(m) /\ row[m].mode = "resume") ~> Applied(m)

\* The checkpoint's commands enter the delivery set so that a restart does not
\* steer them again (runtime_adapter.py:973-983), whenever a message is routed.
SteeredByNone ==
  [][~reclaimed' =>
       \A j \in Job : (job'[j].queue \ job[j].queue) \cap ckpt = {}]_vars

\* A steering message "must not also become a queued conversation item and replay
\* as a second turn" (agent_tasks.py:756).
SteeringNotReplayed ==
  \A j \in Running : job[j].cmd \in Message => job[j].cmd \notin ckpt
=============================================================================
