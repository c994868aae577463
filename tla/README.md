# A TLA+ model of the LingxiLearn agent runtime

LingxiLearn runs learning tasks: a learner talks to a *thread* (`agent_tasks`),
every turn of it is executed as a graph of agents, and everything that must
survive a restart is kept in PostgreSQL. Production has at least two server
processes on one database, the API and the scheduler, and both start the whole
`ApplicationServices`, recovery included (`scheduler_worker.py`,
`ARCHITECTURE.md`, "Production topology"). Within a process everything is an
asyncio coroutine. The hard part of the program is therefore not an algorithm
but the order of small steps: conditional updates, leases with heartbeats,
process-local locks, drains that look once, cancellations and startup recovery.
That is what these modules describe.

Paths below are relative to `src/server/lingxilearn/`.

## Inventory

| Component | State it keeps | Operations | Where it is hard |
|---|---|---|---|
| Turn runner and command inbox (`application/runtime_adapter.py`, `application/agent_tasks.py`, `store/repositories/work_ledger.py` 37-372, `store/repositories/agent_tasks.py` 312-352) | `agent_tasks.status` / `thread_status`, `command_inbox`, graph checkpoint; per process: conversation locks, runners, `_active_steering` | message, answer, cancel, drain, run, steer, acknowledge, hand over, recover | two processes, leases, several coroutines that want to run the same task, restart at any await |
| Work ledger and dispatch (`store/repositories/work_ledger.py` 379-911, `runtime/dispatch/`, `runtime/nodes/execution.py`) | `agent_turns.revision`, `work_items`, `work_dependencies`, `budget_ledger` | plan, claim, finish, cancel, confirm, requeue | read-modify-write transactions under READ COMMITTED, leases under one shared owner name |
| Interactions and outbox (`store/repositories/runtime.py`, `runtime/interactions.py`, `application/agent_tasks.py`) | `agent_interactions`, their answers, outbox rows, continuation commands | ask, park, answer, publish, resume, recover | answer racing the run that asked; publishers in two processes; a crash between the commit and the announcement |
| Event log (`application/agent_events.py`, `api/agent_events.py`, the flushes of `application/runtime_adapter.py`) | events with sequence numbers; per execution a buffer | emit, flush, stream, page | flushes behind the back of the stream loop; paging while others publish |
| Delivery board (`runtime/nodes/orchestration.py`, `runtime/nodes/execution.py`, `application/agent_tasks.py` 986-1047) | the column `agent_task_state.board`: held artifacts, the learner's queue and its cursor | plan, close a hold, hold a result, acknowledge | every writer saves a whole board it read earlier; the lock is memory of one process, and the planner awaits a model without it |
| Learning loop (`runtime/graph.py`, `runtime/orchestrator.py`, `runtime/evaluation.py`, `runtime/guardrails.py`, `runtime/nodes/`, `state/agent_task_state.py`) | graph state in the checkpoint; phase, budget, goals, decisions in the database | interpret, orchestrate, dispatch, observe, update, evaluate, wait | two stores that must agree, a crash between them, bounded repair, termination |
| Evidence ledger and learner profile (`store/runtime_state.py`, `store/profile_writer.py`, `runtime/state_updater.py`) | `learning_evidence`, `learning_profile`, the projection cursor | append, fold, advance | a fold of five transactions; two folds at once; collisions on the sequence number |
| Schedules (`runtime/schedules.py`, `scheduler_worker.py`, `store/repositories/agent_tasks.py` 171-282) | `agent_schedules`, `agent_schedule_runs` | claim a slot, launch, finish | launch that outlives its lease, failure after the launch |
| Agent runs and their projections (`runtime/dispatch/`, `runtime/execution.py`, `runtime/public_projection.py`, `runtime/timeline.py`, `runtime/trajectory.py`) | `agent_runs`, `skill_runs`, snapshots; per execution the projectors | start, end, project, snapshot | a cancellation at any await leaves rows and stream apart |
| Planning and ranking (`runtime/candidates.py`, `runtime/orchestrator.py`, `runtime/guardrails.py`, `state/gain.py`, `runtime/dispatch/binding.py`) | none between rounds | score, validate, guard, bind | five filters in a row, each of which may drop or replace what was chosen |
| Content providers (`agents/providers/content.py`, `agents/skill_runtime.py`, `agents/artifact_store.py`) | draft areas and served files on disk | stage, publish, build, validate, settle | parallel attempts share draft and file; files are written before they are validated |
| Learner's files (`application/artifacts.py`, `application/workspace_artifacts.py`, `store/repositories/artifacts.py`) | `artifacts` rows and blobs | project, create, rename, replace, delete | rows and blobs are not one transaction; projections of two processes and requests overlap |
| Lecture deck skill (`src/skills/interactive-lecture-deck`) | a project directory, a player | scaffold, measure, build, validate, play | interrupted scripts; slides that load while the viewer moves |
| Mastery kernel (`kernel/`), review intervals (`state/scheduling.py`) | none, pure functions | weigh evidence, update mastery, grade, schedule a review | boundary values |
| Model backends, HTTP interface, web client | none of their own | create, read, render | no ordering of their own |

How they interact: a request handler appends a *command* to the inbox and then
either resumes the turn, hands the command to the graph that this process runs
(*steering*), or spawns a drain. Whoever runs the task first takes the
command's delivery lease, then the task row (`claim_agent_task`), then runs the
graph. Inside the graph, the orchestrator commits a plan with its reservation
and items, and the dispatch node claims and finishes the items. A question to
the learner is committed by the graph, the answer arrives as another command.
What providers observe goes into the learner's ledger of evidence, which all
tasks of the learner share, and from there into the profile the goal is judged
by; what they produce is held on the task's board until a later plan revises it
or releases it to the learner's queue, which an acknowledgement moves on.
When the run ends it persists the outcome, acknowledges the commands it applied
and hands the rest over. Schedules create tasks; the event log and the
projections only listen.

What makes each part correct:

- *Inbox*: commands keep their order, are accepted once, are acknowledged only
  after their effect is durable, and an acknowledgement is final.
- *Election*: one execution per task; a cancelled task stays cancelled; a task
  that is running ends, whoever dies.
- *Steering*: given to one graph once; not run again as a turn.
- *Work ledger*: an item has one attempt at a time, starts after its
  dependencies, and the budget never forgets what is outstanding.
- *Interactions*: one answer per question, recorded and announced once; the
  client is told the truth about its own answer.
- *Schedules*: one task per slot, and no slot blocks the ones after it.
- *Learning loop*: graph and database agree on the phase, a round that was
  opened is closed, the budget ends the loop, every turn ends.
- *Evidence*: an observation enters the profile once, before a goal is judged.
- *Board*: an artifact is never lost, the learner never stuck in front of a
  locked queue, and what was acknowledged stays so.
- *Event log*: a subscriber sees every event once and in order.
- *Agent runs*: what starts ends, in the stream and in the database alike.
- *Planning*: nothing runs that was not asked for, and what runs is what was chosen.
- *Materials*: a success is a valid file; the learner's files keep their content
  and her edits; the player shows the slide it is at.

The hazards behind these, each at its line, are in `PROJECT.json`.

## The turn runner: `TurnRunner`, `CommandLedger`

One thread; a fixed set of commands the learner may send; several processes;
executions drawn from a pool (an identity is reused when nothing refers to it
any more). One action is one database transaction plus the local code up to the
next `await`.

| Variable | In the code |
|---|---|
| `status`, `thread` | `agent_tasks.status`, and whether `thread_status` is `cancelled`, all that guards look at |
| `inbox`, `row` | `command_inbox` in sequence order; disposition, mode, owner, whether the lease is younger than 30 s (`fresh`), and the turn it belongs to |
| `ckpt` | `applied_command_ids` of the graph checkpoint |
| `asking` | turn of the pending blocking question |
| `wake`, `drain` | spawned drains waiting for the conversation lock, and the one that holds it; waiting drains of the same kind in one process are merged |
| `drive` | `_drive_agent_task` coroutines spawned by `start_turn` / `resume_turn` |
| `job` | executions inside `_run_agent_task`; the `pc` names the next await |
| `active` | `_active_steering` of each process |
| `req`, `killing` | `agent_message` and `cancel_agent_task` requests between two awaits |
| `faults`, `settled`, `reclaimed` | history: faults so far, commands with a persisted success, whether `reclaim_running` took over a running task |

Actions, in the order of the code:

- `MessageRead`, `MessageAppend`, `MessageRoute`, `MessageMark`, `MessageRetry`:
  `agent_message`. The status is read, the command appended, then routed by the
  mode of the command that `append_command` returns: the one decided at the first
  read, or on a retry that of the row. `MessageMark` is the write of
  `mark_command_delivered` that follows `graph.steer`.
- `AnswerAccept`, `AnswerRetry`: `answer_agent_interaction`.
- `DrainRead`, `DrainGate`, `StartDrained`, `StartDirect`: the drains, which
  read the first unapplied command, look at the task, and start an execution.
- `ClaimDelivery`, `ClaimTask`, `Release`, `Begin`, `BeginFail`, `Publish`,
  `ReadCheckpoint`, `ConsumeSeen`, `Seed`: the first half of `_run_agent_task`, up
  to the running graph. It is published in `_active_steering` (971) before
  `aget_state` (972), the consumption of what the checkpoint has applied (982) and
  the seeding of its delivery set (983), and messages are routed to it meanwhile.
- `PumpSteer`, `PumpMark`, `GraphDrain`, `GraphAsk`, `GraphEnd`, `GraphRaise`,
  `GraphFail`, `StreamCancelled`: the graph seen from outside.
- `Settle`, `Ack`, `Transfer`: outcome, acknowledgement, hand-over.
- `LeaseLapse`, `Heartbeat`, `CancelRead`, `CancelMark`, `CancelKill`, `Crash`,
  `Startup`.

Two things in it are easily overlooked in the code and are deliberate in the
model. A cancelled asyncio task skips `except Exception`, so the steering pump
and the `_active_steering` entry of a killed run stay behind (`zombie`; `ghost` for
a run killed between the entry and the pump). And a
graph parked at `await_user` raises on anything but an interaction answer
(`Refuses`).

`CommandLedger` is the promise of the inbox alone: `Accept`, `Record`,
`Acknowledge`. `TurnRunner` implements it under the mapping *accepted = inbox*,
*recorded = settled and checkpointed commands*, *acked = rows applied*
(`ImplementsLedger`).

## The work ledger: `WorkLedger`

One task, the plans its orchestrator commits, the items of each plan. The
executions are those the turn runner may have alive at the same time, more than
one included (see `TurnExclusion.cfg` below).

| Variable | In the code |
|---|---|
| `revision` | `agent_turns.revision` |
| `item` | `work_items.status` and its lease: none, live, or older than 60 s |
| `ledger` | `budget_ledger` of each plan revision: reserved and used |
| `cancelled` | `agent_tasks.status = 'cancelled'` |
| `exec`, `attempt` | the graph executions and `Dispatcher.run` for each item |
| `desk` | the request or startup handler of each process |
| `tx` | open transactions with what they have read |
| `faults`, `achieved`, `spent`, `revoked` | history: faults, items ever committed as succeeded, usage of committed attempts, whether a kept lease lapsed or a cancellation happened |

PostgreSQL runs these transactions under READ COMMITTED. `claim_work_item`
reads its row `FOR UPDATE` and `create_work_plan` updates the turn row
conditionally: each is one action. `finish_work`, `cancel_work` and
`confirm_work` read without a lock and write absolute values; each is split into
the read (`Finish`, `CancelWork`, `Confirm`), the flush of the item together
with the read of the budget row (`TxUpdate`, which waits for the row lock), and
the commit (`TxCommit`). `recover_expired_work` is `RecoverRead` and
`RecoverCommit`. Every execution of a task claims under the same owner name
(`dispatcher:{task_id}`), so the owner check of `finish_work` can only be a
check of the status, which is how `Finish` has it.

One resource stands for tokens, heavy work and wall time, which the code treats
in the same way, and every item reserves one unit of it. `LastRevision` bounds
the number of plans.

## The scheduler: `Scheduler`

Several workers, one per process, poll for schedules that are due. Time is
counted in slots; what croniter computes is the constant `NextTime`.

| Variable | In the code |
|---|---|
| `now` | the clock |
| `sched` | `agent_schedules`: status, `next_run_at`, lease: none, live, or older than 60 s |
| `run` | status of the `agent_schedule_runs` row of each slot |
| `worker` | `run_once` of each worker: the claim, how far its task has got, what it has loaded |
| `faults`, `launches`, `repeated`, `given_up`, `overtaken` | history |

`Poll` is `claim_due_schedule`, one transaction that locks its row; `Skipped`
stands for `SKIP LOCKED`. `Launch` creates the task, `Ready` is the loop that
waits for its execution, `FinishRead` and `FinishStore` are
`finish_schedule_claim`, which loads the row without a lock and writes the
columns that differ. `TaskProgress` is the part of `_run_agent_task` that
matters here: the task shows an execution id before that execution has a row,
and a claim stored in between fails on the foreign key. `GiveUp` is every way in
which a launch ends without being stored: a failure, the timeout, a crash.

Two branches of `claim_due_schedule` turn out to be unreachable while launches
are faster than their lease: the insert that loses a race for the slot (the row
of the schedule is locked) and the slot that is started already (`NeverStuck`).
When a launch is slower, its worker stores the next slot computed from its own,
older claim: the schedule moves back to a slot that is started, the poll
releases the lease and returns, and the schedule stays there; being the most
overdue, it also takes the polls of the others. TLC shows this when `overtaken`
is dropped from `NeverStuck` and `DueRuns`.

## Questions and the event log: `QuestionBoard`, `Interactions`, `EventLog`

`QuestionBoard` is what the interaction machinery promises: a question is asked
once, one answer settles it for good (`Settle`), that answer is announced at
most once (`Tell`), and the graph takes in no other (`Take`). `Interactions`
implements it. It extends `EventLog`, which holds the durable log, its writers'
buffer and its readers, and has no behaviour of its own.

| Variable | In the code |
|---|---|
| `status`, `row`, `answers`, `command`, `outbox` | the task row, `agent_interactions`, their answers, the continuation command of each question, unpublished outbox rows |
| `ckpt` | where the graph's checkpoint stands, with its pending question |
| `run`, `wake` | the live execution; spawned resumes and drains |
| `req`, `pub`, `up` | answer requests; each `publish_interaction_outbox`, by a request or by startup; life cycle of a process |
| `log`, `buffer`, `flying` | `agent_task_events`; the execution's buffer; batches taken out of it by a `flush_buffer` |
| `sub`, `seen`, `shot` | the generator that serves a client and what the client has received; one reader of the paged snapshot |
| `emitted`, `taken`, `faults` | history |

Every writer of these rows locks the task row before it reads anything, so one
transaction is one action. At most one execution is alive at a time here, and
its end (status, turn row, acknowledgement) is one step: overlap and the steps
of the end are the subject of `TurnRunner`. One log row stands for the native
event and the rows derived from it. `Claim` has the four outcomes of
`claim_interaction_answer`; the order in which several outbox rows go out is
left open. A notification only shortens a wait that the heartbeat bounds, which
is why `WakeUp` needs no cause. A drain does not publish the outbox; startup
does (`StartupPublish` is the mutant that forgets).

## The learning loop: `RuntimeLoop`, `EvidenceLedger`

`EvidenceLedger` is one learner's evidence. Executions of several tasks append
observations (`append_evidence`: read the highest number, insert, retry on a
collision of the unique index) and fold what lies behind the cursor into the
profile: cursor, page and profile rows are read in three transactions, profile
and cursor written in two more.

| Variable | In the code |
|---|---|
| `ledger`, `profile`, `cursor` | `learning_evidence` in the order of commits, `learning_profile`, `projection_cursor`; a profile row counts how often each ledger row went into it |
| `at`, `job` | the process that executes a task, and what it does with the evidence |
| `begun`, `overlapped` | history: observations reported; folds of two processes at the same time |

`RuntimeLoop` extends it with the graph of a task. A node works on a copy of the
state (`exec.mem`) and the checkpoint is written when it returns; what it wrote
to the database before is not undone by a crash.

| Variable | In the code |
|---|---|
| `phase`, `budget`, `stack`, `decisions` | `agent_task_state.runtime_status`, `budget`, the open goals, the highest step of `decision_trace` |
| `command`, `ckpt` | the prompt or answer in the inbox; the checkpoint |
| `exec` | node, point within it, copy of the state, announced rounds, tier at work |
| `reentered`, `turns`, `crashes` | history |

The transition table `_TRANSITIONS` is `Follows`. The steps inside a node follow
its transactions: `Orchestrate` to `Decided`, `NextTier` to `Dispatched`,
`Observe`, `Update`, `Updated`, and the branches of `evaluate_goal` (`Achieved`,
`TurnComplete`, `NoProgress`, `Replan`). A message, also one recovered after a
crash, enters at START with a new state and the stored budget; an answer goes on
from the checkpoint. The tasks of a tier run one after another here, since their
parallelism matters to the ledgers only and those are modelled with parallel
writers. One limit, steps, stands for the limits of the budget. `no_progress`
looks at the last three outcomes; plans here have at most two tasks.
`set_override` has no caller, and background work is never queued by the service:
both are left out.

## The delivery board: `DeliveryBoard`

| Variable | In the code |
|---|---|
| `board` | the column `agent_task_state.board`: `holds` with their revision numbers, the `delivery` queue, its `cursor` |
| `run` | the execution: planning (reads the board, awaits the model), closing (holds to be released), storing (a result to be held), and the board it has read |
| `todo`, `fresh` | planned tasks not settled yet; task keys not used so far |
| `ack`, `commands` | acknowledgement requests and the board they will save; the artifact of each idempotency key |
| `revised`, `split`, `crashes` | history: revisions that produced their artifact; whether the locks of two processes were held at the same time |

Every writer reads the whole board in one transaction and saves it in another.
`ReadForHold`/`SaveHold` and `ReadForAck`/`SaveAck` hold `hold_sweep_locks[task]`
in between, which is memory of their process; `ReadForPlan` … `SavePlan` hold
nothing while the model is awaited. A plan may ask for any order of the
artifacts, so what the stored order says decides nothing and is not kept. A plan
may name one hold both for revision and for closing, as the validator lets it.
Every task produces one artifact, as every provider does. The read and the write
inside `save_board` are one step. Holds swept by background work cannot occur
(nothing is queued there) and are left out.

Two disagreements with what the comments promise show up as conditions of the
properties: an acknowledgement saved while a plan is being made is taken back
when the plan is saved (`AckReverted.cfg`), and an artifact put in front of the
cursor by a later plan is passed without having been consumed
(`DeliverySkipped.cfg`). Two more are losses after a crash: a result whose work
item is finished but whose hold was not saved is not held again, and a keyed
acknowledgement that was accepted but not saved is answered as a duplicate when
it is repeated.

## Runs of agents: `AgentRuns`

One execution, one tier of its plan. A tier has tasks that run beside each other
and tasks that run one after another (`EXECUTE`), and a provider may delegate to
a child run.

| Variable | In the code |
|---|---|
| `row`, `execRow`, `log` | `agent_runs` and `skill_runs`; status and snapshot of `agent_executions`; the public stream |
| `att`, `doomed` | each attempt with its next await; attempts that a cancellation has reached and that have not run since |
| `graph`, `main`, `dropped` | the graph; the stream loop of `_run_agent_task`; whether the loop has gone and left the graph's generator behind |
| `terminal`, `open`, `ended`, `buffer`, `flying` | what `ExecutionProjector`, `PublicProjector` and the flushes remember |
| `req` | `cancel_agent_task`, in this process or another |
| `spoiled`, `faults` | history: whether a batch of events was lost |

`Create`, `Ends`, `Close` are `begin`, `invoke` and `finish_identity`;
`UnwindQuietly` and `UnwindProvider` are a `CancelledError` at an await outside
and inside the provider. A row is written by two transactions, agent run and
skill run, and the code goes on when one raises. A flush is a batch taken out of
the buffer under the flush lock (`TakeBuffer`), its rows appended (`Stored`) and
the snapshot written (`SnapshotStored`). A cancellation reaches the graph when
the stream loop waits for it; otherwise the loop is killed and the graph stays
behind until the event loop finalises its generator (`Finalised`).

The module states what the code keeps under all this; what it does not keep are
conditions of the properties. A batch that could not be appended is lost, and a
run whose start was in it ends without having started. A flush that fails inside
the stream loop has `run.failed` told while runs are open. A crash closes no row
of `agent_runs`. A failed insert leaves an end in the stream and no row.

## A round's decision: `Planning`

| Variable | In the code |
|---|---|
| `world` | what `_world` and `orchestrate` have read: targets and prerequisites with their mastery, artifacts, questions, requests, holds, what is left of the budget |
| `offered` | `generate(...)`, `eligible_only(...)`: the candidates the model is shown, with their utility |
| `plan`, `allowed` | the validated `OrchestrationPlan`; the task identifiers `check_plan` lets through |
| `tiers`, `runs` | how many tiers have been dispatched; for each task that ran, the skill and its outcome |

One behaviour is one round: `DecidePlan` (the answer of the model, any that
`Answers` has, with `_validate_plan_output`), `Guard` (`check_plan` and what
`orchestrate` persists), `RunTier`, `EndRound`. `Scored` is `generate`: gains,
costs and utilities in ten-thousandths, so that the code's arithmetic is exact.
`Validates` and `Guarded` are the checks in the order of the code. The module
shares no variable with `DeliveryBoard`; `MCDeliveryBoard` has both, and its
variable `scene` says which of them a behaviour is about.

## Materials: `Materials`, `WorkspaceFiles`, `LectureDeck`

`Materials` is one kind of artifact (lesson introduction, deck, visual) of one
task: the draft area and the served file on disk, the attempts at it, the holds
on what they produced, over two executions. An attempt opens its draft
(`LessonBegins`, `DeckBegins`, `VisualBegins`), its model stages pages
(`Stage`), the provider moves the result over the served file (`LessonReturns`,
`DeckReturns` with `BuildReads` and `BuildWrites`, `VisualReturns`), validates
what it has moved, and settles (`Settles`); the dispatcher then records the
result (`Persists`, `ChecksDone`). An agent that raises ends its attempt without
publishing (`ModelFails`). Attempts of one round overlap. A page is who
wrote it last and whether its validator accepts it.

`WorkspaceFiles` is what becomes of the served page in the learner's workspace:
rows, blobs, projections, and her own requests. API and scheduler both run
executions, on one database and one volume (`docker-compose.yml` 106-141), so
`run` is the process of the task's execution, or how the last one ended, and a
projection works `at` a process: one that a flushed `artifact.ready` asks for
(`ready`), or the one that is `due` in a process after a normal end
(`ExecutionEnds`). An execution that raises or is cancelled (`ExecutionBreaks`) or
dies with its process (`ProcessDies`) projects nothing. The lock keeps apart the
projections of one process (`LockFree`); the learner's requests take none. Blobs
are written before the row that names them is committed and removed after it has
stopped to (`Purges`). A save may be refused (`Rejected`), raise before its commit
(`SaveFails`), after it in the refresh of the row (the second branch of `Saves`), or
be cut off anywhere (`Interrupted`); all but the last delete the new blob. Three
history variables say what the properties exempt: `missed`, a projection failed
or the learner deleted since the last end; `crossed`, projections of two processes
have overlapped; `lost`, the keys that a refresh that raised has left without a
blob. Names are the file's own or the learner's; the counter `generation` of the
metadata is left out, since nothing reads it but the save that counts it.

`LectureDeck` is the bundled deck skill: `init_project.py`, which writes file by
file and may be interrupted; the author's edits; `measure_anchors.py`;
`build_standalone.py`; `validate_deck.py`; and the player, whose slides load
while the viewer moves and whose guard of the camera fires late. Style and
wording of a page are one verdict (`clean`).

The three share no variable; `scene` of `MCMaterials` chooses between them.

## Runs

| Run | Question | Instance | States, time (2 workers) |
|---|---|---|---|
| `turn_commands` | acknowledgement, election, order, cancellation, single steering, refinement | 2 processes; 3 executions and a message with one fault of any kind, or 2 executions, a question and its answer, leases that lapse under a live owner, partial turns, one cancel or retry | 2.0 million, 85 s |
| `turn_recovery` | a running task ends | 1 process, 3 executions, 3 crashes or failures | 9 thousand, 4 s |
| `question_board` | honest replies, order of rows, refinement | 2 processes, 2 questions, 2 requests, 2 keys, 2 payloads; one question with two of crash, failed publish, failed flush and raising node; or five rows of executions in several batches and turns with one fault and one learner; or both questions in a row, without fault | 1.0 million, 56 s |
| `event_stream` | every row arrives, once and in order; an answer is told | one of each, pages of 2 rows, a log of up to 4, one crash, broken connection, cancel, failed publish or flush, or raise | 194 thousand, 70 s |
| `learning_loop` | phases, rounds, budget, every turn ends | 1 task, plans of one tier, two tiers and two parallel tasks, 2 steps, 1 replan, 2 goals, 3 messages or answers, a crash | 964 thousand, 76 s |
| `shared_evidence` | folded once, judged on what was observed | a loop and another execution, 2 processes, 2 points, 3 observations, pages of 2, a crash | 4.1 million, 86 s |
| `delivery_board` | nothing lost, queue never stuck, revisions bounded, acknowledgements kept; nothing runs unasked or under another skill | 2 processes, 2 artifacts and one order of them, 2 requests, a crash anywhere; or one round: nine skills, three thousand worlds that are scored and four whose decisions are explored, plans of up to two tasks | 857 thousand, 40 s |
| `learner_materials` | successes are served, files keep blobs and edits and show the page, the player shows its slide | 3 attempts with one staged page each; or the workspace of 2 processes with 2 pages: 2 requests beside the projections of one process with 3 blobs, projections of both processes beside one request with 3 blobs and no failure, and the same with 2 blobs and one failure or crash; or a deck of 3 or 4 slides, 3 boxes, an edit, an interrupted script, 3 moves | 3.1 million, 150 s |
| `agent_runs` | spans nest, rows and stream agree, every run ends | four tiers: a task beside one that delegates; a delegating task in its turn; the same at the join; two in a row; one failed write, failed flush or raising graph in the last three; cancellation from either process at any point | 1.0 million, 70 s |
| `work_plans` | one attempt, dependencies, reservations within and across plans | 2 processes, 2 executions, 2 plans: two parallel items, one that depends on both, and in the second plan one to confirm; a budget that fits or does not; one crash, kill, cancel or confirmation | 2.2 million, 85 s |
| `scheduler_slots` | one task per slot, no standstill, no backlog, due slots run | 2 workers, an hourly schedule that stays approved and a slower one, 3 moments, one crash, failure or slow launch | 161 thousand, 50 s |
| `talks_again` | a statement of the code's comments, refuted | as small as the counterexample needs | seconds |

A run is given few properties of many that hold: each module has a type
invariant, which the runs do not evaluate where a theorem states it and which
was checked once elsewhere, and so are `AnnouncedOnce` (implied by
`ImplementsBoard`), `SnapshotWhole`, `CompleteLast`, `FinalSnapshot`,
`RemedyFirst`, `QuestionsAnswered`, `OwnWork` and `ScaffoldStands`, which are
theorems, hold in the runs of their modules and can be added to the configurations
there.
`turn_commands` and `turn_recovery`, `question_board`, `delivery_board` and
`learner_materials` choose in their first state what a behaviour is about (`about`, `scene`).
`WorkDispatch.cfg` checks `WorkLedger` with heartbeats that
come too late, which the proofs cover for every instance.

Why the bounds are enough: two processes are what production has, and each race
in question is between two owners. Three executions give an old owner, a new
one and a third that meets them. A fault is an event of the environment that
interrupts at any step, so one already hits every pair of steps; recovery is
run with three because its question is whether retrying stops. Four items
cover parallel, dependent and confirmed work; the second plan starts while
attempts of the first are open. Two questions, keys and payloads are what an
answer to the wrong question, a reused key and a conflicting payload take; a
page of two rows lets a log of three or four end within, at and after a page; five
rows of executions are two turns with a note and a question, or three notes of
which one is stored while the others wait.
Two goals, a replan and three turns give every branch of `evaluate_goal` a
successor that sees its effect. Three blobs are what a file, its
replacement and a projection that overlaps them take; a failure needs two, the
one named and the one that is to take its place. Three observations collide on a number, are
repeated, and leave one behind a page of two. Sets of processes, executions,
questions, requests and values are symmetric and declared so in the safety runs;
the liveness runs use no symmetry. In `turn_commands` a process with a message
dies when it has an execution or a message to lose: one that dies earlier only
starts again. Larger
instances were run when the modules were written and passed: processes that die
at any moment (3.3 million states), the delivery board with every order of its
artifacts (2.6 million), questions with two progress rows (2.6 million), the
scheduler with two schedules that may be revoked (328 thousand), the turn runner
with two faults and both an answer and a message (8.9 million states; 13.5
million with slow owners), the work ledger with four items, two plans and all
faults (4.0 million), the scheduler's safety properties with two faults (1.4
million) and with four moments (4.5 million). Deadlock is not checked: a thread
whose commands are all applied, a task whose plans are done, a learner who sends
nothing more, or a board with nothing left to plan, may rest.

Fairness of the temporal runs. `TurnRunner`: a coroutine
that can go on is scheduled (weak); `asyncio.Lock` wakes waiters in order, so a
waiting drain gets the lock although others keep taking it (strong); a lease
without heartbeat lapses and a restarted process recovers (weak). Nothing is
assumed of the learner, of faults, of heartbeats or of when a graph asks.
In `Scheduler`, workers go on with their launches and leases run out (weak), and
a schedule that becomes the next one again and again is polled in the end
(strong): workers poll every five seconds, and what is ahead of it is under a
lease of a minute. Nothing is assumed of the clock, of decisions or of faults.
In `Interactions`, executions, drains, publishers, requests and streams go on,
and a dead process is started again (all weak); learners, faults and progress
rows are owed nothing. In `AgentRuns`, coroutines that can go on do, and
providers return, which their timeouts see to (weak); cancellations, faults and
abandoned generators are owed nothing. In `RuntimeLoop`, the event loop runs a node that is
ready, and a message in the inbox is taken up by some process (weak), which is
what `TurnRunner` shows of recovery. `WorkLedger`, `EvidenceLedger` and
`DeliveryBoard` state safety only.

The properties, in words:

- `OverlapNeedsReclaim`: two executions overlap only if `reclaim_running` let
  one in; the races of requests, drains, recoveries and a cancellation that the
  running execution overwrites never do.
- `HeadOfLine`: whatever the pending drain runs, everything accepted before it
  has been applied.
- `SteeredOnce`: steering in the checkpoint is not given to a later graph whose
  delivery set is seeded. Before that, it is (`SteeringTwice.cfg`).
- `AckAfterOutcome`: no acknowledgement without a durable effect.
- `CancelledStaysQuiet`: a cancelled task without execution stays so.
- `ImplementsLedger`: the refinement of `CommandLedger`.
- `RunningEnds`: a task left running by a dead process ends its turn.
- `AcceptedIsRecorded`: a client told *accepted* or *duplicate* sent the payload
  that is on record.
- `EmissionOrder`: rows of executions reach the log in the order of emission,
  across flushes spawned behind the stream loop, the turn row last. The run has
  rows waiting in the buffer behind a batch that is being stored, and several turns.
- `ImplementsBoard`: the refinement of `QuestionBoard`.
- `SeenInOrder`, `RowsArrive`: a client gets every row, once and in order, over
  broken connections and page boundaries.
- `ResolvedIsTold`: what is resolved is announced in the end, unless a publish for
  it failed and its client was told so.
- `PhaseConfirmed`: between nodes, the checkpoint shows the phase the database
  confirmed, except on entry and after a crash until a node has returned.
- `RoundsClosed`: no round is open when the loop plans again, waits or stops.
- `BudgetsHold`: steps are exceeded by less than a tier, replans never, and an
  execution opens a bounded number of rounds.
- `TurnEnds`: every turn comes to an end.
- `FoldedOnce`: what the cursor has passed went into the profile exactly once,
  anything else at most once, unless folds of two processes overlapped.
- `EvaluatedOnEvidence`: what a round observed is in the profile before the goal
  is judged by it.
- `ArtifactsKept`: an artifact on the board never vanishes from it, although
  three writers overwrite it with what they read earlier.
- `AcksKept`: only the save of a plan takes an acknowledgement back.
- `HeadUnlocked`: the item at the cursor is unlocked.
- `RevisedBounded`: no task is revised more often than the limit.
- `NothingUnasked`: no task runs that deviates from what the learner asked for,
  unless she was told (`check_plan` drops it otherwise).
- `BoundToChoice`: a task that was chosen among the candidates runs with the
  skill, capability and point it was scored for.
- `SuccessIsServed`: the attempt that wrote the served file last and reported
  success left a file its validators accept. For decks this is stated of
  attempts that no other overlapped: two builds at once can mix their sources.
- `BlobsKept`: every row of the workspace names a blob that is in the storage,
  whatever overlapped, was refused or died; only a save whose refresh raised
  after the commit is exempt.
- `EditsStay`: a projection never writes the page over a file that has it
  already, so that what the learner made of it stays until the page changes, as
  long as no projections of two processes have overlapped.
- `ShownAtRest`: once an execution has ended normally and the projections are over,
  the learner's files have what is served, unless one failed or overlapped one
  of the other process, or she deleted it.
- `ShowsItsSlide`: once no slide is loading, camera, panel and page agree on the
  slide the viewer is at, and the anchor is on the page.
- `SpansNested`: on the stream every run starts and ends once at most, ends after
  it started, and lies inside the run that delegated it, also under cancellation.
- `RowsMatchStream`: a closed row has the status the stream tells, agent run and
  skill run alike, and a completed execution leaves no row running.
- `EveryRunEnds`: whoever saw a run start sees it end.
- `RunsOnce`: one attempt per item, unless a lease lapsed under a live owner or
  recovery took back what it had read as expired.
- `DependenciesFirst`: an attempt runs after its dependencies were committed as
  succeeded, by whichever execution.
- `ReservationsCover`: the lost updates of the budget row never forget a
  reservation of work that is still to be done. It is stated for executions
  that were not cancelled and kept their leases: `cancel_work` also accepts an
  `incomplete` item and gives its reservation back a second time, and two
  settlements of one item under the shared owner name do the same.
- `SlotOnce`: a slot becomes a second task only after its launch was given up or
  outlived its lease. (Giving up is not rare: see the hazards.)
- `NeverStuck`: a schedule does not stand at a slot that was handed over.
- `NoFlood`: the next launch is for a slot after the moment of the last claim.
- `DueRuns`: a due slot is launched, unless revoked.

## Where the code differs from its comments

`talks_again` is a run that TLC refutes, with the quoted line in `PROJECT.json`
("findings"): after a turn that completed or failed, the next message enters the
graph with `PLANNING`, which the stored phase refuses, and the learner gets an
error where the comment promises that a thread goes on.

These are further statements that the models refute; each configuration gives
TLC's counterexample when run as `tlc -config <cfg> <module>`:

| Configuration, module | Statement | What happens |
|---|---|---|
| `TurnExclusion.cfg`, `TurnRunner` | `claim_agent_task` prevents running the same task twice | a leased command of a dead process lets recovery take a task that another process runs for another command |
| `AnswerStranded.cfg`, `TurnRunner` | a quick answer is picked up by the finishing run | the answer's own resume holds its lease just while the finishing run looks |
| `TurnFailed.cfg`, `TurnRunner` | after a failed turn the learner can keep talking | the failed command keeps the head of the queue under a live lease; the only drain gives up |
| `ChatResume.cfg`, `TurnRunner` | a message while the graph waits resumes the turn | `await_user` rejects the payload, the turn fails |
| `SteeringReplay.cfg`, `TurnRunner` | steering is never replayed as a second turn | the delivery mark is stored after the graph may have taken the message in |
| `SteeringTwice.cfg`, `TurnRunner` | what the checkpoint has applied is not steered again (`runtime_adapter.py` 973-983) | a message retried, or routed late, between the publication of the graph (971) and the seeding of its delivery set (983) is steered to it although the checkpoint has it |
| `WorkBudget.cfg`, `MCWorkLedger` | the budget rows are authoritative | parallel settlements overwrite each other |
| `AnswerMisplaced.cfg`, `Interactions` | the continuation command resumes the original checkpoint (`claim_interaction_answer`) | an answer to an earlier question resumes a graph that has parked on a later one |
| `RunsLeftRunning.cfg`, `MCAgentRuns` | stopping closes the durable rows too, so that rows and stream never disagree (`runtime/dispatch/runner.py` `invoke`) | a cancellation before the provider is called or while its rows are being closed leaves them `running` |
| `CancelUndone.cfg`, `MCAgentRuns` | a cancelled execution is terminal (`cancel_agent_task`) | a flush in flight in another process, or a graph left behind, writes its own older snapshot back |
| `ProfileLost.cfg`, `EvidenceLedger` | the lock around a fold is only a fast path, the durable cursor is what counts (`store/runtime_state.py` 173-178) | folds of two processes overwrite each other's profile rows and both advance the cursor |
| `AckReverted.cfg`, `MCDeliveryBoard` | one task-scoped lock is shared with delivery acknowledgements (`runtime/graph.py` 302-304) | the planner holds no lock while it awaits the model, and its save takes the acknowledgement back |
| `DeliverySkipped.cfg`, `MCDeliveryBoard` | `delivery_order` is the learner's order (the orchestrator policy skill) | an artifact inserted in front of the cursor is never offered |
| `FilesLost.cfg`, `WorkspaceFiles` | a save that fails removes only a blob that no row names (`application/workspace_artifacts.py` 76-80): `FilesOpen` | the refresh after the commit raises inside the same `try`, and the blob that the committed row names is deleted; the page is not projected again, for the row has its content hash |
| the same with `EditsAlwaysStay` as PROPERTY | one projection of a task at a time (`_projection_lock`, `application/artifacts.py` 35) | the lock is memory of one process; projections in API and scheduler both find the old hash, and the second saves the same page over what the learner has made of it in between |
| the same with `AlwaysShown` as INVARIANT | generated pages are published as workspace files (`application/runtime_adapter.py` 1252) | an execution that raises, is cancelled or is killed ends without a projection, and the page it had written over the served file is not in the learner's files |

Further disagreements, seen while modelling, that the modules contain:

- *"The model evaluates every registry-eligible candidate"* (`runtime/orchestrator.py`
  9-10): `by_key` (347) keeps the last candidate of each capability and point, so
  choosing another skill for the same point is refused as `unavailable_plan`
  (`Planning!OfferStands` does not hold; two skills that can `assess.generate` show it).
- *"an invalid or timed-out model result is never published"*
  (`agents/providers/content.py` 9-10): lessons and decks are written over the
  served file before they are validated (216, 375). A lesson that fails stays
  served, a deck that fails takes the deck published before with it
  (`Materials!NeverPublished` does not hold).
- The *"private draft area"* of `agents/skill_runtime.py` 22 is named by task and
  kind: parallel revisions of one page share it. The page a failed attempt left
  behind is what the next attempt revises.
- Two replacements of one file that overlap leave the blob of the first in the
  storage for good; a download that has read a row before it was replaced finds
  no blob (404).
- `init_project.py` says it may be run again; run with another number of slides
  after an interruption it leaves pages and `lecture.json` that do not match.
  `measure_anchors.py` rewrites rectangles but not the inline style that
  `validate_deck.py` compares them with, and the validator accepts a `dist` that was
  built from older sources.

## Proofs

Theorems are in modules of their own, checked by TLAPS for every value of the
constants that satisfies the named assumption of the module.

The turn runner's assume `ConstantsAssumption` (null values are distinct from
the sets they complete, the initial command is neither a message nor an answer,
outcomes and faults are among those named).

- `TurnRunnerProofs!TypeCorrect`: `Spec => []TypeOK`. Inductive as it stands,
  one lemma for each group of actions. Lemmas about record-valued operators
  (`Delivered`, `Released`, `Consumed`, `Steered`) carry the types.
- `TurnRunnerProofs!ElectionHolds`: `Spec => []OverlapNeedsReclaim`. The
  property is not inductive: one must know that while an execution runs the
  task row says so. `Election` adds that a running execution keeps `status` at
  `running` or, after a cancel, `cancelled` until it settles; a claim then finds
  the row taken.
- `TurnRunnerProofs!CancelledForGood`: `Spec => CancelledStaysQuiet`, from the
  same step lemma and the guard of `ClaimTask`.
- `TurnRunnerProofs!AcknowledgedWasDone`: `Spec => []AckAfterOutcome`. Strengthened
  by the rule that what an execution acknowledges is its own command, settled
  by the time it gets there, or in the checkpoint (`LedgerInv`).
- `TurnRunnerProofs!LedgerImplemented`: `Spec => ImplementsLedger`. A command has a
  row exactly if it is in the inbox, the inbox has no repetition, what is
  recorded was accepted (`Held`, `Listed`); every step is an `Accept`, a
  `Record`, an `Acknowledge` or a stutter.
- `TurnRunnerProofs!HeadOfLineHolds`: `Spec => []HeadOfLine`. The property
  speaks of executions; a drain that holds the claim lock must be known to lead in
  the same way (`DrainsLead`), and the inbox to have no command twice
  (`Distinct`). Every step either leaves the line alone or appends to it, and what
  is applied stays applied (`LineInv`, on top of `LedgerInv`).
- `TurnRunnerProofs!SteeredOnceHolds`: `Spec => SteeredOnce`. What the checkpoint
  has taken in was sent to every seeded graph, and is in what a graph read that
  is about to be seeded (`CkptSent`); a queue has only what was sent (`QueueSent`).
  The reads stay true because the checkpoint grows only through a graph that
  runs, and there is none beside the one that is starting. A cancel that leaves a
  pump behind is the hard case: it leaves nobody running, and nobody but
  `reclaim_running` can start another (`LeftOver`), so nothing extends the
  checkpoint behind the pump's back (`SteerInv`). Nothing is claimed of a graph that
  is published and not yet seeded: there the statement is false.

The work ledger's theorems assume `LedgerAssumption`: finitely many items, each
in one plan, whose dependencies are in earlier tiers of the same plan.

- `WorkLedgerProofs!WorkTypeCorrect`: `Spec => []TypeOK`, with the addition
  (`Working`) that an open transaction names an item and that an execution about
  to commit a plan has read a revision below the last.
- `WorkLedgerProofs!DependenciesHold`: `Spec => []DependenciesFirst`. What is
  missing for induction is that an item in status *succeeded* was achieved
  (`Proven`); achieved items stay so, whatever happens to their row later.
- `WorkLedgerProofs!RunsOnceHolds`: `Spec => []RunsOnce`. A running attempt's
  item is leased and live, or was cancelled under it (`Kept`). That in turn needs
  to know which rows exist, who may confirm and what an open transaction may
  write (`Bookkeeping`).
- `WorkLedgerProofs!ReservationsHold`: `Spec => []ReservationsCover`. The rows
  are overwritten with what was read earlier, so the invariant must speak of the
  readers too: what a transaction about to commit has read also covers what is
  outstanding (`Covered`). It ends one outstanding item and writes one less than
  it read, and every other reader's value still covers what is left.

The scheduler's theorems are all in `SchedulerProofs`, from
`SchedulerAssumption`: the next slot of a schedule is later than the moment it
is computed from. `SlotTypeCorrect` is `Spec => []TypeOK`, with the addition that
a worker at work has a schedule. `SlotOnceHolds`, `NeverStuckHolds` and
`NoFloodHolds` share one invariant (`Regular`): as long as nobody overtakes it, the
worker of a schedule is alone, holds the lease, and is at the slot the schedule
is at (`Held`); launches for earlier slots were claimed before that slot
(`Behind`); and a launch that is not stored was given up or is still with its
worker (`Accounted`). The lemma `EverySlotStep` reduces the actions to what one
schedule sees of them.

The first part of `LoopProofs` is about the ledger alone, from `EvidenceAssumption`,
for any number of tasks, processes, points and rows: `EvidenceTypeCorrect` is `EvSpec => []EvTypeOK`, and
`FoldedOnceHolds` is `EvSpec => []FoldedOnce`. The invariant `EvInv` adds
that a row's number is its place in the ledger (`Numbered`), that no append
counts from beyond its end (`Based`), and that, as long as folds have not
overlapped, there is one fold at most, each profile row has learnt the rows up to
its mark, once, the cursor is behind the marks, and what the fold remembers is
what is stored (`Alone`).

`DeliveryProofs`, from `BoardAssumption`: `BoardTypeCorrect`,
`HeadUnlockedHolds`, `RevisedBoundedHolds`, `ArtifactsKeptHolds` and
`AcksKeptHolds` are the five properties of the run. The board is overwritten with
old copies, so the invariant (`BoardInv`) speaks of the copies: while locks have
not been split, at most one holder is between its read and its save (`Mutex`); each
active copy has everything the board keeps, a copy read under the lock has every
acknowledgement of the board and the planner's has none that the board has not
(`CopiesInv`). `RevisedBounded` needs that the revision number in a plan, in a
hold and in every copy counts the revisions that happened (`CountsInv`).
The step lemma treats actions that touch no copy once (`Quiet`).

From `PlanningAssumption` (a registry of well-formed skills of one of the three
latencies, a learner's numbers in percent, boards that hold an artifact once) the
same module has `NothingUnaskedHolds` and `BoundToChoiceHolds`:
`PlanSpec => []NothingUnasked` and `PlanSpec => []BoundToChoice`, for every registry,
every world, any dependencies and every answer `Answers` has. The allow-list of the
guardrails is a set of names, so names must tell the tasks of a plan apart
(`PlanListed`, which needs that the revisions come out in the order of their keys,
`Ranked`); what the list lets through keeps to the request unless the plan speaks
to the learner, and then the round waits (`GuardedAgreed`, `Agreed`); a skill that
ran is among those that serve the task (`ResolvedServes`). `Guarded` and `Trimmed` are
recursive functions over the tasks; the lemmas about them use induction in the form
of a fact about sets of naturals (`SetInduction`).

Two more are about what is offered, which no step of a round changes (`OfferKept`).
`RemedyFirstHolds`: `PlanSpec => []RemedyFirst`. A skill that can teach a target can
teach its weak prerequisites (`PossibleThere`), whatever it teaches is worth at most
3500 for a target with a gap, requested or not (`TargetGain`), and at least 350 more for
the gap (`GapGain`); that this survives the division by the cost and the rounding
is a matter of the six costs a skill can have (`MoreUseful`). It is a statement about every
weak prerequisite as a subject: a point may be a target and a prerequisite of another one,
and is then offered as both. `QuestionsAnsweredHolds`: `PlanSpec => []QuestionsAnswered`. A
skill that answers is on offer (`AnswerOffered`); of the candidates that share its key, the
one the model's scores leave selectable is the last in the order of the offer
(`LastExists`); and the plan of this answer alone passes the
trimming and the guardrails (`OneTrimmed`, `OneGuarded`).

The second part of `LoopProofs` is about the loop, from `LoopAssumption` and
`EvidenceAssumption`, for plans and budgets of every size. `LedgerShared` is `Spec => EvSpec`: the loop's initial states are the
ledger's and each step of a node is a step of the ledger or leaves it alone, so
the two theorems of the ledger hold of the loop. `LoopTypeCorrect`,
`PhaseConfirmedHolds`, `RoundsClosedHolds` and `BudgetsHeld` share the invariant
`LoopInv`. It says of each task where its execution can be inside the
node of the checkpoint (`Entered`), how far the phase in the database may be ahead of
the checkpoint when a process died between the two commits (`Kept`), that
without a crash since the last node they agree (`Confirmed`), which round may be open at which point
(`Rounds`), and that a round costs a replan, but for the first and the one that is
refused (`Budgeted`). `JudgedOnEvidence` is `Spec => []EvaluatedOnEvidence`. It needs that
the ledger is worked on only in the node that owns the work, so that nothing of the task is
being appended when a fold starts (`JobAt`); that every row the
cursor has not passed is still in the way of the next fold (`Covered`);
and that what was learnt is not lost between the fold and the verdict, also when
the node is repeated after a crash (`Judged`, `JudgedInv`).

`InteractionsProofs`, from `InteractionsAssumption`, for any number of processes,
questions, requests, answers and readers, and pages of any size:

- `QuestionsTypeCorrect`, `AcceptedHolds` and `AnnouncedHolds` come from `AskInv`: a
  question has one answer exactly when it is resolved, and an execution that resumes
  does so on a question that is (`Settled`); a request between its transactions
  still carries the payload for a question that exists (`Carried`). Its
  announcement is in one of outbox and log, and only the transaction that removes it
  from the one puts it into the other.
- `EmissionHolds`: `Spec => []EmissionOrder`. The log alone says nothing of what
  comes next: the rows in flight come after every row of the log and before those
  in the buffer (`Queued`), and there is one batch in flight at most.
- `BoardImplemented`: `Spec => ImplementsBoard`. Each action is a step of
  `QuestionBoard` or a stutter; whether an announcement was told is read from the log,
  which no step shortens.
- `SeenInOrderHolds` and `SnapshotsWhole` come from `ReadInv`: a stream's cursor
  counts what it delivered, the page it holds follows on (`Streaming`), and a
  snapshot has read the log from its first row (`Snapping`). What was
  read stays true because the log only grows.

`MaterialsProofs`, from `WorkspaceAssumption`, `MaterialsAssumption` and `DeckAssumption`:

- `MaterialsTypeCorrect`: `MaterialsSpec => []TypeOK`.
- `BlobsKeptHolds`: `FilesSpec => []BlobsKept`. A key belongs to one row or to one
  worker that has not committed yet (`KeysApart`), and whoever deletes the blob
  of a key, or is going to, holds a key that no row will name again (`OldKeys`);
  the key whose save raises after its commit enters `lost` in that step.
- `ShownHolds`: `FilesSpec => []ShownAtRest`, and `EditsStayHolds`: `FilesSpec =>
  EditsStay`, for any number of processes, from `PagesInv`: a row that a worker is
  to insert is its own (`Reserved`); and unless projections of two processes have
  overlapped, one projection at a time is beyond its lock (`Alone`), what it found
  out about the rows is still so when it commits, in spite of the learner's
  requests (`Found`), and between executions whoever has read a page read the one
  that is served (`Current`).
- `SuccessIsServedHolds`: `MaterialsSpec => []SuccessIsServed`. An attempt that no
  other has overlapped works alone (`Single`), what its build compiled was read from
  what is published (`Built`), so that the verdict of its validators is about the
  file served (`Accepted`). For a textbook or an exercise set, which are written
  in one step, the overlap does not matter.
- `OwnWorkHolds`: `MaterialsSpec => []OwnWork`. An attempt that revises nothing opens an
  empty draft; while no other overlaps it the draft holds no page but its own
  (`OwnDraft`), and what it writes is that page (`OwnPage`).
- `ShowsItsSlideHolds`: `DeckSpec => []ShowsItsSlide`, for decks of every length and
  any rectangles. The invariant (`DeckInv`) follows a document from the author's files
  through the build to the player: an anchor whose style gives a height is drawn as
  styled, what is published was accepted, the frame that is loaded or loading belongs
  to the slide of the cursor, and a correction of the camera that is still due, if
  it is for the run under way, is for the step shown.
- `ScaffoldStandsHolds`: `DeckSpec => []ScaffoldStands`. For each number of slides that
  may be the only one that was ever asked for (`StandInv`), every file that is there is
  the one the scaffold writes for it, `lecture.json` came after all others (`FilesStand`),
  and a script under way has written what it is past, or has measured what is written
  already (`ScriptStands`, `ScaffoldDrawn`): an attempt that died leaves nothing that a
  later one trips over.

`AgentRunsProofs`, from `RunsAssumption` (tasks and delegated runs of a tier are
distinct, and a run is delegated by one task), for every set of tiers and any number
of faults: `RunsTypeCorrect`, and

- `SpansNestedHolds` and `RowsMatchHolds`: `Spec => []SpansNested` and `Spec =>
  []RowsMatchStream`. The log alone is not inductive: `Told` is log, batch in flight
  and buffer one after another, and `Voices` says that it nests and what each attempt
  has told so far, given where it is. A flush hands a batch to the projector, so one
  must know that the projector has a run open when its end comes (`Spans`) and that
  it then drops no start and no end (`ProjectRepeats`); streams that say the same of
  runs are related by `Repeats`, and a lost batch by `Follows`. `Tree` says who may be
  at work: a delegated run only while its parent waits for it. `Tidy` adds that an
  execution nobody has cancelled ends with its tier over.
- `FinalSnapshotHolds` and `CompleteLastHolds`: `Spec => []FinalSnapshot` and `Spec =>
  []CompleteLast`. An execution that has stored its end has nothing left to flush and
  nobody at work (`Settled`, `NobodyWorks`); and unless its graph was left behind,
  complete is said last in what has flown, and then the buffer has nothing but
  completes, which the projector drops (`LastWord`, `ProjectLast`). No run of TLC's
  checks these two: both hold on the instance of `AgentRuns.cfg` as well.

`Project` is a recursive function over the batch; what it returns is proved by
induction in the form of `SetInduction`.

Only model-checked: everything temporal that needs fairness (`RunningEnds`, `DueRuns`,
`TurnEnds`, `ResolvedIsTold`, `RowsArrive`, `EveryRunEnds`), which is out of the
prover's reach.

## Not modelled

Of the turn runner: the periodic sweep of held deliveries, the cap on concurrent
graphs, tasks that a schedule starts, the inbox handlers for quizzes and
confirmations; `timed_out`, `budget_exceeded` and `cancelled` results of a
graph, which take the path of `failed`; `handed_off`. In the ledger:
`claim_work`, `reserve_budget` and `settle_budget`, which production does not
call, the outbox, and a plan that goes on without the ledger after it lost the
race for the revision. Of the interactions: expiry, abandonment and the gate that
delivers before it asks. Of the schedules: creating a proposal, the approval scope it
may inherit, and cron arithmetic. Of the loop: what a model decides, which is a
choice among the validated plans, and the arithmetic of mastery behind the verdict
of an evaluation, which is a choice too. Whatever only formats, renders, calls a model or reads
files once is out: see the components of `PROJECT.json` for each reason.

## Plan

1. Expiry and abandonment of questions; the handlers for quizzes and confirmations.
2. Pure operators of `kernel/` and `state/`: mastery, gain, review intervals.
3. Theorems about what 1 and 2 add.
4. A liveness statement for recovery in two processes, and one for work left
   leased by a dead owner.
