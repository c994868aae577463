---------------------------- MODULE Interactions ----------------------------
(***************************************************************************)
(* Blocking questions of one learner thread: the graph asks and parks, the *)
(* learner's answer is claimed together with its continuation command and  *)
(* its outbox row, several processes publish that row into the event log,  *)
(* and the parked graph is resumed (runtime/interactions.py,               *)
(* store/repositories/runtime.py, application/agent_tasks.py,              *)
(* application/agent_events.py, application/runtime_adapter.py).           *)
(*                                                                         *)
(* At most one execution of the thread is live at a time here, and its end *)
(* (status, turn row, acknowledgement) is one step: elections, leases and  *)
(* the steps of the end are the subject of TurnRunner.                     *)
(***************************************************************************)
EXTENDS EventLog, FiniteSets

CONSTANTS
  Process, Question, Request, Key, Value,
  NoQ, NoP,
  Snapshots,   \* are execution snapshots read while the thread runs?
  Faults,      \* which of FaultKinds the environment may commit
  MaxFaults,   \* bound on how many it commits
  MaxEmit      \* bound on the rows executions emit

FaultKinds == {"crash", "publish", "persist", "drop", "cancel", "raise"}
Initial    == NoQ       \* the prompt that opened the turn, as a command
Command    == Question \cup {Initial}
Publisher  == Request \cup Process

ASSUME InteractionsAssumption ==
  /\ NoQ \notin Question \cup Value
  /\ NoP \notin Process
  /\ Request \cap Process = {}
  /\ Snapshots \in BOOLEAN
  /\ Faults \subseteq FaultKinds
  /\ MaxFaults \in Nat /\ MaxEmit \in Nat /\ Page \in Nat \ {0}

VARIABLES
  \* database
  status,      \* agent_tasks.status; thread_status is "cancelled" or not
  row,         \* agent_interactions.status
  answers,     \* agent_interaction_answers rows: [key, value]
  command,     \* the continuation command of each question
  outbox,      \* questions whose interaction.resolved row is unpublished
  ckpt,        \* where the graph's checkpoint stands, with its pending question
  \* process memory
  run,         \* the live execution
  wake,        \* processes with a spawned resume or drain coroutine
  req,         \* answer requests
  pub,         \* publish_interaction_outbox, by request or startup recovery
  up,          \* life cycle of each process
  \* history
  emitted,     \* rows executions have emitted so far
  taken,       \* answers the graph has taken in
  faults

dbVars   == <<status, row, answers, command, outbox, ckpt>>
procVars == <<run, wake, req, pub, up>>
history  == <<emitted, taken, faults>>
vars     == <<storeVars, readVars, dbVars, procVars, history>>

Event == [kind: {"note", "requested", "resolved", "turn"}, q: Command,
          value: Value \cup {NoQ}, n: Nat]

Place  == [at: {"plan", "await", "end"}, q: Command]
Run    == [pc: {"idle", "plan", "asked", "resume", "final", "failing", "leaving"},
           at: Process \cup {NoP}, cmd: Command, q: Command]
Reply  == [key: Key, value: Value]
Outcome == {"none", "accepted", "duplicate", "conflict", "already_resolved", "error"}
Req    == [pc: {"free", "claim", "publish", "done"}, at: Process \cup {NoP},
           q: Command, key: Key \cup {NoQ}, value: Value \cup {NoQ}, out: Outcome]
Pub    == [pc: {"idle", "read", "rows"}, rows: SUBSET Question]

NoRun  == [pc |-> "idle", at |-> NoP, cmd |-> Initial, q |-> NoQ]
NoReq  == [pc |-> "free", at |-> NoP, q |-> NoQ, key |-> NoQ, value |-> NoQ,
           out |-> "none"]
NoPub  == [pc |-> "idle", rows |-> {}]

Fault(kind) ==
  /\ kind \in Faults
  /\ faults < MaxFaults
  /\ faults' = faults + 1

Init ==
  /\ LogInit
  /\ status = "queued"
  /\ row = [q \in Question |-> "absent"]
  /\ answers = [q \in Question |-> {}]
  /\ command = [c \in Command |-> IF c = Initial THEN "pending" ELSE "none"]
  /\ outbox = {}
  /\ ckpt = [at |-> "plan", q |-> NoQ]
  /\ run = NoRun
  /\ \E p \in Process : wake = {p}
  /\ req = [r \in Request |-> NoReq]
  /\ pub = [x \in Publisher |-> NoPub]
  /\ up = [p \in Process |-> "up"]
  /\ emitted = 0
  /\ taken = <<>>
  /\ faults = 0

-----------------------------------------------------------------------------
(* The execution *)

Row(kind, q, n) == [kind |-> kind, q |-> q, value |-> NoQ, n |-> n]

\* emit: a row with the next emission number enters the buffer.
Emit(kind, q) ==
  /\ emitted' = emitted + 1
  /\ Emitted(<<Row(kind, q, emitted + 1)>>)
  /\ UNCHANGED <<log, flying>>

Live(c) == command[c] = "pending"

\* Commands in inbox order: the initial prompt, then answers as they came.
Oldest(c) ==
  /\ Live(c)
  /\ c # Initial => ~Live(Initial)

\* A spawned coroutine drives the thread; one that finds nothing to do ends.
Start(p, c) ==
  /\ p \in wake
  /\ run.pc = "idle"
  /\ status # "cancelled"
  /\ Oldest(c)
  /\ status' = "running"
  /\ run' = [pc |-> IF c = Initial THEN "plan" ELSE "resume",
             at |-> p, cmd |-> c, q |-> NoQ]
  /\ wake' = wake \ {p}
  /\ UNCHANGED <<storeVars, readVars, row, answers, command, outbox, ckpt, req,
                 pub, up, history>>

DrainNothing(p) ==
  /\ p \in wake
  /\ run.pc # "idle" \/ status = "cancelled" \/ \A c \in Command : ~Live(c)
  /\ wake' = wake \ {p}
  /\ UNCHANGED <<storeVars, readVars, dbVars, run, req, pub, up, history>>

\* A node reports progress.
Progress ==
  /\ run.pc = "plan"
  /\ emitted < MaxEmit
  /\ Emit("note", NoQ)
  /\ UNCHANGED <<readVars, dbVars, procVars, taken, faults>>

\* request_interaction: the row commits, then interaction.requested is emitted.
Ask(q) ==
  /\ run.pc = "plan"
  /\ emitted < MaxEmit
  /\ row[q] = "absent"
  /\ row' = [row EXCEPT ![q] = "pending"]
  /\ run' = [run EXCEPT !.pc = "asked", !.q = q]
  /\ Emit("requested", q)
  /\ UNCHANGED <<readVars, status, answers, command, outbox, ckpt, wake, req,
                 pub, up, taken, faults>>

\* The node's checkpoint: the graph parks at await_user on the question.
Park ==
  /\ run.pc = "asked"
  /\ ckpt' = [at |-> "await", q |-> run.q]
  /\ run' = [run EXCEPT !.pc = "final"]
  /\ UNCHANGED <<storeVars, readVars, status, row, answers, command, outbox,
                 wake, req, pub, up, history>>

Finish ==
  /\ run.pc = "plan"
  /\ ckpt' = [at |-> "end", q |-> NoQ]
  /\ run' = [run EXCEPT !.pc = "final"]
  /\ UNCHANGED <<storeVars, readVars, status, row, answers, command, outbox,
                 wake, req, pub, up, history>>

TheReply(q) == CHOOSE a \in answers[q] : TRUE

Awaits == ckpt.at = "await"

\* Command(resume=answer): await_user takes the answer in if the checkpoint is
\* parked there - whichever question it is parked on; otherwise the graph goes
\* on from its checkpoint and the value is not used.
Resume ==
  /\ run.pc = "resume"
  /\ IF Awaits
     THEN /\ taken' = Append(taken, <<run.cmd, TheReply(run.cmd).value>>)
          /\ ckpt' = [at |-> "plan", q |-> NoQ]
     ELSE UNCHANGED <<taken, ckpt>>
  /\ run' = [run EXCEPT !.pc = IF ckpt.at = "end" THEN "final" ELSE "plan"]
  /\ UNCHANGED <<storeVars, readVars, status, row, answers, command, outbox,
                 wake, req, pub, up, emitted, faults>>

\* A node raises: a terminal row is buffered and the turn fails.
Raise ==
  /\ run.pc \in {"plan", "asked", "resume"}
  /\ emitted < MaxEmit
  /\ Fault("raise")
  /\ run' = [run EXCEPT !.pc = "failing"]
  /\ Emit("note", NoQ)
  /\ UNCHANGED <<readVars, dbVars, wake, req, pub, up, taken>>

\* A streamed item after a cancel: the run flushes and returns.
NoticeCancel ==
  /\ run.pc \in {"plan", "asked", "resume"}
  /\ status = "cancelled"
  /\ run' = [run EXCEPT !.pc = "leaving"]
  /\ UNCHANGED <<storeVars, readVars, dbVars, wake, req, pub, up, history>>

Leave ==
  /\ run.pc = "leaving"
  /\ Flushed
  /\ run' = NoRun
  /\ UNCHANGED <<storeVars, readVars, dbVars, wake, req, pub, up, history>>

\* The end of an execution, after the final flush has joined any other: status,
\* turn row, acknowledgement of its command on success, drains.
TurnStatus ==
  IF run.pc = "failing" THEN "failed"
  ELSE IF ckpt.at = "await" THEN "awaiting_user" ELSE "completed"

Close ==
  /\ run.pc \in {"final", "failing"}
  /\ Flushed
  /\ status' = TurnStatus
  /\ emitted' = emitted + 1
  /\ log' = Append(log, Row("turn", NoQ, emitted + 1))
  /\ command' = IF run.pc = "final" THEN [command EXCEPT ![run.cmd] = "applied"]
                                    ELSE command
  /\ wake' = wake \cup {run.at}
  /\ run' = NoRun
  /\ UNCHANGED <<buffer, flying, readVars, row, answers, outbox, ckpt, req, pub,
                 up, taken, faults>>

-----------------------------------------------------------------------------
(* Flushes *)

Take ==
  /\ TakeBuffer
  /\ UNCHANGED <<readVars, dbVars, procVars, history>>

Store ==
  /\ \E i \in DOMAIN flying : StoreBatch(i)
  /\ UNCHANGED <<readVars, dbVars, procVars, history>>

\* The append raises.  In the stream loop that fails the turn; in a spawned
\* flush nobody notices.
FlushFails ==
  /\ Fault("persist")
  /\ \E i \in DOMAIN flying : LoseBatch(i)
  /\ \/ run' = run
     \/ /\ run.pc \in {"plan", "asked", "resume"}
        /\ run' = [run EXCEPT !.pc = "failing"]
  /\ UNCHANGED <<readVars, dbVars, wake, req, pub, up, emitted, taken>>

-----------------------------------------------------------------------------
(* Answers *)

Requested(q) == \E i \in DOMAIN log : log[i].kind = "requested" /\ log[i].q = q

\* The learner answers a question the log has shown.
Send(r, p, q, k, v) ==
  /\ req[r].pc = "free"
  /\ up[p] = "up"
  /\ Requested(q)
  /\ req' = [req EXCEPT ![r] = [pc |-> "claim", at |-> p, q |-> q, key |-> k,
                                value |-> v, out |-> "none"]]
  /\ UNCHANGED <<storeVars, readVars, dbVars, run, wake, pub, up, history>>

\* Mutant: an idempotency key is trusted whatever payload comes with it.
KeyOnly(r) ==
  IF \E a \in answers[req[r].q] : a.key = req[r].key THEN "duplicate"
  ELSE IF row[req[r].q] = "resolved" THEN "already_resolved" ELSE "accepted"

ClaimOutcome(r) ==
  LET mine == {a \in answers[req[r].q] : a.key = req[r].key}
  IN  IF \E a \in mine : a.value = req[r].value THEN "duplicate"
      ELSE IF mine # {} THEN "conflict"
      ELSE IF row[req[r].q] = "resolved" THEN "already_resolved"
      ELSE "accepted"

\* claim_interaction_answer: answer, resolution, continuation and outbox row
\* commit together, under the row lock of the thread.
Claim(r) ==
  LET q == req[r].q
      out == ClaimOutcome(r)
  IN  /\ req[r].pc = "claim"
      /\ IF out = "accepted"
         THEN /\ row' = [row EXCEPT ![q] = "resolved"]
              /\ answers' = [answers EXCEPT ![q] = @ \cup
                               {[key |-> req[r].key, value |-> req[r].value]}]
              /\ command' = [command EXCEPT ![q] = "pending"]
              /\ outbox' = outbox \cup {q}
         ELSE UNCHANGED <<row, answers, command, outbox>>
      /\ req' = [req EXCEPT ![r].out = out,
                            ![r].pc = IF out = "conflict" THEN "done" ELSE "publish"]
      /\ pub' = IF out = "conflict" THEN pub
                ELSE [pub EXCEPT ![r] = [NoPub EXCEPT !.pc = "read"]]
      /\ UNCHANGED <<storeVars, readVars, status, ckpt, run, wake, up, history>>

\* After the publish the request spawns its resume or a drain.
Answered(r) ==
  /\ req[r].pc = "publish"
  /\ pub[r].pc = "idle"
  /\ wake' = wake \cup {req[r].at}
  /\ req' = [req EXCEPT ![r].pc = "done"]
  /\ UNCHANGED <<storeVars, readVars, dbVars, run, pub, up, history>>

-----------------------------------------------------------------------------
(* Publishing the outbox *)

At(x) == IF x \in Process THEN x ELSE req[x].at

\* One process publishes a thread's outbox once at a time.
PublishLock(x) ==
  \A y \in Publisher : y # x /\ At(y) = At(x) => pub[y].pc # "rows"

PubRead(x) ==
  /\ pub[x].pc = "read"
  /\ PublishLock(x)
  /\ pub' = [pub EXCEPT ![x] = IF outbox = {} THEN NoPub
                               ELSE [pc |-> "rows", rows |-> outbox]]
  /\ UNCHANGED <<storeVars, readVars, dbVars, run, wake, req, up, history>>

\* Mutant: the row read earlier is published without claiming it.
ReadUnpublished(q) == TRUE

\* The conditional update of published_at finds the row unpublished.
Unpublished(q) == q \in outbox

\* Mutant: the outbox payload carries the key in place of the answer.
ResolvedByKey(q) ==
  [kind |-> "resolved", q |-> q, value |-> TheReply(q).key, n |-> 0]

Resolved(q) == [kind |-> "resolved", q |-> q, value |-> TheReply(q).value, n |-> 0]

\* publish_outbox_agent_events: claim and append commit together.  The rows go
\* out one by one; which of several goes first is left open.
PubRow(x, q) ==
  /\ pub[x].pc = "rows"
  /\ q \in pub[x].rows
  /\ IF Unpublished(q)
     THEN /\ log' = Append(log, Resolved(q))
          /\ outbox' = outbox \ {q}
     ELSE UNCHANGED <<log, outbox>>
  /\ pub' = [pub EXCEPT ![x] = IF pub[x].rows = {q} THEN NoPub
                               ELSE [pub[x] EXCEPT !.rows = @ \ {q}]]
  /\ UNCHANGED <<buffer, flying, readVars, status, row, answers, command, ckpt,
                 run, wake, req, up, history>>

\* A request's publish raises: the client gets an error, no resume is spawned.
PublishFails(r) ==
  /\ pub[r].pc # "idle"
  /\ Fault("publish")
  /\ pub' = [pub EXCEPT ![r] = NoPub]
  /\ req' = [req EXCEPT ![r].pc = "done", ![r].out = "error"]
  /\ UNCHANGED <<storeVars, readVars, dbVars, run, wake, up, emitted, taken>>

-----------------------------------------------------------------------------
(* Cancellation, crash and startup *)

Cancel ==
  /\ status \in {"queued", "running", "awaiting_user"}
  /\ Fault("cancel")
  /\ status' = "cancelled"
  /\ UNCHANGED <<storeVars, readVars, row, answers, command, outbox, ckpt,
                 procVars, emitted, taken>>

Crash(p) ==
  /\ up[p] # "down"
  /\ Fault("crash")
  /\ up' = [up EXCEPT ![p] = "down"]
  /\ wake' = wake \ {p}
  /\ run' = IF run.at = p THEN NoRun ELSE run
  /\ buffer' = IF run.at = p THEN <<>> ELSE buffer
  /\ flying' = IF run.at = p THEN <<>> ELSE flying
  /\ req' = [r \in Request |-> IF req[r].at = p THEN NoReq ELSE req[r]]
  /\ pub' = [x \in Publisher |-> IF At(x) = p THEN NoPub ELSE pub[x]]
  /\ UNCHANGED <<log, readVars, dbVars, emitted, taken>>

\* Mutant: startup goes straight to the commands left behind.
StartupPublish(p) == NoPub
StartupPub(p) == [NoPub EXCEPT !.pc = "read"]

\* recover_pending spawns the drains of queued and pending work, ...
Startup(p) ==
  /\ up[p] = "down"
  /\ up' = [up EXCEPT ![p] = "boot"]
  /\ wake' = wake \cup {p}
  /\ pub' = [pub EXCEPT ![p] = StartupPub(p)]
  /\ UNCHANGED <<storeVars, readVars, dbVars, run, req, history>>

\* ... publishes the outbox, and only then drives the unconsumed continuations.
Recovered(p) ==
  /\ up[p] = "boot"
  /\ pub[p].pc = "idle"
  /\ up' = [up EXCEPT ![p] = "up"]
  /\ wake' = IF \E q \in Question : Live(q) THEN wake \cup {p} ELSE wake
  /\ UNCHANGED <<storeVars, readVars, dbVars, run, req, pub, history>>

-----------------------------------------------------------------------------
(* Readers *)

ReaderStep(s) ==
  /\ \/ Connect(s)
     \/ ReadPage(s)
     \/ SendRow(s)
     \/ LookAtThread(s, status = "cancelled")
     \/ EndStream(s)
     \/ WakeUp(s)
  /\ UNCHANGED <<storeVars, dbVars, procVars, history>>

ConnectionLost(s) ==
  /\ Fault("drop")
  /\ Disconnect(s)
  /\ UNCHANGED <<storeVars, dbVars, procVars, emitted, taken>>

ShotStep ==
  /\ Snapshots
  /\ CountRows \/ NextPage \/ CloseShot
  /\ UNCHANGED <<storeVars, dbVars, procVars, history>>

-----------------------------------------------------------------------------
RunStep ==
  \/ Progress
  \/ \E q \in Question : Ask(q)
  \/ Park
  \/ Finish
  \/ Resume
  \/ NoticeCancel
  \/ Leave
  \/ Close
  \/ Take
  \/ Store

DriveStep(p) ==
  \/ \E c \in Command : Start(p, c)
  \/ DrainNothing(p)

PublishStep(x) == PubRead(x) \/ \E q \in Question : PubRow(x, q)

RequestStep(r) == Claim(r) \/ Answered(r)

Learner ==
  \E r \in Request, p \in Process, q \in Question, k \in Key, v \in Value :
    Send(r, p, q, k, v)

Environment ==
  \/ Raise
  \/ FlushFails
  \/ \E r \in Request : PublishFails(r)
  \/ Cancel
  \/ \E p \in Process : Crash(p)
  \/ \E s \in Reader : ConnectionLost(s)

Next ==
  \/ RunStep
  \/ \E p \in Process : DriveStep(p) \/ Startup(p) \/ Recovered(p)
  \/ \E x \in Publisher : PublishStep(x)
  \/ \E r \in Request : RequestStep(r)
  \/ Learner
  \/ \E s \in Reader : ReaderStep(s)
  \/ ShotStep
  \/ Environment

Spec == Init /\ [][Next]_vars

\* Coroutines go on, a process that died is started again and the heartbeat of
\* a stream wakes it; learners, faults and progress rows are owed nothing.
Fairness ==
  /\ WF_vars(RunStep)
  /\ \A p \in Process : WF_vars(DriveStep(p)) /\ WF_vars(Startup(p) \/ Recovered(p))
  /\ \A x \in Publisher : WF_vars(PublishStep(x))
  /\ \A r \in Request : WF_vars(RequestStep(r))
  /\ \A s \in Reader : WF_vars(ReaderStep(s))

FairSpec == Spec /\ Fairness

-----------------------------------------------------------------------------
(* Properties *)

\* Types of every variable.
TypeOK ==
  /\ log \in Seq(Event) /\ buffer \in Seq(Event) /\ flying \in Seq(Seq(Event))
  /\ status \in {"queued", "running", "awaiting_user", "completed", "failed", "cancelled"}
  /\ row \in [Question -> {"absent", "pending", "resolved"}]
  /\ answers \in [Question -> SUBSET Reply]
  /\ command \in [Command -> {"none", "pending", "applied"}]
  /\ outbox \subseteq Question
  /\ ckpt \in Place
  /\ run \in Run
  /\ wake \subseteq Process
  /\ req \in [Request -> Req]
  /\ pub \in [Publisher -> Pub]
  /\ up \in [Process -> {"up", "boot", "down"}]
  /\ emitted \in Nat
  /\ taken \in Seq(Question \X Value)
  /\ faults \in 0..MaxFaults

Announcements(q) == {i \in DOMAIN log : log[i].kind = "resolved" /\ log[i].q = q}

\* A resolved question has one answer, and the fact is either waiting in the
\* outbox or in the log, in exactly one of them and once: no crash, failed
\* publish, retry or second publisher loses or repeats the announcement.
AnnouncedOnce ==
  \A q \in Question :
    /\ row[q] = "resolved" => \E a \in Reply : answers[q] = {a}
    /\ q \in outbox => row[q] = "resolved" /\ Announcements(q) = {}
    /\ row[q] # "resolved" => Announcements(q) = {}
    /\ row[q] = "resolved" /\ q \notin outbox => \E i \in DOMAIN log : Announcements(q) = {i}

\* A client told that its answer was accepted, now or earlier under the same
\* key, sent the payload that is on record; the others are told otherwise.
AcceptedIsRecorded ==
  \A r \in Request :
    req[r].out \in {"accepted", "duplicate"} =>
      [key |-> req[r].key, value |-> req[r].value] \in answers[req[r].q]

\* The rows of executions reach the log in the order they were emitted, also
\* across flushes spawned behind the back of the stream loop, and nothing of
\* an execution comes after the turn row that closes it.
EmissionOrder ==
  \A i, j \in DOMAIN log :
    i < j /\ log[i].n > 0 /\ log[j].n > 0 => log[i].n < log[j].n

Board == INSTANCE QuestionBoard WITH
           Reply <- Value,
           NoReply <- NoQ,
           asked <- {q \in Question : row[q] # "absent"},
           reply <- [q \in Question |-> IF answers[q] = {} THEN NoQ ELSE TheReply(q).value],
           told <- [i \in {j \in DOMAIN log : log[j].kind = "resolved"} |->
                      <<log[i].q, log[i].value>>],
           taken <- taken

\* Questions, answers and announcements behave as the board promises.
ImplementsBoard == Board!Spec

\* A fact once resolved is announced, unless the publish of a request for it
\* failed, and its client knows.
ResolvedIsTold ==
  \A q \in Question : row[q] = "resolved" ~>
    \/ Announcements(q) # {}
    \/ \E r \in Request : req[r].q = q /\ req[r].out = "error"

\* The longest log of an instance: what is buffered, a resolved row and a turn row
\* of each question, and the turn rows of the first prompt and of failed runs.
LongestLog == MaxEmit + 2 * Cardinality(Question) + 1 + MaxFaults

\* Every row of the log reaches every connected client, however the log grows
\* past the end of a page while she is served, or the thread has been cancelled
\* and the stream ended (api/agent_events.py).
RowsArrive ==
  \A s \in Reader : \A n \in 1..LongestLog :
    Len(log) >= n ~> (Len(seen[s]) >= n \/ sub[s].pc = "ended")

\* The docstring of claim_interaction_answer: the command resumes the original
\* checkpoint, the one parked on the question that was answered.
ResumesOriginal == [][taken' # taken => ckpt.q = run.cmd]_vars
=============================================================================
