----------------------------- MODULE AgentRuns ------------------------------
(***************************************************************************)
(* The runs of agents inside one execution: their identity rows, what the  *)
(* public stream says of them, and the snapshot of the execution           *)
(* (runtime/dispatch, runtime/nodes/execution.py,                          *)
(* runtime/public_projection.py, application/runtime_adapter.py,           *)
(* store/repositories/runtime.py, application/agent_tasks.py).             *)
(*                                                                         *)
(* A tier has tasks that run beside each other and tasks that run one      *)
(* after another; a provider may delegate to a child run.  Rows are        *)
(* written and batches of events persisted in transactions of their own,   *)
(* while the stream loop may notice a cancellation, be killed by one, or   *)
(* fail.  An agent run and its skill run are told of in the same events.   *)
(***************************************************************************)
EXTENDS Naturals, Sequences, FiniteSets, SequencesExt

CONSTANTS
  Run,         \* identities of runs
  Tiers,       \* the tiers looked at, each with a bound on its faults
  None,
  Faults       \* which of FaultKinds the environment may commit

FaultKinds == {"row", "persist", "raise"}

\* A tier: its tasks that run beside each other, those that run one after
\* another, and the child run of a task whose provider delegates.
TopOf(t)   == t.safe \cup ToSet(t.serial)
ChildOf(t) == {t.delegate[r] : r \in TopOf(t)} \ {None}

ASSUME RunsAssumption ==
  /\ None \notin Run /\ Faults \subseteq FaultKinds
  /\ \A t \in Tiers :
       /\ t.safe \cap ToSet(t.serial) = {} /\ IsInjective(t.serial)
       /\ DOMAIN t.delegate = TopOf(t) /\ t.faults \in Nat
       /\ TopOf(t) \cup ChildOf(t) \subseteq Run /\ TopOf(t) \cap ChildOf(t) = {}
       /\ \A r, u \in TopOf(t) :
            r # u /\ t.delegate[r] = t.delegate[u] => t.delegate[r] = None

VARIABLES
  tier,        \* the tier of this execution
  \* database
  row,         \* status of each run in agent_runs, and of its skill in skill_runs
  execRow,     \* agent_executions: status, and whether its snapshot is terminal
  log,         \* rows of the public stream
  \* the execution's memory
  att,         \* each attempt: its next await, and the status it ends with
  doomed,      \* attempts whose next await raises CancelledError
  graph,       \* where the graph is: in the tier, after it, ended or cancelled
  main,        \* the stream loop of _run_agent_task
  dropped,     \* the loop has gone and left the graph's generator behind
  terminal,    \* ExecutionProjector.state.terminal
  open, ended, \* PublicProjector: open spans; complete has been projected
  buffer,      \* events emitted and not taken by a flush
  flying,      \* batches being persisted
  \* the cancel request
  req,
  \* history
  faults, spoiled   \* spoiled: a batch of events was lost

dbVars == <<row, execRow, log>>
vars == <<tier, dbVars, att, doomed, graph, main, dropped, terminal, open, ended,
          buffer, flying, req, faults, spoiled>>

Status   == {"finished", "cancelled"}   \* finished: completed, declined or failed
RowState == {"none", "running"} \cup Status
Attempt  == [pc: {"idle", "create", "provider", "close", "over"},
             status: Status \cup {"none"}]
Line     == [kind: {"start", "end", "complete"}, run: Run \cup {None},
             status: Status \cup {"none"}]
Flight   == [by: {"main", "spawned"}, pc: {"append", "update"}, rows: Seq(Line),
             terminal: BOOLEAN]

StartOf(r)   == [kind |-> "start", run |-> r, status |-> "none"]
EndOf(r, st) == [kind |-> "end", run |-> r, status |-> st]
Complete     == [kind |-> "complete", run |-> None, status |-> "none"]

Top      == TopOf(tier)
Child    == ChildOf(tier)
Safe     == tier.safe
Serial   == tier.serial
Delegate == tier.delegate

Init ==
  /\ tier \in Tiers
  /\ row = [r \in Run |-> [agent |-> "none", skill |-> "none"]]
  /\ execRow = [status |-> "running", terminal |-> FALSE]
  /\ log = <<>>
  /\ att = [r \in Run |-> [pc |-> "idle", status |-> "none"]]
  /\ doomed = {}
  /\ graph = "tier"
  /\ main = "stream"
  /\ dropped = FALSE
  /\ terminal = FALSE
  /\ open = {}
  /\ ended = FALSE
  /\ buffer = <<>>
  /\ flying = <<>>
  /\ req = "none"
  /\ faults = 0
  /\ spoiled = FALSE

Fault(kind) ==
  /\ kind \in Faults
  /\ faults < tier.faults
  /\ faults' = faults + 1

Emit(events) == buffer' = buffer \o events

-----------------------------------------------------------------------------
(* One attempt *)

Parent(c) == CHOOSE t \in Top : Delegate[t] = c

InFlight(r) == att[r].pc \notin {"idle", "over"}

\* The child an attempt is waiting for.
Waiting(r) == r \in Top /\ Delegate[r] # None /\ InFlight(Delegate[r])

\* The serial task whose turn it is.
Turn == {i \in DOMAIN Serial :
           /\ att[Serial[i]].pc # "over"
           /\ \A j \in 1..i - 1 : att[Serial[j]].pc = "over"}

MayBegin(r) ==
  \/ r \in Child /\ att[Parent(r)].pc = "provider" /\ Parent(r) \notin doomed
  \/ r \in Safe
  \/ graph = "tier" /\ \E i \in Turn : Serial[i] = r

At(r, pc) == att[r].pc = pc /\ r \notin doomed

To(r, pc) == att' = [att EXCEPT ![r].pc = pc]

\* begin: bound and claimed; or a task is blocked.
Begin(r) ==
  /\ At(r, "idle") /\ MayBegin(r)
  /\ \/ To(r, "create")
     \/ r \in Top /\ To(r, "over")
  /\ UNCHANGED <<tier, dbVars, doomed, graph, main, dropped, terminal, open, ended,
                 buffer, flying, req, faults, spoiled>>

\* The rows of a run that begins, or ends, after the first n of the writes.
Opened(r, n) ==
  [agent |-> IF n > 0 THEN "running" ELSE "none",
   skill |-> IF n > 1 THEN "running" ELSE "none"]

Closed(r, n) ==
  LET Close(was, st) == IF was = "none" THEN "none" ELSE st
  IN  [agent |-> IF n > 0 THEN Close(row[r].agent, att[r].status) ELSE row[r].agent,
       skill |-> IF n > 1 THEN Close(row[r].skill, att[r].status) ELSE row[r].skill]

\* Two transactions, agent run then skill run, either of which may raise; the run
\* goes on.  Without the first there is no effect of the second: a closing tries
\* both in one block, and an opening, where each insert has a block of its own,
\* still tries the skill run, whose foreign key refuses it.
Writes(r, Rows(_, _)) ==
  \/ row' = [row EXCEPT ![r] = Rows(r, 2)] /\ UNCHANGED faults
  \/ Fault("row") /\ \E n \in 0..1 : row' = [row EXCEPT ![r] = Rows(r, n)]

\* create_identity_rows
Create(r) ==
  /\ At(r, "create")
  /\ Writes(r, Opened)
  /\ To(r, "provider")
  /\ Emit(<<StartOf(r)>>)
  /\ UNCHANGED <<tier, execRow, log, doomed, graph, main, dropped, terminal, open, ended,
                 flying, req, spoiled>>

\* The provider returns, declines or raises.
Ends(r) ==
  /\ At(r, "provider") /\ ~Waiting(r)
  /\ att' = [att EXCEPT ![r] = [pc |-> "close", status |-> "finished"]]
  /\ Emit(<<EndOf(r, "finished")>>)
  /\ UNCHANGED <<tier, dbVars, doomed, graph, main, dropped, terminal, open, ended,
                 flying, req, faults, spoiled>>

\* finish_identity
Close(r) ==
  /\ At(r, "close")
  /\ Writes(r, Closed)
  /\ To(r, "over")
  /\ UNCHANGED <<tier, execRow, log, doomed, graph, main, dropped, terminal, open, ended,
                 buffer, flying, req, spoiled>>

\* Mutant: a cancelled run does not wait for its child to unwind.
UnwindsNow(r) == r \in doomed
Unwinds(r) == r \in doomed /\ ~Waiting(r)

\* CancelledError at an await outside the provider: some of the writes are done,
\* nothing is emitted and nothing closed.
UnwindQuietly(r) ==
  /\ r \in doomed /\ att[r].pc \notin {"provider", "over"}
  /\ \E n \in 0..2 :
       row' = [row EXCEPT ![r] = CASE att[r].pc = "create" -> Opened(r, n)
                                   [] att[r].pc = "close"  -> Closed(r, n)
                                   [] OTHER                -> @]
  /\ To(r, "over")
  /\ doomed' = doomed \ {r}
  /\ UNCHANGED <<tier, execRow, log, graph, main, dropped, terminal, open, ended, buffer,
                 flying, req, faults, spoiled>>

\* Mutants: the cancellation is not told, or with a status the stream has not.
Silent(r)   == <<>>
Misnamed(r) == <<EndOf(r, "stopped")>>
Farewell(r) == <<EndOf(r, "cancelled")>>

\* Mutant: the rows of a cancelled run are closed as failed.
ClosedAs(r) == "finished"
ClosingAs(r) == "cancelled"

\* CancelledError in the provider: told, and the rows closed behind a shield.
UnwindProvider(r) ==
  /\ Unwinds(r) /\ att[r].pc = "provider"
  /\ att' = [att EXCEPT ![r] = [pc |-> "close", status |-> ClosingAs(r)]]
  /\ Emit(Farewell(r))
  /\ doomed' = doomed \ {r}
  /\ UNCHANGED <<tier, dbVars, graph, main, dropped, terminal, open, ended, flying, req,
                 faults, spoiled>>

-----------------------------------------------------------------------------
(* The graph *)

\* Mutant: the tier goes on without joining the tasks that run beside it.
SerialOver == \A i \in DOMAIN Serial : att[Serial[i]].pc = "over"
TierOver == \A r \in Top : att[r].pc = "over"

Report ==
  /\ graph = "tier"
  /\ TierOver
  /\ graph' = "after"
  /\ UNCHANGED <<tier, dbVars, att, doomed, main, dropped, terminal, open, ended, buffer,
                 flying, req, faults, spoiled>>

\* The stream loop is persisting a batch itself.
Flushing == \E i \in DOMAIN flying : flying[i].by = "main"

Streaming == main = "stream" /\ ~Flushing

\* The last streamed event is run.completed or run.failed.
GraphEnds ==
  /\ Streaming
  /\ graph = "after"
  /\ graph' = "ended"
  /\ terminal' = TRUE
  /\ \/ main' = "final" /\ Emit(<<Complete>>) /\ UNCHANGED faults
     \/ /\ Fault("raise")
        /\ main' = "failing"
        /\ Emit(<<Complete, Complete>>)
  /\ UNCHANGED <<tier, dbVars, att, doomed, dropped, open, ended, flying, req, spoiled>>

\* Whom a cancellation of the dispatch node reaches: the serial task it awaits,
\* or, at the join, what is left of the others.
Awaited ==
  IF Turn # {} THEN {Serial[i] : i \in Turn} ELSE {r \in Safe : att[r].pc # "over"}

Reached == Awaited \cup {Delegate[r] : r \in {s \in Awaited : Waiting(s)}}

CancelGraph ==
  /\ graph' = "cancelled"
  /\ doomed' = IF graph = "tier" THEN Reached ELSE doomed

\* A generator that was left behind is closed by the event loop, sooner or later.
Finalised ==
  /\ dropped /\ graph \in {"tier", "after"}
  /\ CancelGraph
  /\ UNCHANGED <<tier, dbVars, att, main, dropped, terminal, open, ended, buffer, flying,
                 req, faults, spoiled>>

-----------------------------------------------------------------------------
(* Flushes *)

\* PublicProjector.consume: the rows of a batch, the open spans and whether the
\* execution is complete, event by event.
Heeds(p, e) ==
  CASE e.kind = "start" ->
         [rows |-> Append(p.rows, e), open |-> p.open \cup {e.run}, ended |-> p.ended]
    [] e.kind = "end" /\ e.run \in p.open ->
         [rows |-> Append(p.rows, e), open |-> p.open \ {e.run}, ended |-> p.ended]
    [] e.kind = "complete" /\ ~p.ended ->
         [rows |-> Append(p.rows, e), open |-> p.open, ended |-> TRUE]
    [] OTHER -> p

Project(batch) ==
  LET p[i \in 0..Len(batch)] ==
        IF i = 0 THEN [rows |-> <<>>, open |-> open, ended |-> ended]
                 ELSE Heeds(p[i - 1], batch[i])
  IN  p[Len(batch)]

\* Emitting a start or an end spawns a flush; the loop flushes as it goes.  One
\* flush at a time holds the lock.
TakeBuffer(by) ==
  /\ buffer # <<>>
  /\ flying = <<>>
  /\ \/ by = "main" /\ main \in {"stream", "noticed", "final", "failing"} /\ ~Flushing
     \/ by = "spawned" /\ \E i \in DOMAIN buffer : buffer[i].kind # "complete"
  /\ LET p == Project(buffer)
     IN  /\ flying' = Append(flying, [by |-> by, pc |-> "append", rows |-> p.rows,
                                      terminal |-> terminal])
         /\ open' = p.open
         /\ ended' = p.ended
  /\ buffer' = <<>>
  /\ UNCHANGED <<tier, dbVars, att, doomed, graph, main, dropped, terminal, req,
                 faults, spoiled>>

Stored(i) ==
  /\ flying[i].pc = "append"
  /\ log' = log \o flying[i].rows
  /\ flying' = [flying EXCEPT ![i].pc = "update"]
  /\ UNCHANGED <<tier, row, execRow, att, doomed, graph, main, dropped, terminal, open,
                 ended, buffer, req, faults, spoiled>>

SnapshotStored(i) ==
  /\ flying[i].pc = "update"
  /\ execRow' = [execRow EXCEPT !.terminal = flying[i].terminal]
  /\ flying' = RemoveAt(flying, i)
  /\ UNCHANGED <<tier, row, log, att, doomed, graph, main, dropped, terminal, open,
                 ended, buffer, req, faults, spoiled>>

\* The rows of a batch that are not stored yet.
Waits(batch) == IF batch.pc = "append" THEN batch.rows ELSE <<>>

Lost(i) == Waits(flying[i]) # <<>>

\* The append or the update raises: in the loop that fails the turn, and the
\* graph is left behind; after the loop nobody is left to say so.
FlushFails(i) ==
  /\ Fault("persist")
  /\ flying' = RemoveAt(flying, i)
  /\ spoiled' = (spoiled \/ Lost(i))
  /\ IF flying[i].by # "main" THEN UNCHANGED <<main, dropped, buffer>>
     ELSE IF main \in {"stream", "noticed"}
          THEN main' = "failing" /\ dropped' = TRUE /\ Emit(<<Complete>>)
          ELSE main' = "over" /\ UNCHANGED <<dropped, buffer>>
  /\ UNCHANGED <<tier, dbVars, att, doomed, graph, terminal, open, ended, req>>

\* Mutant: the loop does not flush, nor join a flush in flight, before it ends.
Unflushed == ~Flushing
Flushed == buffer = <<>> /\ flying = <<>>

-----------------------------------------------------------------------------
(* The end of the stream loop *)

Over(st, final) ==
  /\ execRow' = [status |-> st, terminal |-> final]
  /\ main' = "over"
  /\ UNCHANGED <<tier, row, log, att, doomed, graph, terminal, open, ended, buffer,
                 flying, req, faults, spoiled>>

Final ==
  main = "final" /\ Flushed /\ Over("completed", terminal) /\ UNCHANGED dropped

FailStore ==
  main = "failing" /\ Flushed /\ Over("failed", TRUE) /\ UNCHANGED dropped

\* A streamed item after the task was cancelled.
Notice ==
  /\ Streaming
  /\ req # "none"
  /\ main' = "noticed"
  /\ UNCHANGED <<tier, dbVars, att, doomed, graph, dropped, terminal, open, ended, buffer,
                 flying, req, faults, spoiled>>

Noticed ==
  main = "noticed" /\ Flushed /\ Over("cancelled", terminal) /\ dropped' = TRUE

-----------------------------------------------------------------------------
(* cancel_agent_task *)

\* The task is marked cancelled, in the process of the execution or another.
CancelMark ==
  /\ req = "none"
  /\ main # "over"
  /\ req' \in {"kill", "elsewhere"}
  /\ UNCHANGED <<tier, dbVars, att, doomed, graph, main, dropped, terminal, open, ended,
                 buffer, flying, faults, spoiled>>

\* The batch the loop is persisting is interrupted: stored or lost.
Interrupted ==
  IF ~Flushing THEN UNCHANGED <<flying, log, spoiled>>
  ELSE \E i \in DOMAIN flying :
         /\ flying[i].by = "main"
         /\ flying' = RemoveAt(flying, i)
         /\ \/ log' = log \o Waits(flying[i]) /\ UNCHANGED spoiled
            \/ spoiled' = (spoiled \/ Lost(i)) /\ UNCHANGED log

\* cancel_run, in the process of the execution, cancels the runner: the
\* cancellation goes into the graph if the loop waits for it, and otherwise
\* leaves the graph behind.
CancelKill ==
  /\ req = "kill"
  /\ req' = "wait"
  /\ \/ /\ main = "over"
        /\ UNCHANGED <<main, graph, doomed, dropped, flying, log, spoiled>>
     \/ /\ Streaming
        /\ CancelGraph
        /\ main' = "unwinding"
        /\ UNCHANGED <<dropped, flying, log, spoiled>>
     \/ /\ main \in {"stream", "noticed", "final", "failing"}
        /\ main' = "over"
        /\ dropped' = TRUE
        /\ Interrupted
        /\ UNCHANGED <<graph, doomed>>
  /\ UNCHANGED <<tier, row, execRow, att, terminal, open, ended, buffer, faults>>

\* The dispatch node has joined its tasks and the runner ends.
Unwound ==
  /\ main = "unwinding"
  /\ doomed = {}
  /\ \A r \in Run : ~InFlight(r)
  /\ \A r \in Safe : att[r].pc = "over"
  /\ main' = "over"
  /\ UNCHANGED <<tier, dbVars, att, doomed, graph, dropped, terminal, open, ended, buffer,
                 flying, req, faults, spoiled>>

\* Once cancel_run has waited for the runner, the snapshot is read, marked
\* terminal and written back.
CancelWrite ==
  /\ req = "elsewhere" \/ (req = "wait" /\ main = "over")
  /\ execRow' = [status |-> "cancelled", terminal |-> TRUE]
  /\ req' = "done"
  /\ UNCHANGED <<tier, row, log, att, doomed, graph, main, dropped, terminal, open,
                 ended, buffer, flying, faults, spoiled>>

-----------------------------------------------------------------------------
AttemptStep(r) ==
  \/ Begin(r) \/ Create(r) \/ Ends(r) \/ Close(r)
  \/ UnwindQuietly(r) \/ UnwindProvider(r)

FlushStep ==
  \/ \E by \in {"main", "spawned"} : TakeBuffer(by)
  \/ \E i \in DOMAIN flying : Stored(i) \/ SnapshotStored(i)

MainStep == Report \/ GraphEnds \/ Final \/ FailStore \/ Notice \/ Noticed \/ Unwound

CancelStep == CancelKill \/ CancelWrite

Progress == (\E r \in Run : AttemptStep(r)) \/ FlushStep \/ MainStep \/ CancelStep

Next ==
  \/ Progress
  \/ CancelMark
  \/ Finalised
  \/ \E i \in DOMAIN flying : FlushFails(i)

Spec == Init /\ [][Next]_vars

\* Coroutines that can go on do, and providers return (they have timeouts).  No
\* state comes back, so one condition says it of each of them.  Nothing is assumed
\* of cancellations, faults or abandoned generators.
Fairness == WF_vars(Progress)

FairSpec == Spec /\ Fairness

-----------------------------------------------------------------------------
(* Properties *)

\* Type invariant.
TypeOK ==
  /\ row \in [Run -> [agent: RowState, skill: RowState]]
  /\ execRow \in [status: {"running", "completed", "failed", "cancelled"},
                  terminal: BOOLEAN]
  /\ log \in Seq(Line)
  /\ att \in [Run -> Attempt]
  /\ doomed \subseteq Run
  /\ graph \in {"tier", "after", "ended", "cancelled"}
  /\ main \in {"stream", "noticed", "unwinding", "final", "failing", "over"}
  /\ dropped \in BOOLEAN /\ terminal \in BOOLEAN
  /\ open \subseteq Run /\ ended \in BOOLEAN
  /\ buffer \in Seq(Line) /\ flying \in Seq(Flight)
  /\ req \in {"none", "kill", "wait", "elsewhere", "done"}
  /\ tier \in Tiers /\ faults \in 0..tier.faults /\ spoiled \in BOOLEAN

Starts(r) == {i \in DOMAIN log : log[i].kind = "start" /\ log[i].run = r}
EndsOf(r) == {i \in DOMAIN log : log[i].kind = "end" /\ log[i].run = r}

\* Every x is before some y.
Before(xs, ys) == \A y \in ys : \E x \in xs : x < y

\* The learner sees a tree: a run starts and ends once at most, ends after it
\* started, and a delegated run lies inside the run that delegated it, also
\* when a cancellation unwinds both (invoke, run_child, PublicProjector).
SpansNested ==
  \A r \in Run :
    /\ Cardinality(Starts(r)) <= 1 /\ Cardinality(EndsOf(r)) <= 1
    /\ ~spoiled => Before(Starts(r), EndsOf(r))
    /\ ~spoiled /\ r \in Child =>
         /\ Before(Starts(Parent(r)), Starts(r))
         /\ Starts(r) # {} => Before(EndsOf(r), EndsOf(Parent(r)))

\* Complete is the last word: it comes once, no run is open and none speaks
\* afterwards, unless the graph was left behind when its loop failed or was
\* killed (dispatch joins its tier, _terminal_run).
CompleteLast ==
  ~dropped => \A i \in DOMAIN log : log[i].kind = "complete" =>
    /\ i = Len(log)
    /\ ~spoiled => \A r \in Run : Starts(r) # {} => EndsOf(r) # {}

\* What is on the stream or on its way to it.
Said == ToSet(log) \cup ToSet(buffer)
          \cup UNION {ToSet(batch.rows) : batch \in ToSet(flying)}

\* A closed row says what the stream says, the skill run what its agent run
\* does; and when an execution has completed none of its rows is left running,
\* unless a write of theirs failed (invoke: the two can never disagree).
RowsMatchStream ==
  /\ \A r \in Run : \A st \in {row[r].agent, row[r].skill} :
       st \in Status /\ ~spoiled => EndOf(r, st) \in Said
  /\ execRow.status = "completed" /\ faults = 0 =>
       \A r \in Run : "running" \notin {row[r].agent, row[r].skill}

\* The stored snapshot of an execution that completed or failed is terminal: no
\* flush in flight writes an older one over it.
FinalSnapshot ==
  execRow.status = "completed" \/ (execRow.status = "failed" /\ ~dropped)
    => execRow.terminal

\* Whoever saw a run start sees it end: completed, failed or cancelled, however
\* the loop that ran it came to its end.
EveryRunEnds == <>[](spoiled \/ \A r \in Run : Starts(r) # {} => EndsOf(r) # {})

\* What invoke says of rows and stream: no row is left running for a run that
\* is over.
NeverDisagree ==
  faults = 0 => \A r \in Run : att[r].pc = "over" =>
                  "running" \notin {row[r].agent, row[r].skill}

\* What cancel_agent_task writes: a cancelled execution stays terminal.
CancelledTerminal == execRow.status = "cancelled" /\ req = "done" => execRow.terminal
=============================================================================
