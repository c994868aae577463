----------------------------- MODULE WorkLedger -----------------------------
(***************************************************************************)
(* The durable work of one agent task: plans committed by the orchestrator,*)
(* work items with dependencies and leases, the token budget they reserve  *)
(* and use, and the coroutines that dispatch, cancel, confirm and recover  *)
(* them (store/repositories/work_ledger.py, runtime/dispatch/,             *)
(* runtime/nodes/execution.py, application/agent_tasks.py).                *)
(*                                                                         *)
(* PostgreSQL runs the transactions under READ COMMITTED.  One that reads  *)
(* its row FOR UPDATE is one action.  The others are split where another   *)
(* transaction can come between: the row is read, the row is updated (and  *)
(* locked) and the budget row read, everything is committed.               *)
(***************************************************************************)
EXTENDS Naturals, FiniteSets, FiniteSetsExt

CONSTANTS
  Process,       \* server processes sharing the database
  Execution,     \* graph executions of the task
  Work,          \* work items the orchestrator may plan
  LastRevision,  \* how many plans it commits
  PlanOf,        \* the plan revision each item belongs to
  Tier,          \* OrchestrationPlan.tiers
  Deps,          \* work_dependencies
  Unconfirmed,   \* irreversible work planned as waiting_confirmation
  ParallelSafe,  \* work one tier dispatches concurrently
  Usage,         \* tokens a provider may report, in units of one reservation
  Limit,         \* the token budget of the task, in the same unit
  NoOne,
  SlowOwners,    \* may a lease lapse while its owner is alive?
  Faults,        \* which of FaultKinds the environment may commit
  MaxFaults      \* bound on how many it commits

Revision == 1..LastRevision

FaultKinds == {"crash", "abort", "cancel", "confirm"}

ASSUME LedgerAssumption ==
  /\ IsFiniteSet(Work)
  /\ LastRevision \in Nat
  /\ PlanOf \in [Work -> Revision]
  /\ Tier \in [Work -> Nat]
  /\ Deps \in [Work -> SUBSET Work]
  /\ \A w \in Work : \A d \in Deps[w] : PlanOf[d] = PlanOf[w] /\ Tier[d] < Tier[w]
  /\ Unconfirmed \subseteq Work
  /\ ParallelSafe \subseteq Work
  /\ Usage \subseteq Nat
  /\ Limit \in Nat
  /\ NoOne \notin Process \cup Work
  /\ Process \cap (Execution \X Work) = {}
  /\ SlowOwners \in BOOLEAN
  /\ Faults \subseteq FaultKinds
  /\ MaxFaults \in Nat

VARIABLES
  \* database
  revision,   \* agent_turns.revision of the current turn
  item,       \* work_items: status and lease
  ledger,     \* budget_ledger, one row per plan revision
  cancelled,  \* agent_tasks.status = "cancelled"
  \* process memory
  exec,       \* where each graph execution is
  attempt,    \* Dispatcher.run of each execution for each item
  desk,       \* the request or startup handler of each process
  tx,         \* open transactions that hold what they have read
  \* history
  faults,     \* how many faults the environment has committed
  achieved,   \* items some attempt committed as succeeded
  spent,      \* usage committed by the attempts of each plan
  revoked     \* how items were taken from the attempts that kept them, if at all

dbVars  == <<revision, item, ledger, cancelled>>
memVars == <<exec, attempt, desk, tx>>
history == <<faults, achieved, spent, revoked>>
vars    == <<dbVars, memVars, history>>

-----------------------------------------------------------------------------
(* Types and null records *)

Status  == {"absent", "queued", "leased", "waiting_confirmation", "succeeded",
            "incomplete", "failed", "blocked", "cancelled"}
Item    == [status: Status, lease: {"none", "live", "lapsed"}]
Account == [reserved: Nat, used: Nat]
Run     == [pc: {"idle", "orchestrate", "plan", "dispatch", "over"},
            at: Process \cup {NoOne}, rev: Nat]
Desk    == [pc: {"idle", "boot", "requeue", "cancel", "kill", "confirm"},
            todo: SUBSET Work]
Actor   == (Execution \X Work) \cup Process
Tx      == [pc: {"none", "update", "commit"}, work: Work \cup {NoOne},
            to: Status, use: Nat, seen: Account]

NoItem  == [status |-> "absent", lease |-> "none"]
NoMoney == [reserved |-> 0, used |-> 0]
NoTx    == [pc |-> "none", work |-> NoOne, to |-> "absent", use |-> 0, seen |-> NoMoney]
Booting == [pc |-> "boot", todo |-> {}]
Idle    == [pc |-> "idle", todo |-> {}]

Opened(w, to, use) ==
  [pc |-> "update", work |-> w, to |-> to, use |-> use, seen |-> NoMoney]

-----------------------------------------------------------------------------
(* Reading the ledger *)

Planned(r) == {w \in Work : PlanOf[w] = r}

\* A row updated by an open transaction is locked until that commits.
Locked(w) == \E x \in Actor : tx[x].pc = "commit" /\ tx[x].work = w

Expired(w) == item[w].status = "leased" /\ item[w].lease = "lapsed"

Bad == {"failed", "incomplete", "blocked", "cancelled"}

DepsBroken(w) == \E d \in Deps[w] : item[d].status \in Bad

\* Mutant: work may start as soon as no dependency has gone wrong.
DepsNotBroken(w) == ~DepsBroken(w)

DepsSucceeded(w) == \A d \in Deps[w] : item[d].status = "succeeded"

\* Mutant: the claim looks at the status only.
ClaimableWhileLive(w) == item[w].status \in {"queued", "leased"}

Claimable(w) == item[w].status = "queued" \/ Expired(w)

Consumed(account) == account.reserved + account.used

TotalConsumed == MapThenSumSet(LAMBDA r : Consumed(ledger[r]), Revision)

Busy(e, w) == attempt[e][w] = "run"

\* Attempts that keep their lease alive until they have finished.
Beating(w) == \E e \in Execution : Busy(e, w)

Fault(kind) ==
  /\ kind \in Faults
  /\ faults < MaxFaults
  /\ faults' = faults + 1

-----------------------------------------------------------------------------
Init ==
  /\ revision = 0
  /\ item = [w \in Work |-> NoItem]
  /\ ledger = [r \in Revision |-> NoMoney]
  /\ cancelled = FALSE
  /\ exec = [e \in Execution |-> [pc |-> "idle", at |-> NoOne, rev |-> 0]]
  /\ attempt = [e \in Execution |-> [w \in Work |-> "todo"]]
  /\ desk = [p \in Process |-> Booting]
  /\ tx = [x \in Actor |-> NoTx]
  /\ faults = 0
  /\ achieved = {}
  /\ spent = [r \in Revision |-> 0]
  /\ revoked = {}

-----------------------------------------------------------------------------
(* Graph executions.  Several may be alive: see turn_exclusion. *)

\* Only the items the guardrails allow are dispatched; the learner has not
\* confirmed the others.
Fresh == [w \in Work |-> IF w \in Unconfirmed THEN "done" ELSE "todo"]

\* The graph resumes from its checkpoint: before the orchestrator's next plan,
\* or after it has committed the latest one.
StartExec(e, p) ==
  /\ exec[e].pc = "idle"
  /\ desk[p].pc \notin {"boot", "requeue"}
  /\ ~cancelled
  /\ \/ /\ revision < LastRevision
        /\ exec' = [exec EXCEPT ![e] = [pc |-> "orchestrate", at |-> p, rev |-> 0]]
     \/ /\ revision > 0
        /\ exec' = [exec EXCEPT ![e] = [pc |-> "dispatch", at |-> p, rev |-> revision]]
  /\ attempt' = [attempt EXCEPT ![e] = Fresh]
  /\ UNCHANGED <<dbVars, desk, tx, history>>

\* latest_turn; LastRevision bounds the plans a run of TLC looks at.
ReadTurn(e) ==
  /\ exec[e].pc = "orchestrate"
  /\ revision < LastRevision
  /\ exec' = [exec EXCEPT ![e] = [@ EXCEPT !.pc = "plan", !.rev = revision]]
  /\ UNCHANGED <<dbVars, attempt, desk, tx, history>>

\* create_work_plan: compare and swap of the revision, reservation, items.  A
\* lost race leaves a plan that runs outside the ledger, a reservation that
\* does not fit ends the turn.
CreatePlan(e) ==
  LET r     == exec[e].rev + 1
      items == Planned(r)
      fits  == TotalConsumed + Cardinality(items) <= Limit
      won   == revision = exec[e].rev /\ fits
  IN /\ exec[e].pc = "plan"
     /\ exec' = [exec EXCEPT ![e] = IF won THEN [@ EXCEPT !.pc = "dispatch", !.rev = r]
                                           ELSE [@ EXCEPT !.pc = "over"]]
     /\ IF won
          THEN /\ revision' = r
               /\ ledger' = [ledger EXCEPT ![r].reserved = Cardinality(items)]
               /\ item' = [w \in Work |->
                    IF w \notin items THEN item[w]
                    ELSE [NoItem EXCEPT !.status =
                            IF w \in Unconfirmed THEN "waiting_confirmation"
                                                 ELSE "queued"]]
          ELSE UNCHANGED <<revision, ledger, item>>
     /\ UNCHANGED <<cancelled, attempt, desk, tx, history>>

(* The dispatch node: tier by tier, the parallel-safe items of a tier together, *)
(* the others one after the other.                                              *)

Turn(e, w) ==
  /\ exec[e].pc = "dispatch"
  /\ PlanOf[w] = exec[e].rev
  /\ attempt[e][w] = "todo"
  /\ \A v \in Planned(exec[e].rev) :
       /\ Tier[v] < Tier[w] => attempt[e][v] = "done"
       /\ w \notin ParallelSafe /\ v \notin ParallelSafe => ~Busy(e, v)

Ends(e, w) == attempt' = [attempt EXCEPT ![e][w] = "done"]

\* claim_work_item
Claim(e, w) ==
  /\ Turn(e, w)
  /\ ~Locked(w)
  /\ IF Claimable(w) /\ DepsSucceeded(w)
       THEN /\ item' = [item EXCEPT ![w] = [status |-> "leased", lease |-> "live"]]
            /\ attempt' = [attempt EXCEPT ![e][w] = "run"]
       ELSE /\ item' = IF Claimable(w) /\ DepsBroken(w)
                         THEN [item EXCEPT ![w].status = "blocked"] ELSE item
            /\ Ends(e, w)      \* the outcome is blocked, nothing runs
  /\ UNCHANGED <<revision, ledger, cancelled, exec, desk, tx, history>>

\* finish_work reads the item.  Every execution of the task uses the same owner,
\* so that only the status tells whether the lease is still its own; a refusal
\* is ignored by the dispatcher.
Finish(e, w, to, use) ==
  /\ Busy(e, w)
  /\ tx[<<e, w>>].pc = "none"
  /\ to = "failed" => use = 0
  /\ IF item[w].status = "leased"
       THEN tx' = [tx EXCEPT ![<<e, w>>] = Opened(w, to, use)] /\ UNCHANGED attempt
       ELSE Ends(e, w) /\ UNCHANGED tx
  /\ UNCHANGED <<dbVars, exec, desk, history>>

\* The tier's results are in and the next tier is not reached: the node returns
\* when this was the last tier or the run's own budget is exhausted.
EndRound(e) ==
  /\ exec[e].pc = "dispatch"
  /\ \A v, w \in Planned(exec[e].rev) :
       /\ ~Busy(e, w)
       /\ attempt[e][v] = "done" /\ attempt[e][w] = "todo" /\ v \notin Unconfirmed
            => Tier[v] < Tier[w]
  /\ exec' = [exec EXCEPT ![e].pc = IF revision < LastRevision THEN "orchestrate" ELSE "over"]
  /\ UNCHANGED <<dbVars, attempt, desk, tx, history>>

-----------------------------------------------------------------------------
(* Transactions of finish_work, cancel_work and confirm_work.  None looks at *)
(* the row again after reading it, and all write absolute values.            *)

TxUpdate(x) ==
  /\ tx[x].pc = "update"
  /\ ~Locked(tx[x].work)
  /\ tx' = [tx EXCEPT ![x] = [@ EXCEPT !.pc = "commit",
                                       !.seen = ledger[PlanOf[tx[x].work]]]]
  /\ UNCHANGED <<dbVars, exec, attempt, desk, history>>

\* Mutant: a confirmation gives the reservation back too.
SettledByAll(account, t) ==
  [reserved |-> IF t.seen.reserved > 0 THEN t.seen.reserved - 1 ELSE account.reserved,
   used     |-> IF t.use > 0 THEN t.seen.used + t.use ELSE account.used]

\* Mutant: what the plan reserved is given back at once.
SettledWhole(account, t) ==
  [reserved |-> 0,
   used     |-> IF t.use > 0 THEN t.seen.used + t.use ELSE account.used]

\* Mutant: the subtraction is not bounded by zero.
SettledBelowZero(account, t) ==
  IF t.to = "queued" THEN account
  ELSE [reserved |-> t.seen.reserved - 1,
        used     |-> IF t.use > 0 THEN t.seen.used + t.use ELSE account.used]

\* A confirmation keeps the reservation; whatever else ends the item gives it
\* back.  A column that does not change is not written.
Settled(account, t) ==
  IF t.to = "queued" THEN account
  ELSE [reserved |-> IF t.seen.reserved > 0 THEN t.seen.reserved - 1 ELSE account.reserved,
        used     |-> IF t.use > 0 THEN t.seen.used + t.use ELSE account.used]

TxCommit(x) ==
  LET t == tx[x]
      r == PlanOf[t.work]
  IN /\ t.pc = "commit"
     /\ item' = [item EXCEPT ![t.work] = [status |-> t.to, lease |-> "none"]]
     /\ ledger' = [ledger EXCEPT ![r] = Settled(@, t)]
     /\ tx' = [tx EXCEPT ![x] = NoTx]
     /\ achieved' = IF t.to = "succeeded" THEN achieved \cup {t.work} ELSE achieved
     /\ spent' = [spent EXCEPT ![r] = @ + t.use]
     /\ attempt' = [e \in Execution |-> [w \in Work |->
                      IF x = <<e, w>> THEN "done" ELSE attempt[e][w]]]
     /\ desk' = [p \in Process |-> IF x = p /\ desk[p].pc = "confirm" THEN Idle ELSE desk[p]]
     /\ revoked' = IF t.to = "cancelled" THEN revoked \cup {"cancel"} ELSE revoked
     /\ UNCHANGED <<revision, cancelled, exec, faults>>

-----------------------------------------------------------------------------
(* cancel_agent_task *)

CancelList(p) ==
  /\ desk[p].pc = "idle"
  /\ ~cancelled
  /\ Fault("cancel")
  /\ desk' = [desk EXCEPT ![p] =
       [pc   |-> "cancel",
        todo |-> {w \in Work : item[w].status \notin
                    {"absent", "succeeded", "failed", "cancelled", "blocked"}}]]
  /\ UNCHANGED <<dbVars, exec, attempt, tx, achieved, spent, revoked>>

CancelWork(p, w) ==
  /\ desk[p].pc = "cancel"
  /\ w \in desk[p].todo
  /\ tx[p].pc = "none"
  /\ desk' = [desk EXCEPT ![p].todo = @ \ {w}]
  /\ tx' = IF item[w].status \in {"succeeded", "failed", "cancelled"} THEN tx
           ELSE [tx EXCEPT ![p] = Opened(w, "cancelled", 0)]
  /\ UNCHANGED <<dbVars, exec, attempt, history>>

CancelMark(p) ==
  /\ desk[p] = [pc |-> "cancel", todo |-> {}]
  /\ tx[p].pc = "none"
  /\ cancelled' = TRUE
  /\ desk' = [desk EXCEPT ![p].pc = "kill"]
  /\ UNCHANGED <<revision, item, ledger, exec, attempt, tx, history>>

\* Executions of a process end where they are and their transactions roll back.
Killed(p) == {e \in Execution : exec[e].at = p}

EndExecutions(E, P) ==
  /\ exec' = [e \in Execution |-> IF e \in E THEN [exec[e] EXCEPT !.pc = "over"] ELSE exec[e]]
  /\ attempt' = [e \in Execution |-> [w \in Work |->
                   IF e \in E THEN "done" ELSE attempt[e][w]]]
  /\ tx' = [x \in Actor |->
              IF x \in P \/ x \in E \X Work THEN NoTx ELSE tx[x]]

CancelKill(p) ==
  /\ desk[p].pc = "kill"
  /\ desk' = [desk EXCEPT ![p] = Idle]
  /\ EndExecutions(Killed(p), {})
  /\ UNCHANGED <<dbVars, history>>

(* confirm_work *)

Confirm(p, w, to) ==
  /\ desk[p].pc = "idle"
  /\ item[w].status = "waiting_confirmation"
  /\ Fault("confirm")
  /\ to \in {"queued", "cancelled"}
  /\ desk' = [desk EXCEPT ![p].pc = "confirm"]
  /\ tx' = [tx EXCEPT ![p] = Opened(w, to, 0)]
  /\ UNCHANGED <<dbVars, exec, attempt, achieved, spent, revoked>>

-----------------------------------------------------------------------------
(* Leases, death and recovery *)

\* Sixty seconds without a heartbeat.  A heartbeat extends live leases only, so
\* that it never changes what the model sees.
LeaseLapse(w) ==
  /\ item[w].lease = "live"
  /\ SlowOwners \/ ~Beating(w)
  /\ item' = [item EXCEPT ![w].lease = "lapsed"]
  /\ revoked' = IF Beating(w) THEN revoked \cup {"lease"} ELSE revoked
  /\ UNCHANGED <<revision, ledger, cancelled, memVars, faults, achieved, spent>>

\* The graph run fails or is cancelled: CancelledError passes through the
\* dispatcher, which leaves its items leased.
Abort(e) ==
  /\ exec[e].pc \in {"orchestrate", "plan", "dispatch"}
  /\ Fault("abort")
  /\ EndExecutions({e}, {})
  /\ UNCHANGED <<dbVars, desk, achieved, spent, revoked>>

Crash(p) ==
  /\ desk[p].pc # "boot"
  /\ Fault("crash")
  /\ desk' = [desk EXCEPT ![p] = Booting]
  /\ EndExecutions(Killed(p), {p})
  /\ UNCHANGED <<dbVars, achieved, spent, revoked>>

\* recover_expired_work reads the expired rows without a lock ...
RecoverRead(p) ==
  /\ desk[p].pc = "boot"
  /\ desk' = [desk EXCEPT ![p] = [pc |-> "requeue", todo |-> {w \in Work : Expired(w)}]]
  /\ UNCHANGED <<dbVars, exec, attempt, tx, history>>

\* ... looks at their dependencies and updates them by their key.
RecoverCommit(p) ==
  /\ desk[p].pc = "requeue"
  /\ \A w \in desk[p].todo : ~Locked(w)
  /\ item' = [w \in Work |->
       IF w \notin desk[p].todo THEN item[w]
       ELSE [status |-> IF DepsBroken(w) THEN "blocked" ELSE "queued", lease |-> "none"]]
  /\ revoked' = IF \A w \in desk[p].todo : Expired(w) THEN revoked
                                                         ELSE revoked \cup {"lease"}
  /\ desk' = [desk EXCEPT ![p] = Idle]
  /\ UNCHANGED <<revision, ledger, cancelled, exec, attempt, tx, faults, achieved, spent>>

-----------------------------------------------------------------------------
ExecStep(e) ==
  \/ ReadTurn(e) \/ CreatePlan(e) \/ EndRound(e)
  \/ \E w \in Work :
       \/ Claim(e, w)
       \/ \E to \in {"succeeded", "incomplete", "failed"}, use \in Usage :
            Finish(e, w, to, use)

DeskStep(p) ==
  \/ RecoverRead(p) \/ RecoverCommit(p)
  \/ \E w \in Work : CancelWork(p, w)
  \/ CancelMark(p) \/ CancelKill(p)

Environment ==
  \/ \E e \in Execution, p \in Process : StartExec(e, p)
  \/ \E p \in Process : CancelList(p) \/ Crash(p)
  \/ \E p \in Process, w \in Work, to \in {"queued", "cancelled"} : Confirm(p, w, to)
  \/ \E e \in Execution : Abort(e)
  \/ \E w \in Work : LeaseLapse(w)

Next ==
  \/ \E e \in Execution : ExecStep(e)
  \/ \E p \in Process : DeskStep(p)
  \/ \E x \in Actor : TxUpdate(x) \/ TxCommit(x)
  \/ Environment

Spec == Init /\ [][Next]_vars

-----------------------------------------------------------------------------
(* Properties *)

\* Every variable keeps the shape of the columns and fields it stands for; in
\* particular no sequence of releases drives a reservation below zero.
TypeOK ==
  /\ revision \in 0..LastRevision
  /\ item \in [Work -> Item]
  /\ ledger \in [Revision -> Account]
  /\ cancelled \in BOOLEAN
  /\ exec \in [Execution -> Run]
  /\ attempt \in [Execution -> [Work -> {"todo", "run", "done"}]]
  /\ desk \in [Process -> Desk]
  /\ tx \in [Actor -> Tx]
  /\ faults \in 0..MaxFaults
  /\ achieved \subseteq Work
  /\ spent \in [Revision -> Nat]
  /\ revoked \subseteq {"lease", "cancel"}

\* "The same WorkItem can never run twice under parallel dispatch"
\* (runtime/dispatch/scheduler.py:13): executions that overlap, resume and are
\* killed in the middle never run an item at the same time, unless an attempt
\* lost a lease it was keeping.
RunsOnce ==
  "lease" \notin revoked =>
    \A w \in Work, e, f \in Execution : Busy(e, w) /\ Busy(f, w) => e = f

\* An attempt runs only after every dependency of its item was committed as
\* succeeded, whichever execution did that, and in spite of tiers resumed by
\* another execution, expired leases and items put back into the queue.
DependenciesFirst ==
  \A e \in Execution, w \in Work : Busy(e, w) => Deps[w] \subseteq achieved

Outstanding(r) ==
  {w \in Planned(r) :
     item[w].status \in {"queued", "leased", "waiting_confirmation", "blocked"}}

\* Concurrent settlements overwrite each other, but never so that the ledger
\* forgets a reservation of work still to be done: a new plan is admitted against
\* at least what is outstanding (cancelling releases unfinished work again: see README).
ReservationsCover ==
  revoked = {} =>
    \A r \in Revision : ledger[r].reserved >= Cardinality(Outstanding(r))

(* A claim of the code's comments that the code does not keep *)

\* "Outstanding reservations and settled usage across all revisions are the
\* authoritative ledger" (store/repositories/work_ledger.py:395): when no
\* transaction is open, the rows say what is reserved and what was used.
BudgetAuthoritative ==
  (\A x \in Actor : tx[x].pc = "none") =>
    \A r \in Revision : ledger[r] = [reserved |-> Cardinality(Outstanding(r)),
                                    used     |-> spent[r]]
=============================================================================
