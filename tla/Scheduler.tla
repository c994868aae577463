----------------------------- MODULE Scheduler -----------------------------
(***************************************************************************)
(* Schedules approved by the learner, and the workers that turn their due  *)
(* slots into tasks (runtime/schedules.py, scheduler_worker.py,            *)
(* store/repositories/agent_tasks.py).  A worker claims the most overdue   *)
(* schedule under a lease, creates a task, waits until the task has an     *)
(* execution, and stores that together with the time of the next slot.     *)
(* What becomes of the task afterwards is TurnRunner's subject.            *)
(***************************************************************************)
EXTENDS Naturals

CONSTANTS
  Worker,       \* SchedulerWorker, one for each process
  Schedule,
  Horizon,      \* bound on the clock
  NextTime,     \* croniter: the first slot of a schedule after a moment
  MaxFaults,    \* bound on crashes, failed launches, and launches slower than a lease
  NoSchedule

Moment == 0..Horizon

ASSUME SchedulerAssumption ==
  /\ Horizon \in Nat
  /\ NextTime \in [Schedule -> [Moment -> Nat]]
  /\ \A s \in Schedule, t \in Moment : t < NextTime[s][t]
  /\ MaxFaults \in Nat
  /\ NoSchedule \notin Schedule

VARIABLES
  now,        \* the clock, in slots
  sched,      \* agent_schedules: status, next_run_at, lease
  run,        \* agent_schedule_runs: status of the row of each slot
  worker,     \* what each worker is doing
  \* history
  faults,     \* how many faults the environment has committed
  launches,   \* slots turned into a task, with the moment of their claim
  repeated,   \* slots turned into a task again
  given_up,   \* slots whose launch was not stored: it failed, or its worker died
  overtaken   \* schedules whose lease lapsed under a worker at work

history == <<faults, launches, repeated, given_up, overtaken>>
vars    == <<now, sched, run, worker, history>>

-----------------------------------------------------------------------------
(* Types and null records *)

Lease  == {"none", "live", "lapsed"}
Row    == [status : {"proposed", "active", "rejected", "revoked"}, next : Nat, lease : Lease]
Seen   == [next : Nat, lease : Lease]
Job    == [pc : {"idle", "launch", "wait", "finish", "store"},
           sched : Schedule \cup {NoSchedule}, slot : Moment, moment : Moment,
           task : {"none", "queued", "claimed", "running"}, seen : Seen]

Idle == [pc |-> "idle", sched |-> NoSchedule, slot |-> 0, moment |-> 0,
         task |-> "none", seen |-> [next |-> 0, lease |-> "none"]]

Claimed(s, t, m) == [Idle EXCEPT !.pc = "launch", !.sched = s, !.slot = t, !.moment = m]

\* Worker w has claimed s and not stored or given up the launch.
On(w, s) == worker[w].pc # "idle" /\ worker[w].sched = s

Slot(w) == <<worker[w].sched, worker[w].slot>>

Fault ==
  /\ faults < MaxFaults
  /\ faults' = faults + 1

-----------------------------------------------------------------------------
Init ==
  /\ now = 0
  /\ \E approved \in SUBSET Schedule :
       sched = [s \in Schedule |->
         [status |-> IF s \in approved THEN "active" ELSE "proposed",
          next   |-> NextTime[s][0],
          lease  |-> "none"]]
  /\ run = [s \in Schedule |-> [t \in Moment |-> "none"]]
  /\ worker = [w \in Worker |-> Idle]
  /\ faults = 0
  /\ launches = {}
  /\ repeated = {}
  /\ given_up = {}
  /\ overtaken = {}

Tick ==
  /\ now < Horizon
  /\ now' = now + 1
  /\ UNCHANGED <<sched, run, worker, history>>

\* decide_schedule_permission: the first decision counts.
Decide(s, verdict) ==
  /\ sched[s].status = "proposed"
  /\ sched' = [sched EXCEPT ![s].status = verdict]
  /\ UNCHANGED <<now, run, worker, history>>

\* revoke_schedule_proposal, and an approved revocation.
Revoke(s) ==
  /\ sched' = [sched EXCEPT ![s].status = "revoked"]
  /\ UNCHANGED <<now, run, worker, history>>

-----------------------------------------------------------------------------
(* SchedulerWorker.run_once *)

\* Mutant: leases are not looked at.
DueWhileLeased(s) == sched[s].status = "active" /\ sched[s].next <= now

\* Mutant: a lease is never taken over.
DueUnleased(s) ==
  sched[s].status = "active" /\ sched[s].next <= now /\ sched[s].lease = "none"

Due(s) ==
  /\ sched[s].status = "active"
  /\ sched[s].next <= now
  /\ sched[s].lease # "live"

Started(s) == run[s][sched[s].next] = "started"

\* SKIP LOCKED: w passes over a row that another worker is storing, or is
\* looking at because its slot is started.
Skipped(w, s) ==
  \E v \in Worker \ {w} : \/ worker[v].pc = "store" /\ worker[v].sched = s
                          \/ worker[v].pc = "idle" /\ Started(s)

\* claim_due_schedule.  A slot that has a row with status claimed is claimed
\* again; one that is started is left as it is.
Poll(w, s) ==
  LET t == sched[s].next
  IN /\ worker[w].pc = "idle"
     /\ Due(s)
     /\ \A u \in Schedule : Due(u) /\ sched[u].next < t => Skipped(w, u)
     /\ IF Started(s)
          THEN /\ sched' = [sched EXCEPT ![s].lease = "none"]
               /\ UNCHANGED <<run, worker>>
          ELSE /\ sched' = [sched EXCEPT ![s].lease = "live"]
               /\ run' = [run EXCEPT ![s][t] = "claimed"]
               /\ worker' = [worker EXCEPT ![w] = Claimed(s, t, now)]
     /\ UNCHANGED <<now, history>>

\* launch: a durable task, whose execution starts in the background.
Launch(w) ==
  LET j == worker[w]
      launched == \E l \in launches : l.sched = j.sched /\ l.slot = j.slot
  IN /\ j.pc = "launch"
     /\ worker' = [worker EXCEPT ![w].pc = "wait", ![w].task = "queued"]
     /\ launches' = launches \cup {[sched |-> j.sched, slot |-> j.slot, moment |-> j.moment]}
     /\ repeated' = IF launched THEN repeated \cup {Slot(w)} ELSE repeated
     /\ UNCHANGED <<now, sched, run, faults, given_up, overtaken>>

\* The task's own run: claim_agent_task sets current_execution_id, several
\* transactions later create_agent_execution inserts the row it refers to.
TaskProgress(w) ==
  /\ \/ /\ worker[w].pc = "wait"
        /\ worker[w].task = "queued"
        /\ worker' = [worker EXCEPT ![w].task = "claimed"]
     \/ /\ worker[w].task = "claimed"
        /\ worker' = [worker EXCEPT ![w].task = "running"]
  /\ UNCHANGED <<now, sched, run, history>>

\* agent_task_snapshot shows an execution.
Ready(w) ==
  /\ worker[w].pc = "wait"
  /\ worker[w].task # "queued"
  /\ worker' = [worker EXCEPT ![w].pc = "finish"]
  /\ UNCHANGED <<now, sched, run, history>>

\* finish_schedule_claim loads the schedule ...
FinishRead(w) ==
  /\ worker[w].pc = "finish"
  /\ worker' = [worker EXCEPT ![w].pc = "store",
                  ![w].seen = LET s == worker[w].sched
                              IN [next |-> sched[s].next, lease |-> sched[s].lease]]
  /\ UNCHANGED <<now, sched, run, history>>

\* Mutant: every missed slot is made up for.
FromSlot(s, slot, moment) == NextTime[s][slot]

\* run_once skips the slots missed until the moment of the claim.
NextRun(s, slot, moment) == NextTime[s][moment]

\* Mutant: the schedule is not advanced.
LeasedRow(row, seen, next) == [row EXCEPT !.lease = "none"]

\* Mutant: a schedule that has run gets a status of its own.
MarkedRow(row, seen, next) == [row EXCEPT !.status = "started", !.next = next, !.lease = "none"]

\* ... and writes the columns that differ from what it has loaded.  Neither the
\* owner nor the lease is compared.
FinishedRow(row, seen, next) ==
  [row EXCEPT !.next  = IF next # seen.next THEN next ELSE @,
              !.lease = IF seen.lease # "none" THEN "none" ELSE @]

\* The run refers to an execution: while that is not inserted, the transaction
\* fails and the lease is left to expire.
FinishStore(w) ==
  LET j == worker[w]
      s == j.sched
  IN /\ j.pc = "store"
     /\ IF j.task = "running"
          THEN /\ run' = [run EXCEPT ![s][j.slot] = "started"]
               /\ sched' = [sched EXCEPT ![s] =
                    FinishedRow(@, j.seen, NextRun(s, j.slot, j.moment))]
               /\ UNCHANGED given_up
          ELSE /\ given_up' = given_up \cup {Slot(w)}
               /\ UNCHANGED <<run, sched>>
     /\ worker' = [worker EXCEPT ![w] = Idle]
     /\ UNCHANGED <<now, faults, launches, repeated, overtaken>>

-----------------------------------------------------------------------------
(* Failures *)

\* The launch raises, times out, or the worker dies and starts again: nothing is
\* released.
GiveUp(w) ==
  /\ worker[w].pc # "idle"
  /\ Fault
  /\ worker' = [worker EXCEPT ![w] = Idle]
  /\ given_up' = given_up \cup {Slot(w)}
  /\ UNCHANGED <<now, sched, run, launches, repeated, overtaken>>

\* Sixty seconds after the claim.  There is no heartbeat, so that a launch that
\* takes longer (it waits ten seconds for the execution alone) loses its lease.
LeaseLapse(s) ==
  LET working == \E w \in Worker : On(w, s)
  IN /\ sched[s].lease = "live"
     /\ IF working THEN Fault /\ overtaken' = overtaken \cup {s}
                   ELSE UNCHANGED <<faults, overtaken>>
     /\ sched' = [sched EXCEPT ![s].lease = "lapsed"]
     /\ UNCHANGED <<now, run, worker, launches, repeated, given_up>>

-----------------------------------------------------------------------------
WorkerStep(w) ==
  Launch(w) \/ TaskProgress(w) \/ Ready(w) \/ FinishRead(w) \/ FinishStore(w)

Next ==
  \/ Tick
  \/ \E w \in Worker : WorkerStep(w) \/ GiveUp(w)
  \/ \E s \in Schedule :
       \/ \E w \in Worker : Poll(w, s)
       \/ \E verdict \in {"active", "rejected"} : Decide(s, verdict)
       \/ Revoke(s)
       \/ LeaseLapse(s)

Spec == Init /\ [][Next]_vars

\* Workers go on with what they do and leases run out.  A worker polls every five
\* seconds, so that a schedule which keeps becoming the next one (the others are
\* leased for a minute) is polled in the end.
Fairness ==
  /\ \A w \in Worker : WF_vars(WorkerStep(w))
  /\ \A s \in Schedule : WF_vars(LeaseLapse(s)) /\ SF_vars(\E w \in Worker : Poll(w, s))

FairSpec == Spec /\ Fairness

-----------------------------------------------------------------------------
(* Properties *)

\* Every variable keeps the shape of the columns and fields it stands for.
TypeOK ==
  /\ now \in Moment
  /\ sched \in [Schedule -> Row]
  /\ run \in [Schedule -> [Moment -> {"none", "claimed", "started"}]]
  /\ worker \in [Worker -> Job]
  /\ faults \in 0..MaxFaults
  /\ launches \subseteq [sched : Schedule, slot : Moment, moment : Moment]
  /\ repeated \subseteq Schedule \X Moment
  /\ given_up \subseteq Schedule \X Moment
  /\ overtaken \subseteq Schedule

\* "Safe to run in multiple processes" (runtime/schedules.py): a slot becomes a
\* second task only if the first launch was given up, or took longer than its
\* lease.
SlotOnce == \A e \in repeated : e \in given_up \/ e[1] \in overtaken

\* The next slot of a schedule is never one that is started already, which no
\* worker would launch or move past: the schedule would stand still and, being the
\* most overdue, keep the others from being polled.
NeverStuck == \A s \in Schedule \ overtaken : sched[s].next \in Moment => ~Started(s)

\* "The worker never floods the learner with a backlog" (runtime/schedules.py):
\* after a launch the next one is for a slot later than the moment the first was
\* claimed at, through crashes, retries and other workers.
NoFlood ==
  \A k, l \in launches :
    k.sched = l.sched /\ k.sched \notin overtaken /\ k.slot < l.slot => k.moment < l.slot

\* A due slot becomes a task, unless the schedule is revoked or a launch was
\* overtaken.
DueRuns ==
  \A s \in Schedule, t \in Moment :
    sched[s].status = "active" /\ sched[s].next = t /\ t <= now
      ~> \/ \E l \in launches : l.sched = s /\ l.slot = t
         \/ sched[s].status # "active"
         \/ overtaken # {}
=============================================================================
