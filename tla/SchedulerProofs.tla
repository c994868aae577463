-------------------------- MODULE SchedulerProofs --------------------------
(***************************************************************************)
(* Types of the scheduler, and why a slot becomes one task, no schedule    *)
(* stands still and no backlog is made up for: for every set of workers    *)
(* and schedules, every cron expression and every bound on time and        *)
(* faults.                                                                 *)
(***************************************************************************)
EXTENDS Scheduler, TLAPS

\* A worker at work has a schedule.
Assigned == \A w \in Worker : worker[w].pc # "idle" => worker[w].sched \in Schedule

-----------------------------------------------------------------------------
(* Types *)

LEMMA IdleTyped == Idle \in Job
<1>1. 0 \in Moment
      BY SchedulerAssumption DEF Moment
<1> QED
    BY <1>1 DEF Idle, Job, Seen, Lease

LEMMA ClaimedTyped ==
  ASSUME NEW s \in Schedule, NEW t \in Moment, NEW m \in Moment
  PROVE  /\ Claimed(s, t, m) \in Job
         /\ Claimed(s, t, m).pc = "launch"
         /\ Claimed(s, t, m).sched = s
         /\ Claimed(s, t, m).slot = t
         /\ Claimed(s, t, m).moment = m
  BY DEF Claimed, Idle, Job, Seen, Lease

LEMMA FinishedTyped ==
  ASSUME NEW row \in Row, NEW seen \in Seen, NEW next \in Nat
  PROVE  FinishedRow(row, seen, next) \in Row
  BY DEF FinishedRow, Row, Lease

LEMMA InitSlotTypeOK == Init => TypeOK /\ Assigned
<1> SUFFICES ASSUME Init PROVE TypeOK /\ Assigned
    OBVIOUS
<1>1. 0 \in Moment /\ faults \in 0..MaxFaults /\ now \in Moment
      BY SchedulerAssumption DEF Init, Moment
<1>2. PICK approved \in SUBSET Schedule :
        sched = [s \in Schedule |->
          [status |-> IF s \in approved THEN "active" ELSE "proposed",
           next   |-> NextTime[s][0],
           lease  |-> "none"]]
      BY DEF Init
<1>3. sched \in [Schedule -> Row]
      BY <1>1, <1>2, SchedulerAssumption DEF Row, Lease
<1>4. worker \in [Worker -> Job] /\ Assigned
      BY IdleTyped DEF Init, Assigned, Idle
<1> QED
    BY <1>1, <1>3, <1>4 DEF Init, TypeOK

LEMMA SlotStepTypeOK ==
  ASSUME TypeOK, Assigned, [Next]_vars
  PROVE  (TypeOK /\ Assigned)'
<1> USE SchedulerAssumption
<1>a. /\ now \in Moment /\ sched \in [Schedule -> Row] /\ worker \in [Worker -> Job]
      /\ run \in [Schedule -> [Moment -> {"none", "claimed", "started"}]]
      BY DEF TypeOK
<1>1. CASE UNCHANGED vars
      BY <1>1 DEF vars, history, TypeOK, Assigned
<1>2. CASE Tick
      BY <1>2 DEF Tick, history, TypeOK, Assigned, Moment
<1>3. ASSUME NEW s \in Schedule, NEW verdict \in {"active", "rejected"}, Decide(s, verdict)
      PROVE  (TypeOK /\ Assigned)'
      BY <1>3 DEF Decide, history, TypeOK, Assigned, Row
<1>4. ASSUME NEW s \in Schedule, Revoke(s) PROVE (TypeOK /\ Assigned)'
      BY <1>4 DEF Revoke, history, TypeOK, Assigned, Row
<1>5. ASSUME NEW s \in Schedule, LeaseLapse(s) PROVE (TypeOK /\ Assigned)'
  <2>1. sched' \in [Schedule -> Row]
        BY <1>5, <1>a DEF LeaseLapse, Row, Lease
  <2>2. faults' \in 0..MaxFaults /\ overtaken' \subseteq Schedule
        BY <1>5 DEF LeaseLapse, Fault, TypeOK
  <2> QED
      BY <1>5, <2>1, <2>2 DEF LeaseLapse, TypeOK, Assigned
<1>6. ASSUME NEW w \in Worker, NEW s \in Schedule, Poll(w, s) PROVE (TypeOK /\ Assigned)'
  <2>1. sched[s].next \in Moment
        BY <1>6, <1>a DEF Poll, Due, Row, Moment
  <2>2. sched' \in [Schedule -> Row]
    <3>1. PICK l \in Lease : sched' = [sched EXCEPT ![s].lease = l]
          BY <1>6 DEF Poll, Lease
    <3> QED
        BY <3>1, <1>a DEF Row
  <2>3. CASE Started(s)
        BY <1>6, <2>2, <2>3 DEF Poll, history, TypeOK, Assigned
  <2>4. CASE ~Started(s)
    <3>1. worker' = [worker EXCEPT ![w] = Claimed(s, sched[s].next, now)]
          /\ run' = [run EXCEPT ![s][sched[s].next] = "claimed"]
          BY <1>6, <2>4 DEF Poll
    <3>2. worker' \in [Worker -> Job] /\ Assigned'
          BY <3>1, <2>1, <1>a, ClaimedTyped DEF Assigned
    <3>3. run' \in [Schedule -> [Moment -> {"none", "claimed", "started"}]]
          BY <3>1, <2>1, <1>a
    <3> QED
        BY <1>6, <2>2, <3>2, <3>3 DEF Poll, history, TypeOK
  <2> QED
      BY <2>3, <2>4
<1>7. ASSUME NEW w \in Worker, Launch(w) PROVE (TypeOK /\ Assigned)'
  <2>1. worker[w] \in Job /\ worker[w].sched \in Schedule
        BY <1>7, <1>a DEF Launch, Assigned
  <2>2. worker' \in [Worker -> Job] /\ Assigned'
    <3> DEFINE k == [worker[w] EXCEPT !.pc = "wait", !.task = "queued"]
    <3>1. k \in Job /\ k.sched = worker[w].sched
          BY <2>1 DEF Job
    <3>2. worker' = [worker EXCEPT ![w] = k]
          BY <1>7, <1>a DEF Launch
    <3> HIDE DEF k
    <3> QED
        BY <2>1, <3>1, <3>2, <1>a DEF Assigned
  <2>3. launches' \subseteq [sched : Schedule, slot : Moment, moment : Moment]
        /\ repeated' \subseteq Schedule \X Moment
        BY <1>7, <2>1 DEF Launch, Job, TypeOK, Slot
  <2> QED
      BY <1>7, <2>2, <2>3 DEF Launch, TypeOK
<1>8. ASSUME NEW w \in Worker, TaskProgress(w) PROVE (TypeOK /\ Assigned)'
  <2>1. PICK task \in {"claimed", "running"} : worker' = [worker EXCEPT ![w].task = task]
        BY <1>8 DEF TaskProgress
  <2>2. worker' \in [Worker -> Job] /\ Assigned'
    <3> DEFINE k == [worker[w] EXCEPT !.task = task]
    <3>a. worker[w] \in Job
          BY <1>a
    <3>1. k \in Job /\ k.sched = worker[w].sched /\ k.pc = worker[w].pc
          BY <3>a DEF Job
    <3>2. worker' = [worker EXCEPT ![w] = k]
          BY <2>1, <1>a
    <3> HIDE DEF k
    <3> QED
        BY <3>1, <3>2, <1>a DEF Assigned
  <2> QED
      BY <1>8, <2>2 DEF TaskProgress, history, TypeOK
<1>9. ASSUME NEW w \in Worker, Ready(w) PROVE (TypeOK /\ Assigned)'
  <2> DEFINE k == [worker[w] EXCEPT !.pc = "finish"]
  <2>1. worker[w] \in Job /\ worker[w].sched \in Schedule
        BY <1>9, <1>a DEF Ready, Assigned
  <2>2. k \in Job /\ k.sched = worker[w].sched
        BY <2>1 DEF Job
  <2>3. worker' = [worker EXCEPT ![w] = k]
        BY <1>9 DEF Ready
  <2> HIDE DEF k
  <2>4. worker' \in [Worker -> Job] /\ Assigned'
        BY <2>1, <2>2, <2>3, <1>a DEF Assigned
  <2> QED
      BY <1>9, <2>4 DEF Ready, history, TypeOK
<1>10. ASSUME NEW w \in Worker, FinishRead(w) PROVE (TypeOK /\ Assigned)'
  <2>1. worker[w].sched \in Schedule
        BY <1>10 DEF FinishRead, Assigned
  <2>2. [next |-> sched[worker[w].sched].next, lease |-> sched[worker[w].sched].lease] \in Seen
        BY <2>1, <1>a DEF Row, Seen
  <2>3. PICK seen \in Seen : worker' = [worker EXCEPT ![w].pc = "store", ![w].seen = seen]
        BY <1>10, <2>2 DEF FinishRead
  <2>4. worker' \in [Worker -> Job] /\ Assigned'
    <3> DEFINE k == [worker[w] EXCEPT !.pc = "store", !.seen = seen]
    <3>a. worker[w] \in Job
          BY <1>a
    <3>1. k \in Job /\ k.sched = worker[w].sched
          BY <3>a DEF Job
    <3>2. worker' = [worker EXCEPT ![w] = k]
          BY <2>3, <1>a
    <3> HIDE DEF k
    <3> QED
        BY <2>1, <3>1, <3>2, <1>a DEF Assigned
  <2> QED
      BY <1>10, <2>4 DEF FinishRead, history, TypeOK
<1>11. ASSUME NEW w \in Worker, FinishStore(w) PROVE (TypeOK /\ Assigned)'
  <2> DEFINE j == worker[w]
  <2>1. j \in Job /\ j.sched \in Schedule
        BY <1>11, <1>a DEF FinishStore, Assigned
  <2>2. worker' \in [Worker -> Job] /\ Assigned'
        BY <1>11, <1>a, IdleTyped DEF FinishStore, Assigned, Idle
  <2>3. FinishedRow(sched[j.sched], j.seen, NextRun(j.sched, j.slot, j.moment)) \in Row
        BY <2>1, <1>a, FinishedTyped DEF Job, NextRun
  <2>4. sched' \in [Schedule -> Row]
        BY <1>11, <2>1, <2>3, <1>a DEF FinishStore
  <2>5. run' \in [Schedule -> [Moment -> {"none", "claimed", "started"}]]
    <3>1. \/ run' = run
          \/ run' = [run EXCEPT ![j.sched][j.slot] = "started"]
          BY <1>11 DEF FinishStore
    <3>2. j.sched \in Schedule /\ j.slot \in Moment
          BY <2>1 DEF Job
    <3>3. ASSUME NEW s \in Schedule, NEW t \in Moment, run' = [run EXCEPT ![s][t] = "started"]
          PROVE  run' \in [Schedule -> [Moment -> {"none", "claimed", "started"}]]
          BY <3>3, <1>a
    <3> HIDE DEF j
    <3> QED
        BY <3>1, <3>2, <3>3, <1>a
  <2>6. given_up' \subseteq Schedule \X Moment
        BY <1>11, <2>1 DEF FinishStore, TypeOK, Job, Slot
  <2> QED
      BY <1>11, <2>2, <2>4, <2>5, <2>6 DEF FinishStore, TypeOK
<1>12. ASSUME NEW w \in Worker, GiveUp(w) PROVE (TypeOK /\ Assigned)'
  <2>1. worker[w] \in Job /\ worker[w].sched \in Schedule
        BY <1>12, <1>a DEF GiveUp, Assigned
  <2>2. worker' \in [Worker -> Job] /\ Assigned'
        BY <1>12, <1>a, IdleTyped DEF GiveUp, Assigned, Idle
  <2>3. given_up' \subseteq Schedule \X Moment /\ faults' \in 0..MaxFaults
        BY <1>12, <2>1 DEF GiveUp, Fault, TypeOK, Job, Slot
  <2> QED
      BY <1>12, <2>2, <2>3 DEF GiveUp, TypeOK
<1> QED
    BY <1>1, <1>2, <1>3, <1>4, <1>5, <1>6, <1>7, <1>8, <1>9, <1>10, <1>11, <1>12
    DEF Next, WorkerStep

\* Every variable of the scheduler keeps its type.
THEOREM SlotTypeCorrect == Spec => []TypeOK
<1>1. TypeOK /\ Assigned /\ [Next]_vars => (TypeOK /\ Assigned)'
      BY SlotStepTypeOK
<1> QED
    BY <1>1, InitSlotTypeOK, PTL DEF Spec

-----------------------------------------------------------------------------
(* One worker for each slot *)

\* A worker that nobody has overtaken holds the lease of its schedule, alone, and
\* for the slot the schedule is still at; what it has loaded is still so; started
\* slots are behind.
Held(s) ==
  /\ \A w \in Worker : On(w, s) =>
       /\ sched[s].next = worker[w].slot
       /\ sched[s].lease = "live"
       /\ worker[w].slot <= worker[w].moment
       /\ worker[w].pc = "store" =>
            worker[w].seen.next = worker[w].slot /\ worker[w].seen.lease = "live"
  /\ \A v, w \in Worker : On(v, s) /\ On(w, s) => v = w
  /\ \A t \in Moment : run[s][t] = "started" => t < sched[s].next

\* Launches of s: none for a slot the schedule is not at yet; the ones for earlier
\* slots were claimed before the slot it is at, and the ones for this slot before
\* the worker that has it now.
Behind(s) ==
  \A l \in launches : l.sched = s =>
    /\ l.slot <= sched[s].next
    /\ l.slot < sched[s].next => l.moment < sched[s].next
    /\ \A w \in Worker : On(w, s) /\ l.slot = worker[w].slot => l.moment <= worker[w].moment

\* A launch that is not stored has been given up or is still with its worker.
Accounted(s) ==
  \A l \in launches : l.sched = s =>
    \/ <<s, l.slot>> \in given_up
    \/ run[s][l.slot] = "started"
    \/ \E w \in Worker : On(w, s) /\ worker[w].slot = l.slot /\ worker[w].pc # "launch"

Timely ==
  /\ \A w \in Worker : worker[w].moment <= now
  /\ \A l \in launches : l.moment <= now

Orderly ==
  /\ Timely
  /\ \A s \in Schedule \ overtaken : Held(s) /\ Behind(s) /\ Accounted(s)

\* A step that leaves schedule s where it is: a worker that stays with it goes on,
\* or one that leaves it gives its slot up.
Goes(w, s) ==
  /\ On(w, s)
  /\ worker'[w].pc = "launch" => worker[w].pc = "launch"
  /\ worker'[w].slot = worker[w].slot
  /\ worker'[w].moment = worker[w].moment
  /\ worker'[w].pc = "store" =>
       \/ worker[w].pc = "store" /\ worker'[w].seen = worker[w].seen
       \/ worker'[w].seen = [next |-> sched[s].next, lease |-> sched[s].lease]

Quiet(s) ==
  /\ sched'[s].next = sched[s].next
  /\ sched'[s].lease = sched[s].lease
  /\ run'[s] = run[s]
  /\ \A w \in Worker : /\ On(w, s)' => Goes(w, s)
                       /\ On(w, s) => On(w, s)' \/ <<s, worker[w].slot>> \in given_up'
  /\ \A l \in launches' : l.sched = s => l \in launches

\* What can happen to a schedule that is not overtaken.
SlotStep(s) ==
  \/ Quiet(s)
  \/ \E w \in Worker : \/ Poll(w, s) /\ ~Started(s)
                       \/ Launch(w) /\ worker[w].sched = s
                       \/ FinishStore(w) /\ worker[w].sched = s /\ worker[w].task = "running"
  \/ LeaseLapse(s) /\ \A w \in Worker : ~On(w, s)

LEMMA Monotone ==
  ASSUME TypeOK, [Next]_vars
  PROVE  /\ now <= now'
         /\ launches \subseteq launches'
         /\ given_up \subseteq given_up'
         /\ overtaken \subseteq overtaken'
<1>1. now \in Nat
      BY SchedulerAssumption DEF TypeOK, Moment
<1>2. now' = now \/ now' = now + 1
      BY DEF Next, vars, WorkerStep, Tick, Poll, Decide, Revoke, LeaseLapse, Launch,
             TaskProgress, Ready, FinishRead, FinishStore, GiveUp
<1>3. launches \subseteq launches'
      BY DEF Next, vars, history, WorkerStep, Tick, Poll, Decide, Revoke, LeaseLapse, Launch,
             TaskProgress, Ready, FinishRead, FinishStore, GiveUp
<1>4. given_up \subseteq given_up'
      BY DEF Next, vars, history, WorkerStep, Tick, Poll, Decide, Revoke, LeaseLapse, Launch,
             TaskProgress, Ready, FinishRead, FinishStore, GiveUp
<1>5. overtaken \subseteq overtaken'
      BY DEF Next, vars, history, WorkerStep, Tick, Poll, Decide, Revoke, LeaseLapse, Launch,
             TaskProgress, Ready, FinishRead, FinishStore, GiveUp
<1> QED
    BY <1>1, <1>2, <1>3, <1>4, <1>5

LEMMA EverySlotStep ==
  ASSUME TypeOK, Assigned, [Next]_vars, NEW s \in Schedule, s \notin overtaken', Held(s)
  PROVE  SlotStep(s)
<1>a. sched \in [Schedule -> Row] /\ worker \in [Worker -> Job]
      /\ run \in [Schedule -> [Moment -> {"none", "claimed", "started"}]]
      BY DEF TypeOK
<1>1. CASE UNCHANGED vars
      BY <1>1 DEF vars, history, SlotStep, Quiet, Goes, On
<1>2. CASE Tick
      BY <1>2 DEF Tick, history, SlotStep, Quiet, Goes, On
<1>3. ASSUME NEW u \in Schedule, NEW verdict \in {"active", "rejected"}, Decide(u, verdict)
      PROVE  SlotStep(s)
  <2>1. sched'[s].next = sched[s].next /\ sched'[s].lease = sched[s].lease
        BY <1>3, <1>a DEF Decide, Row
  <2> QED
      BY <1>3, <2>1 DEF Decide, history, SlotStep, Quiet, Goes, On
<1>4. ASSUME NEW u \in Schedule, Revoke(u) PROVE SlotStep(s)
  <2>1. sched'[s].next = sched[s].next /\ sched'[s].lease = sched[s].lease
        BY <1>4, <1>a DEF Revoke, Row
  <2> QED
      BY <1>4, <2>1 DEF Revoke, history, SlotStep, Quiet, Goes, On
<1>5. ASSUME NEW u \in Schedule, LeaseLapse(u) PROVE SlotStep(s)
  <2>1. CASE u = s
        BY <1>5, <2>1 DEF LeaseLapse, SlotStep
  <2>2. CASE u # s
    <3>1. sched'[s] = sched[s]
          BY <1>5, <2>2, <1>a DEF LeaseLapse
    <3> QED
        BY <1>5, <3>1 DEF LeaseLapse, SlotStep, Quiet, Goes, On
  <2> QED
      BY <2>1, <2>2
<1>6. ASSUME NEW w \in Worker, NEW u \in Schedule, Poll(w, u) PROVE SlotStep(s)
  <2>1. sched[u].next \in Moment
        BY <1>6, <1>a, SchedulerAssumption DEF Poll, Due, Row, Moment, TypeOK
  <2>2. CASE u = s /\ ~Started(s)
        BY <1>6, <2>2 DEF SlotStep
  <2>3. CASE u = s /\ Started(s)
    <3>1. sched[s].next < sched[s].next /\ sched[s].next \in Nat
          BY <2>1, <2>3, <1>a DEF Held, Started, Row
    <3> QED
        BY <3>1
  <2>4. CASE u # s
    <3>1. sched'[s] = sched[s] /\ run'[s] = run[s]
          BY <1>6, <2>4, <1>a DEF Poll
    <3>2. \/ worker' = worker
          \/ worker' = [worker EXCEPT ![w] = Claimed(u, sched[u].next, now)]
          BY <1>6 DEF Poll
    <3>3. Claimed(u, sched[u].next, now).sched = u /\ worker[w].pc = "idle"
          BY <1>6 DEF Poll, Claimed, Idle
    <3>4. ASSUME NEW v \in Worker PROVE worker'[v] = worker[v] \/ (~On(v, s) /\ ~On(v, s)')
      <4>1. v # w \/ worker' = worker => worker'[v] = worker[v]
            BY <3>2, <1>a
      <4>2. CASE v = w /\ worker' # worker
        <5>1. worker'[v].sched = u
              BY <3>2, <3>3, <4>2, <1>a
        <5> QED
            BY <5>1, <3>3, <4>2, <2>4 DEF On
      <4> QED
          BY <4>1, <4>2
    <3>5. launches' = launches
          BY <1>6 DEF Poll, history
    <3> QED
        BY <3>1, <3>4, <3>5 DEF SlotStep, Quiet, Goes, On
  <2> QED
      BY <2>2, <2>3, <2>4
<1>7. ASSUME NEW w \in Worker, Launch(w) PROVE SlotStep(s)
  <2>1. CASE worker[w].sched = s
        BY <1>7, <2>1 DEF SlotStep
  <2>2. CASE worker[w].sched # s
    <3>a. worker' = [worker EXCEPT ![w].pc = "wait", ![w].task = "queued"]
          BY <1>7 DEF Launch
    <3>b. /\ \A v \in Worker : v # w => worker'[v] = worker[v]
          /\ worker'[w].sched = worker[w].sched
          BY <3>a, <1>a DEF Job
    <3>1. ASSUME NEW v \in Worker PROVE worker'[v] = worker[v] \/ (~On(v, s) /\ ~On(v, s)')
      <4>1. v # w => worker'[v] = worker[v]
            BY <3>b
      <4>2. v = w => ~On(v, s) /\ ~On(v, s)'
            BY <2>2, <3>b DEF On
      <4> QED
          BY <4>1, <4>2
    <3>2. \A l \in launches' : l.sched = s => l \in launches
          BY <1>7, <2>2 DEF Launch
    <3> QED
        BY <1>7, <3>1, <3>2 DEF Launch, SlotStep, Quiet, Goes, On
  <2> QED
      BY <2>1, <2>2
<1>8. ASSUME NEW w \in Worker, TaskProgress(w) PROVE SlotStep(s)
  <2>1. PICK task \in {"claimed", "running"} : worker' = [worker EXCEPT ![w].task = task]
        BY <1>8 DEF TaskProgress
  <2>2. \A v \in Worker : /\ worker'[v].pc = worker[v].pc
                          /\ worker'[v].sched = worker[v].sched
                          /\ worker'[v].slot = worker[v].slot
                          /\ worker'[v].moment = worker[v].moment
                          /\ worker'[v].seen = worker[v].seen
        BY <2>1, <1>a DEF Job
  <2> QED
      BY <1>8, <2>2 DEF TaskProgress, history, SlotStep, Quiet, Goes, On
<1>9. ASSUME NEW w \in Worker, Ready(w) PROVE SlotStep(s)
  <2>1. \A v \in Worker : /\ v # w => worker'[v] = worker[v]
                          /\ worker'[v].sched = worker[v].sched
                          /\ worker'[v].slot = worker[v].slot
                          /\ worker'[v].moment = worker[v].moment
        /\ worker'[w].pc = "finish" /\ worker[w].pc = "wait"
        BY <1>9, <1>a DEF Ready, Job
  <2> QED
      BY <1>9, <2>1 DEF Ready, history, SlotStep, Quiet, Goes, On
<1>10. ASSUME NEW w \in Worker, FinishRead(w) PROVE SlotStep(s)
  <2> DEFINE u == worker[w].sched
  <2>1. /\ \A v \in Worker : v # w => worker'[v] = worker[v]
        /\ worker'[w].sched = worker[w].sched
        /\ worker'[w].slot = worker[w].slot
        /\ worker'[w].moment = worker[w].moment
        /\ worker'[w].pc = "store" /\ worker[w].pc = "finish"
        /\ worker'[w].seen = [next |-> sched[u].next, lease |-> sched[u].lease]
        BY <1>10, <1>a DEF FinishRead, Job
  <2>2. \A v \in Worker : On(v, s)' => Goes(v, s)
        BY <2>1 DEF Goes, On
  <2>3. \A v \in Worker : On(v, s) => On(v, s)'
        BY <2>1 DEF On
  <2> QED
      BY <1>10, <2>2, <2>3 DEF FinishRead, history, SlotStep, Quiet
<1>11. ASSUME NEW w \in Worker, FinishStore(w) PROVE SlotStep(s)
  <2>1. worker' = [worker EXCEPT ![w] = Idle] /\ launches' = launches
        BY <1>11 DEF FinishStore
  <2>2. \A v \in Worker : (v # w => worker'[v] = worker[v]) /\ ~On(w, s)'
        BY <2>1, <1>a DEF On, Idle
  <2>3. CASE worker[w].sched = s /\ worker[w].task = "running"
        BY <1>11, <2>3 DEF SlotStep
  <2>4. CASE worker[w].sched # s
    <3>1. sched'[s] = sched[s] /\ run'[s] = run[s]
          BY <1>11, <2>4, <1>a DEF FinishStore
    <3>2. ~On(w, s)
          BY <2>4 DEF On
    <3> QED
        BY <2>1, <2>2, <3>1, <3>2 DEF SlotStep, Quiet, Goes, On
  <2>5. CASE worker[w].sched = s /\ worker[w].task # "running"
    <3>1. sched' = sched /\ run' = run /\ <<s, worker[w].slot>> \in given_up'
          BY <1>11, <2>5 DEF FinishStore, Slot
    <3> QED
        BY <2>1, <2>2, <3>1 DEF SlotStep, Quiet, Goes, On
  <2> QED
      BY <2>3, <2>4, <2>5
<1>12. ASSUME NEW w \in Worker, GiveUp(w) PROVE SlotStep(s)
  <2>1. \A v \in Worker : (v # w => worker'[v] = worker[v]) /\ ~On(w, s)'
        BY <1>12, <1>a DEF GiveUp, On, Idle
  <2>2. On(w, s) => <<s, worker[w].slot>> \in given_up'
        BY <1>12 DEF GiveUp, On, Slot
  <2> QED
      BY <1>12, <2>1, <2>2 DEF GiveUp, SlotStep, Quiet, Goes, On
<1> QED
    BY <1>1, <1>2, <1>3, <1>4, <1>5, <1>6, <1>7, <1>8, <1>9, <1>10, <1>11, <1>12
    DEF Next, WorkerStep

LEMMA QuietOrderly ==
  ASSUME TypeOK, [Next]_vars, NEW s \in Schedule, Quiet(s),
         Held(s), Behind(s), Accounted(s)
  PROVE  (Held(s) /\ Behind(s) /\ Accounted(s))'
<1>a. /\ now \in Nat /\ now' \in Nat /\ now <= now'
      /\ given_up \subseteq given_up'
      /\ \A w \in Worker : worker[w].moment \in Nat
  <2>1. \A w \in Worker : worker[w].moment \in Moment
        BY DEF TypeOK, Job
  <2>2. now' = now \/ now' = now + 1
        BY DEF Next, vars, WorkerStep, Tick, Poll, Decide, Revoke, LeaseLapse, Launch,
               TaskProgress, Ready, FinishRead, FinishStore, GiveUp
  <2>3. now \in Nat /\ \A m \in Moment : m \in Nat
        BY SchedulerAssumption DEF TypeOK, Moment
  <2>4. now <= now' /\ given_up \subseteq given_up'
        BY Monotone
  <2> QED
      BY <2>1, <2>2, <2>3, <2>4
<1>1. Held(s)'
  <2>1. ASSUME NEW w \in Worker, On(w, s)'
        PROVE  /\ sched'[s].next = worker'[w].slot
               /\ sched'[s].lease = "live"
               /\ worker'[w].slot <= worker'[w].moment
               /\ worker'[w].pc = "store" =>
                    worker'[w].seen.next = worker'[w].slot /\ worker'[w].seen.lease = "live"
    <3>1. Goes(w, s)
          BY <2>1 DEF Quiet
    <3> QED
        BY <3>1, <1>a DEF Goes, Held, Quiet
  <2>2. \A v, w \in Worker : On(v, s)' /\ On(w, s)' => v = w
        BY DEF Quiet, Goes, Held
  <2>3. \A t \in Moment : run'[s][t] = "started" => t < sched'[s].next
        BY DEF Quiet, Held
  <2> QED
      BY <2>1, <2>2, <2>3 DEF Held
<1>2. Behind(s)'
      BY DEF Quiet, Goes, Behind
<1>3. Accounted(s)'
  <2> SUFFICES ASSUME NEW l \in launches', l.sched = s
               PROVE  \/ <<s, l.slot>> \in given_up'
                      \/ run'[s][l.slot] = "started"
                      \/ \E w \in Worker :
                           On(w, s)' /\ worker'[w].slot = l.slot /\ worker'[w].pc # "launch"
      BY DEF Accounted
  <2>1. l \in launches
        BY DEF Quiet
  <2>2. CASE <<s, l.slot>> \in given_up \/ run[s][l.slot] = "started"
        BY <2>2, <1>a DEF Quiet
  <2>3. ASSUME NEW w \in Worker, On(w, s), worker[w].slot = l.slot, worker[w].pc # "launch"
        PROVE  \/ <<s, l.slot>> \in given_up'
               \/ On(w, s)' /\ worker'[w].slot = l.slot /\ worker'[w].pc # "launch"
        BY <2>3 DEF Quiet, Goes
  <2> QED
      BY <2>1, <2>2, <2>3 DEF Accounted
<1> QED
    BY <1>1, <1>2, <1>3

\* A claim: nobody is at the schedule, since its lease is not live.
LEMMA PollOrderly ==
  ASSUME TypeOK, NEW s \in Schedule, NEW w \in Worker, Poll(w, s), ~Started(s),
         Held(s), Behind(s), Accounted(s), \A l \in launches : l.moment <= now
  PROVE  (Held(s) /\ Behind(s) /\ Accounted(s))'
<1> DEFINE t == sched[s].next
<1>a. /\ sched \in [Schedule -> Row] /\ worker \in [Worker -> Job]
      /\ run \in [Schedule -> [Moment -> {"none", "claimed", "started"}]]
      /\ now \in Nat /\ now \in Moment
      BY SchedulerAssumption DEF TypeOK, Moment
<1>b. t \in Moment /\ t <= now /\ sched[s].lease # "live"
      BY <1>a, SchedulerAssumption DEF Poll, Due, Row, Moment
<1>1. \A v \in Worker : ~On(v, s)
      BY <1>b DEF Held
<1>2. /\ sched' = [sched EXCEPT ![s].lease = "live"]
      /\ run' = [run EXCEPT ![s][t] = "claimed"]
      /\ worker' = [worker EXCEPT ![w] = Claimed(s, t, now)]
      /\ now' = now /\ launches' = launches /\ given_up' = given_up
      BY DEF Poll, history
<1>3. sched'[s].next = t /\ sched'[s].lease = "live"
      BY <1>2, <1>a DEF Row
<1>4. \A u \in Moment : u # t => run'[s][u] = run[s][u]
      BY <1>2, <1>a
<1>5. run'[s][t] = "claimed" /\ run[s][t] # "started"
      BY <1>2, <1>a, <1>b DEF Started
<1>6. worker'[w] = Claimed(s, t, now) /\ \A v \in Worker : v # w => worker'[v] = worker[v]
      BY <1>2, <1>a
<1>7. /\ worker'[w].pc = "launch" /\ worker'[w].sched = s
      /\ worker'[w].slot = t /\ worker'[w].moment = now
  <2>1. /\ Claimed(s, t, now).pc = "launch" /\ Claimed(s, t, now).sched = s
        /\ Claimed(s, t, now).slot = t /\ Claimed(s, t, now).moment = now
        BY DEF Claimed, Idle
  <2> QED
      BY <1>6, <2>1
<1>8. \A v \in Worker : On(v, s)' => v = w
      BY <1>1, <1>6 DEF On
<1>c. t = sched[s].next
      OBVIOUS
<1> HIDE DEF t
<1>9. Held(s)'
  <2>1. ASSUME NEW v \in Worker, On(v, s)'
        PROVE  /\ sched'[s].next = worker'[v].slot
               /\ sched'[s].lease = "live"
               /\ worker'[v].slot <= worker'[v].moment
               /\ worker'[v].pc = "store" =>
                    worker'[v].seen.next = worker'[v].slot /\ worker'[v].seen.lease = "live"
        BY <2>1, <1>2, <1>3, <1>7, <1>8, <1>a, <1>b
  <2>2. ASSUME NEW u \in Moment, run'[s][u] = "started" PROVE u < sched'[s].next
        BY <2>2, <1>3, <1>4, <1>5, <1>c DEF Held
  <2> QED
      BY <2>1, <2>2, <1>8 DEF Held
<1>10. Behind(s)'
      BY <1>2, <1>3, <1>7, <1>8 DEF Behind, t
<1>11. Accounted(s)'
  <2>1. \A u \in Moment : run[s][u] = "started" => run'[s][u] = "started"
        BY <1>4, <1>5
  <2>2. \A l \in launches : l.slot \in Moment
        BY DEF TypeOK
  <2> QED
      BY <1>1, <1>2, <2>1, <2>2 DEF Accounted
<1> QED
    BY <1>9, <1>10, <1>11

\* A launch: the schedule has no other worker and the slot is not started, so that
\* an earlier launch of the slot has been given up.
LEMMA LaunchOrderly ==
  ASSUME TypeOK, NEW w \in Worker, Launch(w), worker[w].sched \in Schedule,
         NEW s, s = worker[w].sched,
         Held(s), Behind(s), Accounted(s)
  PROVE  /\ (Held(s) /\ Behind(s) /\ Accounted(s))'
         /\ \A l \in launches : l.sched = s /\ l.slot = worker[w].slot =>
              Slot(w) \in given_up
<1> DEFINE j == worker[w]
           l0 == [sched |-> s, slot |-> j.slot, moment |-> j.moment]
<1>a. /\ worker \in [Worker -> Job] /\ j.slot \in Moment /\ j.moment \in Moment
      /\ j.pc = "launch" /\ On(w, s)
      BY DEF TypeOK, Job, Launch, On
<1>1. /\ sched' = sched /\ run' = run /\ now' = now /\ given_up' = given_up
      /\ launches' = launches \cup {l0}
      BY DEF Launch
<1>2. /\ worker'[w].pc = "wait" /\ worker'[w].sched = s
      /\ worker'[w].slot = j.slot /\ worker'[w].moment = j.moment
      /\ \A v \in Worker : v # w => worker'[v] = worker[v]
      BY <1>a DEF Launch, Job
<1>3. \A v \in Worker : On(v, s)' => v = w
      BY <1>2, <1>a DEF Held, On
<1>4. sched[s].next = j.slot /\ sched[s].lease = "live" /\ j.slot <= j.moment
      BY <1>a DEF Held
<1>5. Held(s)'
      BY <1>1, <1>2, <1>3, <1>4 DEF Held
<1>6. Behind(s)'
  <2>1. l0.slot = j.slot /\ l0.moment = j.moment /\ j.slot \in Nat /\ j.moment \in Nat
        BY <1>a, SchedulerAssumption DEF Moment
  <2>2. \A l \in launches : l.sched = s =>
          /\ l.slot <= sched[s].next
          /\ l.slot < sched[s].next => l.moment < sched[s].next
          /\ l.slot = j.slot => l.moment <= j.moment
        BY <1>a DEF Behind
  <2>3. /\ l0.slot <= sched[s].next
        /\ ~(l0.slot < sched[s].next)
        /\ l0.moment <= j.moment
        BY <2>1, <1>4
  <2> HIDE DEF l0, j
  <2>4. \A l \in launches' : l.sched = s =>
          /\ l.slot <= sched[s].next
          /\ l.slot < sched[s].next => l.moment < sched[s].next
          /\ l.slot = j.slot => l.moment <= j.moment
        BY <1>1, <2>2, <2>3
  <2> QED
      BY <1>1, <1>2, <1>3, <2>4 DEF Behind
<1>7. Accounted(s)'
  <2>1. On(w, s)' /\ worker'[w].slot = l0.slot
        BY <1>2, <1>a DEF On
  <2>2. \A v \in Worker : On(v, s) /\ worker[v].pc # "launch" => FALSE
        BY <1>a DEF Held
  <2> QED
      BY <1>1, <1>2, <2>1, <2>2 DEF Accounted
<1>8. ASSUME NEW l \in launches, l.sched = s, l.slot = j.slot
      PROVE  Slot(w) \in given_up
  <2>1. \A v \in Worker : On(v, s) => worker[v].pc = "launch"
        BY <1>a DEF Held
  <2>2. run[s][l.slot] # "started"
    <3>1. ~(j.slot < j.slot)
          BY <1>a, SchedulerAssumption DEF Moment
    <3> QED
        BY <3>1, <1>8, <1>4, <1>a DEF Held
  <2> QED
      BY <2>1, <2>2, <1>8 DEF Accounted, Slot
<1> QED
    BY <1>5, <1>6, <1>7, <1>8

\* A launch is stored: the schedule moves past the moment of the claim.
LEMMA StoreOrderly ==
  ASSUME TypeOK, NEW w \in Worker, FinishStore(w), worker[w].task = "running",
         worker[w].sched \in Schedule, NEW s, s = worker[w].sched,
         Held(s), Behind(s), Accounted(s)
  PROVE  (Held(s) /\ Behind(s) /\ Accounted(s))'
<1> DEFINE j == worker[w]
           n == NextTime[s][j.moment]
<1>a. /\ worker \in [Worker -> Job] /\ sched \in [Schedule -> Row]
      /\ run \in [Schedule -> [Moment -> {"none", "claimed", "started"}]]
      /\ j.slot \in Moment /\ j.moment \in Moment /\ j.pc = "store" /\ On(w, s)
      BY DEF TypeOK, Job, FinishStore, On
<1>b. j.slot \in Nat /\ j.moment \in Nat /\ n \in Nat /\ j.moment < n
      BY <1>a, SchedulerAssumption DEF Moment
<1>1. /\ sched[s].next = j.slot /\ sched[s].lease = "live" /\ j.slot <= j.moment
      /\ j.seen.next = j.slot /\ j.seen.lease = "live"
      BY <1>a DEF Held
<1>2. /\ run' = [run EXCEPT ![s][j.slot] = "started"]
      /\ sched' = [sched EXCEPT ![s] = FinishedRow(sched[s], j.seen, n)]
      /\ worker' = [worker EXCEPT ![w] = Idle]
      /\ launches' = launches /\ given_up' = given_up /\ now' = now
      BY <1>a DEF FinishStore, NextRun
<1>3. sched'[s].next = n
  <2>1. n # j.seen.next
        BY <1>b, <1>1
  <2>2. sched[s] \in Row
        BY <1>a
  <2>3. FinishedRow(sched[s], j.seen, n).next = n
        BY <2>1, <2>2 DEF FinishedRow, Row
  <2> QED
      BY <1>2, <1>a, <2>3
<1>4. \A v \in Worker : ~On(v, s)'
  <2>1. worker'[w].pc = "idle" /\ \A v \in Worker : v # w => worker'[v] = worker[v]
        BY <1>2, <1>a DEF Idle
  <2> QED
      BY <2>1, <1>a DEF Held, On
<1>5. /\ \A u \in Moment : u # j.slot => run'[s][u] = run[s][u]
      /\ run'[s][j.slot] = "started"
      BY <1>2, <1>a
<1>6. \A u \in Moment : u \in Nat
      BY SchedulerAssumption DEF Moment
<1>7. \A l \in launches : l.slot \in Moment /\ l.slot \in Nat /\ l.moment \in Nat
      BY <1>6 DEF TypeOK
<1> HIDE DEF j, n
<1>8. Held(s)'
  <2>1. ASSUME NEW u \in Moment, run'[s][u] = "started" PROVE u < n
    <3>1. CASE u = j.slot
          BY <3>1, <1>b, <1>1
    <3>2. CASE u # j.slot
      <4>1. u < j.slot
            BY <3>2, <2>1, <1>5, <1>1 DEF Held
      <4> QED
          BY <4>1, <1>b, <1>1, <1>6
    <3> QED
        BY <3>1, <3>2
  <2> QED
      BY <2>1, <1>3, <1>4 DEF Held
<1>9. Behind(s)'
  <2>1. ASSUME NEW l \in launches, l.sched = s PROVE l.slot < n /\ l.moment < n
    <3>1. /\ l.slot <= j.slot
          /\ l.slot < j.slot => l.moment < j.slot
          /\ l.slot = j.slot => l.moment <= j.moment
          BY <2>1, <1>1, <1>a DEF Behind, j
    <3> QED
        BY <3>1, <1>7, <1>b, <1>1
  <2> QED
      BY <2>1, <1>2, <1>3, <1>4, <1>7, <1>b DEF Behind
<1>10. Accounted(s)'
  <2>1. \A v \in Worker : On(v, s) => worker[v].slot = j.slot
        BY <1>a DEF Held, j
  <2> QED
      BY <2>1, <1>2, <1>5, <1>7 DEF Accounted
<1> QED
    BY <1>8, <1>9, <1>10

LEMMA OrderlyStep ==
  ASSUME TypeOK, Assigned, Orderly, [Next]_vars, NEW s \in Schedule, s \notin overtaken'
  PROVE  /\ (Held(s) /\ Behind(s) /\ Accounted(s))'
         /\ Held(s) /\ Behind(s) /\ Accounted(s) /\ SlotStep(s)
<1>1. Held(s) /\ Behind(s) /\ Accounted(s)
      BY Monotone DEF Orderly
<1>2. SlotStep(s)
      BY <1>1, EverySlotStep
<1>3. ASSUME Quiet(s) PROVE (Held(s) /\ Behind(s) /\ Accounted(s))'
      BY <1>1, <1>3, QuietOrderly
<1>4. ASSUME NEW w \in Worker, Poll(w, s), ~Started(s)
      PROVE  (Held(s) /\ Behind(s) /\ Accounted(s))'
      BY <1>1, <1>4, PollOrderly DEF Orderly, Timely
<1>5. ASSUME NEW w \in Worker, Launch(w), worker[w].sched = s
      PROVE  (Held(s) /\ Behind(s) /\ Accounted(s))'
      BY <1>1, <1>5, LaunchOrderly
<1>6. ASSUME NEW w \in Worker, FinishStore(w), worker[w].sched = s, worker[w].task = "running"
      PROVE  (Held(s) /\ Behind(s) /\ Accounted(s))'
      BY <1>1, <1>6, StoreOrderly
<1>7. ASSUME LeaseLapse(s), \A w \in Worker : ~On(w, s)
      PROVE  (Held(s) /\ Behind(s) /\ Accounted(s))'
  <2>1. sched'[s].next = sched[s].next /\ run' = run /\ worker' = worker
        /\ launches' = launches /\ given_up' = given_up
        BY <1>7 DEF LeaseLapse, TypeOK, Row
  <2>2. \A w \in Worker : ~On(w, s)'
        BY <1>7, <2>1 DEF On
  <2> QED
      BY <1>1, <1>7, <2>1, <2>2 DEF Held, Behind, Accounted
<1> QED
    BY <1>1, <1>2, <1>3, <1>4, <1>5, <1>6, <1>7 DEF SlotStep

LEMMA TimelyStep ==
  ASSUME TypeOK, Timely, [Next]_vars
  PROVE  Timely'
<1>a. /\ now \in Nat /\ now <= now' /\ now' \in Nat
      /\ worker \in [Worker -> Job]
      /\ \A w \in Worker : worker[w].moment \in Nat
      /\ \A l \in launches : l.moment \in Nat
  <2>1. now \in Nat /\ \A m \in Moment : m \in Nat
        BY SchedulerAssumption DEF TypeOK, Moment
  <2>2. now' = now \/ now' = now + 1
        BY DEF Next, vars, WorkerStep, Tick, Poll, Decide, Revoke, LeaseLapse, Launch,
               TaskProgress, Ready, FinishRead, FinishStore, GiveUp
  <2>3. \A w \in Worker : worker[w].moment \in Moment
        BY DEF TypeOK, Job
  <2>4. \A l \in launches : l.moment \in Moment
        BY DEF TypeOK
  <2>5. worker \in [Worker -> Job]
        BY DEF TypeOK
  <2> QED
      BY <2>1, <2>2, <2>3, <2>4, <2>5
<1>1. ASSUME NEW w \in Worker PROVE worker'[w].moment <= now'
  <2>1. \/ worker'[w].moment = worker[w].moment
        \/ worker'[w].moment = 0
        \/ worker'[w].moment = now
    <3>1. CASE worker'[w] = worker[w]
          BY <3>1
    <3>2. ASSUME NEW v \in Worker, NEW s \in Schedule, Poll(v, s), worker'[w] # worker[w]
          PROVE  worker'[w].moment = now
      <4>1. worker' = [worker EXCEPT ![v] = Claimed(s, sched[s].next, now)]
            BY <3>2 DEF Poll
      <4> QED
          BY <4>1, <3>2, <1>a DEF Claimed, Idle
    <3>3. ASSUME NEW v \in Worker, FinishStore(v) \/ GiveUp(v), worker'[w] # worker[w]
          PROVE  worker'[w].moment = 0
      <4>1. worker' = [worker EXCEPT ![v] = Idle]
            BY <3>3 DEF FinishStore, GiveUp
      <4> QED
          BY <4>1, <3>3, <1>a DEF Idle
    <3>4. ASSUME NEW v \in Worker, Launch(v) \/ TaskProgress(v) \/ Ready(v) \/ FinishRead(v)
          PROVE  worker'[w].moment = worker[w].moment
      <4>1. CASE Launch(v)
            BY <4>1, <1>a DEF Launch, Job
      <4>2. CASE TaskProgress(v)
            BY <4>2, <1>a DEF TaskProgress, Job
      <4>3. CASE Ready(v)
            BY <4>3, <1>a DEF Ready, Job
      <4>4. CASE FinishRead(v)
            BY <4>4, <1>a DEF FinishRead, Job
      <4> QED
          BY <3>4, <4>1, <4>2, <4>3, <4>4
    <3>5. CASE UNCHANGED worker
          BY <3>5
    <3> QED
        BY <3>1, <3>2, <3>3, <3>4, <3>5
        DEF Next, vars, WorkerStep, Tick, Decide, Revoke, LeaseLapse
  <2> QED
      BY <2>1, <1>a DEF Timely
<1>2. ASSUME NEW l \in launches' PROVE l.moment <= now'
  <2>1. launches' = launches \/ \E v \in Worker : Launch(v)
        BY DEF Next, vars, history, WorkerStep, Tick, Poll, Decide, Revoke, LeaseLapse,
               TaskProgress, Ready, FinishRead, FinishStore, GiveUp
  <2>2. l \in launches \/ \E v \in Worker : l.moment = worker[v].moment
    <3>1. ASSUME NEW v \in Worker, Launch(v), l \notin launches
          PROVE  l.moment = worker[v].moment
      <4>1. l = [sched |-> worker[v].sched, slot |-> worker[v].slot, moment |-> worker[v].moment]
            BY <3>1 DEF Launch
      <4> QED
          BY <4>1
    <3> QED
        BY <2>1, <3>1
  <2> QED
      BY <2>2, <1>a DEF Timely
<1> QED
    BY <1>1, <1>2 DEF Timely

\* Everything a slot needs, and the two properties that speak of past launches.
Regular == Orderly /\ SlotOnce /\ NoFlood

LEMMA RegularStep ==
  ASSUME TypeOK, Assigned, Regular, [Next]_vars
  PROVE  Regular'
<1>a. /\ \A l \in launches : l.slot \in Nat /\ l.moment \in Nat /\ l.sched \in Schedule
      /\ sched \in [Schedule -> Row] /\ worker \in [Worker -> Job]
      /\ overtaken \subseteq overtaken' /\ given_up \subseteq given_up'
      /\ repeated \subseteq Schedule \X Moment
  <2>1. \A m \in Moment : m \in Nat
        BY SchedulerAssumption DEF Moment
  <2> QED
      BY <2>1, Monotone DEF TypeOK
<1>1. Orderly'
      BY TimelyStep, OrderlyStep DEF Regular, Orderly
<1>2. CASE launches' = launches /\ repeated' = repeated
      BY <1>1, <1>2, <1>a DEF Regular, SlotOnce, NoFlood
<1>3. ASSUME NEW w \in Worker, Launch(w) PROVE SlotOnce' /\ NoFlood'
  <2> DEFINE s == worker[w].sched
             t == worker[w].slot
  <2>1. s \in Schedule /\ On(w, s) /\ t \in Nat /\ worker[w].moment \in Nat
    <3>1. worker[w].slot \in Moment /\ worker[w].moment \in Moment
          BY <1>a DEF Job
    <3> QED
        BY <1>3, <3>1, SchedulerAssumption DEF Launch, Assigned, On, Moment
  <2>2. overtaken' = overtaken /\ given_up' = given_up
        BY <1>3 DEF Launch
  <2>3. launches' = launches \cup {[sched |-> s, slot |-> t, moment |-> worker[w].moment]}
        BY <1>3 DEF Launch
  <2>4. ASSUME s \notin overtaken
        PROVE  /\ t = sched[s].next
               /\ \A l \in launches : l.sched = s /\ l.slot = t => Slot(w) \in given_up
               /\ \A l \in launches : l.sched = s =>
                    l.slot <= t /\ (l.slot < t => l.moment < t)
    <3>1. Held(s) /\ Behind(s) /\ Accounted(s)
          BY <2>1, <2>4 DEF Regular, Orderly
    <3> QED
        BY <1>3, <2>1, <3>1, LaunchOrderly DEF Held, Behind
  <2>5. SlotOnce'
    <3>1. repeated' = IF \E l \in launches : l.sched = s /\ l.slot = t
                        THEN repeated \cup {Slot(w)} ELSE repeated
          BY <1>3 DEF Launch
    <3>2. Slot(w)[1] = s
          BY DEF Slot
    <3> QED
        BY <2>2, <2>4, <3>1, <3>2 DEF Regular, SlotOnce
  <2>6. NoFlood'
    <3> DEFINE l0 == [sched |-> s, slot |-> t, moment |-> worker[w].moment]
    <3>1. l0.sched = s /\ l0.slot = t
          OBVIOUS
    <3> SUFFICES ASSUME NEW k \in launches', NEW l \in launches',
                        k.sched = l.sched, k.sched \notin overtaken, k.slot < l.slot
                 PROVE  k.moment < l.slot
        BY <2>2 DEF NoFlood
    <3>2. CASE k \in launches /\ l \in launches
          BY <3>2 DEF Regular, NoFlood
    <3>3. CASE k \in launches /\ l = l0
          BY <2>4, <3>1, <3>3
    <3>4. CASE l \in launches /\ k = l0
      <4>1. l.slot <= t /\ t < l.slot /\ l.slot \in Nat
            BY <2>4, <3>1, <3>4, <1>a
      <4> QED
          BY <4>1, <2>1
    <3>5. CASE k = l0 /\ l = l0
          BY <3>1, <3>5, <2>1
    <3> QED
        BY <2>3, <3>2, <3>3, <3>4, <3>5
  <2> QED
      BY <2>5, <2>6
<1>4. \/ launches' = launches /\ repeated' = repeated
      \/ \E w \in Worker : Launch(w)
      BY DEF Next, vars, history, WorkerStep, Tick, Poll, Decide, Revoke, LeaseLapse,
             TaskProgress, Ready, FinishRead, FinishStore, GiveUp
<1> QED
    BY <1>1, <1>2, <1>3, <1>4 DEF Regular

LEMMA RegularHolds == Spec => [](TypeOK /\ Regular)
<1>1. Init => Regular
  <2> SUFFICES ASSUME Init PROVE Regular
      OBVIOUS
  <2>1. /\ launches = {} /\ repeated = {} /\ now = 0
        /\ \A w \in Worker : worker[w].pc = "idle" /\ worker[w].moment = 0
        /\ \A s \in Schedule, t \in Moment : run[s][t] = "none"
        BY DEF Init, Idle
  <2>2. Timely
        BY <2>1 DEF Timely
  <2>3. \A s \in Schedule : Held(s) /\ Behind(s) /\ Accounted(s)
        BY <2>1 DEF Held, Behind, Accounted, On
  <2> QED
      BY <2>1, <2>2, <2>3 DEF Regular, Orderly, SlotOnce, NoFlood
<1>2. TypeOK /\ Assigned /\ Regular /\ [Next]_vars => (TypeOK /\ Assigned /\ Regular)'
      BY SlotStepTypeOK, RegularStep
<1> QED
    BY <1>1, <1>2, InitSlotTypeOK, PTL DEF Spec

\* A slot becomes a second task only if its first launch was given up or took longer
\* than its lease, however many workers poll.
THEOREM SlotOnceHolds == Spec => []SlotOnce
<1>1. TypeOK /\ Regular => SlotOnce
      BY DEF Regular
<1> QED
    BY <1>1, RegularHolds, PTL

\* A schedule never stands at a slot that was handed over already, unless a launch
\* of it took longer than its lease.
THEOREM NeverStuckHolds == Spec => []NeverStuck
<1>1. TypeOK /\ Regular => NeverStuck
  <2> SUFFICES ASSUME TypeOK, Regular, NEW s \in Schedule \ overtaken,
                      sched[s].next \in Moment, Started(s)
               PROVE  FALSE
      BY DEF NeverStuck
  <2>1. sched[s].next \in Nat
        BY SchedulerAssumption DEF Moment
  <2>2. sched[s].next < sched[s].next
        BY DEF Regular, Orderly, Held, Started
  <2> QED
      BY <2>1, <2>2
<1> QED
    BY <1>1, RegularHolds, PTL

\* No backlog: a later launch is for a slot after the moment of the earlier claim.
THEOREM NoFloodHolds == Spec => []NoFlood
<1>1. TypeOK /\ Regular => NoFlood
      BY DEF Regular
<1> QED
    BY <1>1, RegularHolds, PTL
=============================================================================
