-------------------------- MODULE TurnRunnerProofs --------------------------
(***************************************************************************)
(* Proofs about TurnRunner for every set of processes, execution ids and   *)
(* commands and every bound on faults: types, the election, steering, and  *)
(* the durable inbox, which implements CommandLedger.                      *)
(***************************************************************************)
EXTENDS TurnRunner, TLAPS

-----------------------------------------------------------------------------
(* Type correctness *)

LEMMA InitTypeOK == Init => TypeOK
<1> SUFFICES ASSUME Init PROVE TypeOK
    OBVIOUS
<1> USE ConstantsAssumption DEF Init
<1>1. row \in [Command -> Row]
      BY DEF Row, NoRow, NewRow, Delivery, Mode, Command
<1>2. inbox \in Seq(Command)
      BY DEF Command
<1>3. job \in [Job -> Execution]
      BY DEF Execution, Free, JobPc, Via, Command
<1>4. drain \in [Process -> Drain] /\ req \in [Message -> Request]
      BY DEF Drain, NoDrain, DrainKind, Request, NoReq, Mode, Command
<1>5. wake \in [Process -> SUBSET DrainKind] /\ drive \in [Process -> SUBSET Command]
  <2>1. wake \in [Process -> SUBSET DrainKind]
        OBVIOUS
  <2>2. PICK q \in Process : drive = [p \in Process |-> IF p = q THEN {Initial} ELSE {}]
        OBVIOUS
  <2> QED
      BY <2>1, <2>2 DEF Command
<1>6. /\ active \in [Process -> Job \cup {NoJob}]
      /\ killing \in [Process -> {"idle", "mark", "kill"}]
      /\ status \in Status
      /\ faults \in 0..MaxFaults
      BY DEF Status
<1> QED
    BY <1>1, <1>2, <1>3, <1>4, <1>5, <1>6 DEF TypeOK

\* What an execution, a drain and a request handler hold once they have begun.
Assigned ==
  /\ \A j \in Job : job[j].pc = "free" => job[j].at = NoJob
  /\ \A j \in Job : job[j].pc # "free" => job[j].at \in Process /\ job[j].cmd \in Command
  /\ \A j \in Job : job[j].pc \in {"settle", "ack", "transfer"} => job[j].out \in Outcomes
  /\ \A p \in Process : drain[p].pc # "idle" => drain[p].cmd \in Command
  /\ \A m \in Message : req[m].pc # "idle" => req[m].at \in Process

LEMMA FreeTyped == Free \in Execution
  BY DEF Free, Execution, JobPc, Via

LEMMA DeliveredTyped ==
  ASSUME row \in [Command -> Row], NEW c, NEW j \in Job \cup {NoJob}
  PROVE  Delivered(c, j) \in [Command -> Row]
  BY DEF Delivered, Row, Delivery

LEMMA ReleasedTyped ==
  ASSUME row \in [Command -> Row], NEW S, NEW mode \in Mode \cup {"keep"}
  PROVE  Released(S, mode) \in [Command -> Row]
  BY DEF Released, Row, Delivery

LEMMA ConsumedTyped ==
  ASSUME row \in [Command -> Row], NEW S
  PROVE  Consumed(S) \in [Command -> Row]
  BY DEF Consumed, Row, Delivery

LEMMA SteeredTyped ==
  ASSUME NEW e \in Execution, NEW c \in Command
  PROVE  Steered(e, c) \in Execution
  BY DEF Steered, Execution

LEMMA SeedTyped ==
  ASSUME NEW e \in Execution, NEW cs \in SUBSET Command
  PROVE  [e EXCEPT !.pc = "run", !.seen = {}, !.sent = e.sent \cup cs] \in Execution
  BY DEF Execution, JobPc

LEMMA ReadTyped ==
  ASSUME NEW e \in Execution, NEW cs \in SUBSET Command
  PROVE  [e EXCEPT !.pc = "seed", !.seen = cs] \in Execution
  BY DEF Execution, JobPc

LEMMA LeftTyped ==
  ASSUME NEW e \in Execution
  PROVE  /\ Left(e) \in Execution
         /\ Left(e).pc = IF e.pc \in {"join", "seed"} THEN "ghost" ELSE "zombie"
         /\ Left(e).at = e.at /\ Left(e).cmd = e.cmd
         /\ Left(e).queue = e.queue /\ Left(e).sent = e.sent /\ Left(e).seen = {}
  BY DEF Left, Execution, JobPc

LEMMA EndedTyped ==
  ASSUME NEW e \in Execution, NEW out \in Outcomes
  PROVE  [e EXCEPT !.pc = "settle", !.out = out, !.mark = NoCmd, !.queue = {}] \in Execution
  BY DEF Execution, JobPc

LEMMA ElectedTyped ==
  ASSUME NEW e \in Execution
  PROVE  Elected(e) \in Execution
<1>1. CASE Refuses(e)
      BY <1>1 DEF Elected, Execution, JobPc
<1>2. CASE ~Refuses(e)
      BY <1>2 DEF Elected, Execution, JobPc
<1> QED
    BY <1>1, <1>2

LEMMA StartTyped ==
  ASSUME job \in [Job -> Execution],
         NEW p \in Process, NEW c \in Command, NEW via \in Via, NEW j \in Job,
         Start(p, c, via, j)
  PROVE  job' \in [Job -> Execution]
<1> DEFINE started ==
      [pc |-> "claim", at |-> p, cmd |-> c, via |-> via,
       reclaim |-> row[c].disp = "delivered" /\ row[c].mode # "steering",
       out |-> "none", seen |-> {}, sent |-> {}, queue |-> {}, mark |-> NoCmd]
<1>1. started \in Execution
      BY DEF Execution, JobPc
<1>2. job' = job \/ job' = [job EXCEPT ![j] = started]
      BY DEF Start
<1> HIDE DEF started
<1> QED
    BY <1>1, <1>2

LEMMA LearnerTypeOK ==
  ASSUME TypeOK, Assigned, Learner
  PROVE  TypeOK'
<1>b. row \in [Command -> Row]
      BY DEF TypeOK
<1>d. req \in [Message -> Request]
      BY DEF TypeOK
<1>e. wake \in [Process -> SUBSET DrainKind]
      BY DEF TypeOK
<1>f. drive \in [Process -> SUBSET Command]
      BY DEF TypeOK
<1>g. inbox \in Seq(Command)
      BY DEF TypeOK
<1>1. ASSUME NEW p \in Process, NEW m \in Message, MessageRead(m, p)
      PROVE  TypeOK'
  <2>1. req' \in [Message -> Request]
        BY <1>1, <1>d DEF MessageRead, Mode, Command, Request
  <2> QED
      BY <1>1, <2>1 DEF MessageRead, TypeOK, dbVars, taskVars, memVars,
                        history
<1>2. ASSUME NEW p \in Process, NEW m \in Message, MessageRetry(m, p)
      PROVE  TypeOK'
  <2>1. req' \in [Message -> Request]
    <3>1. row[m].mode \in Mode
          BY <1>b DEF Row, Command
    <3> QED
        BY <1>2, <1>d, <3>1 DEF MessageRetry, Request
  <2> QED
      BY <1>2, <2>1, ConstantsAssumption DEF MessageRetry, Fault, TypeOK,
                                             dbVars, taskVars, memVars,
                                             history
<1>3. ASSUME NEW p \in Process, NEW a \in Answer, AnswerAccept(a, p)
      PROVE  TypeOK'
  <2>1. row' \in [Command -> Row]
        BY <1>3, <1>b DEF AnswerAccept, Accept, NewRow, Mode, Command, TypeOK,
                          Row, Delivery
  <2>2. inbox' \in Seq(Command)
        BY <1>3, <1>g DEF AnswerAccept, Accept, Command
  <2>3. drive' \in [Process -> SUBSET Command]
        BY <1>3, <1>f DEF AnswerAccept, Command
  <2> QED
      BY <1>3, <2>1, <2>2, <2>3 DEF AnswerAccept, Accept, TypeOK, dbVars,
                                    taskVars, memVars, history, Command
<1>4. ASSUME NEW p \in Process, NEW a \in Answer, AnswerRetry(a, p)
      PROVE  TypeOK'
  <2>1. wake' \in [Process -> SUBSET DrainKind]
        BY <1>4, <1>e DEF AnswerRetry, DrainKind
  <2> QED
      BY <1>4, <2>1, ConstantsAssumption DEF AnswerRetry, Fault, TypeOK,
                                             dbVars, taskVars, memVars,
                                             history
<1>5. ASSUME NEW p \in Process, CancelRead(p) PROVE TypeOK'
  <2> QED
      BY <1>5, ConstantsAssumption DEF CancelRead, Fault, TypeOK, dbVars,
                                       taskVars, memVars, history
<1> QED
    BY <1>1, <1>2, <1>3, <1>4, <1>5
    DEF Learner

LEMMA RunStepTypeOK ==
  ASSUME TypeOK, Assigned, NEW j \in Job, RunStep(j)
  PROVE  TypeOK'
<1>a. job \in [Job -> Execution]
      BY DEF TypeOK
<1>b. row \in [Command -> Row]
      BY DEF TypeOK
<1>e. wake \in [Process -> SUBSET DrainKind]
      BY DEF TypeOK
<1>h. ckpt \subseteq Command
      BY DEF TypeOK
<1>1. CASE ClaimDelivery(j)
  <2>1. job' \in [Job -> Execution]
    <3>1. CASE Claimable(job[j].cmd)
          BY <1>1, <1>a, <3>1 DEF ClaimDelivery, Execution, JobPc
    <3>2. CASE ~Claimable(job[j].cmd)
          BY <1>1, <1>a, <3>2, FreeTyped DEF ClaimDelivery, EndUnowned
    <3> QED
        BY <3>1, <3>2
  <2>2. row' \in [Command -> Row]
        BY <1>1, <1>b, DeliveredTyped DEF ClaimDelivery
  <2>3. wake' \in [Process -> SUBSET DrainKind]
        BY <1>1, <1>e DEF ClaimDelivery, EndUnowned, DrainKind
  <2> QED
      BY <1>1, <2>1, <2>2, <2>3 DEF ClaimDelivery, EndUnowned, TypeOK, dbVars,
                                    taskVars, memVars, history
<1>2. CASE ClaimTask(j)
  <2>1. job' \in [Job -> Execution]
    <3>1. Elected(job[j]) \in Execution
          BY <1>a, Zenon, ElectedTyped
    <3>2. [job[j] EXCEPT !.pc = "release"] \in Execution
          BY <1>a DEF Execution, JobPc
    <3> QED
        BY <1>2, <1>a, <3>1, <3>2 DEF ClaimTask
  <2> QED
      BY <1>2, <2>1 DEF ClaimTask, TypeOK, dbVars, taskVars, memVars, history,
                        Status
<1>3. CASE Release(j)
  <2>1. job' \in [Job -> Execution]
        BY <1>3, <1>a DEF Release, EndUnowned, Free, Via, Execution, JobPc
  <2>2. row' \in [Command -> Row]
        BY <1>3, <1>b, ReleasedTyped DEF Release
  <2>3. wake' \in [Process -> SUBSET DrainKind]
        BY <1>3, <1>e DEF Release, EndUnowned, DrainKind
  <2> QED
      BY <1>3, <2>1, <2>2, <2>3 DEF Release, EndUnowned, TypeOK, dbVars,
                                    taskVars, memVars, history
<1>4. CASE Begin(j)
  <2>1. job' \in [Job -> Execution]
        BY <1>4, <1>a DEF Begin, Execution, JobPc
  <2> QED
      BY <1>4, <2>1 DEF Begin, TypeOK, dbVars, taskVars, memVars, history
<1>5. CASE Publish(j)
  <2>1. job' \in [Job -> Execution]
    <3>1. [job[j] EXCEPT !.pc = "join"] \in Execution
          BY <1>a DEF Execution, JobPc
    <3> QED
        BY <1>5, <1>a, <3>1, FreeTyped DEF Publish
  <2>2. active' \in [Process -> Job \cup {NoJob}]
        BY <1>5 DEF Publish, TypeOK
  <2> QED
      BY <1>5, <2>1, <2>2 DEF Publish, TypeOK, dbVars, taskVars, memVars, history
<1>14. CASE ReadCheckpoint(j)
  <2>1. job' \in [Job -> Execution]
    <3>1. [job[j] EXCEPT !.pc = "seed", !.seen = ckpt] \in Execution
          BY <1>a, <1>h, ReadTyped
    <3> QED
        BY <1>14, <1>a, <3>1 DEF ReadCheckpoint
  <2> QED
      BY <1>14, <2>1 DEF ReadCheckpoint, TypeOK, dbVars, taskVars, memVars, history
<1>15. CASE \E c \in Command : ConsumeSeen(j, c)
  <2>1. row' \in [Command -> Row]
        BY <1>15, <1>b, ConsumedTyped DEF ConsumeSeen
  <2> QED
      BY <1>15, <2>1 DEF ConsumeSeen, TypeOK, dbVars, taskVars, memVars, history
<1>16. CASE Seed(j)
  <2>1. job' \in [Job -> Execution]
    <3>1. job[j] \in Execution /\ Seeded(j) \in SUBSET Command
          BY <1>a DEF Seeded, Execution
    <3>2. [job[j] EXCEPT !.pc = "run", !.seen = {}, !.sent = job[j].sent \cup Seeded(j)] \in Execution
          BY <3>1, SeedTyped
    <3> QED
        BY <1>16, <1>a, <3>2 DEF Seed
  <2> QED
      BY <1>16, <2>1 DEF Seed, TypeOK, dbVars, taskVars, memVars, history
<1>6. CASE GraphDrain(j)
  <2>1. job' \in [Job -> Execution]
        BY <1>6, <1>a DEF GraphDrain, Execution, JobPc
  <2>2. ckpt' \subseteq Command
        BY <1>6, <1>a, <1>h DEF GraphDrain, Execution
  <2> QED
      BY <1>6, <2>1, <2>2 DEF GraphDrain, TypeOK, dbVars, taskVars, memVars,
                              history
<1>7. CASE GraphRaise(j)
  <2>1. job' \in [Job -> Execution]
        BY <1>7, <1>a DEF GraphRaise, FailTurn, Free, Via, Execution, JobPc
  <2>2. wake' \in [Process -> SUBSET DrainKind]
        BY <1>7, <1>e DEF GraphRaise, FailTurn, DrainKind
  <2>3. active' \in [Process -> Job \cup {NoJob}]
        BY <1>7 DEF GraphRaise, FailTurn, Detached, TypeOK
  <2> QED
      BY <1>7, <2>1, <2>2, <2>3 DEF GraphRaise, FailTurn, TypeOK, dbVars,
                                    taskVars, memVars, history, Status
<1>8. CASE Settle(j)
  <2>1. job' \in [Job -> Execution]
        BY <1>8, <1>a DEF Settle, Execution, JobPc
  <2>2. status' \in Status /\ settled' \subseteq Command
        BY <1>8, ConstantsAssumption DEF Settle, Assigned, TypeOK, Status
  <2> QED
      BY <1>8, <2>1, <2>2 DEF Settle, TypeOK, dbVars, taskVars, memVars,
                              history
<1>9. CASE Ack(j)
  <2>1. job' \in [Job -> Execution]
        BY <1>9, <1>a DEF Ack, Execution, JobPc
  <2>2. row' \in [Command -> Row]
        BY <1>9, <1>b, ConsumedTyped DEF Ack
  <2> QED
      BY <1>9, <2>1, <2>2 DEF Ack, TypeOK, dbVars, taskVars, memVars, history
<1>10. CASE Transfer(j)
  <2>1. job' \in [Job -> Execution]
        BY <1>10, <1>a DEF Transfer, Free, Via, Execution, JobPc
  <2>2. row' \in [Command -> Row]
        BY <1>10, <1>b, ReleasedTyped DEF Transfer, Mode
  <2>3. wake' \in [Process -> SUBSET DrainKind]
        BY <1>10, <1>e DEF Transfer, DrainKind
  <2> QED
      BY <1>10, <2>1, <2>2, <2>3 DEF Transfer, TypeOK, dbVars, taskVars,
                                     memVars, history
<1>11. CASE PumpMark(j)
  <2>1. job' \in [Job -> Execution]
        BY <1>11, <1>a DEF PumpMark, Execution, JobPc
  <2>2. row' \in [Command -> Row]
        BY <1>11, <1>b, DeliveredTyped DEF PumpMark
  <2> QED
      BY <1>11, <2>1, <2>2 DEF PumpMark, TypeOK, dbVars, taskVars, memVars,
                               history
<1>12. CASE \E out \in Outcomes : GraphEnd(j, out)
  <2>1. job' \in [Job -> Execution]
    <3>1. PICK out \in Outcomes : GraphEnd(j, out)
          BY <1>12
    <3>2. [job[j] EXCEPT !.pc = "settle", !.out = out, !.mark = NoCmd, !.queue = {}]
            \in Execution
          BY <1>a, EndedTyped
    <3> QED
        BY <1>a, <3>1, <3>2 DEF GraphEnd, FinalOutcome
  <2>2. active' \in [Process -> Job \cup {NoJob}]
        BY <1>12 DEF GraphEnd, Detached, TypeOK
  <2> QED
      BY <1>12, <2>1, <2>2 DEF GraphEnd, TypeOK, dbVars, taskVars, memVars,
                               history
<1>13. CASE \E c \in Message : PumpSteer(j, c)
  <2>1. job' \in [Job -> Execution]
    <3>1. PICK c \in Message : PumpSteer(j, c)
          BY <1>13
    <3>2. Steered(job[j], c) \in Execution
          BY <1>a, SteeredTyped DEF Command
    <3>3. [Steered(job[j], c) EXCEPT !.mark = c] \in Execution
          BY <3>2 DEF Execution, Command
    <3> QED
        BY <1>a, <3>1, <3>3 DEF PumpSteer
  <2> QED
      BY <1>13, <2>1 DEF PumpSteer, TypeOK, dbVars, taskVars, memVars, history
<1> QED
    BY <1>1, <1>2, <1>3, <1>4, <1>5, <1>6, <1>7, <1>8, <1>9, <1>10, <1>11,
       <1>12, <1>13, <1>14, <1>15, <1>16
    DEF RunStep

LEMMA ProcessStepTypeOK ==
  ASSUME TypeOK, Assigned, NEW p \in Process, ProcessStep(p)
  PROVE  TypeOK'
<1>a. job \in [Job -> Execution]
      BY DEF TypeOK
<1>c. drain \in [Process -> Drain]
      BY DEF TypeOK
<1>e. wake \in [Process -> SUBSET DrainKind]
      BY DEF TypeOK
<1>f. drive \in [Process -> SUBSET Command]
      BY DEF TypeOK
<1>g. inbox \in Seq(Command)
      BY DEF TypeOK
<1>1. CASE \E kind \in DrainKind : DrainRead(p, kind)
  <2>1. wake' \in [Process -> SUBSET DrainKind]
        BY <1>1, <1>e DEF DrainRead, DrainKind
  <2>2. drain' \in [Process -> Drain]
    <3>1. PICK kind \in DrainKind : DrainRead(p, kind)
          BY <1>1
    <3>2. CASE UNCHANGED drain
          BY <1>c, <3>2
    <3>3. CASE \E i \in Todo(kind) :
                 drain' = [drain EXCEPT ![p] =
                   [pc |-> "gate", kind |-> kind, cmd |-> inbox[i],
                    orphan |-> row[inbox[i]].disp = "delivered"
                                 /\ row[inbox[i]].mode # "steering"]]
      <4>1. PICK i \in Todo(kind) :
              drain' = [drain EXCEPT ![p] =
                [pc |-> "gate", kind |-> kind, cmd |-> inbox[i],
                 orphan |-> row[inbox[i]].disp = "delivered"
                              /\ row[inbox[i]].mode # "steering"]]
            BY <3>3
      <4>2. inbox[i] \in Command
            BY <1>g DEF Todo, Index
      <4>3. kind \in DrainKind \ {"startup"}
            BY <3>1 DEF DrainRead
      <4> QED
          BY <1>c, <4>1, <4>2, <4>3 DEF Drain
    <3> QED
        BY <3>1, <3>2, <3>3 DEF DrainRead
  <2> QED
      BY <1>1, <2>1, <2>2 DEF DrainRead, TypeOK, dbVars, taskVars, memVars,
                              history
<1>2. CASE DrainGate(p)
  <2>1. wake' \in [Process -> SUBSET DrainKind]
        BY <1>2, <1>e DEF DrainGate, DrainKind
  <2>2. drain' \in [Process -> Drain]
        BY <1>2, <1>c DEF DrainGate, NoDrain, DrainKind, Drain
  <2> QED
      BY <1>2, <2>1, <2>2 DEF DrainGate, TypeOK, dbVars, taskVars, memVars,
                              history
<1>3. CASE \E j \in Job : StartDrained(p, j)
  <2>1. job' \in [Job -> Execution]
    <3>1. PICK j \in Job : StartDrained(p, j)
          BY <1>3
    <3>2. drain[p].cmd \in Command /\ drain[p].kind \in Via
          BY <1>c, <3>1 DEF StartDrained, Assigned, Drain, DrainKind, Via
    <3> QED
        BY <1>a, <3>1, <3>2, StartTyped DEF StartDrained
  <2>2. drain' \in [Process -> Drain]
        BY <1>3, <1>c DEF StartDrained, NoDrain, DrainKind, Drain
  <2> QED
      BY <1>3, <2>1, <2>2 DEF StartDrained, TypeOK, dbVars, taskVars, memVars,
                              history
<1>4. CASE \E j \in Job, c \in Command : StartDirect(p, c, j)
  <2>1. job' \in [Job -> Execution]
        BY <1>4, <1>a, StartTyped DEF StartDirect, Via
  <2>2. drive' \in [Process -> SUBSET Command]
        BY <1>4, <1>f DEF StartDirect, Command
  <2> QED
      BY <1>4, <2>1, <2>2 DEF StartDirect, TypeOK, dbVars, taskVars, memVars,
                              history
<1>5. CASE Startup(p)
  <2>1. wake' \in [Process -> SUBSET DrainKind]
        BY <1>5, <1>e DEF Startup, DrainKind
  <2>2. drive' \in [Process -> SUBSET Command]
        BY <1>5, <1>f DEF Startup, Command
  <2> QED
      BY <1>5, <2>1, <2>2 DEF Startup, TypeOK, dbVars, taskVars, memVars,
                              history
<1>6. CASE CancelMark(p)
  <2> QED
      BY <1>6 DEF CancelMark, TypeOK, dbVars, taskVars, memVars, history,
                  Status
<1>7. CASE CancelKill(p)
  <2>1. job' \in [Job -> Execution]
        BY <1>7, <1>a, FreeTyped, LeftTyped DEF CancelKill
  <2> QED
      BY <1>7, <2>1 DEF CancelKill, TypeOK, dbVars, taskVars, memVars, history
<1> QED
    BY <1>1, <1>2, <1>3, <1>4, <1>5, <1>6, <1>7
    DEF ProcessStep

LEMMA RequestStepTypeOK ==
  ASSUME TypeOK, Assigned, NEW m \in Message, RequestStep(m)
  PROVE  TypeOK'
<1>a. job \in [Job -> Execution]
      BY DEF TypeOK
<1>b. row \in [Command -> Row]
      BY DEF TypeOK
<1>d. req \in [Message -> Request]
      BY DEF TypeOK
<1>e. wake \in [Process -> SUBSET DrainKind]
      BY DEF TypeOK
<1>f. drive \in [Process -> SUBSET Command]
      BY DEF TypeOK
<1>g. inbox \in Seq(Command)
      BY DEF TypeOK
<1>i. active \in [Process -> Job \cup {NoJob}]
      BY DEF TypeOK
<1>1. CASE MessageAppend(m)
  <2>1. row' \in [Command -> Row]
        BY <1>1, <1>b, <1>d DEF MessageAppend, Accept, NewRow, Mode, Request,
                                Row, Delivery
  <2>2. inbox' \in Seq(Command)
        BY <1>1, <1>g DEF MessageAppend, Accept, Command
  <2>3. req' \in [Message -> Request]
        BY <1>1, <1>d DEF MessageAppend, Request
  <2> QED
      BY <1>1, <2>1, <2>2, <2>3 DEF MessageAppend, Accept, TypeOK, dbVars,
                                    taskVars, memVars, history
<1>2. CASE MessageRoute(m)
  <2>1. job' \in [Job -> Execution]
    <3> DEFINE a == active[req[m].at]
    <3>1. CASE job' = job
          BY <1>a, <3>1
    <3>2. CASE a # NoJob /\ job' = [job EXCEPT ![a] = Steered(job[a], m)]
      <4>1. a \in Job /\ m \in Command
            BY <1>2, <1>i, <3>2 DEF MessageRoute, Assigned, Command
      <4> HIDE DEF a
      <4> QED
          BY <1>a, <3>2, <4>1, SteeredTyped
    <3> QED
        BY <1>2, <3>1, <3>2 DEF MessageRoute
  <2>2. req' \in [Message -> Request]
    <3>1. CASE req' = [req EXCEPT ![m].pc = "done"]
          BY <1>d, <3>1 DEF Request
    <3>2. CASE /\ active[req[m].at] # NoJob
               /\ req' = [req EXCEPT ![m] = [@ EXCEPT !.pc = "mark", !.exec = active[req[m].at]]]
      <4>1. active[req[m].at] \in Job
            BY <1>2, <1>i, <3>2 DEF MessageRoute, Assigned
      <4> QED
          BY <1>d, <3>2, <4>1 DEF Request
    <3> QED
        BY <1>2, <1>d, <3>1, <3>2 DEF MessageRoute
  <2>3. wake' \in [Process -> SUBSET DrainKind]
        BY <1>2, <1>e DEF MessageRoute, DrainKind
  <2>4. drive' \in [Process -> SUBSET Command]
        BY <1>2, <1>f DEF MessageRoute, Command
  <2> QED
      BY <1>2, <2>1, <2>2, <2>3, <2>4 DEF MessageRoute, TypeOK, dbVars,
                                          taskVars, memVars, history
<1>3. CASE MessageMark(m)
  <2>1. row' \in [Command -> Row]
    <3>1. req[m].exec \in Job \cup {NoJob}
          BY <1>d DEF Request
    <3> QED
        BY <1>3, <1>b, <3>1, DeliveredTyped DEF MessageMark
  <2>2. req' \in [Message -> Request]
        BY <1>3, <1>d DEF MessageMark, Request
  <2> QED
      BY <1>3, <2>1, <2>2 DEF MessageMark, TypeOK, dbVars, taskVars, memVars,
                              history
<1> QED
    BY <1>1, <1>2, <1>3
    DEF RequestStep

LEMMA EnvironmentTypeOK ==
  ASSUME TypeOK, Assigned, Environment
  PROVE  TypeOK'
<1>a. job \in [Job -> Execution]
      BY DEF TypeOK
<1>b. row \in [Command -> Row]
      BY DEF TypeOK
<1>c. drain \in [Process -> Drain]
      BY DEF TypeOK
<1>d. req \in [Message -> Request]
      BY DEF TypeOK
<1>e. wake \in [Process -> SUBSET DrainKind]
      BY DEF TypeOK
<1>f. drive \in [Process -> SUBSET Command]
      BY DEF TypeOK
<1>1. ASSUME NEW j \in Job, GraphAsk(j) PROVE TypeOK'
  <2>1. job' \in [Job -> Execution]
        BY <1>1, <1>a DEF GraphAsk, Execution, JobPc
  <2> QED
      BY <1>1, <2>1 DEF GraphAsk, TypeOK, dbVars, taskVars, memVars, history
<1>2. ASSUME NEW j \in Job, StreamCancelled(j) PROVE TypeOK'
  <2>1. job' \in [Job -> Execution]
        BY <1>2, <1>a DEF StreamCancelled, Execution, JobPc
  <2> QED
      BY <1>2, <2>1 DEF StreamCancelled, TypeOK, dbVars, taskVars, memVars,
                        history
<1>3. ASSUME NEW j \in Job, Heartbeat(j) PROVE TypeOK'
  <2>1. row' \in [Command -> Row]
    <3>1. row' = [row EXCEPT ![job[j].cmd] = [@ EXCEPT !.fresh = TRUE]]
          BY <1>3 DEF Heartbeat
    <3>2. \A r \in Row : [r EXCEPT !.fresh = TRUE] \in Row
          BY DEF Row
    <3> QED
        BY <3>1, <3>2, <1>b
  <2> QED
      BY <1>3, <2>1 DEF Heartbeat, TypeOK, dbVars, taskVars, memVars, history
<1>4. ASSUME NEW j \in Job, BeginFail(j) PROVE TypeOK'
  <2>1. job' \in [Job -> Execution]
        BY <1>4, <1>a DEF BeginFail, Free, Via, Execution, JobPc
  <2> QED
      BY <1>4, <2>1, ConstantsAssumption DEF BeginFail, Fault, TypeOK, dbVars,
                                             taskVars, memVars, history,
                                             Status
<1>5. ASSUME NEW j \in Job, GraphFail(j) PROVE TypeOK'
  <2>1. job' \in [Job -> Execution]
        BY <1>5, <1>a DEF GraphFail, FailTurn, Free, Via, Execution, JobPc
  <2>2. wake' \in [Process -> SUBSET DrainKind]
        BY <1>5, <1>e DEF GraphFail, FailTurn, DrainKind
  <2>3. active' \in [Process -> Job \cup {NoJob}]
        BY <1>5 DEF GraphFail, FailTurn, Detached, TypeOK
  <2> QED
      BY <1>5, <2>1, <2>2, <2>3, ConstantsAssumption DEF GraphFail, FailTurn,
                                                         Fault, TypeOK,
                                                         dbVars, taskVars,
                                                         memVars, history,
                                                         Status
<1>6. ASSUME NEW c \in Command, LeaseLapse(c) PROVE TypeOK'
  <2>1. row' \in [Command -> Row]
        BY <1>6, <1>b DEF LeaseLapse, Row, Delivery
  <2> QED
      BY <1>6, <2>1 DEF LeaseLapse, TypeOK, dbVars, taskVars, memVars, history
<1>7. ASSUME NEW p \in Process, Crash(p) PROVE TypeOK'
  <2>1. wake' \in [Process -> SUBSET DrainKind]
        BY <1>7, <1>e DEF Crash, DrainKind
  <2>2. drive' \in [Process -> SUBSET Command]
        BY <1>7, <1>f DEF Crash, Command
  <2>3. drain' \in [Process -> Drain]
        BY <1>7, <1>c DEF Crash, NoDrain, DrainKind, Drain
  <2>4. job' \in [Job -> Execution]
        BY <1>7, <1>a DEF Crash, Free, Via, Execution, JobPc
  <2>5. active' \in [Process -> Job \cup {NoJob}]
        BY <1>7 DEF Crash, TypeOK
  <2>6. req' \in [Message -> Request]
    <3>1. NoReq \in Request
          BY DEF NoReq, Mode, Request
    <3>2. \A q \in Request : [q EXCEPT !.pc = "done", !.exec = NoJob] \in Request
          BY DEF Request
    <3> QED
        BY <1>7, <1>d, <3>1, <3>2 DEF Crash
  <2>7. killing' \in [Process -> {"idle", "mark", "kill"}]
        BY <1>7 DEF Crash, TypeOK
  <2>8. faults' \in 0..MaxFaults
    <3>1. faults \in 0..MaxFaults /\ MaxFaults \in Nat
          BY ConstantsAssumption DEF TypeOK
    <3>2. faults < MaxFaults /\ faults' = faults + 1
          BY <1>7 DEF Crash, Fault
    <3> QED
        BY <3>1, <3>2
  <2> QED
      BY <1>7, <2>1, <2>2, <2>3, <2>4, <2>5, <2>6, <2>7, <2>8
      DEF Crash, TypeOK, dbVars, taskVars
<1> QED
    BY <1>1, <1>2, <1>3, <1>4, <1>5, <1>6, <1>7
    DEF Environment

LEMMA LearnerAssigned ==
  ASSUME TypeOK, Assigned, Learner
  PROVE  Assigned'
<1>a. /\ job \in [Job -> Execution] /\ drain \in [Process -> Drain]
      /\ req \in [Message -> Request]
      BY DEF TypeOK
<1>1. ASSUME NEW p \in Process, NEW m \in Message, MessageRead(m, p) PROVE Assigned'
      BY <1>1, <1>a DEF MessageRead, Assigned
<1>2. ASSUME NEW p \in Process, NEW m \in Message, MessageRetry(m, p) PROVE Assigned'
      BY <1>2, <1>a DEF MessageRetry, Assigned
<1>3. ASSUME NEW p \in Process, NEW a \in Answer, AnswerAccept(a, p) PROVE Assigned'
      BY <1>3, <1>a DEF AnswerAccept, Assigned
<1>4. ASSUME NEW p \in Process, NEW a \in Answer, AnswerRetry(a, p) PROVE Assigned'
      BY <1>4, <1>a DEF AnswerRetry, Assigned
<1>5. ASSUME NEW p \in Process, CancelRead(p) PROVE Assigned'
      BY <1>5, <1>a DEF CancelRead, Assigned
<1> QED
    BY <1>1, <1>2, <1>3, <1>4, <1>5 DEF Learner

LEMMA RunStepAssigned ==
  ASSUME TypeOK, Assigned, NEW j \in Job, RunStep(j)
  PROVE  Assigned'
<1>a. /\ job \in [Job -> Execution] /\ drain \in [Process -> Drain]
      /\ req \in [Message -> Request]
      BY DEF TypeOK
<1>1. CASE ClaimDelivery(j)
  <2>1. UNCHANGED <<drain, req>> /\ job[j].pc = "claim"
        BY <1>1 DEF ClaimDelivery
  <2>2. CASE job' = [job EXCEPT ![j].pc = "task"]
        BY <2>1, <2>2, <1>a DEF Assigned
  <2>3. CASE job' = [job EXCEPT ![j] = Free]
        BY <2>1, <2>3, <1>a DEF Free, Assigned
  <2> QED
      BY <1>1, <2>2, <2>3 DEF ClaimDelivery, EndUnowned
<1>2. CASE ClaimTask(j)
      BY <1>2, <1>a DEF ClaimTask, Elected, Assigned
<1>3. CASE Release(j)
      BY <1>3, <1>a DEF Release, EndUnowned, Free, Assigned
<1>4. CASE Begin(j)
      BY <1>4, <1>a DEF Begin, Assigned
<1>5. CASE Publish(j)
      BY <1>5, <1>a DEF Publish, Free, Assigned
<1>14. CASE ReadCheckpoint(j)
      BY <1>14, <1>a DEF ReadCheckpoint, Assigned
<1>15. CASE \E c \in Command : ConsumeSeen(j, c)
      BY <1>15, <1>a DEF ConsumeSeen, Assigned
<1>16. CASE Seed(j)
      BY <1>16, <1>a DEF Seed, Assigned
<1>6. CASE GraphDrain(j)
      BY <1>6, <1>a DEF GraphDrain, Assigned
<1>7. CASE GraphRaise(j)
      BY <1>7, <1>a DEF GraphRaise, FailTurn, Free, Assigned
<1>8. CASE \E out \in Outcomes : GraphEnd(j, out)
      BY <1>8, <1>a DEF GraphEnd, FinalOutcome, Assigned
<1>9. CASE Settle(j)
      BY <1>9, <1>a DEF Settle, Assigned
<1>10. CASE Ack(j)
      BY <1>10, <1>a DEF Ack, Assigned
<1>11. CASE Transfer(j)
      BY <1>11, <1>a DEF Transfer, Free, Assigned
<1>12. CASE PumpMark(j)
      BY <1>12, <1>a DEF PumpMark, Assigned
<1>13. CASE \E c \in Message : PumpSteer(j, c)
      BY <1>13, <1>a DEF PumpSteer, Steered, Assigned
<1> QED
    BY <1>1, <1>2, <1>3, <1>4, <1>5, <1>6, <1>7, <1>8, <1>9, <1>10, <1>11, <1>12, <1>13, <1>14,
       <1>15, <1>16 DEF RunStep

LEMMA ProcessStepAssigned ==
  ASSUME TypeOK, Assigned, NEW p \in Process, ProcessStep(p)
  PROVE  Assigned'
<1>a. /\ job \in [Job -> Execution] /\ drain \in [Process -> Drain]
      /\ req \in [Message -> Request]
      BY DEF TypeOK
<1>1. CASE \E kind \in DrainKind : DrainRead(p, kind)
      BY <1>1, <1>a DEF DrainRead, Todo, Index, TypeOK, Assigned
<1>2. CASE DrainGate(p)
      BY <1>2, <1>a DEF DrainGate, NoDrain, Assigned
<1>3. CASE \E j \in Job : StartDrained(p, j)
      BY <1>3, <1>a DEF StartDrained, Start, NoDrain, Assigned
<1>4. CASE \E j \in Job, c \in Command : StartDirect(p, c, j)
      BY <1>4, <1>a DEF StartDirect, Start, Assigned
<1>5. CASE Startup(p)
      BY <1>5, <1>a DEF Startup, Assigned
<1>6. CASE CancelMark(p)
      BY <1>6, <1>a DEF CancelMark, Assigned
<1>7. CASE CancelKill(p)
  <2>1. \A i \in Job :
          \/ job'[i] = job[i]
          \/ job'[i] = Left(job[i]) /\ job[i].at = p
          \/ job'[i] = Free
        BY <1>7 DEF CancelKill
  <2>2. UNCHANGED <<drain, req>>
        BY <1>7 DEF CancelKill
  <2>3. p # NoJob
        BY ConstantsAssumption
  <2>4. \A i \in Job : job'[i] = Left(job[i]) =>
          /\ job'[i].pc \in {"zombie", "ghost"}
          /\ job'[i].at = job[i].at /\ job'[i].cmd = job[i].cmd
        BY <1>a, LeftTyped
  <2>5. ASSUME NEW i \in Job
        PROVE  /\ job'[i].pc = "free" => job'[i].at = NoJob
               /\ job'[i].pc # "free" => job'[i].at \in Process /\ job'[i].cmd \in Command
               /\ job'[i].pc \in {"settle", "ack", "transfer"} => job'[i].out \in Outcomes
    <3>1. CASE job'[i] = job[i]
          BY <3>1 DEF Assigned
    <3>2. CASE job'[i] = Left(job[i]) /\ job[i].at = p
          BY <3>2, <2>3, <2>4 DEF Assigned
    <3>3. CASE job'[i] = Free
          BY <3>3 DEF Free
    <3> QED
        BY <2>1, <3>1, <3>2, <3>3
  <2> QED
      BY <2>2, <2>5 DEF Assigned
<1> QED
    BY <1>1, <1>2, <1>3, <1>4, <1>5, <1>6, <1>7 DEF ProcessStep

LEMMA RoutedRequest ==
  ASSUME req \in [Message -> Request], NEW m \in Message, MessageRoute(m)
  PROVE  \A n \in Message : req'[n].at = req[n].at /\ (n # m => req'[n] = req[n])
<1>1. CASE req' = [req EXCEPT ![m].pc = "done"]
      BY <1>1 DEF Request
<1>2. CASE \E a : req' = [req EXCEPT ![m] = [@ EXCEPT !.pc = "mark", !.exec = a]]
      BY <1>2 DEF Request
<1> QED
    BY <1>1, <1>2 DEF MessageRoute

LEMMA RequestStepAssigned ==
  ASSUME TypeOK, Assigned, NEW m \in Message, RequestStep(m)
  PROVE  Assigned'
<1>a. /\ job \in [Job -> Execution] /\ drain \in [Process -> Drain]
      /\ req \in [Message -> Request]
      BY DEF TypeOK
<1>1. CASE MessageAppend(m)
      BY <1>1, <1>a DEF MessageAppend, Assigned
<1>2. CASE MessageRoute(m)
  <2>1. UNCHANGED drain /\ req[m].pc = "route"
        BY <1>2 DEF MessageRoute
  <2>2. CASE job' = job
    <3>1. \A n \in Message : req'[n].at = req[n].at /\ (n # m => req'[n] = req[n])
          BY <1>2, <1>a, RoutedRequest
    <3> QED
        BY <2>1, <2>2, <3>1 DEF Assigned
  <2>3. CASE \E a \in Job : job' = [job EXCEPT ![a] = Steered(@, m)]
    <3>1. \A i \in Job : /\ job'[i].pc = job[i].pc
                         /\ job'[i].at = job[i].at
                         /\ job'[i].cmd = job[i].cmd
                         /\ job'[i].out = job[i].out
          BY <2>3, <1>a DEF Steered, Execution
    <3>2. \A n \in Message : req'[n].at = req[n].at /\ (n # m => req'[n] = req[n])
          BY <1>2, <1>a, RoutedRequest
    <3> QED
        BY <2>1, <3>1, <3>2 DEF Assigned
  <2> QED
    <3>1. active[req[m].at] \in Job \cup {NoJob}
          BY <2>1 DEF TypeOK, Assigned
    <3> QED
        BY <1>2, <2>2, <2>3, <3>1 DEF MessageRoute
<1>3. CASE MessageMark(m)
      BY <1>3, <1>a DEF MessageMark, Assigned
<1> QED
    BY <1>1, <1>2, <1>3 DEF RequestStep

LEMMA EnvironmentAssigned ==
  ASSUME TypeOK, Assigned, Environment
  PROVE  Assigned'
<1>a. /\ job \in [Job -> Execution] /\ drain \in [Process -> Drain]
      /\ req \in [Message -> Request]
      BY DEF TypeOK
<1>1. ASSUME NEW j \in Job, GraphAsk(j) PROVE Assigned'
      BY <1>1, <1>a DEF GraphAsk, Assigned
<1>2. ASSUME NEW j \in Job, StreamCancelled(j) PROVE Assigned'
      BY <1>2, <1>a DEF StreamCancelled, Assigned
<1>3. ASSUME NEW j \in Job, Heartbeat(j) PROVE Assigned'
      BY <1>3, <1>a DEF Heartbeat, memVars, Assigned
<1>4. ASSUME NEW j \in Job, BeginFail(j) PROVE Assigned'
      BY <1>4, <1>a DEF BeginFail, Free, Assigned
<1>5. ASSUME NEW j \in Job, GraphFail(j) PROVE Assigned'
      BY <1>5, <1>a DEF GraphFail, FailTurn, Free, Assigned
<1>6. ASSUME NEW c \in Command, LeaseLapse(c) PROVE Assigned'
      BY <1>6, <1>a DEF LeaseLapse, memVars, Assigned
<1>7. ASSUME NEW p \in Process, Crash(p) PROVE Assigned'
  <2>1. \A i \in Job : job'[i] = job[i] \/ job'[i] = Free
        BY <1>7 DEF Crash
  <2>2. \A q \in Process : drain'[q] = drain[q] \/ drain'[q] = NoDrain
        BY <1>7, <1>a DEF Crash
  <2>3. \A n \in Message : \/ req'[n] = req[n] \/ req'[n] = NoReq
                           \/ req'[n].at = p
        BY <1>7, <1>a DEF Crash, Request
  <2> QED
      BY <2>1, <2>2, <2>3 DEF Free, NoDrain, NoReq, Assigned
<1> QED
    BY <1>1, <1>2, <1>3, <1>4, <1>5, <1>6, <1>7 DEF Environment

LEMMA InitAssigned == Init => Assigned
  BY DEF Init, Assigned, Free, NoDrain, NoReq

LEMMA StepTypeOK == TypeOK /\ Assigned /\ [Next]_vars => TypeOK' /\ Assigned'
<1> SUFFICES ASSUME TypeOK, Assigned, [Next]_vars PROVE TypeOK' /\ Assigned'
    OBVIOUS
<1>1. CASE UNCHANGED vars
      BY <1>1 DEF TypeOK, Assigned, vars, dbVars, memVars, history
<1>2. CASE Learner
      BY <1>2, LearnerTypeOK, LearnerAssigned
<1>3. CASE \E j \in Job : RunStep(j)
      BY <1>3, RunStepTypeOK, RunStepAssigned
<1>4. CASE \E p \in Process : ProcessStep(p)
      BY <1>4, ProcessStepTypeOK, ProcessStepAssigned
<1>5. CASE \E m \in Message : RequestStep(m)
      BY <1>5, RequestStepTypeOK, RequestStepAssigned
<1>6. CASE Environment
      BY <1>6, EnvironmentTypeOK, EnvironmentAssigned
<1> QED
    BY <1>1, <1>2, <1>3, <1>4, <1>5, <1>6 DEF Next

\* Every variable keeps the shape of the columns and fields it stands for.  The
\* strengthening Assigned says that whatever has begun knows its process and
\* its command, and that a run that has ended knows its outcome.
THEOREM TypeCorrect == Spec => []TypeOK
<1>1. Init => TypeOK /\ Assigned
      BY InitTypeOK, InitAssigned
<1>2. TypeOK /\ Assigned /\ [Next]_vars => (TypeOK /\ Assigned)'
      BY StepTypeOK
<1> QED
    BY <1>1, <1>2, PTL DEF Spec

-----------------------------------------------------------------------------
(* Who runs: the election by claim_agent_task and the silence of a         *)
(* cancelled task, for every set of processes, executions and commands.    *)
(* Every step is one of four kinds, and both results follow from the kind. *)

\* Nobody starts to run and nobody's result is written.
Quiet == Running' \subseteq Running /\ UNCHANGED <<status, reclaimed>>

\* claim_agent_task lets j in.
Elects(j) ==
  /\ TaskClaimable(j)
  /\ Running' \subseteq Running \cup {j}
  /\ status' = "running"
  /\ reclaimed' = (reclaimed \/ (status = "running" /\ job[j].reclaim))

\* A running execution writes its outcome, or its failure, and stops.
Leaves(j) ==
  /\ j \in Running
  /\ Running' \subseteq Running \ {j}
  /\ UNCHANGED reclaimed

\* cancel_agent_task marks the task.
Cancels == Running' \subseteq Running /\ status' = "cancelled" /\ UNCHANGED reclaimed

StepKind == Quiet \/ Cancels \/ \E j \in Job : Elects(j) \/ Leaves(j)

-----------------------------------------------------------------------------
LEMMA SameJobQuiet ==
  ASSUME job' = job, UNCHANGED <<status, reclaimed>>
  PROVE  StepKind
  BY DEF StepKind, Quiet, Running

\* An update of one execution that does not begin to run.
LEMMA OneJobQuiet ==
  ASSUME job \in [Job -> Execution], NEW j \in Job, NEW e,
         job' = [job EXCEPT ![j] = e],
         e.pc \in {"begin", "attach", "join", "seed", "run", "settle"} => j \in Running,
         UNCHANGED <<status, reclaimed>>
  PROVE  StepKind
  BY DEF StepKind, Quiet, Running

LEMMA OneJobLeaves ==
  ASSUME job \in [Job -> Execution], NEW j \in Job, NEW e,
         job' = [job EXCEPT ![j] = e], j \in Running,
         e.pc \notin {"begin", "attach", "join", "seed", "run", "settle"},
         UNCHANGED reclaimed
  PROVE  StepKind
  BY DEF StepKind, Leaves, Running

LEMMA LearnerKind ==
  ASSUME TypeOK, Learner
  PROVE  StepKind
<1>a. job \in [Job -> Execution]
      BY DEF TypeOK
<1>1. ASSUME NEW p \in Process, NEW m \in Message, MessageRead(m, p) PROVE StepKind
      BY <1>1, SameJobQuiet DEF MessageRead, dbVars, taskVars, memVars, history
<1>2. ASSUME NEW p \in Process, NEW m \in Message, MessageRetry(m, p) PROVE StepKind
      BY <1>2, SameJobQuiet DEF MessageRetry, dbVars, taskVars, memVars, history
<1>3. ASSUME NEW p \in Process, NEW a \in Answer, AnswerAccept(a, p) PROVE StepKind
      BY <1>3, SameJobQuiet DEF AnswerAccept, dbVars, taskVars, memVars, history
<1>4. ASSUME NEW p \in Process, NEW a \in Answer, AnswerRetry(a, p) PROVE StepKind
      BY <1>4, SameJobQuiet DEF AnswerRetry, dbVars, taskVars, memVars, history
<1>5. ASSUME NEW p \in Process, CancelRead(p) PROVE StepKind
      BY <1>5, SameJobQuiet DEF CancelRead, dbVars, taskVars, memVars, history
<1> QED
    BY <1>1, <1>2, <1>3, <1>4, <1>5 DEF Learner

LEMMA RunStepKind ==
  ASSUME TypeOK, NEW j \in Job, RunStep(j)
  PROVE  StepKind
<1>a. job \in [Job -> Execution]
      BY DEF TypeOK
<1>1. CASE ClaimDelivery(j)
      BY <1>1, <1>a, OneJobQuiet DEF ClaimDelivery, EndUnowned, dbVars, taskVars, memVars, history, Execution, Running, Free
<1>2. CASE ClaimTask(j)
  <2>1. CASE TaskClaimable(j)
    <3>1. \A i \in Job : i # j => job'[i] = job[i]
          BY <1>2, <1>a DEF ClaimTask
    <3>2. Elects(j)
          BY <1>2, <2>1, <3>1 DEF ClaimTask, Elects, Running
    <3> QED
        BY <3>2 DEF StepKind
  <2>2. CASE ~TaskClaimable(j)
    <3>1. job' = [job EXCEPT ![j] = [@ EXCEPT !.pc = "release"]] /\ status' = status
          BY <1>2, <2>2, Zenon DEF ClaimTask
    <3>2. reclaimed' = reclaimed
          BY <1>2, <2>2 DEF ClaimTask, TypeOK
    <3> QED
        BY <3>1, <3>2, <1>a, OneJobQuiet DEF Execution
  <2> QED
      BY <2>1, <2>2
<1>3. CASE Release(j)
      BY <1>3, <1>a, OneJobQuiet DEF Release, EndUnowned, dbVars, taskVars, memVars, history, Execution, Running, Free
<1>4. CASE Begin(j)
      BY <1>4, <1>a, OneJobQuiet DEF Begin, dbVars, taskVars, memVars, history, Execution, Running, Free
<1>5. CASE Publish(j)
      BY <1>5, <1>a DEF Publish, StepKind, Quiet, Running, Execution, Free, dbVars, taskVars, history
<1>14. CASE ReadCheckpoint(j)
      BY <1>14, <1>a, OneJobQuiet DEF ReadCheckpoint, dbVars, taskVars, history, Execution, Running
<1>15. CASE \E c \in Command : ConsumeSeen(j, c)
      BY <1>15, SameJobQuiet DEF ConsumeSeen, taskVars, history
<1>16. CASE Seed(j)
      BY <1>16, <1>a, OneJobQuiet DEF Seed, dbVars, taskVars, history, Execution, Running
<1>6. CASE GraphDrain(j)
      BY <1>6, <1>a, OneJobQuiet DEF GraphDrain, dbVars, taskVars, memVars, history, Execution, Running, Free
<1>7. CASE GraphRaise(j)
      BY <1>7, <1>a, OneJobLeaves DEF GraphRaise, FailTurn, dbVars, taskVars, memVars, history, Execution, Running, Free
<1>8. CASE \E out \in Outcomes : GraphEnd(j, out)
      BY <1>8, <1>a, OneJobQuiet DEF GraphEnd, FinalOutcome, dbVars, taskVars, memVars, history, Execution, Running, Free
<1>9. CASE Settle(j)
      BY <1>9, <1>a, OneJobLeaves DEF Settle, dbVars, taskVars, memVars, history, Execution, Running, Free
<1>10. CASE Ack(j)
      BY <1>10, <1>a, OneJobQuiet DEF Ack, dbVars, taskVars, memVars, history, Execution, Running, Free
<1>11. CASE Transfer(j)
      BY <1>11, <1>a, OneJobQuiet DEF Transfer, dbVars, taskVars, memVars, history, Execution, Running, Free
<1>12. CASE PumpMark(j)
      BY <1>12, <1>a, OneJobQuiet DEF PumpMark, dbVars, taskVars, memVars, history, Execution, Running, Free
<1>13. CASE \E c \in Message : PumpSteer(j, c)
  <2>1. PICK c \in Message : PumpSteer(j, c)
        BY <1>13
  <2>2. [Steered(job[j], c) EXCEPT !.mark = c].pc = job[j].pc
        BY <1>a DEF Steered, Execution
  <2> QED
      BY <2>1, <2>2, <1>a, OneJobQuiet DEF PumpSteer, Running, history, dbVars
<1> QED
    BY <1>1, <1>2, <1>3, <1>4, <1>5, <1>6, <1>7, <1>8, <1>9, <1>10, <1>11, <1>12, <1>13, <1>14,
       <1>15, <1>16 DEF RunStep

LEMMA ProcessStepKind ==
  ASSUME TypeOK, Assigned, NEW p \in Process, ProcessStep(p)
  PROVE  StepKind
<1>a. job \in [Job -> Execution]
      BY DEF TypeOK
<1>1. CASE \E kind \in DrainKind : DrainRead(p, kind)
      BY <1>1, SameJobQuiet DEF DrainRead, dbVars, taskVars, memVars, history
<1>2. CASE DrainGate(p)
      BY <1>2, SameJobQuiet DEF DrainGate, dbVars, taskVars, memVars, history
<1>3. CASE \E j \in Job : StartDrained(p, j)
      BY <1>3, <1>a, OneJobQuiet DEF StartDrained, Start, dbVars, taskVars, memVars, history, Execution, Running, Free
<1>4. CASE \E j \in Job, c \in Command : StartDirect(p, c, j)
      BY <1>4, <1>a, OneJobQuiet DEF StartDirect, Start, dbVars, taskVars, memVars, history, Execution, Running, Free
<1>5. CASE Startup(p)
      BY <1>5, SameJobQuiet DEF Startup, dbVars, taskVars, memVars, history
<1>6. CASE CancelMark(p)
      BY <1>6 DEF CancelMark, StepKind, Cancels, Running, history
<1>7. CASE CancelKill(p)
  <2>1. ASSUME NEW i \in Job
        PROVE  \/ job'[i] = job[i]
               \/ job'[i].pc \in {"zombie", "ghost", "free"}
        BY <1>7, <1>a, LeftTyped DEF CancelKill, Free
  <2> QED
      BY <1>7, <2>1 DEF CancelKill, StepKind, Quiet, Running, dbVars, taskVars, memVars, history
<1> QED
    BY <1>1, <1>2, <1>3, <1>4, <1>5, <1>6, <1>7 DEF ProcessStep

LEMMA RequestStepKind ==
  ASSUME TypeOK, Assigned, NEW m \in Message, RequestStep(m)
  PROVE  StepKind
<1>a. job \in [Job -> Execution]
      BY DEF TypeOK
<1>1. CASE MessageAppend(m)
      BY <1>1, SameJobQuiet DEF MessageAppend, dbVars, taskVars, memVars, history
<1>2. CASE MessageRoute(m)
  <2>1. CASE job' = job
        BY <1>2, <2>1, SameJobQuiet DEF MessageRoute, dbVars, history
  <2>2. CASE \E a \in Job : job' = [job EXCEPT ![a] = Steered(@, m)]
    <3>1. PICK a \in Job : job' = [job EXCEPT ![a] = Steered(@, m)]
          BY <2>2
    <3>2. Steered(job[a], m).pc = job[a].pc
          BY <1>a DEF Steered, Execution
    <3> QED
        BY <1>2, <3>1, <3>2, <1>a, OneJobQuiet
        DEF MessageRoute, Running, dbVars, history
  <2>3. active[req[m].at] \in Job \cup {NoJob}
        BY <1>2 DEF MessageRoute, TypeOK, Assigned
  <2> QED
      BY <1>2, <2>1, <2>2, <2>3 DEF MessageRoute
<1>3. CASE MessageMark(m)
      BY <1>3, SameJobQuiet DEF MessageMark, dbVars, taskVars, memVars, history
<1> QED
    BY <1>1, <1>2, <1>3 DEF RequestStep

LEMMA EnvironmentKind ==
  ASSUME TypeOK, Environment
  PROVE  StepKind
<1>a. job \in [Job -> Execution]
      BY DEF TypeOK
<1>1. ASSUME NEW j \in Job, GraphAsk(j) PROVE StepKind
      BY <1>1, <1>a, OneJobQuiet DEF GraphAsk, dbVars, taskVars, memVars, history, Execution, Running, Free
<1>2. ASSUME NEW j \in Job, StreamCancelled(j) PROVE StepKind
      BY <1>2, <1>a, OneJobQuiet DEF StreamCancelled, dbVars, taskVars, memVars, history, Execution, Running, Free
<1>3. ASSUME NEW j \in Job, Heartbeat(j) PROVE StepKind
      BY <1>3, SameJobQuiet DEF Heartbeat, dbVars, taskVars, memVars, history
<1>4. ASSUME NEW j \in Job, BeginFail(j) PROVE StepKind
      BY <1>4, <1>a, OneJobLeaves DEF BeginFail, Fault, dbVars, taskVars, memVars, history, Execution, Running, Free
<1>5. ASSUME NEW j \in Job, GraphFail(j) PROVE StepKind
      BY <1>5, <1>a, OneJobLeaves DEF GraphFail, FailTurn, dbVars, taskVars, memVars, history, Execution, Running, Free
<1>6. ASSUME NEW c \in Command, LeaseLapse(c) PROVE StepKind
      BY <1>6, SameJobQuiet DEF LeaseLapse, dbVars, taskVars, memVars, history
<1>7. ASSUME NEW p \in Process, Crash(p) PROVE StepKind
      BY <1>7, <1>a DEF Crash, StepKind, Quiet, Running, Free, Execution, dbVars, taskVars, memVars, history
<1> QED
    BY <1>1, <1>2, <1>3, <1>4, <1>5, <1>6, <1>7 DEF Environment

LEMMA EveryStep ==
  ASSUME TypeOK, Assigned, [Next]_vars
  PROVE  StepKind
<1>1. CASE UNCHANGED vars
      BY <1>1, SameJobQuiet DEF vars, dbVars, memVars, history
<1> QED
    BY <1>1, LearnerKind, RunStepKind, ProcessStepKind, RequestStepKind,
       EnvironmentKind DEF Next

-----------------------------------------------------------------------------
\* Until somebody reclaims, a running execution is alone and the task row says so
\* (or says cancelled): that is what makes claim_agent_task refuse the others.
Election ==
  ~reclaimed => /\ \A i, j \in Running : i = j
                /\ Running # {} => status \in {"running", "cancelled"}

LEMMA StepElection ==
  ASSUME TypeOK, Assigned, Election, [Next]_vars
  PROVE  Election'
<1>1. CASE Quiet
      BY <1>1 DEF Quiet, Election
<1>2. CASE Cancels
      BY <1>2 DEF Cancels, Election
<1>3. ASSUME NEW j \in Job, Elects(j) PROVE Election'
  <2>1. CASE reclaimed
        BY <1>3, <2>1 DEF Elects, Election
  <2>2. CASE ~reclaimed /\ status = "running"
        BY <1>3, <2>2 DEF Elects, TaskClaimable, Election
  <2>3. CASE ~reclaimed /\ status # "running"
    <3>1. Running = {}
          BY <1>3, <2>3 DEF Elects, TaskClaimable, Election
    <3> QED
        BY <1>3, <3>1 DEF Elects, Election
  <2> QED
      BY <2>1, <2>2, <2>3
<1>4. ASSUME NEW j \in Job, Leaves(j) PROVE Election'
      BY <1>4 DEF Leaves, Election
<1> QED
    BY <1>1, <1>2, <1>3, <1>4, EveryStep DEF StepKind

\* One execution runs at a time unless reclaim_running let another one in: the
\* claim in claim_agent_task elects, whatever else happens.
THEOREM ElectionHolds == Spec => []OverlapNeedsReclaim
<1>1. Init => Election
      BY DEF Init, Election, Running, Free
<1>2. TypeOK /\ Assigned /\ Election /\ [Next]_vars => Election'
      BY StepElection
<1>3. Election => OverlapNeedsReclaim
      BY DEF Election, OverlapNeedsReclaim
<1>4. Init => TypeOK /\ Assigned
      BY InitTypeOK, InitAssigned
<1>5. TypeOK /\ Assigned /\ [Next]_vars => (TypeOK /\ Assigned)'
      BY StepTypeOK
<1> QED
    BY <1>1, <1>2, <1>3, <1>4, <1>5, PTL DEF Spec

\* A cancelled task without a running execution stays cancelled and without one:
\* every claim is refused, and only a running execution writes an outcome.
THEOREM CancelledForGood == Spec => CancelledStaysQuiet
<1> DEFINE A == status = "cancelled" /\ Running = {}
<1>1. ASSUME TypeOK, Assigned, [Next]_vars, A PROVE A'
      BY <1>1, EveryStep DEF StepKind, Quiet, Cancels, Elects, Leaves, TaskClaimable
<1>2. TypeOK /\ Assigned /\ [Next]_vars
        => [status = "cancelled" /\ Running = {} =>
              status' = "cancelled" /\ Running' = {}]_vars
      BY <1>1
<1>3. Init => TypeOK /\ Assigned
      BY InitTypeOK, InitAssigned
<1>4. TypeOK /\ Assigned /\ [Next]_vars => (TypeOK /\ Assigned)'
      BY StepTypeOK
<1> QED
    BY <1>2, <1>3, <1>4, PTL DEF Spec, CancelledStaysQuiet

-----------------------------------------------------------------------------
(* Steering: what the checkpoint has recorded is in the delivery set of     *)
(* whoever may still steer a graph, until somebody reclaims.                *)

\* A graph that may be steered: it is published, or a cancel left its entry behind.
Live(e) == e.pc \in {"join", "seed", "run", "zombie", "ghost"}

\* ... and one whose delivery set has been seeded.
Fresh(e) == e.pc \notin {"seed", "run", "zombie"}

\* _active_steering names live executions of its own process.
Pumped ==
  \A p \in Process : active[p] # NoJob =>
    Live(job[active[p]]) /\ job[active[p]].at = p

\* Whatever is queued was remembered as sent, and only a live graph has a queue.
QueueSent ==
  \A j \in Job : /\ job[j].queue \subseteq job[j].sent
                 /\ ~Live(job[j]) => job[j].queue = {}

\* A cancel that leaves a pump behind leaves nobody running, and the row of the
\* task such that only reclaim_running can start another execution.
LeftOver ==
  ~reclaimed /\ (\E j \in Job : job[j].pc = "zombie") =>
    Running = {} /\ status \in {"running", "cancelled"}

\* What the checkpoint has applied is in the delivery set of a graph once that is
\* seeded, and among what is to be seeded just before.
CkptSent ==
  ~reclaimed => \A j \in Job :
    /\ job[j].pc = "seed" => ckpt \subseteq job[j].seen
    /\ job[j].pc \in {"run", "zombie"} => ckpt \subseteq job[j].sent

SteerInv == /\ TypeOK /\ Assigned /\ Election
            /\ Pumped /\ QueueSent /\ LeftOver /\ CkptSent

\* One command of the step more in the queue, unless it was sent before.
Grows(e, f) ==
  \/ f.queue \subseteq e.queue
  \/ Live(e) /\ \E c \in Command : c \notin e.sent /\ f.queue = e.queue \cup {c}

\* Where the delivery set, and what it is to be seeded with, come from.
Fed(e, f) ==
  /\ f.pc = "seed" =>
       \/ e.pc = "seed" /\ f.seen = e.seen
       \/ e.pc = "join" /\ f.seen = ckpt /\ ckpt' = ckpt
  /\ f.pc = "run" =>
       \/ e.pc = "run" /\ e.sent \subseteq f.sent
       \/ e.pc = "seed" /\ e.seen \subseteq f.sent /\ ckpt' = ckpt
  /\ f.pc = "zombie" =>
       /\ e.pc = "zombie" \/ (e.pc = "run" /\ UNCHANGED status)
       /\ e.sent \subseteq f.sent

\* What a step may make of an execution, other than publishing its graph.
Follows(e, f) ==
  /\ f.queue \subseteq f.sent
  /\ Live(f) => Live(e) /\ f.at = e.at
  /\ ~Live(f) => f.queue = {}
  /\ Fed(e, f)
  /\ Grows(e, f)

JobsFollow == \A i \in Job : job'[i] = job[i] \/ Follows(job[i], job'[i])

\* An entry of _active_steering goes, or stays with its live execution.
PumpsFollow ==
  \A p \in Process : \/ active'[p] = NoJob
                     \/ /\ active'[p] = active[p]
                        /\ active[p] # NoJob => Live(job'[active[p]])

\* What the properties need to know of a step.
SteerStep ==
  /\ \/ ckpt' = ckpt
     \/ \E g \in Job : job[g].pc = "run" /\ ckpt' = ckpt \cup job[g].queue
  /\ \A i \in Job : Fed(job[i], job'[i])
  /\ \A i \in Job : Grows(job[i], job'[i])
  /\ Pumped' /\ QueueSent'

LEMMA FollowSteers ==
  ASSUME TypeOK, Pumped, QueueSent, JobsFollow, PumpsFollow,
         \/ ckpt' = ckpt
         \/ \E g \in Job : job[g].pc = "run" /\ ckpt' = ckpt \cup job[g].queue
  PROVE  SteerStep
<1>1. \A i \in Job : Live(job'[i]) =>
        Live(job[i]) /\ job'[i].at = job[i].at
      BY DEF JobsFollow, Follows
<1>2. \A i \in Job : Fed(job[i], job'[i])
      BY DEF JobsFollow, Follows, Fed
<1>3. \A i \in Job : Grows(job[i], job'[i])
      BY DEF JobsFollow, Follows, Grows
<1>4. QueueSent'
      BY DEF JobsFollow, Follows, QueueSent, Live
<1>5. Pumped'
  <2> SUFFICES ASSUME NEW p \in Process, active'[p] # NoJob
               PROVE  Live(job'[active'[p]]) /\ job'[active'[p]].at = p
      BY DEF Pumped, Live
  <2>1. active'[p] = active[p] /\ Live(job'[active[p]]) /\ job[active[p]].at = p
        BY DEF PumpsFollow, Pumped
  <2>2. active[p] \in Job
        BY <2>1 DEF TypeOK
  <2> QED
      BY <1>1, <2>1, <2>2
<1> QED
    BY <1>1, <1>2, <1>3, <1>4, <1>5 DEF SteerStep

\* A step that leaves the executions, their entries and the checkpoint alone.
LEMMA SameSteers ==
  ASSUME TypeOK, Pumped, QueueSent, UNCHANGED <<job, active, ckpt>>
  PROVE  SteerStep
<1>1. JobsFollow /\ PumpsFollow
      BY DEF JobsFollow, PumpsFollow, Pumped
<1> QED
    BY <1>1, FollowSteers

\* A step of one execution that leaves its entry alone, or removes it.
LEMMA OneSteers ==
  ASSUME TypeOK, Pumped, QueueSent, NEW j \in Job, NEW f,
         job' = [job EXCEPT ![j] = f], Follows(job[j], f), ckpt' = ckpt,
         \/ active' = active /\ (Live(job[j]) => Live(f))
         \/ active' = Detached(j)
  PROVE  SteerStep
<1>1. JobsFollow
      BY DEF JobsFollow, TypeOK
<1>2. PumpsFollow
  <2> SUFFICES ASSUME NEW p \in Process, active'[p] # NoJob
               PROVE  active'[p] = active[p] /\ Live(job'[active[p]])
      BY DEF PumpsFollow
  <2>1. active'[p] = active[p]
        BY DEF Detached
  <2>2. active[p] \in Job /\ Live(job[active[p]]) /\ job[active[p]].at = p
        BY <2>1 DEF Pumped, TypeOK
  <2>3. CASE active[p] # j
        BY <2>1, <2>2, <2>3 DEF TypeOK
  <2>4. CASE active[p] = j
    <3>1. active' # Detached(j)
          BY <2>2, <2>4 DEF Detached
    <3> QED
        BY <2>1, <2>2, <2>4, <3>1 DEF TypeOK
  <2> QED
      BY <2>3, <2>4
<1> QED
    BY <1>1, <1>2, FollowSteers

\* Moving on without touching queue and delivery set.
LEMMA MovesFollow ==
  ASSUME NEW e, NEW f, e.queue \subseteq e.sent, ~Live(e) => e.queue = {},
         f.queue = e.queue, f.sent = e.sent, f.at = e.at,
         Live(f) <=> Live(e), f.pc = "seed" => f.seen = e.seen,
         \/ f.pc = e.pc
         \/ f.pc = "ghost"
         \/ f.pc = "zombie" /\ e.pc = "run" /\ UNCHANGED status
  PROVE  Follows(e, f)
  BY DEF Follows, Grows, Fed

\* Stopping, and starting over, with an empty queue.
LEMMA StopsFollow ==
  ASSUME NEW e, NEW f, f.queue = {}, ~Live(f)
  PROVE  Follows(e, f)
  BY DEF Follows, Grows, Fed, Live

LEMMA SteeredFollows ==
  ASSUME NEW e \in Execution, NEW f \in Execution, NEW c \in Command,
         e.queue \subseteq e.sent, Live(e), c \notin e.sent,
         f.queue = e.queue \cup {c}, f.sent = e.sent \cup {c},
         f.at = e.at, f.pc = e.pc, f.seen = e.seen
  PROVE  Follows(e, f)
  BY DEF Follows, Grows, Fed, Live

LEMMA LearnerSteers ==
  ASSUME TypeOK, Pumped, QueueSent, Learner
  PROVE  SteerStep
  BY SameSteers
  DEF Learner, MessageRead, MessageRetry, AnswerAccept, AnswerRetry, CancelRead, dbVars

LEMMA RequestSteers ==
  ASSUME TypeOK, Assigned, Pumped, QueueSent, NEW m \in Message, RequestStep(m)
  PROVE  SteerStep
<1>1. CASE MessageAppend(m)
      BY <1>1, SameSteers DEF MessageAppend
<1>2. CASE MessageMark(m)
      BY <1>2, SameSteers DEF MessageMark
<1>3. CASE MessageRoute(m)
  <2>1. ckpt' = ckpt /\ active' = active
        BY <1>3 DEF MessageRoute, dbVars
  <2>2. CASE job' = job
        BY <2>1, <2>2, SameSteers
  <2>3. CASE job' # job
    <3>1. PICK a : /\ a = active[req[m].at] /\ a # NoJob /\ m \notin job[a].sent
                   /\ job' = [job EXCEPT ![a] = Steered(@, m)]
          BY <1>3, <2>3 DEF MessageRoute
    <3>2. req[m].at \in Process /\ m \in Command
          BY <1>3 DEF MessageRoute, Assigned, Command
    <3>3. a \in Job /\ Live(job[a]) /\ job[a] \in Execution
          BY <3>1, <3>2 DEF Pumped, TypeOK
    <3>4. /\ Steered(job[a], m) \in Execution
          /\ Steered(job[a], m).queue = job[a].queue \cup {m}
          /\ Steered(job[a], m).sent = job[a].sent \cup {m}
          /\ Steered(job[a], m).at = job[a].at /\ Steered(job[a], m).pc = job[a].pc
          /\ Steered(job[a], m).seen = job[a].seen
          BY <3>2, <3>3, SteeredTyped DEF Steered, Execution
    <3>5. Follows(job[a], Steered(job[a], m))
          BY <3>1, <3>2, <3>3, <3>4, SteeredFollows DEF QueueSent
    <3>6. job' = [job EXCEPT ![a] = Steered(job[a], m)]
          BY <3>1
    <3> QED
        BY <2>1, <3>3, <3>4, <3>5, <3>6, OneSteers DEF Live
  <2> QED
      BY <2>2, <2>3
<1> QED
    BY <1>1, <1>2, <1>3 DEF RequestStep

LEMMA RunSteers ==
  ASSUME TypeOK, Pumped, QueueSent, NEW j \in Job, RunStep(j)
  PROVE  SteerStep
<1>a. /\ job \in [Job -> Execution] /\ job[j] \in Execution
      /\ job[j].queue \subseteq job[j].sent /\ (~Live(job[j]) => job[j].queue = {})
      BY DEF TypeOK, QueueSent
<1>f. Free.queue = {} /\ ~Live(Free) /\ Follows(job[j], Free)
      BY StopsFollow DEF Free, Live
<1>1. CASE ClaimDelivery(j)
  <2>1. ckpt' = ckpt /\ active' = active /\ ~Live(job[j])
        BY <1>1 DEF ClaimDelivery, Live
  <2>2. CASE job' = [job EXCEPT ![j].pc = "task"]
    <3> DEFINE f == [job[j] EXCEPT !.pc = "task"]
    <3>1. f.queue = {} /\ ~Live(f) /\ job' = [job EXCEPT ![j] = f]
          BY <2>1, <2>2, <1>a DEF Live, Execution
    <3> QED
        BY <2>1, <3>1, StopsFollow, OneSteers
  <2>3. CASE job' = [job EXCEPT ![j] = Free]
        BY <2>1, <2>3, <1>f, OneSteers
  <2> QED
      BY <1>1, <2>2, <2>3 DEF ClaimDelivery, EndUnowned
<1>2. CASE ClaimTask(j)
  <2> DEFINE f == IF TaskClaimable(j) THEN Elected(job[j]) ELSE [job[j] EXCEPT !.pc = "release"]
  <2>1. ckpt' = ckpt /\ active' = active /\ ~Live(job[j]) /\ job' = [job EXCEPT ![j] = f]
        BY <1>2 DEF ClaimTask, Live
  <2>2. f.queue = {} /\ ~Live(f)
        BY <1>a, <2>1 DEF Elected, Live, Execution
  <2> QED
      BY <2>1, <2>2, StopsFollow, OneSteers
<1>3. CASE Release(j)
      BY <1>3, <1>f, OneSteers DEF Release, EndUnowned, Live
<1>4. CASE Begin(j)
  <2> DEFINE f == [job[j] EXCEPT !.pc = "attach"]
  <2>1. ckpt' = ckpt /\ active' = active /\ ~Live(job[j]) /\ job' = [job EXCEPT ![j] = f]
        BY <1>4 DEF Begin, Live
  <2>2. f.queue = {} /\ ~Live(f)
        BY <1>a, <2>1 DEF Live, Execution
  <2> QED
      BY <2>1, <2>2, StopsFollow, OneSteers
<1>5. CASE Publish(j)
  <2>1. /\ job[j].pc = "attach" /\ job[j].queue = {} /\ ckpt' = ckpt
        /\ active' = [active EXCEPT ![job[j].at] = j]
        BY <1>5, <1>a DEF Publish, Live, dbVars
  <2> DEFINE f == [job[j] EXCEPT !.pc = "join"]
  <2>2. /\ job'[j] = f /\ f.pc = "join" /\ f.queue = {} /\ f.at = job[j].at
        BY <1>5, <1>a, <2>1 DEF Publish, Execution
  <2>3. \A i \in Job : i # j =>
          \/ job'[i] = job[i]
          \/ job'[i] = Free /\ job[i].at = job[j].at
        BY <1>5 DEF Publish
  <2> HIDE DEF f
  <2>4. QueueSent'
        BY <1>f, <2>2, <2>3 DEF QueueSent, Live
  <2>5. Pumped'
    <3> SUFFICES ASSUME NEW p \in Process, active'[p] # NoJob
                 PROVE  Live(job'[active'[p]]) /\ job'[active'[p]].at = p
        BY DEF Pumped, Live
    <3>1. CASE p = job[j].at
          BY <2>1, <2>2, <3>1 DEF Live, TypeOK
    <3>2. CASE p # job[j].at
      <4>1. active'[p] = active[p] /\ active[p] \in Job
            BY <2>1, <3>2 DEF TypeOK
      <4>2. Live(job[active[p]]) /\ job[active[p]].at = p
            BY <4>1 DEF Pumped
      <4> QED
          BY <2>3, <3>2, <4>1, <4>2
    <3> QED
        BY <3>1, <3>2
  <2>6. \A i \in Job : Grows(job[i], job'[i])
        BY <1>f, <2>2, <2>3 DEF Grows
  <2>7. \A i \in Job : ~Fresh(job'[i]) => job'[i] = job[i]
        BY <1>f, <2>2, <2>3 DEF Fresh, Free
  <2>8. \A i \in Job : Fed(job[i], job'[i])
        BY <2>7 DEF Fed, Fresh
  <2> QED
      BY <2>1, <2>4, <2>5, <2>6, <2>8 DEF SteerStep
<1>14. CASE ReadCheckpoint(j)
  <2> DEFINE f == [job[j] EXCEPT !.pc = "seed", !.seen = ckpt]
  <2>1. /\ ckpt' = ckpt /\ active' = active /\ job[j].pc = "join"
        /\ job' = [job EXCEPT ![j] = f]
        BY <1>14 DEF ReadCheckpoint, dbVars
  <2>2. /\ f.pc = "seed" /\ f.queue = job[j].queue /\ f.sent = job[j].sent
        /\ f.at = job[j].at /\ f.seen = ckpt
        BY <1>a DEF Execution
  <2> HIDE DEF f
  <2>3. Follows(job[j], f)
        BY <1>a, <2>1, <2>2 DEF Follows, Grows, Fed, Live
  <2> QED
      BY <2>1, <2>2, <2>3, OneSteers DEF Live
<1>15. CASE \E c \in Command : ConsumeSeen(j, c)
      BY <1>15, SameSteers DEF ConsumeSeen
<1>16. CASE Seed(j)
  <2> DEFINE f == [job[j] EXCEPT !.pc = "run", !.seen = {}, !.sent = job[j].sent \cup Seeded(j)]
  <2>1. /\ ckpt' = ckpt /\ active' = active /\ job[j].pc = "seed"
        /\ job' = [job EXCEPT ![j] = f]
        BY <1>16 DEF Seed, dbVars
  <2>2. /\ f.pc = "run" /\ f.queue = job[j].queue /\ f.at = job[j].at
        /\ f.sent = job[j].sent \cup job[j].seen
        BY <1>a DEF Execution, Seeded
  <2> HIDE DEF f
  <2>3. Follows(job[j], f)
        BY <1>a, <2>1, <2>2 DEF Follows, Grows, Fed, Live
  <2> QED
      BY <2>1, <2>2, <2>3, OneSteers DEF Live
<1>6. CASE GraphDrain(j)
  <2> DEFINE f == [job[j] EXCEPT !.queue = {}]
  <2>1. /\ job[j].pc = "run" /\ active' = active /\ ckpt' = ckpt \cup job[j].queue
        /\ job' = [job EXCEPT ![j] = f]
        BY <1>6 DEF GraphDrain
  <2>2. f.pc = "run" /\ f.queue = {} /\ f.sent = job[j].sent /\ f.at = job[j].at
        BY <1>a, <2>1 DEF Execution
  <2> HIDE DEF f
  <2>3. Follows(job[j], f)
        BY <2>1, <2>2 DEF Follows, Grows, Fed, Live
  <2>4. JobsFollow
        BY <1>a, <2>1, <2>3 DEF JobsFollow
  <2>5. PumpsFollow
        BY <1>a, <2>1, <2>2 DEF PumpsFollow, Pumped, Live, TypeOK
  <2> QED
      BY <2>1, <2>4, <2>5, FollowSteers
<1>7. CASE GraphRaise(j)
      BY <1>7, <1>f, OneSteers DEF GraphRaise, FailTurn
<1>8. CASE \E out \in Outcomes : GraphEnd(j, out)
  <2>1. PICK out \in Outcomes : GraphEnd(j, out)
        BY <1>8
  <2> DEFINE f == [job[j] EXCEPT !.pc = "settle", !.out = FinalOutcome(j, out),
                                 !.mark = NoCmd, !.queue = {}]
  <2>2. ckpt' = ckpt /\ active' = Detached(j) /\ job' = [job EXCEPT ![j] = f]
        BY <2>1 DEF GraphEnd, dbVars
  <2>3. f.pc = "settle" /\ f.queue = {}
        BY <1>a DEF Execution
  <2> HIDE DEF f
  <2>4. ~Live(f)
        BY <2>3 DEF Live
  <2> QED
      BY <2>2, <2>3, <2>4, StopsFollow, OneSteers
<1>9. CASE Settle(j)
  <2> DEFINE f == [job[j] EXCEPT !.pc = "ack"]
  <2>1. ckpt' = ckpt /\ active' = active /\ ~Live(job[j]) /\ job' = [job EXCEPT ![j] = f]
        BY <1>9 DEF Settle, Live
  <2>2. f.queue = {} /\ ~Live(f)
        BY <1>a, <2>1 DEF Live, Execution
  <2> QED
      BY <2>1, <2>2, StopsFollow, OneSteers
<1>10. CASE Ack(j)
  <2> DEFINE f == [job[j] EXCEPT !.pc = "transfer"]
  <2>1. ckpt' = ckpt /\ active' = active /\ ~Live(job[j]) /\ job' = [job EXCEPT ![j] = f]
        BY <1>10 DEF Ack, Live
  <2>2. f.queue = {} /\ ~Live(f)
        BY <1>a, <2>1 DEF Live, Execution
  <2> QED
      BY <2>1, <2>2, StopsFollow, OneSteers
<1>11. CASE Transfer(j)
      BY <1>11, <1>f, OneSteers DEF Transfer, Live
<1>12. CASE PumpMark(j)
  <2> DEFINE f == [job[j] EXCEPT !.mark = NoCmd]
  <2>1. ckpt' = ckpt /\ active' = active /\ job' = [job EXCEPT ![j] = f]
        BY <1>12 DEF PumpMark
  <2>2. /\ f.pc = job[j].pc /\ f.queue = job[j].queue /\ f.sent = job[j].sent
        /\ f.at = job[j].at /\ f.seen = job[j].seen
        BY <1>a DEF Execution
  <2> HIDE DEF f
  <2>3. Follows(job[j], f)
        BY <1>a, <2>2, MovesFollow DEF Live
  <2> QED
      BY <2>1, <2>2, <2>3, OneSteers DEF Live
<1>13. ASSUME NEW c \in Message, PumpSteer(j, c) PROVE SteerStep
  <2> DEFINE f == [Steered(job[j], c) EXCEPT !.mark = c]
  <2>1. /\ ckpt' = ckpt /\ active' = active /\ Live(job[j]) /\ c \notin job[j].sent
        /\ job' = [job EXCEPT ![j] = f]
        BY <1>13 DEF PumpSteer, Live, dbVars
  <2>2. c \in Command
        BY DEF Command
  <2>3. /\ f \in Execution /\ f.queue = job[j].queue \cup {c}
        /\ f.sent = job[j].sent \cup {c} /\ f.at = job[j].at /\ f.pc = job[j].pc
        /\ f.seen = job[j].seen
        BY <1>a, <2>2 DEF Steered, Execution
  <2> HIDE DEF f
  <2>4. Follows(job[j], f)
        BY <1>a, <2>1, <2>2, <2>3, SteeredFollows
  <2> QED
      BY <2>1, <2>3, <2>4, OneSteers DEF Live
<1> QED
    BY <1>1, <1>2, <1>3, <1>4, <1>5, <1>6, <1>7, <1>8, <1>9, <1>10, <1>11, <1>12, <1>13, <1>14,
       <1>15, <1>16 DEF RunStep

LEMMA ProcessSteers ==
  ASSUME TypeOK, Assigned, Pumped, QueueSent, NEW p \in Process, ProcessStep(p)
  PROVE  SteerStep
<1>a. job \in [Job -> Execution]
      BY DEF TypeOK
<1>b. ASSUME NEW c, NEW via, NEW j \in Job, Start(p, c, via, j), ckpt' = ckpt, active' = active
      PROVE  SteerStep
  <2>1. CASE job' = job
        BY <1>b, <2>1, SameSteers
  <2>2. CASE job' # job
    <3>1. PICK f : /\ f.pc = "claim" /\ f.queue = {}
                   /\ job' = [job EXCEPT ![j] = f]
          BY <1>b, <2>2 DEF Start
    <3>2. ~Live(job[j]) /\ ~Live(f)
          BY <1>b, <2>2, <3>1 DEF Start, Forgotten, Free, Live
    <3> QED
        BY <1>b, <3>1, <3>2, StopsFollow, OneSteers
  <2> QED
      BY <2>1, <2>2
<1>1. CASE \E kind \in DrainKind : DrainRead(p, kind)
      BY <1>1, SameSteers DEF DrainRead, dbVars
<1>2. CASE DrainGate(p)
      BY <1>2, SameSteers DEF DrainGate, dbVars
<1>3. CASE \E j \in Job : StartDrained(p, j)
      BY <1>3, <1>b DEF StartDrained, dbVars
<1>4. CASE \E j \in Job, c \in Command : StartDirect(p, c, j)
      BY <1>4, <1>b DEF StartDirect, dbVars
<1>5. CASE Startup(p)
      BY <1>5, SameSteers DEF Startup, dbVars
<1>6. CASE CancelMark(p)
      BY <1>6, SameSteers DEF CancelMark
<1>7. CASE CancelKill(p)
  <2>1. ckpt' = ckpt /\ active' = active /\ status' = status
        BY <1>7 DEF CancelKill, dbVars
  <2>2. \A i \in Job : active[p] = i =>
          /\ Live(job[i]) /\ Live(job'[i]) /\ Follows(job[i], job'[i])
    <3> SUFFICES ASSUME NEW i \in Job, active[p] = i
                 PROVE  Live(job[i]) /\ Live(job'[i]) /\ Follows(job[i], job'[i])
        OBVIOUS
    <3>1. Live(job[i]) /\ job[i].at = p /\ job[i] \in Execution
          BY <1>a, ConstantsAssumption DEF Pumped
    <3>2. CASE job[i].pc \in {"zombie", "ghost"}
      <4>1. job'[i] = job[i]
            BY <1>7, <3>2 DEF CancelKill
      <4> QED
          BY <3>1, <4>1, MovesFollow DEF QueueSent
    <3>3. CASE job[i].pc \notin {"zombie", "ghost"}
      <4>1. job'[i] = Left(job[i])
            BY <1>7, <3>1, <3>3 DEF CancelKill
      <4>2. /\ job'[i].pc = IF job[i].pc \in {"join", "seed"} THEN "ghost" ELSE "zombie"
            /\ job'[i].queue = job[i].queue
            /\ job'[i].sent = job[i].sent /\ job'[i].at = job[i].at
            BY <3>1, <4>1, LeftTyped
      <4> QED
          BY <2>1, <3>1, <3>3, <4>2, MovesFollow DEF QueueSent, Live
    <3> QED
        BY <3>2, <3>3
  <2>3. \A i \in Job : active[p] # i => job'[i] = job[i] \/ job'[i] = Free
        BY <1>7 DEF CancelKill
  <2>4. \A i \in Job : Follows(job[i], Free)
        BY StopsFollow DEF Free, Live
  <2>5. JobsFollow
        BY <2>2, <2>3, <2>4 DEF JobsFollow
  <2>6. PumpsFollow
    <3> SUFFICES ASSUME NEW q \in Process, active[q] # NoJob
                 PROVE  Live(job'[active[q]])
        BY <2>1 DEF PumpsFollow
    <3>1. active[q] \in Job /\ Live(job[active[q]]) /\ job[active[q]].at = q
          BY DEF Pumped, TypeOK
    <3>2. CASE q = p
          BY <2>2, <3>1, <3>2
    <3>3. CASE q # p
          BY <1>7, <3>1, <3>3 DEF CancelKill
    <3> QED
        BY <3>2, <3>3
  <2> QED
      BY <2>1, <2>5, <2>6, FollowSteers
<1> QED
    BY <1>1, <1>2, <1>3, <1>4, <1>5, <1>6, <1>7 DEF ProcessStep

LEMMA EnvironmentSteers ==
  ASSUME TypeOK, Assigned, Pumped, QueueSent, Environment
  PROVE  SteerStep
<1>a. job \in [Job -> Execution]
      BY DEF TypeOK
<1>f. /\ Free.queue = {} /\ ~Live(Free)
      /\ \A i \in Job : Follows(job[i], Free)
      BY StopsFollow DEF Free, Live
<1>1. ASSUME NEW j \in Job, GraphAsk(j) PROVE SteerStep
  <2> DEFINE f == [job[j] EXCEPT !.out = "awaiting_user"]
  <2>1. ckpt' = ckpt /\ active' = active /\ job' = [job EXCEPT ![j] = f]
        BY <1>1 DEF GraphAsk
  <2>2. /\ f.pc = job[j].pc /\ f.queue = job[j].queue /\ f.sent = job[j].sent
        /\ f.at = job[j].at /\ f.seen = job[j].seen
        BY <1>a DEF Execution
  <2> HIDE DEF f
  <2>3. Follows(job[j], f)
        BY <2>2, MovesFollow DEF QueueSent, Live
  <2> QED
      BY <2>1, <2>2, <2>3, OneSteers DEF Live
<1>2. ASSUME NEW j \in Job, StreamCancelled(j) PROVE SteerStep
  <2> DEFINE f == [job[j] EXCEPT !.pc = "zombie"]
  <2>1. /\ ckpt' = ckpt /\ active' = active /\ status' = status
        /\ job' = [job EXCEPT ![j] = f] /\ job[j].pc = "run"
        BY <1>2 DEF StreamCancelled, dbVars
  <2>2. /\ f.pc = "zombie" /\ f.queue = job[j].queue /\ f.sent = job[j].sent
        /\ f.at = job[j].at
        BY <1>a DEF Execution
  <2> HIDE DEF f
  <2>3. Follows(job[j], f)
        BY <2>1, <2>2, MovesFollow DEF QueueSent, Live
  <2> QED
      BY <2>1, <2>2, <2>3, OneSteers DEF Live
<1>3. ASSUME NEW j \in Job, Heartbeat(j) PROVE SteerStep
      BY <1>3, SameSteers DEF Heartbeat, memVars
<1>4. ASSUME NEW j \in Job, BeginFail(j) PROVE SteerStep
      BY <1>4, <1>f, OneSteers DEF BeginFail, Live
<1>5. ASSUME NEW j \in Job, GraphFail(j) PROVE SteerStep
      BY <1>5, <1>f, OneSteers DEF GraphFail, FailTurn
<1>6. ASSUME NEW c \in Command, LeaseLapse(c) PROVE SteerStep
      BY <1>6, SameSteers DEF LeaseLapse, memVars
<1>7. ASSUME NEW p \in Process, Crash(p) PROVE SteerStep
  <2>1. ckpt' = ckpt /\ active' = [active EXCEPT ![p] = NoJob]
        BY <1>7 DEF Crash, dbVars
  <2>2. \A i \in Job : job'[i] = IF job[i].at = p THEN Free ELSE job[i]
        BY <1>7 DEF Crash
  <2>3. JobsFollow
        BY <2>2, <1>f DEF JobsFollow
  <2>4. PumpsFollow
    <3> SUFFICES ASSUME NEW q \in Process, active'[q] # NoJob
                 PROVE  active'[q] = active[q] /\ Live(job'[active[q]])
        BY DEF PumpsFollow
    <3>1. q # p /\ active'[q] = active[q]
          BY <2>1 DEF TypeOK
    <3>2. active[q] \in Job /\ Live(job[active[q]]) /\ job[active[q]].at = q
          BY <3>1 DEF Pumped, TypeOK
    <3> QED
        BY <2>2, <3>1, <3>2
  <2> QED
      BY <2>1, <2>3, <2>4, FollowSteers
<1> QED
    BY <1>1, <1>2, <1>3, <1>4, <1>5, <1>6, <1>7 DEF Environment

LEMMA EverySteers ==
  ASSUME TypeOK, Assigned, Pumped, QueueSent, [Next]_vars
  PROVE  SteerStep
<1>1. CASE UNCHANGED vars
      BY <1>1, SameSteers DEF vars, dbVars, memVars
<1> QED
    BY <1>1, LearnerSteers, RunSteers, ProcessSteers, RequestSteers,
       EnvironmentSteers DEF Next

\* A pump is left behind by the one execution that was running, and as long as
\* there is one nobody is let in without a reclaim.
LEMMA StepLeftOver ==
  ASSUME SteerInv, [Next]_vars, SteerStep, StepKind
  PROVE  LeftOver'
<1> SUFFICES ASSUME ~reclaimed', NEW i \in Job, job'[i].pc = "zombie"
             PROVE  Running' = {} /\ status' \in {"running", "cancelled"}
    BY DEF LeftOver
<1>1. ~reclaimed
      BY DEF StepKind, Quiet, Cancels, Elects, Leaves
<1>2. i \notin Running'
      BY DEF Running
<1>3. CASE job[i].pc = "zombie"
  <2>1. Running = {} /\ status \in {"running", "cancelled"}
        BY <1>1, <1>3 DEF SteerInv, LeftOver
  <2>2. ASSUME NEW j \in Job, Elects(j) PROVE FALSE
        BY <1>1, <2>1, <2>2 DEF Elects, TaskClaimable
  <2> QED
      BY <2>1, <2>2 DEF StepKind, Quiet, Cancels, Leaves
<1>4. CASE job[i].pc = "run" /\ status' = status
  <2>1. i \in Running /\ Running \subseteq {i} /\ status \in {"running", "cancelled"}
        BY <1>1, <1>4 DEF SteerInv, Election, Running
  <2>2. ASSUME NEW j \in Job, Elects(j) PROVE FALSE
        BY <1>1, <1>4, <2>1, <2>2 DEF Elects, TaskClaimable
  <2> QED
      BY <1>2, <1>4, <2>1, <2>2 DEF StepKind, Quiet, Cancels, Leaves
<1> QED
    BY <1>3, <1>4 DEF SteerStep, Fed

LEMMA StepCkptSent ==
  ASSUME SteerInv, SteerStep, StepKind
  PROVE  CkptSent'
<1> SUFFICES ASSUME ~reclaimed', NEW i \in Job
             PROVE  /\ job'[i].pc = "seed" => ckpt' \subseteq job'[i].seen
                    /\ job'[i].pc \in {"run", "zombie"} => ckpt' \subseteq job'[i].sent
    BY DEF CkptSent
<1>1. ~reclaimed
      BY DEF StepKind, Quiet, Cancels, Elects, Leaves
<1>2. Fed(job[i], job'[i])
      BY DEF SteerStep
<1>3. /\ job[i].pc = "seed" => ckpt \subseteq job[i].seen
      /\ job[i].pc \in {"run", "zombie"} => ckpt \subseteq job[i].sent
      BY <1>1 DEF SteerInv, CkptSent
<1>4. CASE ckpt' = ckpt
      BY <1>2, <1>3, <1>4 DEF Fed
<1>5. ASSUME NEW g \in Job, job[g].pc = "run", ckpt' = ckpt \cup job[g].queue
      PROVE  /\ job'[i].pc = "seed" => ckpt' \subseteq job'[i].seen
             /\ job'[i].pc \in {"run", "zombie"} => ckpt' \subseteq job'[i].sent
  <2>1. g \in Running
        BY <1>5 DEF Running
  <2>2. job[i].pc # "zombie"
        BY <1>1, <2>1 DEF SteerInv, LeftOver
  <2>3. job[i].pc \in {"seed", "run"} => i = g
        BY <1>1, <2>1 DEF SteerInv, Election, Running
  <2>4. job[g].queue \subseteq job[g].sent
        BY DEF SteerInv, QueueSent
  <2> QED
      BY <1>2, <1>3, <1>4, <1>5, <2>2, <2>3, <2>4 DEF Fed
<1> QED
    BY <1>4, <1>5 DEF SteerStep

LEMMA SteerCorrect == Spec => []SteerInv
<1>1. Init => SteerInv
  <2>1. Init => TypeOK /\ Assigned
        BY InitTypeOK, InitAssigned
  <2> QED
      BY <2>1 DEF Init, SteerInv, Election, Pumped, QueueSent, LeftOver, CkptSent,
                  Running, Free, Live
<1>2. SteerInv /\ [Next]_vars => SteerInv'
  <2> SUFFICES ASSUME SteerInv, [Next]_vars PROVE SteerInv'
      OBVIOUS
  <2>1. TypeOK' /\ Assigned' /\ SteerStep /\ StepKind /\ Election'
        BY StepTypeOK, EverySteers, EveryStep, StepElection DEF SteerInv
  <2> QED
      BY <2>1, StepLeftOver, StepCkptSent DEF SteerInv, SteerStep
<1> QED
    BY <1>1, <1>2, PTL DEF Spec

\* Steering that the checkpoint has recorded is queued again for no graph whose
\* delivery set is seeded, in whichever process, by whichever route, retry or pump,
\* until reclaim_running lets a second execution in.
THEOREM SteeredOnceHolds == Spec => SteeredOnce
<1>1. SteerInv /\ [Next]_vars =>
        [~reclaimed' => \A j \in Job : ~Unseeded(j) =>
           (job'[j].queue \ job[j].queue) \cap ckpt = {}]_vars
  <2> SUFFICES ASSUME SteerInv, [Next]_vars, ~reclaimed', NEW j \in Job, ~Unseeded(j)
               PROVE  (job'[j].queue \ job[j].queue) \cap ckpt = {}
      OBVIOUS
  <2>1. SteerStep /\ StepKind
        BY EverySteers, EveryStep DEF SteerInv
  <2>2. ~reclaimed
        BY <2>1 DEF StepKind, Quiet, Cancels, Elects, Leaves
  <2>3. Grows(job[j], job'[j])
        BY <2>1 DEF SteerStep
  <2>4. Live(job[j]) => ckpt \subseteq job[j].sent
        BY <2>2 DEF SteerInv, CkptSent, Live, Unseeded
  <2> QED
      BY <2>3, <2>4 DEF Grows
<1> QED
    BY <1>1, SteerCorrect, PTL DEF Spec, SteeredOnce
-----------------------------------------------------------------------------
(* The inbox implements CommandLedger.  Held says that whatever a coroutine *)
(* holds has been accepted; each step then maps to an acceptance, a record, *)
(* an acknowledgement or a stutter of the ledger.                           *)

\* Commands are handled only once accepted, and a successful run acknowledges
\* only after its outcome is durable.
Held ==
  /\ \A j \in Job : job[j].pc # "free" =>
       Accepted(job[j].cmd) /\ \A c \in job[j].queue : Accepted(c)
  /\ \A j \in Job : job[j].seen \subseteq ckpt
  /\ \A j \in Job : job[j].pc = "ack" /\ Success(j) => job[j].cmd \in settled
  /\ \A p \in Process : \A c \in drive[p] : Accepted(c)
  /\ \A p \in Process : drain[p].pc # "idle" => Accepted(drain[p].cmd)
  /\ \A m \in Message : req[m].pc \in {"idle", "append"} => ~Accepted(m)
  /\ \A m \in Message : req[m].pc \in {"route", "mark", "done"} => Accepted(m)
  /\ \A m \in Message : req[m].pc = "idle" => req[m].at = NoJob

\* The inbox lists exactly the accepted commands.
Listed ==
  /\ \A i \in Index : Accepted(inbox[i])
  /\ \A c \in Command : Accepted(c) => \E i \in Index : inbox[i] = c

LedgerInv == TypeOK /\ Assigned /\ Held /\ Listed /\ AckAfterOutcome

\* What a step does to the rows: which commands exist, which become applied.
Moved(S) ==
  \A c \in Command :
    /\ row'[c].disp = "absent" <=> row[c].disp = "absent"
    /\ row[c].disp = "applied" => row'[c].disp = "applied"
    /\ row'[c].disp = "applied" => row[c].disp = "applied" \/ c \in S

\* What a step does to the ledger, other than accepting a command.
Kept     == /\ UNCHANGED inbox
            /\ Moved(ckpt \cup settled)
            /\ UNCHANGED <<settled, ckpt>>
Recorded == /\ UNCHANGED inbox
            /\ Moved({})
            /\ settled \subseteq settled' /\ ckpt \subseteq ckpt'
            /\ \A c \in settled' \cup ckpt' : c \in settled \cup ckpt \/ Accepted(c)
Accepts(c) == /\ c \in Command /\ ~Accepted(c)
              /\ inbox' = Append(inbox, c)
              /\ row'[c].disp = "pending"
              /\ \A d \in Command : d # c => row'[d] = row[d]
              /\ UNCHANGED <<settled, ckpt>>
Handles == Kept \/ Recorded
Advance == Handles \/ \E c \in Command : Accepts(c)

-----------------------------------------------------------------------------
(* The row updates *)

LEMMA SameMoves ==
  ASSUME row \in [Command -> Row], row' = row, NEW S PROVE Moved(S)
  BY DEF Moved

LEMMA DeliveredMoves ==
  ASSUME row \in [Command -> Row], NEW c, NEW j, row' = Delivered(c, j), NEW S
  PROVE  Moved(S)
<1>1. CASE c \in Command /\ Unapplied(c)
      BY <1>1 DEF Moved, Delivered, Unapplied, Row
<1>2. CASE c \notin Command \/ ~Unapplied(c)
      BY <1>2 DEF Moved, Delivered, Unapplied, Row
<1> QED
    BY <1>1, <1>2

LEMMA ReleasedMoves ==
  ASSUME row \in [Command -> Row], NEW cs, NEW mode, row' = Released(cs, mode), NEW S
  PROVE  Moved(S)
  BY DEF Moved, Released, Unapplied, Row

LEMMA ConsumedMoves ==
  ASSUME row \in [Command -> Row], NEW cs, row' = Consumed(cs), NEW S, cs \subseteq S
  PROVE  Moved(S)
  BY DEF Moved, Consumed, Unapplied, Row

LEMMA FreshMoves ==
  ASSUME row \in [Command -> Row], NEW c, NEW b, row' = [row EXCEPT ![c].fresh = b],
         NEW S
  PROVE  Moved(S)
  BY DEF Moved, Row

LEMMA AcceptAccepts ==
  ASSUME row \in [Command -> Row], NEW c \in Command, NEW mode, NEW t,
         Accept(c, mode, t), ~Accepted(c), UNCHANGED <<settled, ckpt>>
  PROVE  Accepts(c)
  BY DEF Accept, Accepts, NewRow

-----------------------------------------------------------------------------
(* What each step does to the ledger *)

LEMMA LearnerHandles ==
  ASSUME LedgerInv, Learner,
         \A p \in Process, a \in Answer : ~AnswerAccept(a, p)
  PROVE  Handles
<1>a. row \in [Command -> Row] /\ job \in [Job -> Execution]
      BY DEF LedgerInv, TypeOK
<1>1. ASSUME NEW p \in Process, NEW m \in Message, MessageRead(m, p) PROVE Handles
      BY <1>1, <1>a, SameMoves DEF MessageRead, Handles, Kept, dbVars, taskVars, memVars, history
<1>2. ASSUME NEW p \in Process, NEW m \in Message, MessageRetry(m, p) PROVE Handles
      BY <1>2, <1>a, SameMoves DEF MessageRetry, Handles, Kept, dbVars, taskVars, memVars, history
<1>3. ASSUME NEW p \in Process, NEW a \in Answer, AnswerRetry(a, p) PROVE Handles
      BY <1>3, <1>a, SameMoves DEF AnswerRetry, Handles, Kept, dbVars, taskVars, memVars, history
<1>4. ASSUME NEW p \in Process, CancelRead(p) PROVE Handles
      BY <1>4, <1>a, SameMoves DEF CancelRead, Handles, Kept, dbVars, taskVars, memVars, history
<1> QED
    BY <1>1, <1>2, <1>3, <1>4 DEF Learner

LEMMA RunStepHandles ==
  ASSUME LedgerInv, NEW j \in Job, RunStep(j)
  PROVE  Handles
<1>a. row \in [Command -> Row] /\ job \in [Job -> Execution]
      BY DEF LedgerInv, TypeOK
<1>1. CASE ClaimDelivery(j)
      BY <1>1, <1>a, SameMoves, DeliveredMoves DEF ClaimDelivery, Handles, Kept, dbVars, taskVars, memVars, history
<1>2. CASE ClaimTask(j)
      BY <1>2, <1>a, SameMoves DEF ClaimTask, Handles, Kept, dbVars, taskVars, memVars, history
<1>3. CASE Release(j)
      BY <1>3, <1>a, ReleasedMoves DEF Release, Handles, Kept, dbVars, taskVars, memVars, history
<1>4. CASE Begin(j)
      BY <1>4, <1>a, SameMoves DEF Begin, Handles, Kept, dbVars, taskVars, memVars, history
<1>5. CASE Publish(j)
      BY <1>5, <1>a, SameMoves DEF Publish, Handles, Kept, dbVars, history
<1>14. CASE ReadCheckpoint(j)
      BY <1>14, <1>a, SameMoves DEF ReadCheckpoint, Handles, Kept, dbVars, history
<1>15. ASSUME NEW c \in Command, ConsumeSeen(j, c) PROVE Handles
  <2>1. {c} \subseteq ckpt \cup settled
        BY <1>15 DEF ConsumeSeen, LedgerInv, Held
  <2> QED
      BY <1>15, <2>1, <1>a, ConsumedMoves DEF ConsumeSeen, Handles, Kept, history
<1>16. CASE Seed(j)
      BY <1>16, <1>a, SameMoves DEF Seed, Handles, Kept, dbVars, history
<1>6. CASE GraphDrain(j)
  <2>1. \A d \in job[j].queue : Accepted(d)
        BY <1>6 DEF GraphDrain, LedgerInv, Held
  <2> QED
      BY <1>6, <2>1, <1>a, SameMoves DEF GraphDrain, Handles, Recorded, history
<1>7. CASE GraphRaise(j)
      BY <1>7, <1>a, SameMoves DEF GraphRaise, FailTurn, Handles, Kept, dbVars, taskVars, memVars, history
<1>8. CASE \E out \in Outcomes : GraphEnd(j, out)
      BY <1>8, <1>a, SameMoves DEF GraphEnd, Handles, Kept, dbVars, taskVars, memVars, history
<1>9. CASE Settle(j)
  <2>1. Accepted(job[j].cmd)
        BY <1>9 DEF Settle, LedgerInv, Held
  <2> QED
      BY <1>9, <2>1, <1>a, SameMoves DEF Settle, Handles, Recorded
<1>10. CASE Ack(j)
  <2>1. Acked(j) \subseteq ckpt \cup settled
        BY <1>10 DEF Ack, Acked, LedgerInv, Held
  <2> QED
      BY <1>10, <2>1, <1>a, ConsumedMoves DEF Ack, Handles, Kept, history
<1>11. CASE Transfer(j)
      BY <1>11, <1>a, SameMoves, ReleasedMoves DEF Transfer, Handles, Kept, dbVars, taskVars, memVars, history
<1>12. CASE PumpMark(j)
      BY <1>12, <1>a, DeliveredMoves DEF PumpMark, Handles, Kept, dbVars, taskVars, memVars, history
<1>13. CASE \E c \in Message : PumpSteer(j, c)
      BY <1>13, <1>a, SameMoves DEF PumpSteer, Handles, Kept, dbVars, taskVars, memVars, history
<1> QED
    BY <1>1, <1>2, <1>3, <1>4, <1>5, <1>6, <1>7, <1>8, <1>9, <1>10, <1>11, <1>12, <1>13, <1>14,
       <1>15, <1>16 DEF RunStep

LEMMA ProcessStepHandles ==
  ASSUME LedgerInv, NEW p \in Process, ProcessStep(p)
  PROVE  Handles
<1>a. row \in [Command -> Row] /\ job \in [Job -> Execution]
      BY DEF LedgerInv, TypeOK
<1>1. CASE \E kind \in DrainKind : DrainRead(p, kind)
      BY <1>1, <1>a, SameMoves DEF DrainRead, Handles, Kept, dbVars, taskVars, memVars, history
<1>2. CASE DrainGate(p)
      BY <1>2, <1>a, SameMoves DEF DrainGate, Handles, Kept, dbVars, taskVars, memVars, history
<1>3. CASE \E j \in Job : StartDrained(p, j)
      BY <1>3, <1>a, SameMoves DEF StartDrained, Handles, Kept, dbVars, taskVars, memVars, history
<1>4. CASE \E j \in Job, c \in Command : StartDirect(p, c, j)
      BY <1>4, <1>a, SameMoves DEF StartDirect, Handles, Kept, dbVars, taskVars, memVars, history
<1>5. CASE Startup(p)
      BY <1>5, <1>a, SameMoves DEF Startup, Handles, Kept, dbVars, taskVars, memVars, history
<1>6. CASE CancelMark(p)
      BY <1>6, <1>a, SameMoves DEF CancelMark, Handles, Kept, dbVars, taskVars, memVars, history
<1>7. CASE CancelKill(p)
      BY <1>7, <1>a, SameMoves DEF CancelKill, Handles, Kept, dbVars, taskVars, memVars, history
<1> QED
    BY <1>1, <1>2, <1>3, <1>4, <1>5, <1>6, <1>7 DEF ProcessStep

LEMMA RequestStepHandles ==
  ASSUME LedgerInv, NEW m \in Message, RequestStep(m), ~MessageAppend(m)
  PROVE  Handles
<1>a. row \in [Command -> Row] /\ job \in [Job -> Execution]
      BY DEF LedgerInv, TypeOK
<1>1. CASE MessageRoute(m)
      BY <1>1, <1>a, SameMoves DEF MessageRoute, Handles, Kept, dbVars, taskVars, memVars, history
<1>2. CASE MessageMark(m)
      BY <1>2, <1>a, DeliveredMoves DEF MessageMark, Handles, Kept, dbVars, taskVars, memVars, history
<1> QED
    BY <1>1, <1>2 DEF RequestStep

LEMMA EnvironmentHandles ==
  ASSUME LedgerInv, Environment
  PROVE  Handles
<1>a. row \in [Command -> Row] /\ job \in [Job -> Execution]
      BY DEF LedgerInv, TypeOK
<1>1. ASSUME NEW j \in Job, GraphAsk(j) PROVE Handles
      BY <1>1, <1>a, SameMoves DEF GraphAsk, Handles, Kept, dbVars, taskVars, memVars, history
<1>2. ASSUME NEW j \in Job, StreamCancelled(j) PROVE Handles
      BY <1>2, <1>a, SameMoves DEF StreamCancelled, Handles, Kept, dbVars, taskVars, memVars, history
<1>3. ASSUME NEW j \in Job, Heartbeat(j) PROVE Handles
      BY <1>3, <1>a, FreshMoves DEF Heartbeat, Handles, Kept, dbVars, taskVars, memVars, history
<1>4. ASSUME NEW j \in Job, BeginFail(j) PROVE Handles
      BY <1>4, <1>a, SameMoves DEF BeginFail, Handles, Kept, dbVars, taskVars, memVars, history
<1>5. ASSUME NEW j \in Job, GraphFail(j) PROVE Handles
      BY <1>5, <1>a, SameMoves DEF GraphFail, FailTurn, Handles, Kept, dbVars, taskVars, memVars, history
<1>6. ASSUME NEW c \in Command, LeaseLapse(c) PROVE Handles
      BY <1>6, <1>a, FreshMoves DEF LeaseLapse, Handles, Kept, dbVars, taskVars, memVars, history
<1>7. ASSUME NEW p \in Process, Crash(p) PROVE Handles
      BY <1>7, <1>a, SameMoves DEF Crash, Handles, Kept, dbVars, taskVars, memVars, history
<1> QED
    BY <1>1, <1>2, <1>3, <1>4, <1>5, <1>6, <1>7 DEF Environment

-----------------------------------------------------------------------------
(* What each step leaves in the hands of the coroutines: only commands that  *)
(* were accepted before the step, in every step but an acceptance.           *)

SameAccepted == \A c \in Command : row'[c].disp = "absent" <=> row[c].disp = "absent"

NextJobs ==
  \A i \in Job :
    /\ job'[i].pc # "free" =>
         Accepted(job'[i].cmd) /\ \A c \in job'[i].queue : Accepted(c)
    /\ job'[i].seen \subseteq ckpt
    /\ job'[i].pc = "ack" /\ job'[i].out \in {"completed", "awaiting_user"} =>
         job'[i].cmd \in settled'
NextDrives == \A p \in Process : \A c \in drive'[p] : Accepted(c)
NextDrains == \A p \in Process : drain'[p].pc # "idle" => Accepted(drain'[p].cmd)
NextReqs ==
  \A m \in Message :
    /\ req'[m].pc \in {"idle", "append"} => ~Accepted(m)
    /\ req'[m].pc \in {"route", "mark", "done"} => Accepted(m)
    /\ req'[m].pc = "idle" => req'[m].at = NoJob

LEMMA HoldsAfter ==
  ASSUME Held, Assigned', TypeOK', SameAccepted, settled \subseteq settled' /\ ckpt \subseteq ckpt',
         job' = job \/ NextJobs, drive' = drive \/ NextDrives,
         drain' = drain \/ NextDrains, req' = req \/ NextReqs
  PROVE  Held'
<1>1. NextJobs
      BY DEF NextJobs, Held, Success
<1>2. NextDrives /\ NextDrains /\ NextReqs
      BY DEF NextDrives, NextDrains, NextReqs, Held
<1>3. \A i \in Job : job'[i].queue \subseteq Command
      BY DEF TypeOK, Execution
<1>4. \A j \in Job : job'[j].pc # "free" =>
        row'[job'[j].cmd].disp # "absent" /\ \A c \in job'[j].queue : row'[c].disp # "absent"
      BY <1>1, <1>3 DEF NextJobs, SameAccepted, Assigned, Accepted
<1>5. \A p \in Process : \A c \in drive'[p] : row'[c].disp # "absent"
  <2>1. \A p \in Process : drive'[p] \subseteq Command
        BY DEF TypeOK
  <2> QED
      BY <1>2, <2>1 DEF NextDrives, SameAccepted, Accepted
<1>6. \A p \in Process : drain'[p].pc # "idle" => row'[drain'[p].cmd].disp # "absent"
      BY <1>2 DEF NextDrains, SameAccepted, Assigned, Accepted
<1>7. \A m \in Message :
        /\ req'[m].pc \in {"idle", "append"} => ~(row'[m].disp # "absent")
        /\ req'[m].pc \in {"route", "mark", "done"} => row'[m].disp # "absent"
        /\ req'[m].pc = "idle" => req'[m].at = NoJob
      BY <1>2 DEF NextReqs, SameAccepted, Accepted, Command
<1> QED
    BY <1>1, <1>4, <1>5, <1>6, <1>7 DEF Held, NextJobs, Success, Accepted

LEMMA RunStepHeld ==
  ASSUME LedgerInv, SameAccepted, settled \subseteq settled' /\ ckpt \subseteq ckpt', TypeOK', Assigned',
         NEW j \in Job, RunStep(j)
  PROVE  Held'
<1>a. /\ job \in [Job -> Execution] /\ drain \in [Process -> Drain]
      /\ req \in [Message -> Request] /\ drive \in [Process -> SUBSET Command]
      BY DEF LedgerInv, TypeOK
<1>b. Held /\ Assigned
      BY DEF LedgerInv
<1>c. SameAccepted /\ settled \subseteq settled' /\ ckpt \subseteq ckpt' /\ TypeOK' /\ Assigned'
      OBVIOUS
<1>1. CASE ClaimDelivery(j)
  <2>1. NextJobs
    <3>1. job[j].pc = "claim"
          BY <1>1 DEF ClaimDelivery
    <3>2. CASE job' = [job EXCEPT ![j].pc = "task"]
          BY <3>1, <3>2, <1>1, <1>a, <1>b DEF NextJobs, Held, Success, ClaimDelivery, history
    <3>3. CASE job' = [job EXCEPT ![j] = Free]
          BY <3>3, <1>1, <1>a, <1>b DEF NextJobs, Held, Free, Success, ClaimDelivery, history
    <3> QED
        BY <1>1, <3>2, <3>3 DEF ClaimDelivery, EndUnowned
  <2> QED
      BY <1>1, <1>b, <1>c, <2>1, HoldsAfter DEF ClaimDelivery, dbVars, taskVars, memVars, history
<1>2. CASE ClaimTask(j)
  <2>1. NextJobs
        BY <1>2, <1>a, <1>b DEF ClaimTask, NextJobs, Held, Elected, Success, Execution
  <2> QED
      BY <1>2, <1>b, <1>c, <2>1, HoldsAfter DEF ClaimTask, dbVars, taskVars, memVars, history
<1>3. CASE Release(j)
  <2>1. NextJobs
        BY <1>3, <1>a, <1>b DEF Release, NextJobs, Held, EndUnowned, Free, Success
  <2> QED
      BY <1>3, <1>b, <1>c, <2>1, HoldsAfter DEF Release, dbVars, taskVars, memVars, history
<1>4. CASE Begin(j)
  <2>1. NextJobs
        BY <1>4, <1>a, <1>b DEF Begin, NextJobs, Held, Success
  <2> QED
      BY <1>4, <1>b, <1>c, <2>1, HoldsAfter DEF Begin, dbVars, taskVars, memVars, history
<1>5. CASE Publish(j)
  <2>1. NextJobs
        BY <1>5, <1>a, <1>b DEF Publish, NextJobs, Held, Free, Success, history
  <2> QED
      BY <1>5, <1>b, <1>c, <2>1, HoldsAfter DEF Publish, dbVars, taskVars, memVars, history
<1>14. CASE ReadCheckpoint(j)
  <2>1. NextJobs
        BY <1>14, <1>a, <1>b DEF ReadCheckpoint, NextJobs, Held, Success, history
  <2> QED
      BY <1>14, <1>b, <1>c, <2>1, HoldsAfter DEF ReadCheckpoint
<1>15. CASE \E c \in Command : ConsumeSeen(j, c)
      BY <1>15, <1>b, <1>c, HoldsAfter DEF ConsumeSeen
<1>16. CASE Seed(j)
  <2>1. NextJobs
        BY <1>16, <1>a, <1>b DEF Seed, NextJobs, Held, Success, history
  <2> QED
      BY <1>16, <1>b, <1>c, <2>1, HoldsAfter DEF Seed
<1>6. CASE GraphDrain(j)
  <2>1. NextJobs
        BY <1>6, <1>a, <1>b DEF GraphDrain, NextJobs, Held, Success
  <2> QED
      BY <1>6, <1>b, <1>c, <2>1, HoldsAfter DEF GraphDrain, dbVars, taskVars, memVars, history
<1>7. CASE GraphRaise(j)
  <2>1. NextJobs
        BY <1>7, <1>a, <1>b DEF GraphRaise, FailTurn, NextJobs, Held, Free, Success
  <2> QED
      BY <1>7, <1>b, <1>c, <2>1, HoldsAfter DEF GraphRaise, FailTurn, dbVars, taskVars, memVars, history
<1>8. CASE \E out \in Outcomes : GraphEnd(j, out)
  <2>1. NextJobs
        BY <1>8, <1>a, <1>b DEF GraphEnd, NextJobs, Held, Success
  <2> QED
      BY <1>8, <1>b, <1>c, <2>1, HoldsAfter DEF GraphEnd, dbVars, taskVars, memVars, history
<1>9. CASE Settle(j)
  <2>1. NextJobs
        BY <1>9, <1>a, <1>b DEF Settle, NextJobs, Held, Success
  <2> QED
      BY <1>9, <1>b, <1>c, <2>1, HoldsAfter DEF Settle, dbVars, taskVars, memVars, history
<1>10. CASE Ack(j)
  <2>1. NextJobs
        BY <1>10, <1>a, <1>b DEF Ack, NextJobs, Held, Success
  <2> QED
      BY <1>10, <1>b, <1>c, <2>1, HoldsAfter DEF Ack, dbVars, taskVars, memVars, history
<1>11. CASE Transfer(j)
  <2>1. NextJobs
        BY <1>11, <1>a, <1>b DEF Transfer, NextJobs, Held, Free, Success
  <2> QED
      BY <1>11, <1>b, <1>c, <2>1, HoldsAfter DEF Transfer, dbVars, taskVars, memVars, history
<1>12. CASE PumpMark(j)
  <2>1. NextJobs
        BY <1>12, <1>a, <1>b DEF PumpMark, NextJobs, Held, Success
  <2> QED
      BY <1>12, <1>b, <1>c, <2>1, HoldsAfter DEF PumpMark, dbVars, taskVars, memVars, history
<1>13. CASE \E c \in Message : PumpSteer(j, c)
  <2>1. NextJobs
        BY <1>13, <1>a, <1>b DEF PumpSteer, NextJobs, Held, Steered, Success, Unapplied, Accepted
  <2> QED
      BY <1>13, <1>b, <1>c, <2>1, HoldsAfter DEF PumpSteer, dbVars, taskVars, memVars, history
<1> QED
    BY <1>1, <1>2, <1>3, <1>4, <1>5, <1>6, <1>7, <1>8, <1>9, <1>10, <1>11, <1>12, <1>13, <1>14,
       <1>15, <1>16 DEF RunStep

LEMMA ProcessStepHeld ==
  ASSUME LedgerInv, SameAccepted, settled \subseteq settled' /\ ckpt \subseteq ckpt', TypeOK', Assigned',
         NEW p \in Process, ProcessStep(p)
  PROVE  Held'
<1>a. /\ job \in [Job -> Execution] /\ drain \in [Process -> Drain]
      /\ req \in [Message -> Request] /\ drive \in [Process -> SUBSET Command]
      BY DEF LedgerInv, TypeOK
<1>b. Held /\ Assigned
      BY DEF LedgerInv
<1>c. SameAccepted /\ settled \subseteq settled' /\ ckpt \subseteq ckpt' /\ TypeOK' /\ Assigned'
      OBVIOUS
<1>1. CASE \E kind \in DrainKind : DrainRead(p, kind)
  <2>1. NextDrains
        BY <1>1, <1>a, <1>b DEF DrainRead, NextDrains, Held, Todo, Index, Unapplied, Accepted
  <2> QED
      BY <1>1, <1>b, <1>c, <2>1, HoldsAfter DEF DrainRead, dbVars, taskVars, memVars, history
<1>2. CASE DrainGate(p)
  <2>1. NextDrains
        BY <1>2, <1>a, <1>b DEF DrainGate, NextDrains, Held, NoDrain
  <2> QED
      BY <1>2, <1>b, <1>c, <2>1, HoldsAfter DEF DrainGate, dbVars, taskVars, memVars, history
<1>3. CASE \E j \in Job : StartDrained(p, j)
  <2>1. NextJobs
        BY <1>3, <1>a, <1>b DEF StartDrained, Start, NextJobs, Held, Success
  <2>2. NextDrains
        BY <1>3, <1>a, <1>b DEF StartDrained, Start, NextDrains, Held, NoDrain
  <2> QED
      BY <1>3, <1>b, <1>c, <2>1, <2>2, HoldsAfter DEF StartDrained, Start, dbVars, taskVars, memVars, history
<1>4. CASE \E j \in Job, c \in Command : StartDirect(p, c, j)
  <2>1. NextJobs
        BY <1>4, <1>a, <1>b DEF StartDirect, Start, NextJobs, Held, Success
  <2>2. NextDrives
        BY <1>4, <1>a, <1>b DEF StartDirect, Start, NextDrives, Held
  <2> QED
      BY <1>4, <1>b, <1>c, <2>1, <2>2, HoldsAfter DEF StartDirect, Start, dbVars, taskVars, memVars, history
<1>5. CASE Startup(p)
  <2>1. NextDrives
        BY <1>5, <1>a, <1>b DEF Startup, NextDrives, Held, Unapplied, Accepted
  <2> QED
      BY <1>5, <1>b, <1>c, <2>1, HoldsAfter DEF Startup, dbVars, taskVars, memVars, history
<1>6. CASE CancelMark(p)
      BY <1>6, <1>b, <1>c, HoldsAfter DEF CancelMark, dbVars, taskVars, memVars, history
<1>7. CASE CancelKill(p)
  <2>1. NextJobs
    <3>1. \A i \in Job : \/ job'[i] = job[i]
                         \/ job'[i] = Left(job[i]) /\ job[i].at = p
                         \/ job'[i] = Free
          BY <1>7 DEF CancelKill
    <3>2. p # NoJob /\ settled' = settled
          BY <1>7, ConstantsAssumption DEF CancelKill, history
    <3>3. \A i \in Job : job'[i] = Left(job[i]) =>
            /\ job'[i].pc \in {"zombie", "ghost"} /\ job'[i].cmd = job[i].cmd
            /\ job'[i].queue = job[i].queue /\ job'[i].seen = {}
          BY <1>a, LeftTyped
    <3>4. ASSUME NEW i \in Job
          PROVE  /\ job'[i].pc # "free" =>
                      Accepted(job'[i].cmd) /\ \A c \in job'[i].queue : Accepted(c)
                 /\ job'[i].seen \subseteq ckpt
                 /\ job'[i].pc = "ack" /\ job'[i].out \in {"completed", "awaiting_user"} =>
                      job'[i].cmd \in settled'
      <4>1. CASE job'[i] = job[i]
            BY <4>1, <3>2, <1>b DEF Held, Success
      <4>2. CASE job'[i] = Left(job[i]) /\ job[i].at = p
            BY <4>2, <3>2, <3>3, <1>b DEF Held, Assigned
      <4>3. CASE job'[i] = Free
            BY <4>3 DEF Free
      <4> QED
          BY <3>1, <4>1, <4>2, <4>3
    <3> QED
        BY <3>4 DEF NextJobs
  <2> QED
      BY <1>7, <1>b, <1>c, <2>1, HoldsAfter DEF CancelKill, dbVars, taskVars, memVars, history
<1> QED
    BY <1>1, <1>2, <1>3, <1>4, <1>5, <1>6, <1>7 DEF ProcessStep

LEMMA EnvironmentHeld ==
  ASSUME LedgerInv, SameAccepted, settled \subseteq settled' /\ ckpt \subseteq ckpt', TypeOK', Assigned',
         Environment
  PROVE  Held'
<1>a. /\ job \in [Job -> Execution] /\ drain \in [Process -> Drain]
      /\ req \in [Message -> Request] /\ drive \in [Process -> SUBSET Command]
      BY DEF LedgerInv, TypeOK
<1>b. Held /\ Assigned
      BY DEF LedgerInv
<1>c. SameAccepted /\ settled \subseteq settled' /\ ckpt \subseteq ckpt' /\ TypeOK' /\ Assigned'
      OBVIOUS
<1>1. ASSUME NEW j \in Job, GraphAsk(j) PROVE Held'
  <2>1. NextJobs
        BY <1>1, <1>a, <1>b DEF GraphAsk, NextJobs, Held, Success
  <2> QED
      BY <1>1, <1>b, <1>c, <2>1, HoldsAfter DEF GraphAsk, dbVars, taskVars, memVars, history
<1>2. ASSUME NEW j \in Job, StreamCancelled(j) PROVE Held'
  <2>1. NextJobs
        BY <1>2, <1>a, <1>b DEF StreamCancelled, NextJobs, Held, Success
  <2> QED
      BY <1>2, <1>b, <1>c, <2>1, HoldsAfter DEF StreamCancelled, dbVars, taskVars, memVars, history
<1>3. ASSUME NEW j \in Job, Heartbeat(j) PROVE Held'
      BY <1>3, <1>b, <1>c, HoldsAfter DEF Heartbeat, dbVars, taskVars, memVars, history
<1>4. ASSUME NEW j \in Job, BeginFail(j) PROVE Held'
  <2>1. NextJobs
        BY <1>4, <1>a, <1>b DEF BeginFail, NextJobs, Held, Free, Success
  <2> QED
      BY <1>4, <1>b, <1>c, <2>1, HoldsAfter DEF BeginFail, dbVars, taskVars, memVars, history
<1>5. ASSUME NEW j \in Job, GraphFail(j) PROVE Held'
  <2>1. NextJobs
        BY <1>5, <1>a, <1>b DEF GraphFail, FailTurn, NextJobs, Held, Free, Success
  <2> QED
      BY <1>5, <1>b, <1>c, <2>1, HoldsAfter DEF GraphFail, FailTurn, dbVars, taskVars, memVars, history
<1>6. ASSUME NEW c \in Command, LeaseLapse(c) PROVE Held'
      BY <1>6, <1>b, <1>c, HoldsAfter DEF LeaseLapse, dbVars, taskVars, memVars, history
<1>7. ASSUME NEW p \in Process, Crash(p) PROVE Held'
  <2>1. NextJobs
        BY <1>7, <1>a, <1>b DEF Crash, NextJobs, Held, Free, Success
  <2>2. NextDrives
        BY <1>7, <1>a, <1>b DEF Crash, NextDrives, Held
  <2>3. NextDrains
        BY <1>7, <1>a, <1>b DEF Crash, NextDrains, Held, NoDrain
  <2>4. NextReqs
    <3>1. p # NoJob
          BY ConstantsAssumption
    <3>2. \A m \in Message : [req[m] EXCEPT !.pc = "done", !.exec = NoJob].pc = "done"
          BY <1>a DEF Request
    <3>3. \A m \in Message : \/ req'[m] = req[m]
                             \/ req'[m] = NoReq /\ req[m].pc = "append"
                             \/ /\ req'[m].pc = "done" /\ req[m].at = p
                                /\ req[m].pc # "append"
          BY <1>7, <3>2 DEF Crash
    <3>4. \A m \in Message : req[m].pc \in {"idle", "append", "route", "mark", "done"}
          BY <1>a DEF Request
    <3> QED
        BY <3>1, <3>3, <3>4, <1>b DEF NextReqs, Held, NoReq
  <2> QED
      BY <1>7, <1>b, <1>c, <2>1, <2>2, <2>3, <2>4, HoldsAfter DEF Crash, dbVars, taskVars, memVars, history
<1> QED
    BY <1>1, <1>2, <1>3, <1>4, <1>5, <1>6, <1>7 DEF Environment

LEMMA LearnerHeld ==
  ASSUME LedgerInv, SameAccepted, settled \subseteq settled' /\ ckpt \subseteq ckpt', TypeOK', Assigned',
         Learner,
         \A p \in Process, a \in Answer : ~AnswerAccept(a, p)
  PROVE  Held'
<1>a. /\ job \in [Job -> Execution] /\ drain \in [Process -> Drain]
      /\ req \in [Message -> Request] /\ drive \in [Process -> SUBSET Command]
      BY DEF LedgerInv, TypeOK
<1>b. Held /\ Assigned
      BY DEF LedgerInv
<1>c. SameAccepted /\ settled \subseteq settled' /\ ckpt \subseteq ckpt' /\ TypeOK' /\ Assigned'
      OBVIOUS
<1>1. ASSUME NEW p \in Process, NEW m \in Message, MessageRead(m, p) PROVE Held'
  <2>1. NextReqs
        BY <1>1, <1>a, <1>b DEF MessageRead, NextReqs, Held
  <2> QED
      BY <1>1, <1>b, <1>c, <2>1, HoldsAfter DEF MessageRead, dbVars, taskVars, memVars, history
<1>2. ASSUME NEW p \in Process, NEW m \in Message, MessageRetry(m, p) PROVE Held'
  <2>1. NextReqs
        BY <1>2, <1>a, <1>b DEF MessageRetry, NextReqs, Held
  <2> QED
      BY <1>2, <1>b, <1>c, <2>1, HoldsAfter DEF MessageRetry, dbVars, taskVars, memVars, history
<1>3. ASSUME NEW p \in Process, NEW a \in Answer, AnswerRetry(a, p) PROVE Held'
      BY <1>3, <1>b, <1>c, HoldsAfter DEF AnswerRetry, dbVars, taskVars, memVars, history
<1>4. ASSUME NEW p \in Process, CancelRead(p) PROVE Held'
      BY <1>4, <1>b, <1>c, HoldsAfter DEF CancelRead, dbVars, taskVars, memVars, history
<1> QED
    BY <1>1, <1>2, <1>3, <1>4 DEF Learner

LEMMA RequestStepHeld ==
  ASSUME LedgerInv, SameAccepted, settled \subseteq settled' /\ ckpt \subseteq ckpt', TypeOK', Assigned',
         NEW m \in Message, RequestStep(m), ~MessageAppend(m)
  PROVE  Held'
<1>a. /\ job \in [Job -> Execution] /\ drain \in [Process -> Drain]
      /\ req \in [Message -> Request] /\ drive \in [Process -> SUBSET Command]
      BY DEF LedgerInv, TypeOK
<1>b. Held /\ Assigned
      BY DEF LedgerInv
<1>c. SameAccepted /\ settled \subseteq settled' /\ ckpt \subseteq ckpt' /\ TypeOK' /\ Assigned'
      OBVIOUS
<1>1. CASE MessageRoute(m)
  <2>1. NextJobs
    <3>1. Accepted(m) /\ settled' = settled
          BY <1>1, <1>b DEF MessageRoute, Held, history
    <3>2. CASE job' = job
          BY <3>1, <3>2, <1>b DEF NextJobs, Held, Success
    <3>3. CASE \E a \in Job : job' = [job EXCEPT ![a] = Steered(@, m)]
      <4>1. \A i \in Job : /\ job'[i].pc = job[i].pc /\ job'[i].cmd = job[i].cmd
                           /\ job'[i].out = job[i].out /\ job'[i].seen = job[i].seen
                           /\ job'[i].queue \subseteq job[i].queue \cup {m}
            BY <3>3, <1>a DEF Steered, Execution
      <4> QED
          BY <3>1, <4>1, <1>b DEF NextJobs, Held, Success
    <3>4. active[req[m].at] \in Job \cup {NoJob}
          BY <1>1 DEF MessageRoute, LedgerInv, TypeOK, Assigned
    <3> QED
        BY <1>1, <3>2, <3>3, <3>4 DEF MessageRoute
  <2>2. NextDrives
        BY <1>1, <1>a, <1>b DEF MessageRoute, NextDrives, Held
  <2>3. NextReqs
    <3>1. Accepted(m)
          BY <1>1, <1>b DEF MessageRoute, Held
    <3>2. CASE req' = [req EXCEPT ![m].pc = "done"]
          BY <3>1, <3>2, <1>a, <1>b DEF NextReqs, Held
    <3>3. CASE \E a : req' = [req EXCEPT ![m] = [@ EXCEPT !.pc = "mark", !.exec = a]]
          BY <3>1, <3>3, <1>a, <1>b DEF NextReqs, Held, Request
    <3> QED
        BY <1>1, <3>2, <3>3 DEF MessageRoute
  <2> QED
      BY <1>1, <1>b, <1>c, <2>1, <2>2, <2>3, HoldsAfter DEF MessageRoute, dbVars, taskVars, memVars, history
<1>2. CASE MessageMark(m)
  <2>1. NextReqs
        BY <1>2, <1>a, <1>b DEF MessageMark, NextReqs, Held
  <2> QED
      BY <1>2, <1>b, <1>c, <2>1, HoldsAfter DEF MessageMark, dbVars, taskVars, memVars, history
<1> QED
    BY <1>1, <1>2 DEF RequestStep

-----------------------------------------------------------------------------
(* An acceptance *)

LEMMA AcceptHeld ==
  ASSUME LedgerInv, TypeOK', Assigned', NEW c \in Command, Accepts(c),
         job' = job,
         \A p \in Process : \A d \in drive'[p] : d \in drive[p] \/ d = c,
         drain' = drain,
         \/ req' = req /\ c \notin Message
         \/ c \in Message /\ req[c].pc = "append" /\ req' = [req EXCEPT ![c].pc = "route"]
  PROVE  Held'
<1>a. Held /\ Assigned /\ settled' = settled /\ req \in [Message -> Request]
      BY DEF LedgerInv, TypeOK, Accepts
<1>b. \A d \in Command : row'[d].disp # "absent" <=> (row[d].disp # "absent" \/ d = c)
      BY DEF Accepts
<1>c. \A i \in Job : job[i].queue \subseteq Command
      BY DEF LedgerInv, TypeOK, Execution
<1>1. \A j \in Job : job'[j].pc # "free" =>
        row'[job'[j].cmd].disp # "absent" /\ \A d \in job'[j].queue : row'[d].disp # "absent"
      BY <1>a, <1>b, <1>c DEF Held, Accepted, Assigned
<1>2. \A p \in Process : \A d \in drive'[p] : row'[d].disp # "absent"
  <2>1. \A p \in Process : drive'[p] \subseteq Command
        BY DEF TypeOK
  <2> QED
      BY <1>a, <1>b, <2>1 DEF Held, Accepted
<1>3. \A p \in Process : drain'[p].pc # "idle" => row'[drain'[p].cmd].disp # "absent"
      BY <1>a, <1>b DEF Held, Accepted, Assigned
<1>4. \A m \in Message :
        /\ req'[m].pc \in {"idle", "append"} => ~(row'[m].disp # "absent")
        /\ req'[m].pc \in {"route", "mark", "done"} => row'[m].disp # "absent"
        /\ req'[m].pc = "idle" => req'[m].at = NoJob
  <2>1. \A m \in Message : m \in Command
        BY DEF Command
  <2>2. CASE req' = req /\ c \notin Message
        BY <1>a, <1>b, <2>1, <2>2 DEF Held, Accepted
  <2>3. CASE c \in Message /\ req[c].pc = "append" /\ req' = [req EXCEPT ![c].pc = "route"]
        BY <1>a, <1>b, <2>1, <2>3 DEF Held, Accepted, Request
  <2> QED
      BY <2>2, <2>3
<1>5. \A j \in Job : job'[j].pc = "ack" /\ job'[j].out \in {"completed", "awaiting_user"}
                       => job'[j].cmd \in settled'
      BY <1>a DEF Held, Success
<1>6. \A j \in Job : job'[j].seen \subseteq ckpt'
      BY <1>a DEF Held, Accepts
<1> QED
    BY <1>1, <1>2, <1>3, <1>4, <1>5, <1>6 DEF Held, Success, Accepted

LEMMA EveryStepHolds ==
  ASSUME LedgerInv, [Next]_vars
  PROVE  Held' /\ Advance
<1>a. TypeOK' /\ Assigned'
      BY StepTypeOK DEF LedgerInv
<1>1. CASE \E p \in Process, b \in Answer : AnswerAccept(b, p)
  <2>1. PICK p \in Process, b \in Answer : AnswerAccept(b, p)
        BY <1>1
  <2>2. b \in Command /\ b \notin Message
        BY ConstantsAssumption DEF Command
  <2>3. Accepts(b)
        BY <2>1, <2>2, AcceptAccepts DEF AnswerAccept, LedgerInv, TypeOK, history
  <2>4. \A q \in Process : \A d \in drive'[q] : d \in drive[q] \/ d = b
        BY <2>1 DEF AnswerAccept, LedgerInv, TypeOK
  <2> QED
      BY <1>a, <2>1, <2>2, <2>3, <2>4, AcceptHeld DEF AnswerAccept, Advance
<1>2. CASE \E m \in Message : MessageAppend(m)
  <2>1. PICK m \in Message : MessageAppend(m)
        BY <1>2
  <2>2. m \in Command /\ ~Accepted(m)
        BY <2>1 DEF Command, MessageAppend, LedgerInv, Held
  <2>3. Accepts(m)
        BY <2>1, <2>2, AcceptAccepts DEF MessageAppend, LedgerInv, TypeOK, history
  <2> QED
      BY <1>a, <2>1, <2>2, <2>3, AcceptHeld DEF MessageAppend, Advance
<1>3. CASE UNCHANGED vars
  <2>1. Handles /\ SameAccepted /\ settled' = settled /\ ckpt' = ckpt
        BY <1>3, SameMoves
        DEF LedgerInv, TypeOK, Handles, Kept, vars, dbVars, history, SameAccepted
  <2> QED
      BY <1>3, <1>a, <2>1, HoldsAfter DEF Advance, LedgerInv, vars, memVars
<1>4. ASSUME Next,
             \A p \in Process, b \in Answer : ~AnswerAccept(b, p),
             \A m \in Message : ~MessageAppend(m)
      PROVE  Held' /\ Advance
  <2>1. Handles
        BY <1>4, LearnerHandles, RunStepHandles, ProcessStepHandles,
           RequestStepHandles, EnvironmentHandles DEF Next
  <2>2. SameAccepted /\ settled \subseteq settled' /\ ckpt \subseteq ckpt'
        BY <2>1 DEF Handles, Kept, Recorded, Moved, SameAccepted
  <2>3. Held'
        BY <1>4, <1>a, <2>2, LearnerHeld, RunStepHeld, ProcessStepHeld,
           RequestStepHeld, EnvironmentHeld DEF Next
  <2> QED
      BY <2>1, <2>3 DEF Advance
<1> QED
    BY <1>1, <1>2, <1>3, <1>4

-----------------------------------------------------------------------------
(* The invariant *)

LEMMA InitLedger == Init => LedgerInv
<1> SUFFICES ASSUME Init PROVE LedgerInv
    OBVIOUS
<1>1. TypeOK /\ Assigned
      BY InitTypeOK, InitAssigned
<1>2. Held
  <2>1. \A m \in Message : m # Initial /\ m \in Command
        BY ConstantsAssumption DEF Command
  <2>2. row[Initial].disp = "pending" /\ \A m \in Message : row[m].disp = "absent"
        BY <2>1 DEF Init, NewRow, NoRow, Command
  <2>3. \A p \in Process : \A c \in drive[p] : c = Initial
    <3>1. PICK q \in Process : drive = [p \in Process |-> IF p = q THEN {Initial} ELSE {}]
          BY DEF Init
    <3> QED
        BY <3>1
  <2> QED
      BY <2>2, <2>3 DEF Init, Held, Accepted, Success, Free, NoDrain, NoReq
<1>3. Listed
  <2>1. inbox = <<Initial>> /\ Initial \in Command
        BY DEF Init, Command
  <2>2. \A c \in Command : row[c].disp # "absent" <=> c = Initial
        BY <2>1 DEF Init, NewRow, NoRow
  <2> QED
      BY <2>1, <2>2 DEF Listed, Index, Accepted
<1>4. AckAfterOutcome
      BY DEF Init, AckAfterOutcome, NewRow, NoRow
<1> QED
    BY <1>1, <1>2, <1>3, <1>4 DEF LedgerInv

LEMMA StepLedger ==
  ASSUME LedgerInv, [Next]_vars
  PROVE  LedgerInv'
<1>1. TypeOK' /\ Assigned' /\ Held' /\ Advance
      BY StepTypeOK, EveryStepHolds DEF LedgerInv
<1>2. AckAfterOutcome'
  <2>1. CASE Kept
        BY <2>1 DEF Kept, Moved, AckAfterOutcome, LedgerInv
  <2>2. CASE Recorded
        BY <2>2 DEF Recorded, Moved, AckAfterOutcome, LedgerInv
  <2>3. CASE \E c \in Command : Accepts(c)
        BY <2>3 DEF Accepts, AckAfterOutcome, LedgerInv
  <2> QED
      BY <1>1, <2>1, <2>2, <2>3 DEF Advance, Handles
<1>3. Listed'
  <2>1. CASE Handles
    <3>1. inbox' = inbox /\ \A c \in Command : row'[c].disp = "absent" <=> row[c].disp = "absent"
          BY <2>1 DEF Handles, Kept, Recorded, Moved
    <3>2. \A i \in 1..Len(inbox) : inbox[i] \in Command
          BY DEF LedgerInv, TypeOK
    <3> QED
        BY <3>1, <3>2 DEF Listed, Index, Accepted, LedgerInv
  <2>2. ASSUME NEW c \in Command, Accepts(c) PROVE Listed'
    <3>1. inbox \in Seq(Command) /\ inbox' = Append(inbox, c)
          BY <2>2 DEF Accepts, LedgerInv, TypeOK
    <3>2. /\ Len(inbox') = Len(inbox) + 1 /\ inbox'[Len(inbox) + 1] = c
          /\ \A i \in 1..Len(inbox) : inbox'[i] = inbox[i] /\ inbox[i] \in Command
          /\ Len(inbox) \in Nat
          BY <3>1
    <3>3. \A d \in Command : row'[d].disp # "absent" <=> (row[d].disp # "absent" \/ d = c)
          BY <2>2 DEF Accepts
    <3>4. \A i \in 1..Len(inbox') : row'[inbox'[i]].disp # "absent"
          BY <3>2, <3>3 DEF Listed, Index, Accepted, LedgerInv
    <3>5. \A d \in Command : row'[d].disp # "absent" => \E i \in 1..Len(inbox') : inbox'[i] = d
          BY <3>2, <3>3 DEF Listed, Index, Accepted, LedgerInv
    <3> QED
        BY <3>4, <3>5 DEF Listed, Index, Accepted
  <2> QED
      BY <1>1, <2>1, <2>2 DEF Advance
<1> QED
    BY <1>1, <1>2, <1>3 DEF LedgerInv

LEMMA LedgerCorrect == Spec => []LedgerInv
  BY InitLedger, StepLedger, PTL DEF Spec

\* A command is consumed only after an execution persisted its success or a
\* checkpoint took it in, whatever crashes, lapses or is taken over.
THEOREM AcknowledgedWasDone == Spec => []AckAfterOutcome
<1>1. LedgerInv => AckAfterOutcome
      BY DEF LedgerInv
<1> QED
    BY <1>1, LedgerCorrect, PTL

-----------------------------------------------------------------------------
(* Refinement *)

LEMMA MappedInit == Init => Ledger!Init
<1> SUFFICES ASSUME Init PROVE Ledger!Init
    OBVIOUS
<1>1. \A c \in Command : row[c].disp # "applied"
      BY DEF Init, NewRow, NoRow
<1> QED
    BY <1>1 DEF Init, Ledger!Init

LEMMA MappedStep ==
  ASSUME LedgerInv, [Next]_vars
  PROVE  [Ledger!Next]_(Ledger!vars)
<1> DEFINE recorded == settled \cup ckpt
           acked == {c \in Command : row[c].disp = "applied"}
<1>1. Advance
      BY EveryStepHolds
<1>2. \A c \in Command : c \in Ledger!AcceptedSet <=> Accepted(c)
      BY DEF LedgerInv, Listed, Index, Ledger!AcceptedSet
<1>3. CASE Kept
  <2>1. acked' = acked \cup (acked' \ acked)
        BY <1>3 DEF Kept, Moved
  <2>2. acked' \ acked \subseteq recorded
        BY <1>3 DEF Kept, Moved
  <2>3. inbox' = inbox /\ recorded' = recorded
        BY <1>3 DEF Kept
  <2> DEFINE new == acked' \ acked
  <2>4. \E S \in SUBSET Command :
          /\ S \subseteq recorded /\ acked' = acked \cup S
          /\ inbox' = inbox /\ recorded' = recorded
    <3>1. new \in SUBSET Command
          OBVIOUS
    <3> HIDE DEF new, acked, recorded
    <3> QED
        BY <2>1, <2>2, <2>3, <3>1 DEF new
  <2>6. \E S \in SUBSET Command : Ledger!Acknowledge(S)
        BY <2>4 DEF Ledger!Acknowledge
  <2> QED
      BY <2>6, Zenon DEF Ledger!Next
<1>4. CASE Recorded
  <2>1. recorded' = recorded \cup (recorded' \ recorded)
        BY <1>4 DEF Recorded
  <2>2. settled' \subseteq Command /\ ckpt' \subseteq Command
        BY StepTypeOK DEF LedgerInv, TypeOK
  <2>3. /\ recorded' \ recorded \subseteq Ledger!AcceptedSet
        /\ recorded' \ recorded \in SUBSET Command
        BY <1>2, <1>4, <2>2 DEF Recorded
  <2>4. inbox' = inbox /\ acked' = acked
        BY <1>4 DEF Recorded, Moved
  <2>5. Ledger!Record(recorded' \ recorded)
        BY <2>1, <2>3, <2>4 DEF Ledger!Record
  <2> QED
      BY <2>3, <2>5 DEF Ledger!Next
<1>5. ASSUME NEW c \in Command, Accepts(c) PROVE Ledger!Next
  <2>1. c \notin Ledger!AcceptedSet /\ inbox' = Append(inbox, c) /\ recorded' = recorded
        BY <1>2, <1>5 DEF Accepts
  <2>2. acked' = acked
        BY <1>5 DEF Accepts, Accepted
  <2>3. Ledger!Accept(c)
        BY <2>1, <2>2 DEF Ledger!Accept
  <2> QED
      BY <2>3 DEF Ledger!Next
<1> QED
    BY <1>1, <1>3, <1>4, <1>5 DEF Advance, Handles

\* The inbox, its lease columns and every coroutine that works on them implement
\* the abstract ledger: accepted once and in order, recorded, then acknowledged
\* for good.
THEOREM LedgerImplemented == Spec => ImplementsLedger
<1>1. Spec => []LedgerInv
      BY LedgerCorrect
<1> QED
    BY <1>1, MappedInit, MappedStep, PTL DEF Spec, ImplementsLedger, Ledger!Spec

-----------------------------------------------------------------------------
(* Head of line.  What a pending drain picked stays the first command that  *)
(* is not applied: rows are applied for good and new commands come last.    *)

Busy(e) == e.pc \notin {"free", "zombie", "ghost"}
InLine  == {"pending", "retry"}

\* Nothing is listed twice.
Distinct == \A i, k \in Index : inbox[i] = inbox[k] => i = k

\* A pending drain under the lock holds a command of which the same is true as
\* of the execution it will start.
DrainsLead ==
  \A p \in Process :
    drain[p].pc # "idle" /\ drain[p].kind \in InLine =>
      \A i, k \in Index :
        i < k /\ inbox[k] = drain[p].cmd => row[inbox[i]].disp = "applied"

LineInv == LedgerInv /\ Distinct /\ DrainsLead /\ HeadOfLine

\* Where the command of an execution in line comes from.
JobsFrom ==
  \A j \in Job :
    Busy(job'[j]) /\ job'[j].via \in InLine =>
      \/ Busy(job[j]) /\ job'[j].cmd = job[j].cmd /\ job'[j].via = job[j].via
      \/ \E p \in Process : /\ drain[p].pc # "idle"
                            /\ drain[p].cmd = job'[j].cmd
                            /\ drain[p].kind = job'[j].via

\* Where the command of a drain in line comes from.
DrainsFrom ==
  \A p \in Process :
    drain'[p].pc # "idle" /\ drain'[p].kind \in InLine =>
      \/ /\ drain[p].pc # "idle"
         /\ drain'[p].cmd = drain[p].cmd /\ drain'[p].kind = drain[p].kind
      \/ \E i \in Index : /\ inbox[i] = drain'[p].cmd
                          /\ \A k \in Index : k < i => row[inbox[k]].disp = "applied"

LEMMA SameFrom ==
  /\ job' = job => JobsFrom
  /\ drain' = drain => DrainsFrom
  BY DEF JobsFrom, DrainsFrom

LEMMA RunStepFrom ==
  ASSUME TypeOK, NEW j \in Job, RunStep(j)
  PROVE  JobsFrom /\ DrainsFrom
<1>a. job \in [Job -> Execution]
      BY DEF TypeOK
<1>1. CASE ClaimDelivery(j)
      BY <1>1, <1>a, SameFrom DEF ClaimDelivery, EndUnowned, JobsFrom, Busy, Free, Execution
<1>2. CASE ClaimTask(j)
      BY <1>2, <1>a, SameFrom DEF ClaimTask, Elected, JobsFrom, Busy, Execution
<1>3. CASE Release(j)
      BY <1>3, <1>a, SameFrom DEF Release, EndUnowned, JobsFrom, Busy, Free, Execution
<1>4. CASE Begin(j)
      BY <1>4, <1>a, SameFrom DEF Begin, JobsFrom, Busy, Execution
<1>5. CASE Publish(j)
      BY <1>5, <1>a, SameFrom DEF Publish, JobsFrom, Busy, Free, Execution
<1>14. CASE ReadCheckpoint(j)
      BY <1>14, <1>a, SameFrom DEF ReadCheckpoint, JobsFrom, Busy, Execution
<1>15. CASE \E c \in Command : ConsumeSeen(j, c)
      BY <1>15, SameFrom DEF ConsumeSeen
<1>16. CASE Seed(j)
      BY <1>16, <1>a, SameFrom DEF Seed, JobsFrom, Busy, Execution
<1>6. CASE GraphDrain(j)
      BY <1>6, <1>a, SameFrom DEF GraphDrain, JobsFrom, Busy, Execution
<1>7. CASE GraphRaise(j)
      BY <1>7, <1>a, SameFrom DEF GraphRaise, FailTurn, JobsFrom, Busy, Free, Execution
<1>8. CASE \E out \in Outcomes : GraphEnd(j, out)
      BY <1>8, <1>a, SameFrom DEF GraphEnd, JobsFrom, Busy, Execution
<1>9. CASE Settle(j)
      BY <1>9, <1>a, SameFrom DEF Settle, JobsFrom, Busy, Execution
<1>10. CASE Ack(j)
      BY <1>10, <1>a, SameFrom DEF Ack, JobsFrom, Busy, Execution
<1>11. CASE Transfer(j)
      BY <1>11, <1>a, SameFrom DEF Transfer, JobsFrom, Busy, Free, Execution
<1>12. CASE PumpMark(j)
      BY <1>12, <1>a, SameFrom DEF PumpMark, JobsFrom, Busy, Execution
<1>13. CASE \E c \in Message : PumpSteer(j, c)
      BY <1>13, <1>a, SameFrom DEF PumpSteer, Steered, JobsFrom, Busy, Execution
<1> QED
    BY <1>1, <1>2, <1>3, <1>4, <1>5, <1>6, <1>7, <1>8, <1>9, <1>10, <1>11, <1>12, <1>13, <1>14,
       <1>15, <1>16 DEF RunStep

LEMMA ProcessStepFrom ==
  ASSUME LedgerInv, NEW p \in Process, ProcessStep(p)
  PROVE  JobsFrom /\ DrainsFrom
<1>a. job \in [Job -> Execution] /\ drain \in [Process -> Drain]
      BY DEF LedgerInv, TypeOK
<1>1. ASSUME NEW kind \in DrainKind, DrainRead(p, kind) PROVE JobsFrom /\ DrainsFrom
  <2>1. CASE drain' = drain
        BY <1>1, <2>1, SameFrom DEF DrainRead
  <2>2. ASSUME NEW i \in Todo(kind), \A k \in Todo(kind) : i <= k,
               drain' = [drain EXCEPT ![p] =
                 [pc |-> "gate", kind |-> kind, cmd |-> inbox[i],
                  orphan |-> row[inbox[i]].disp = "delivered" /\ row[inbox[i]].mode # "steering"]]
        PROVE  DrainsFrom
    <3>1. i \in Index /\ Index \subseteq Nat
          BY DEF Todo, Index
    <3>2. ASSUME kind \in InLine, NEW k \in Index, k < i
          PROVE  row[inbox[k]].disp = "applied"
      <4>1. ~Unapplied(inbox[k])
            BY <2>2, <3>1, <3>2 DEF Todo, InLine
      <4> QED
          BY <4>1, <3>2 DEF Unapplied, LedgerInv, Listed, Accepted
    <3>3. \A q \in Process : q # p => drain'[q] = drain[q]
          BY <2>2, <1>a
    <3>4. drain'[p].cmd = inbox[i] /\ drain'[p].kind = kind
          BY <2>2, <1>a
    <3> QED
        BY <3>1, <3>2, <3>3, <3>4 DEF DrainsFrom
  <2> QED
      BY <1>1, <2>1, <2>2, SameFrom DEF DrainRead
<1>2. CASE DrainGate(p)
      BY <1>2, <1>a, SameFrom DEF DrainGate, DrainsFrom, NoDrain, Drain
<1>3. ASSUME NEW j \in Job, StartDrained(p, j) PROVE JobsFrom /\ DrainsFrom
  <2>1. DrainsFrom
        BY <1>3, <1>a DEF StartDrained, DrainsFrom, NoDrain
  <2>2. CASE job' = job
        BY <2>1, <2>2, SameFrom
  <2>3. CASE job' # job
    <3>1. /\ \A i \in Job : i # j => job'[i] = job[i]
          /\ job'[j].cmd = drain[p].cmd /\ job'[j].via = drain[p].kind
          BY <1>3, <2>3, <1>a DEF StartDrained, Start
    <3>2. drain[p].pc # "idle"
          BY <1>3 DEF StartDrained
    <3> QED
        BY <2>1, <3>1, <3>2 DEF JobsFrom
  <2> QED
      BY <2>2, <2>3
<1>4. ASSUME NEW j \in Job, NEW c \in Command, StartDirect(p, c, j)
      PROVE  JobsFrom /\ DrainsFrom
  <2>1. DrainsFrom
        BY <1>4, SameFrom DEF StartDirect
  <2>2. CASE job' = job
        BY <2>1, <2>2, SameFrom
  <2>3. CASE job' # job
    <3>1. /\ \A i \in Job : i # j => job'[i] = job[i]
          /\ job'[j].via = "direct"
          BY <1>4, <2>3, <1>a DEF StartDirect, Start
    <3> QED
        BY <2>1, <3>1 DEF JobsFrom, InLine
  <2> QED
      BY <2>2, <2>3
<1>5. CASE Startup(p)
      BY <1>5, SameFrom DEF Startup
<1>6. CASE CancelMark(p)
      BY <1>6, SameFrom DEF CancelMark
<1>7. CASE CancelKill(p)
  <2>1. \A i \in Job : \/ job'[i] = job[i]
                       \/ job'[i].pc \in {"zombie", "ghost", "free"}
        BY <1>7, <1>a, LeftTyped DEF CancelKill, Free
  <2> QED
      BY <1>7, <2>1, SameFrom DEF CancelKill, JobsFrom, Busy
<1> QED
    BY <1>1, <1>2, <1>3, <1>4, <1>5, <1>6, <1>7 DEF ProcessStep

LEMMA OtherStepFrom ==
  ASSUME TypeOK, Assigned, Learner \/ Environment \/ \E m \in Message : RequestStep(m)
  PROVE  JobsFrom /\ DrainsFrom
<1>a. job \in [Job -> Execution] /\ drain \in [Process -> Drain]
      BY DEF TypeOK
<1>1. CASE Learner
      BY <1>1, SameFrom
      DEF Learner, MessageRead, MessageRetry, AnswerAccept, AnswerRetry, CancelRead
<1>2. ASSUME NEW m \in Message, RequestStep(m) PROVE JobsFrom /\ DrainsFrom
  <2>1. CASE MessageRoute(m)
    <3>1. drain' = drain
          BY <2>1 DEF MessageRoute
    <3>2. CASE job' = job
          BY <3>1, <3>2, SameFrom
    <3>3. ASSUME NEW a, job' = [job EXCEPT ![a] = Steered(@, m)] PROVE JobsFrom
          BY <3>3, <1>a DEF Steered, JobsFrom, Busy, Execution
    <3> QED
        BY <2>1, <3>1, <3>2, <3>3, SameFrom DEF MessageRoute
  <2> QED
      BY <1>2, <2>1, SameFrom DEF RequestStep, MessageAppend, MessageMark
<1>3. CASE Environment
  <2>1. ASSUME NEW j \in Job, GraphAsk(j) PROVE JobsFrom /\ DrainsFrom
        BY <2>1, <1>a, SameFrom DEF GraphAsk, JobsFrom, Busy, Execution
  <2>2. ASSUME NEW j \in Job, StreamCancelled(j) PROVE JobsFrom /\ DrainsFrom
        BY <2>2, <1>a, SameFrom DEF StreamCancelled, JobsFrom, Busy, Execution
  <2>3. ASSUME NEW j \in Job, Heartbeat(j) PROVE JobsFrom /\ DrainsFrom
        BY <2>3, SameFrom DEF Heartbeat, memVars
  <2>4. ASSUME NEW j \in Job, BeginFail(j) PROVE JobsFrom /\ DrainsFrom
        BY <2>4, <1>a, SameFrom DEF BeginFail, JobsFrom, Busy, Free, Execution
  <2>5. ASSUME NEW j \in Job, GraphFail(j) PROVE JobsFrom /\ DrainsFrom
        BY <2>5, <1>a, SameFrom DEF GraphFail, FailTurn, JobsFrom, Busy, Free, Execution
  <2>6. ASSUME NEW c \in Command, LeaseLapse(c) PROVE JobsFrom /\ DrainsFrom
        BY <2>6, SameFrom DEF LeaseLapse, memVars
  <2>7. ASSUME NEW p \in Process, Crash(p) PROVE JobsFrom /\ DrainsFrom
    <3>1. DrainsFrom
          BY <2>7, <1>a DEF Crash, DrainsFrom, NoDrain
    <3>2. \A i \in Job : job'[i] = job[i] \/ job'[i].pc = "free"
          BY <2>7, <1>a DEF Crash, Free
    <3> QED
        BY <3>1, <3>2 DEF JobsFrom, Busy
  <2> QED
      BY <1>3, <2>1, <2>2, <2>3, <2>4, <2>5, <2>6, <2>7 DEF Environment
<1> QED
    BY <1>1, <1>2, <1>3

\* Of a command accepted before the step, what was applied ahead of it still is,
\* and nothing new gets ahead of it.
LEMMA StaysAhead ==
  ASSUME LedgerInv, Advance, NEW c \in Command, Accepted(c),
         \A i, k \in Index : i < k /\ inbox[k] = c => row[inbox[i]].disp = "applied"
  PROVE  \A i, k \in 1..Len(inbox') :
           i < k /\ inbox'[k] = c => row'[inbox'[i]].disp = "applied"
<1>1. inbox \in Seq(Command) /\ Len(inbox) \in Nat
      BY DEF LedgerInv, TypeOK
<1>2. \A i \in Index : inbox[i] \in Command
      BY <1>1 DEF Index
<1>3. CASE Handles
      BY <1>2, <1>3 DEF Handles, Kept, Recorded, Moved, Index
<1>4. ASSUME NEW d \in Command, Accepts(d)
      PROVE  \A i, k \in 1..Len(inbox') :
               i < k /\ inbox'[k] = c => row'[inbox'[i]].disp = "applied"
  <2>1. /\ Len(inbox') = Len(inbox) + 1 /\ inbox'[Len(inbox) + 1] = d
        /\ \A i \in 1..Len(inbox) : inbox'[i] = inbox[i]
        BY <1>1, <1>4 DEF Accepts
  <2>2. c # d /\ \A e \in Command : row[e].disp = "applied" => row'[e].disp = "applied"
        BY <1>4 DEF Accepts, Accepted
  <2> SUFFICES ASSUME NEW i \in 1..Len(inbox'), NEW k \in 1..Len(inbox'),
                      i < k, inbox'[k] = c
               PROVE  row'[inbox'[i]].disp = "applied"
      OBVIOUS
  <2>3. k # Len(inbox) + 1
        BY <2>1, <2>2
  <2>4. k \in Index /\ i \in Index
        BY <1>1, <2>1, <2>3 DEF Index
  <2> QED
      BY <1>2, <2>1, <2>2, <2>4 DEF Index
<1> QED
    BY <1>3, <1>4 DEF Advance

LEMMA StaysDistinct ==
  ASSUME LedgerInv, Distinct, Advance
  PROVE  Distinct'
<1>1. inbox \in Seq(Command) /\ Len(inbox) \in Nat
      BY DEF LedgerInv, TypeOK
<1>2. CASE Handles
      BY <1>2 DEF Handles, Kept, Recorded, Distinct, Index
<1>3. ASSUME NEW d \in Command, Accepts(d) PROVE Distinct'
  <2>1. /\ Len(inbox') = Len(inbox) + 1 /\ inbox'[Len(inbox) + 1] = d
        /\ \A i \in 1..Len(inbox) : inbox'[i] = inbox[i]
        BY <1>1, <1>3 DEF Accepts
  <2>2. \A i \in 1..Len(inbox) : inbox[i] # d
        BY <1>3 DEF Accepts, LedgerInv, Listed, Index
  <2> QED
      BY <1>1, <2>1, <2>2 DEF Distinct, Index
<1> QED
    BY <1>2, <1>3 DEF Advance

LEMMA InitLine == Init => LineInv
<1> SUFFICES ASSUME Init PROVE LineInv
    OBVIOUS
<1>1. Len(inbox) = 1
      BY DEF Init
<1> QED
    BY <1>1, InitLedger
    DEF Init, LineInv, Distinct, DrainsLead, HeadOfLine, Index, NoDrain, Free

LEMMA StepLine ==
  ASSUME LineInv, [Next]_vars
  PROVE  LineInv'
<1>a. /\ LedgerInv /\ LedgerInv' /\ Advance /\ Held /\ Assigned /\ Assigned' /\ TypeOK'
      BY EveryStepHolds, StepLedger, StepTypeOK DEF LineInv, LedgerInv
<1>1. JobsFrom /\ DrainsFrom
  <2>1. CASE UNCHANGED vars
        BY <2>1, SameFrom DEF vars, memVars
  <2> QED
      BY <1>a, <2>1, RunStepFrom, ProcessStepFrom, OtherStepFrom DEF Next, LedgerInv
<1>2. Distinct'
      BY <1>a, StaysDistinct DEF LineInv
<1>3. HeadOfLine'
  <2> SUFFICES ASSUME NEW j \in Job, Busy(job'[j]), job'[j].via \in InLine
               PROVE  \A i, k \in 1..Len(inbox') :
                        i < k /\ inbox'[k] = job'[j].cmd => row'[inbox'[i]].disp = "applied"
      BY DEF HeadOfLine, Busy, InLine, Index
  <2>1. PICK c \in Command : c = job'[j].cmd
        BY <1>a DEF Assigned, Busy
  <2>2. /\ Accepted(c)
        /\ \A i, k \in Index : i < k /\ inbox[k] = c => row[inbox[i]].disp = "applied"
    <3>1. CASE Busy(job[j]) /\ job'[j].cmd = job[j].cmd /\ job'[j].via = job[j].via
          BY <1>a, <2>1, <3>1 DEF LineInv, HeadOfLine, Held, Busy, InLine
    <3>2. ASSUME NEW p \in Process, drain[p].pc # "idle", drain[p].cmd = job'[j].cmd,
                 drain[p].kind = job'[j].via
          PROVE  /\ Accepted(c)
                 /\ \A i, k \in Index : i < k /\ inbox[k] = c => row[inbox[i]].disp = "applied"
          BY <1>a, <2>1, <3>2 DEF LineInv, DrainsLead, Held
    <3> QED
        BY <1>1, <3>1, <3>2 DEF JobsFrom
  <2> QED
      BY <1>a, <2>1, <2>2, StaysAhead
<1>4. DrainsLead'
  <2> SUFFICES ASSUME NEW p \in Process, drain'[p].pc # "idle", drain'[p].kind \in InLine
               PROVE  \A i, k \in 1..Len(inbox') :
                        i < k /\ inbox'[k] = drain'[p].cmd => row'[inbox'[i]].disp = "applied"
      BY DEF DrainsLead, Index
  <2>1. PICK c \in Command : c = drain'[p].cmd
        BY <1>a DEF Assigned
  <2>2. /\ Accepted(c)
        /\ \A i, k \in Index : i < k /\ inbox[k] = c => row[inbox[i]].disp = "applied"
    <3>1. CASE /\ drain[p].pc # "idle"
               /\ drain'[p].cmd = drain[p].cmd /\ drain'[p].kind = drain[p].kind
          BY <1>a, <2>1, <3>1 DEF LineInv, DrainsLead, Held
    <3>2. ASSUME NEW n \in Index, inbox[n] = drain'[p].cmd,
                 \A k \in Index : k < n => row[inbox[k]].disp = "applied"
          PROVE  /\ Accepted(c)
                 /\ \A i, k \in Index : i < k /\ inbox[k] = c => row[inbox[i]].disp = "applied"
          BY <1>a, <2>1, <3>2 DEF LineInv, LedgerInv, Listed, Distinct
    <3> QED
        BY <1>1, <3>1, <3>2 DEF DrainsFrom
  <2> QED
      BY <1>a, <2>1, <2>2, StaysAhead
<1> QED
    BY <1>a, <1>2, <1>3, <1>4 DEF LineInv

\* An execution that the pending drain started works on a command before which
\* everything accepted is applied, whatever is accepted, claimed, transferred
\* and acknowledged between the drain's read and the execution's end.
THEOREM HeadOfLineHolds == Spec => []HeadOfLine
<1>1. Spec => []LineInv
      BY InitLine, StepLine, PTL DEF Spec
<1>2. LineInv => HeadOfLine
      BY DEF LineInv
<1> QED
    BY <1>1, <1>2, PTL
=============================================================================
