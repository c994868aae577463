-------------------------- MODULE WorkLedgerProofs --------------------------
(***************************************************************************)
(* Type correctness of WorkLedger for every set of processes, executions   *)
(* and work items, every plan structure and every bound on faults.         *)
(***************************************************************************)
EXTENDS WorkLedger, FiniteSetTheorems, TLAPS

\* An open transaction knows its item; a plan being committed is within the bound.
Working ==
  /\ \A x \in Actor : tx[x].pc # "none" => tx[x].work \in Work
  /\ \A e \in Execution : exec[e].pc = "plan" => exec[e].rev < LastRevision

-----------------------------------------------------------------------------
(* Records *)

LEMMA NoTxTyped == NoTx \in Tx
  BY DEF NoTx, NoMoney, Tx, Account, Status

LEMMA OpenedTyped ==
  ASSUME NEW w \in Work, NEW to \in Status, NEW use \in Nat
  PROVE  /\ Opened(w, to, use) \in Tx
         /\ Opened(w, to, use).work \in Work
  BY DEF Opened, NoMoney, Tx, Account

LEMMA SettledTyped ==
  ASSUME NEW account \in Account, NEW t \in Tx
  PROVE  Settled(account, t) \in Account
<1>1. t.seen \in Account /\ t.use \in Nat
      BY DEF Tx
<1>2. CASE t.to = "queued"
      BY <1>2 DEF Settled
<1>3. CASE t.to # "queued"
  <2> DEFINE res == IF t.seen.reserved > 0 THEN t.seen.reserved - 1 ELSE account.reserved
             usd == IF t.use > 0 THEN t.seen.used + t.use ELSE account.used
  <2>1. res \in Nat /\ usd \in Nat
        BY <1>1 DEF Account
  <2>2. Settled(account, t) = [reserved |-> res, used |-> usd]
        BY <1>3 DEF Settled
  <2> QED
      BY <2>1, <2>2 DEF Account
<1> QED
    BY <1>2, <1>3

LEMMA PlannedFinite ==
  ASSUME NEW r
  PROVE  IsFiniteSet(Planned(r)) /\ Cardinality(Planned(r)) \in Nat
<1>1. Planned(r) \subseteq Work
      BY DEF Planned
<1> QED
    BY <1>1, FS_Subset, FS_CardinalityType, LedgerAssumption

LEMMA EndExecutionsTyped ==
  ASSUME exec \in [Execution -> Run],
         attempt \in [Execution -> [Work -> {"todo", "run", "done"}]],
         tx \in [Actor -> Tx], Working,
         NEW E, NEW P, EndExecutions(E, P)
  PROVE  /\ exec' \in [Execution -> Run]
         /\ attempt' \in [Execution -> [Work -> {"todo", "run", "done"}]]
         /\ tx' \in [Actor -> Tx]
         /\ Working'
<1>1. exec' \in [Execution -> Run]
      BY DEF EndExecutions, Run
<1>2. attempt' \in [Execution -> [Work -> {"todo", "run", "done"}]]
      BY DEF EndExecutions
<1>3. tx' \in [Actor -> Tx]
      BY NoTxTyped DEF EndExecutions
<1>4. \A x \in Actor : tx'[x] = NoTx \/ tx'[x] = tx[x]
      BY DEF EndExecutions
<1>5. \A e \in Execution : exec'[e].pc = "plan" => exec'[e] = exec[e]
      BY DEF EndExecutions, Run
<1>6. Working'
      BY <1>4, <1>5 DEF Working, NoTx
<1> QED
    BY <1>1, <1>2, <1>3, <1>6

-----------------------------------------------------------------------------
LEMMA InitWorkTypeOK == Init => TypeOK /\ Working
<1> SUFFICES ASSUME Init PROVE TypeOK /\ Working
    OBVIOUS
<1> USE LedgerAssumption DEF Init
<1>1. item \in [Work -> Item]
      BY DEF Item, NoItem, Status
<1>2. ledger \in [Revision -> Account] /\ spent \in [Revision -> Nat]
      BY DEF Account, NoMoney
<1>3. exec \in [Execution -> Run]
      BY DEF Run
<1>4. attempt \in [Execution -> [Work -> {"todo", "run", "done"}]]
      OBVIOUS
<1>5. desk \in [Process -> Desk]
      BY DEF Desk, Booting
<1>6. tx \in [Actor -> Tx]
      BY NoTxTyped
<1>7. Working
      BY DEF Working, NoTx
<1>8. revision \in 0..LastRevision /\ faults \in 0..MaxFaults
      OBVIOUS
<1> QED
    BY <1>1, <1>2, <1>3, <1>4, <1>5, <1>6, <1>7, <1>8 DEF TypeOK

LEMMA ExecStepTypeOK ==
  ASSUME TypeOK, Working, NEW e \in Execution, ExecStep(e)
  PROVE  TypeOK' /\ Working'
<1>a. exec \in [Execution -> Run] /\ revision \in 0..LastRevision
      BY DEF TypeOK
<1>b. item \in [Work -> Item]
      BY DEF TypeOK
<1>c. attempt \in [Execution -> [Work -> {"todo", "run", "done"}]]
      BY DEF TypeOK
<1>d. tx \in [Actor -> Tx]
      BY DEF TypeOK
<1>1. CASE ReadTurn(e)
  <2>1. revision \in Nat
        BY <1>a, LedgerAssumption
  <2>2. exec' = [exec EXCEPT ![e] = [@ EXCEPT !.pc = "plan", !.rev = revision]]
        BY <1>1 DEF ReadTurn
  <2>3. exec' \in [Execution -> Run]
        BY <2>1, <2>2, <1>a DEF Run
  <2>4. Working'
        BY <1>1, <2>2, <1>a DEF ReadTurn, Working, Run
  <2> QED
      BY <1>1, <2>3, <2>4 DEF ReadTurn, TypeOK, dbVars, history
<1>2. CASE CreatePlan(e)
  <2> DEFINE r == exec[e].rev + 1
             won == revision = exec[e].rev /\ TotalConsumed + Cardinality(Planned(r)) <= Limit
  <2>1. exec' \in [Execution -> Run]
    <3>1. r \in Nat
          BY <1>a DEF Run
    <3>2. exec' = [exec EXCEPT ![e] = [@ EXCEPT !.pc = "dispatch", !.rev = r]]
          \/ exec' = [exec EXCEPT ![e] = [@ EXCEPT !.pc = "over"]]
          BY <1>2 DEF CreatePlan
    <3> HIDE DEF r
    <3>3. \A x \in Run : /\ [x EXCEPT !.pc = "dispatch", !.rev = r] \in Run
                         /\ [x EXCEPT !.pc = "over"] \in Run
          BY <3>1 DEF Run
    <3> QED
        BY <3>2, <3>3, <1>a
  <2>a. Working'
    <3>1. \A f \in Execution : exec'[f].pc = "plan" => exec'[f] = exec[f]
          BY <1>2, <1>a DEF CreatePlan, Run
    <3> QED
        BY <1>2, <3>1 DEF CreatePlan, Working
  <2>2. CASE won
    <3>1. revision' = r /\ r \in 1..LastRevision
          BY <1>2, <2>2, <1>a, LedgerAssumption DEF CreatePlan, Working
    <3>2. ledger' = [ledger EXCEPT ![r].reserved = Cardinality(Planned(r))]
          BY <1>2, <2>2 DEF CreatePlan
    <3>3. ledger' \in [Revision -> Account]
      <4> HIDE DEF r
      <4>1. Cardinality(Planned(r)) \in Nat
            BY PlannedFinite
      <4> QED
          BY <3>2, <4>1 DEF TypeOK, Account
    <3>4. item' \in [Work -> Item]
          BY <1>2, <2>2, <1>b DEF CreatePlan, Item, NoItem, Status
    <3>5. revision' \in 0..LastRevision
          BY <3>1
    <3> QED
        BY <1>2, <2>1, <2>a, <3>3, <3>4, <3>5 DEF CreatePlan, TypeOK, history
  <2>3. CASE ~won
    <3>1. UNCHANGED <<revision, ledger, item>>
          BY <1>2, <2>3 DEF CreatePlan
    <3> QED
        BY <1>2, <2>1, <2>a, <3>1 DEF CreatePlan, TypeOK, history
  <2> QED
      BY <2>2, <2>3
<1>3. CASE EndRound(e)
  <2>1. exec' \in [Execution -> Run]
        BY <1>3, <1>a DEF EndRound, Run
  <2>2. \A f \in Execution : exec'[f].pc = "plan" => exec'[f] = exec[f]
        BY <1>3, <1>a DEF EndRound, Run
  <2> QED
      BY <1>3, <2>1, <2>2 DEF EndRound, TypeOK, Working, dbVars, history
<1>4. ASSUME NEW w \in Work, Claim(e, w) PROVE TypeOK' /\ Working'
  <2>1. item' \in [Work -> Item]
        BY <1>4, <1>b DEF Claim, Item, Status
  <2>2. attempt' \in [Execution -> [Work -> {"todo", "run", "done"}]]
        BY <1>4, <1>c DEF Claim, Ends
  <2> QED
      BY <1>4, <2>1, <2>2 DEF Claim, TypeOK, Working, history
<1>5. ASSUME NEW w \in Work, NEW to \in {"succeeded", "incomplete", "failed"},
             NEW use \in Usage, Finish(e, w, to, use)
      PROVE  TypeOK' /\ Working'
  <2>1. CASE item[w].status = "leased"
    <3>1. Opened(w, to, use) \in Tx /\ Opened(w, to, use).work \in Work
          BY OpenedTyped, LedgerAssumption DEF Status
    <3>2. tx' = [tx EXCEPT ![<<e, w>>] = Opened(w, to, use)] /\ attempt' = attempt
          BY <1>5, <2>1 DEF Finish
    <3>3. tx' \in [Actor -> Tx]
          BY <3>1, <3>2, <1>d
    <3>4. Working'
          BY <1>5, <3>1, <3>2, <1>d DEF Finish, Working
    <3> QED
        BY <1>5, <3>2, <3>3, <3>4 DEF Finish, TypeOK, dbVars, history
  <2>2. CASE item[w].status # "leased"
    <3>1. attempt' \in [Execution -> [Work -> {"todo", "run", "done"}]]
          BY <1>5, <2>2, <1>c DEF Finish, Ends
    <3> QED
        BY <1>5, <2>2, <3>1 DEF Finish, TypeOK, Working, dbVars, history
  <2> QED
      BY <2>1, <2>2
<1> QED
    BY <1>1, <1>2, <1>3, <1>4, <1>5 DEF ExecStep

LEMMA TxStepTypeOK ==
  ASSUME TypeOK, Working, NEW x \in Actor, TxUpdate(x) \/ TxCommit(x)
  PROVE  TypeOK' /\ Working'
<1>a. tx \in [Actor -> Tx] /\ ledger \in [Revision -> Account]
      BY DEF TypeOK
<1>b. item \in [Work -> Item] /\ tx[x] \in Tx
      BY DEF TypeOK
<1>c. tx[x].pc # "none" => tx[x].work \in Work /\ PlanOf[tx[x].work] \in Revision
      BY LedgerAssumption DEF Working
<1>1. CASE TxUpdate(x)
  <2>1. ledger[PlanOf[tx[x].work]] \in Account
        BY <1>1, <1>a, <1>c DEF TxUpdate
  <2>2. tx' \in [Actor -> Tx]
        BY <1>1, <1>a, <2>1 DEF TxUpdate, Tx
  <2>3. Working'
        BY <1>1, <1>a, <1>c DEF TxUpdate, Working, Tx
  <2> QED
      BY <1>1, <2>2, <2>3 DEF TxUpdate, TypeOK, dbVars, history
<1>2. CASE TxCommit(x)
  <2> DEFINE t == tx[x]
             r == PlanOf[t.work]
  <2>1. t.work \in Work /\ r \in Revision /\ t.to \in Status /\ t.use \in Nat
        BY <1>2, <1>b, <1>c DEF TxCommit, Tx
  <2>2. item' \in [Work -> Item]
        BY <1>2, <1>b, <2>1 DEF TxCommit, Item
  <2>3. ledger' \in [Revision -> Account]
    <3>1. Settled(ledger[r], t) \in Account
          BY <1>a, <1>b, <2>1, SettledTyped
    <3>2. ledger' = [ledger EXCEPT ![r] = Settled(ledger[r], t)]
          BY <1>2 DEF TxCommit
    <3> QED
        BY <3>1, <3>2, <1>a
  <2>4. tx' \in [Actor -> Tx] /\ Working'
    <3>1. tx' = [tx EXCEPT ![x] = NoTx]
          BY <1>2 DEF TxCommit
    <3>2. tx' \in [Actor -> Tx]
          BY <3>1, <1>a, NoTxTyped
    <3>3. Working'
          BY <1>2, <3>1, <1>a DEF TxCommit, Working, NoTx
    <3> QED
        BY <3>2, <3>3
  <2>5. achieved' \subseteq Work /\ revoked' \subseteq {"lease", "cancel"}
        BY <1>2, <2>1 DEF TxCommit, TypeOK
  <2>6. spent' \in [Revision -> Nat]
    <3>1. spent' = [spent EXCEPT ![r] = @ + t.use]
          BY <1>2 DEF TxCommit
    <3> HIDE DEF r, t
    <3> QED
        BY <3>1, <2>1 DEF TypeOK
  <2>7. attempt' \in [Execution -> [Work -> {"todo", "run", "done"}]]
        BY <1>2 DEF TxCommit, TypeOK
  <2>8. desk' \in [Process -> Desk]
    <3>1. Idle \in Desk
          BY DEF Idle, Desk
    <3> QED
        BY <1>2, <3>1 DEF TxCommit, TypeOK
  <2> QED
      BY <1>2, <2>2, <2>3, <2>4, <2>5, <2>6, <2>7, <2>8 DEF TxCommit, TypeOK
<1> QED
    BY <1>1, <1>2

LEMMA DeskStepTypeOK ==
  ASSUME TypeOK, Working, NEW p \in Process, DeskStep(p)
  PROVE  TypeOK' /\ Working'
<1>a. desk \in [Process -> Desk]
      BY DEF TypeOK
<1>b. item \in [Work -> Item] /\ tx \in [Actor -> Tx] /\ p \in Actor
      BY DEF TypeOK, Actor
<1>1. CASE RecoverRead(p)
  <2>1. desk' \in [Process -> Desk]
        BY <1>1, <1>a DEF RecoverRead, Desk
  <2> QED
      BY <1>1, <2>1 DEF RecoverRead, TypeOK, Working, dbVars, history
<1>2. CASE RecoverCommit(p)
  <2>1. desk' \in [Process -> Desk]
        BY <1>2, <1>a DEF RecoverCommit, Desk, Idle
  <2>2. item' \in [Work -> Item]
        BY <1>2, <1>b DEF RecoverCommit, Item, Status
  <2>3. revoked' \subseteq {"lease", "cancel"}
        BY <1>2 DEF RecoverCommit, TypeOK
  <2> QED
      BY <1>2, <2>1, <2>2, <2>3 DEF RecoverCommit, TypeOK, Working
<1>3. ASSUME NEW w \in Work, CancelWork(p, w) PROVE TypeOK' /\ Working'
  <2>1. desk' \in [Process -> Desk]
        BY <1>3, <1>a DEF CancelWork, Desk
  <2>2. tx' = tx \/ tx' = [tx EXCEPT ![p] = Opened(w, "cancelled", 0)]
        BY <1>3 DEF CancelWork
  <2>3. Opened(w, "cancelled", 0) \in Tx /\ Opened(w, "cancelled", 0).work \in Work
        BY OpenedTyped DEF Status
  <2>4. tx' \in [Actor -> Tx]
        BY <2>2, <2>3, <1>b
  <2>5. Working'
        BY <1>3, <2>2, <2>3, <1>b DEF CancelWork, Working
  <2> QED
      BY <1>3, <2>1, <2>4, <2>5 DEF CancelWork, TypeOK, dbVars, history
<1>4. CASE CancelMark(p)
  <2>1. desk' \in [Process -> Desk]
        BY <1>4, <1>a DEF CancelMark, Desk
  <2> QED
      BY <1>4, <2>1 DEF CancelMark, TypeOK, Working, history
<1>5. CASE CancelKill(p)
  <2>1. desk' \in [Process -> Desk]
        BY <1>5, <1>a DEF CancelKill, Desk, Idle
  <2>2. /\ exec' \in [Execution -> Run]
        /\ attempt' \in [Execution -> [Work -> {"todo", "run", "done"}]]
        /\ tx' \in [Actor -> Tx]
        /\ Working'
        BY <1>5, EndExecutionsTyped DEF CancelKill, TypeOK
  <2> QED
      BY <1>5, <2>1, <2>2 DEF CancelKill, TypeOK, dbVars, history
<1> QED
    BY <1>1, <1>2, <1>3, <1>4, <1>5 DEF DeskStep

LEMMA WorkEnvironmentTypeOK ==
  ASSUME TypeOK, Working, Environment
  PROVE  TypeOK' /\ Working'
<1>a. desk \in [Process -> Desk] /\ faults \in 0..MaxFaults
      BY DEF TypeOK
<1>b. item \in [Work -> Item] /\ tx \in [Actor -> Tx]
      BY DEF TypeOK
<1>c. \A kind : Fault(kind) => faults' \in 0..MaxFaults
      BY <1>a, LedgerAssumption DEF Fault
<1>1. ASSUME NEW e \in Execution, NEW p \in Process, StartExec(e, p)
      PROVE  TypeOK' /\ Working'
  <2>1. revision \in Nat /\ exec \in [Execution -> Run]
        BY LedgerAssumption DEF TypeOK
  <2>2. exec' \in [Execution -> Run]
    <3>1. [pc |-> "orchestrate", at |-> p, rev |-> 0] \in Run
          BY DEF Run
    <3>2. [pc |-> "dispatch", at |-> p, rev |-> revision] \in Run
          BY <2>1 DEF Run
    <3> QED
        BY <1>1, <2>1, <3>1, <3>2 DEF StartExec
  <2>3. attempt' \in [Execution -> [Work -> {"todo", "run", "done"}]]
        BY <1>1 DEF StartExec, Fresh, TypeOK
  <2>4. \A f \in Execution : exec'[f].pc = "plan" => exec'[f] = exec[f]
        BY <1>1, <2>1 DEF StartExec
  <2> QED
      BY <1>1, <2>2, <2>3, <2>4 DEF StartExec, TypeOK, Working, dbVars, history
<1>2. ASSUME NEW p \in Process, CancelList(p) PROVE TypeOK' /\ Working'
  <2>1. desk' \in [Process -> Desk]
        BY <1>2, <1>a DEF CancelList, Desk
  <2> QED
      BY <1>2, <2>1, <1>c DEF CancelList, TypeOK, Working, dbVars
<1>3. ASSUME NEW p \in Process, Crash(p) PROVE TypeOK' /\ Working'
  <2>1. desk' \in [Process -> Desk]
        BY <1>3, <1>a DEF Crash, Desk, Booting
  <2>2. /\ exec' \in [Execution -> Run]
        /\ attempt' \in [Execution -> [Work -> {"todo", "run", "done"}]]
        /\ tx' \in [Actor -> Tx]
        /\ Working'
        BY <1>3, EndExecutionsTyped DEF Crash, TypeOK
  <2> QED
      BY <1>3, <1>c, <2>1, <2>2 DEF Crash, TypeOK, dbVars
<1>4. ASSUME NEW p \in Process, NEW w \in Work, NEW to \in {"queued", "cancelled"},
             Confirm(p, w, to)
      PROVE  TypeOK' /\ Working'
  <2>1. desk' \in [Process -> Desk]
        BY <1>4, <1>a DEF Confirm, Desk
  <2>2. tx' = [tx EXCEPT ![p] = Opened(w, to, 0)]
        BY <1>4 DEF Confirm
  <2>3. Opened(w, to, 0) \in Tx /\ Opened(w, to, 0).work \in Work
        BY OpenedTyped DEF Status
  <2>4. tx' \in [Actor -> Tx]
        BY <2>2, <2>3, <1>b
  <2>5. Working'
        BY <1>4, <2>2, <2>3, <1>b DEF Confirm, Working
  <2> QED
      BY <1>4, <1>c, <2>1, <2>4, <2>5 DEF Confirm, TypeOK, dbVars
<1>5. ASSUME NEW e \in Execution, Abort(e) PROVE TypeOK' /\ Working'
  <2>1. /\ exec' \in [Execution -> Run]
        /\ attempt' \in [Execution -> [Work -> {"todo", "run", "done"}]]
        /\ tx' \in [Actor -> Tx]
        /\ Working'
        BY <1>5, EndExecutionsTyped DEF Abort, TypeOK
  <2> QED
      BY <1>5, <1>c, <2>1 DEF Abort, TypeOK, dbVars
<1>6. ASSUME NEW w \in Work, LeaseLapse(w) PROVE TypeOK' /\ Working'
  <2>1. item' \in [Work -> Item]
        BY <1>6, <1>b DEF LeaseLapse, Item
  <2>2. revoked' \subseteq {"lease", "cancel"}
        BY <1>6 DEF LeaseLapse, TypeOK
  <2> QED
      BY <1>6, <2>1, <2>2 DEF LeaseLapse, TypeOK, Working, memVars
<1> QED
    BY <1>1, <1>2, <1>3, <1>4, <1>5, <1>6 DEF Environment

LEMMA WorkStepTypeOK == TypeOK /\ Working /\ [Next]_vars => (TypeOK /\ Working)'
<1> SUFFICES ASSUME TypeOK, Working, [Next]_vars PROVE TypeOK' /\ Working'
    OBVIOUS
<1>1. CASE UNCHANGED vars
      BY <1>1 DEF TypeOK, Working, vars, dbVars, memVars, history
<1> QED
    BY <1>1, ExecStepTypeOK, DeskStepTypeOK, TxStepTypeOK, WorkEnvironmentTypeOK DEF Next

\* Columns and fields keep their shape; no sequence of settlements drives a
\* reservation below zero.  The strengthening says that an open transaction
\* knows its item.
THEOREM WorkTypeCorrect == Spec => []TypeOK
  BY InitWorkTypeOK, WorkStepTypeOK, PTL DEF Spec

-----------------------------------------------------------------------------
(* One attempt at a time, dependencies first, and reservations that cover  *)
(* the outstanding work: for every set of processes, executions and items, *)
(* every plan structure and every bound on faults.                         *)

-----------------------------------------------------------------------------
(* The steps that matter to attempts, items and transactions *)

\* Steps of requests and executions that leave all of these alone.
Aside ==
  /\ UNCHANGED <<item, ledger, revision, attempt, tx, revoked, achieved>>
  /\ \A e \in Execution : /\ exec'[e].pc # "idle" => exec[e].pc # "idle"
                          /\ exec'[e].pc = "dispatch" => exec'[e] = exec[e]

\* Executions end where they are: killed, aborted, or with their process.
Ending ==
  /\ \E E, P : EndExecutions(E, P)
  /\ UNCHANGED <<item, ledger, revision, revoked, achieved>>

WorkStep ==
  \/ Aside
  \/ Ending
  \/ \E e \in Execution : CreatePlan(e) \/ \E p \in Process : StartExec(e, p)
  \/ \E e \in Execution, w \in Work : Claim(e, w)
  \/ \E e \in Execution, w \in Work, use \in Usage,
        to \in {"succeeded", "incomplete", "failed"} : Finish(e, w, to, use)
  \/ \E x \in Actor : TxUpdate(x) \/ TxCommit(x)
  \/ \E p \in Process, w \in Work : CancelWork(p, w)
  \/ \E p \in Process, w \in Work, to \in {"queued", "cancelled"} : Confirm(p, w, to)
  \/ \E p \in Process : RecoverCommit(p)
  \/ \E w \in Work : LeaseLapse(w)

LEMMA EveryWorkStep ==
  ASSUME TypeOK, [Next]_vars
  PROVE  WorkStep
<1>a. exec \in [Execution -> Run]
      BY DEF TypeOK
<1>1. CASE UNCHANGED vars
      BY <1>1 DEF WorkStep, Aside, vars, dbVars, memVars, history
<1>2. ASSUME NEW e \in Execution, ExecStep(e) PROVE WorkStep
  <2>1. CASE ReadTurn(e)
        BY <2>1, <1>a DEF ReadTurn, WorkStep, Aside, dbVars, history, Run
  <2>2. CASE EndRound(e)
        BY <2>2, <1>a DEF EndRound, WorkStep, Aside, dbVars, history, Run
  <2> QED
      BY <1>2, <2>1, <2>2 DEF ExecStep, WorkStep
<1>3. ASSUME NEW p \in Process, DeskStep(p) PROVE WorkStep
  <2>1. CASE RecoverRead(p)
        BY <2>1 DEF RecoverRead, WorkStep, Aside, dbVars, history
  <2>2. CASE CancelMark(p)
        BY <2>2 DEF CancelMark, WorkStep, Aside, history
  <2>3. CASE CancelKill(p)
        BY <2>3 DEF CancelKill, WorkStep, Ending, dbVars, history
  <2> QED
      BY <1>3, <2>1, <2>2, <2>3 DEF DeskStep, WorkStep
<1>4. CASE Environment
  <2>1. ASSUME NEW p \in Process, CancelList(p) PROVE WorkStep
        BY <2>1 DEF CancelList, WorkStep, Aside, dbVars
  <2>2. ASSUME NEW p \in Process, Crash(p) PROVE WorkStep
        BY <2>2 DEF Crash, WorkStep, Ending, dbVars
  <2>3. ASSUME NEW e \in Execution, Abort(e) PROVE WorkStep
        BY <2>3 DEF Abort, WorkStep, Ending, dbVars
  <2> QED
      BY <1>4, <2>1, <2>2, <2>3 DEF Environment, WorkStep
<1> QED
    BY <1>1, <1>2, <1>3, <1>4 DEF Next, WorkStep

\* How an attempt comes to run.
Claims(e, w) ==
  /\ Claimable(w)
  /\ DepsSucceeded(w)
  /\ exec[e].pc = "dispatch"
  /\ PlanOf[w] = exec[e].rev
  /\ attempt[e][w] = "todo"
  /\ item' = [item EXCEPT ![w] = [status |-> "leased", lease |-> "live"]]
  /\ attempt' = [attempt EXCEPT ![e][w] = "run"]
  /\ UNCHANGED <<revision, ledger, exec, tx, revoked, achieved>>

\* An item that waits for what will never succeed.
Blocks(e, w) ==
  /\ item' = item \/ (Claimable(w) /\ item' = [item EXCEPT ![w].status = "blocked"])
  /\ Ends(e, w)
  /\ UNCHANGED <<revision, ledger, exec, tx, revoked, achieved>>

LEMMA ClaimKind ==
  ASSUME NEW e \in Execution, NEW w \in Work, Claim(e, w)
  PROVE  Claims(e, w) \/ Blocks(e, w)
<1>1. CASE Claimable(w) /\ DepsSucceeded(w)
      BY <1>1 DEF Claim, Turn, Claims, history
<1>2. CASE ~(Claimable(w) /\ DepsSucceeded(w))
      BY <1>2 DEF Claim, Blocks, history
<1> QED
    BY <1>1, <1>2

\* Only a claim makes an attempt run.
LEMMA OnlyClaimsRun ==
  ASSUME TypeOK, [Next]_vars, NEW e \in Execution, NEW w \in Work, Busy(e, w)'
  PROVE  Busy(e, w) \/ Claims(e, w)
<1>a. attempt \in [Execution -> [Work -> {"todo", "run", "done"}]]
      BY DEF TypeOK
<1>1. CASE Aside
      BY <1>1 DEF Aside, Busy
<1>2. CASE Ending
      BY <1>2 DEF Ending, EndExecutions, Busy
<1>3. ASSUME NEW f \in Execution, CreatePlan(f) PROVE Busy(e, w)
      BY <1>3 DEF CreatePlan, Busy
<1>4. ASSUME NEW f \in Execution, NEW p \in Process, StartExec(f, p) PROVE Busy(e, w)
      BY <1>4, <1>a DEF StartExec, Fresh, Busy
<1>5. ASSUME NEW f \in Execution, NEW v \in Work, Claim(f, v)
      PROVE  Busy(e, w) \/ Claims(e, w)
  <2>1. CASE Claims(f, v)
        BY <2>1, <1>a DEF Claims, Busy
  <2>2. CASE Blocks(f, v)
        BY <2>2, <1>a DEF Blocks, Ends, Busy
  <2> QED
      BY <1>5, <2>1, <2>2, ClaimKind
<1>6. ASSUME NEW f \in Execution, NEW v \in Work, NEW use \in Usage,
             NEW to \in {"succeeded", "incomplete", "failed"}, Finish(f, v, to, use)
      PROVE  Busy(e, w)
      BY <1>6, <1>a DEF Finish, Ends, Busy
<1>7. ASSUME NEW x \in Actor, TxUpdate(x) \/ TxCommit(x) PROVE Busy(e, w)
      BY <1>7, <1>a DEF TxUpdate, TxCommit, Busy
<1>8. ASSUME NEW p \in Process, NEW v \in Work, CancelWork(p, v) PROVE Busy(e, w)
      BY <1>8 DEF CancelWork, Busy
<1>9. ASSUME NEW p \in Process, NEW v \in Work, NEW to \in {"queued", "cancelled"},
             Confirm(p, v, to)
      PROVE  Busy(e, w)
      BY <1>9 DEF Confirm, Busy
<1>10. ASSUME NEW p \in Process, RecoverCommit(p) PROVE Busy(e, w)
      BY <1>10 DEF RecoverCommit, Busy
<1>11. ASSUME NEW v \in Work, LeaseLapse(v) PROVE Busy(e, w)
      BY <1>11 DEF LeaseLapse, memVars, Busy
<1> QED
    BY <1>1, <1>2, <1>3, <1>4, <1>5, <1>6, <1>7, <1>8, <1>9, <1>10, <1>11,
       EveryWorkStep DEF WorkStep

-----------------------------------------------------------------------------
(* Dependencies first *)

\* What succeeded was achieved: the ledger's word for it can be trusted.
Proven == \A w \in Work : item[w].status = "succeeded" => w \in achieved

LEMMA AchievedGrows ==
  ASSUME TypeOK, Working, [Next]_vars
  PROVE  achieved \subseteq achieved' /\ (Proven => Proven')
<1>a. item \in [Work -> Item]
      BY DEF TypeOK
<1> DEFINE G == achieved \subseteq achieved' /\ (Proven => Proven')
<1>1. CASE Aside
      BY <1>1 DEF Aside, Proven
<1>2. CASE Ending
      BY <1>2 DEF Ending, Proven
<1>3. ASSUME NEW f \in Execution, CreatePlan(f) PROVE G
      BY <1>3, <1>a DEF CreatePlan, Proven, NoItem, history
<1>4. ASSUME NEW f \in Execution, NEW p \in Process, StartExec(f, p) PROVE G
      BY <1>4 DEF StartExec, Proven, dbVars, history
<1>5. ASSUME NEW f \in Execution, NEW v \in Work, Claim(f, v) PROVE G
  <2>1. CASE Claims(f, v)
        BY <2>1, <1>a DEF Claims, Proven
  <2>2. CASE Blocks(f, v)
        BY <2>2, <1>a DEF Blocks, Proven, Item
  <2> QED
      BY <1>5, <2>1, <2>2, ClaimKind
<1>6. ASSUME NEW f \in Execution, NEW v \in Work, NEW use \in Usage,
             NEW to \in {"succeeded", "incomplete", "failed"}, Finish(f, v, to, use)
      PROVE  G
      BY <1>6 DEF Finish, Proven, dbVars, history
<1>7. ASSUME NEW x \in Actor, TxUpdate(x) PROVE G
      BY <1>7 DEF TxUpdate, Proven, dbVars, history
<1>8. ASSUME NEW x \in Actor, TxCommit(x) PROVE G
      BY <1>8, <1>a DEF TxCommit, Proven
<1>9. ASSUME NEW p \in Process, NEW v \in Work, CancelWork(p, v) PROVE G
      BY <1>9 DEF CancelWork, Proven, dbVars, history
<1>10. ASSUME NEW p \in Process, NEW v \in Work, NEW to \in {"queued", "cancelled"},
              Confirm(p, v, to)
       PROVE  G
       BY <1>10 DEF Confirm, Proven, dbVars
<1>11. ASSUME NEW p \in Process, RecoverCommit(p) PROVE G
       BY <1>11 DEF RecoverCommit, Proven
<1>12. ASSUME NEW v \in Work, LeaseLapse(v) PROVE G
       BY <1>12, <1>a DEF LeaseLapse, Proven, Item
<1> QED
    BY <1>1, <1>2, <1>3, <1>4, <1>5, <1>6, <1>7, <1>8, <1>9, <1>10, <1>11, <1>12,
       EveryWorkStep DEF WorkStep

\* An attempt runs only after every dependency of its item was committed as
\* succeeded, by whichever execution: the claim trusts the status, and a
\* succeeded item was achieved (Proven).
THEOREM DependenciesHold == Spec => []DependenciesFirst
<1>1. Init => Proven /\ DependenciesFirst
      BY DEF Init, Proven, DependenciesFirst, Busy, NoItem
<1>2. ASSUME TypeOK, Working, Proven, DependenciesFirst, [Next]_vars
      PROVE  DependenciesFirst'
  <2> SUFFICES ASSUME NEW e \in Execution, NEW w \in Work, Busy(e, w)'
               PROVE  Deps[w] \subseteq achieved'
      BY DEF DependenciesFirst
  <2>1. CASE Busy(e, w)
        BY <1>2, <2>1, AchievedGrows DEF DependenciesFirst
  <2>2. CASE Claims(e, w)
    <3>1. Deps[w] \subseteq Work
          BY LedgerAssumption
    <3>2. \A d \in Deps[w] : item[d].status = "succeeded"
          BY <2>2 DEF Claims, DepsSucceeded
    <3> QED
        BY <1>2, <3>1, <3>2, AchievedGrows DEF Proven
  <2> QED
      BY <1>2, <2>1, <2>2, OnlyClaimsRun
<1>3. TypeOK /\ Working /\ Proven /\ DependenciesFirst /\ [Next]_vars
        => (TypeOK /\ Working /\ Proven /\ DependenciesFirst)'
      BY <1>2, WorkStepTypeOK, AchievedGrows
<1> QED
    BY <1>1, <1>3, InitWorkTypeOK, PTL DEF Spec

-----------------------------------------------------------------------------
(* One attempt at a time *)

\* What executions, transactions and handlers are about.  Items of plans not yet
\* committed are absent and nobody knows them; items the learner must confirm are
\* never run; the transaction of an attempt is about its item.
Begun ==
  /\ \A e \in Execution, w \in Unconfirmed : exec[e].pc # "idle" => attempt[e][w] = "done"
  /\ \A e \in Execution : exec[e].pc = "dispatch" => exec[e].rev <= revision
  /\ \A e \in Execution, w \in Work :
       Busy(e, w) => /\ exec[e].pc # "idle"
                     /\ w \notin Unconfirmed
                     /\ PlanOf[w] <= revision

Listed ==
  /\ \A w \in Work : item[w].status # "absent" <=> PlanOf[w] <= revision
  /\ \A w \in Work : item[w].status = "waiting_confirmation" => w \in Unconfirmed
  /\ \A p \in Process : \A w \in desk[p].todo : PlanOf[w] <= revision

Signed ==
  \A x \in Actor : tx[x].pc # "none" =>
    /\ PlanOf[tx[x].work] <= revision
    /\ tx[x].to \in {"succeeded", "incomplete", "failed", "cancelled", "queued"}
    /\ tx[x].to = "queued" => tx[x].work \in Unconfirmed
    /\ x \in Process => tx[x].to \in {"cancelled", "queued"}
    /\ \A e \in Execution, w \in Work : x = <<e, w>> =>
         tx[x].work = w /\ Busy(e, w) /\ tx[x].to \in {"succeeded", "incomplete", "failed"}

Bookkeeping == Begun /\ Listed /\ Signed

LEMMA RevisionGrows ==
  ASSUME TypeOK, Working, [Next]_vars
  PROVE  revision \in Nat /\ revision' \in Nat /\ revision <= revision'
<1>1. revision \in Nat /\ revision' \in Nat
      BY WorkStepTypeOK, LedgerAssumption DEF TypeOK
<1>2. revision' = revision \/ \E e \in Execution : CreatePlan(e)
      BY EveryWorkStep DEF WorkStep, Aside, Ending, StartExec, Claim, Finish, TxUpdate,
         TxCommit, CancelWork, Confirm, RecoverCommit, LeaseLapse, dbVars
<1>3. ASSUME NEW e \in Execution, CreatePlan(e) PROVE revision <= revision'
  <2>1. revision' = revision \/ (revision = exec[e].rev /\ revision' = exec[e].rev + 1)
        BY <1>3 DEF CreatePlan
  <2> QED
      BY <2>1, <1>1
<1> QED
    BY <1>1, <1>2, <1>3

LEMMA PlanNat == \A w \in Work : PlanOf[w] \in Nat
  BY LedgerAssumption DEF Revision

LEMMA NeverIdleAgain ==
  ASSUME TypeOK, [Next]_vars, NEW e \in Execution, exec[e].pc # "idle"
  PROVE  exec'[e].pc # "idle"
<1>a. exec \in [Execution -> Run]
      BY DEF TypeOK
<1> DEFINE G == exec'[e].pc # "idle"
<1>1. CASE UNCHANGED vars
      BY <1>1 DEF vars, memVars
<1>2. ASSUME NEW f \in Execution, ExecStep(f) PROVE G
  <2>1. CASE ReadTurn(f)
        BY <2>1, <1>a DEF ReadTurn, Run
  <2>2. CASE CreatePlan(f)
        BY <2>2, <1>a DEF CreatePlan, Run
  <2>3. CASE EndRound(f)
        BY <2>3, <1>a DEF EndRound, Run
  <2>4. CASE exec' = exec
        BY <2>4
  <2> QED
      BY <1>2, <2>1, <2>2, <2>3, <2>4 DEF ExecStep, Claim, Finish
<1>3. ASSUME NEW E, NEW P, EndExecutions(E, P) PROVE G
      BY <1>3, <1>a DEF EndExecutions, Run
<1>4. ASSUME NEW f \in Execution, NEW p \in Process, StartExec(f, p) PROVE G
      BY <1>4, <1>a DEF StartExec
<1>5. CASE exec' = exec
      BY <1>5
<1>6. ASSUME NEW x \in Actor, TxUpdate(x) \/ TxCommit(x) PROVE exec' = exec
      BY <1>6 DEF TxUpdate, TxCommit
<1>7. ASSUME NEW p \in Process, DeskStep(p) PROVE G
      BY <1>3, <1>5, <1>7
      DEF DeskStep, RecoverRead, RecoverCommit, CancelWork, CancelMark, CancelKill
<1>8. CASE Environment
      BY <1>3, <1>4, <1>5, <1>8
      DEF Environment, CancelList, Crash, Confirm, Abort, LeaseLapse, memVars
<1> QED
    BY <1>1, <1>2, <1>5, <1>6, <1>7, <1>8 DEF Next

LEMMA BegunStep ==
  ASSUME TypeOK, Working, Begun, [Next]_vars
  PROVE  Begun'
<1>a. /\ attempt \in [Execution -> [Work -> {"todo", "run", "done"}]]
      /\ exec \in [Execution -> Run]
      BY DEF TypeOK
<1>b. revision \in Nat /\ revision' \in Nat /\ revision <= revision'
      BY RevisionGrows
<1>c. Unconfirmed \subseteq Work
      BY LedgerAssumption
<1>1. \A e \in Execution, w \in Work :
        Busy(e, w)' => exec'[e].pc # "idle" /\ w \notin Unconfirmed /\ PlanOf[w] <= revision'
  <2> SUFFICES ASSUME NEW e \in Execution, NEW w \in Work, Busy(e, w)'
               PROVE  exec'[e].pc # "idle" /\ w \notin Unconfirmed /\ PlanOf[w] <= revision'
      OBVIOUS
  <2>1. CASE Busy(e, w)
        BY <2>1, <1>b, PlanNat, NeverIdleAgain DEF Begun
  <2>2. CASE Claims(e, w)
        BY <2>2, <1>b, <1>a DEF Claims, Begun
  <2> QED
      BY <2>1, <2>2, OnlyClaimsRun
<1>2. \A e \in Execution, w \in Unconfirmed : exec'[e].pc # "idle" => attempt'[e][w] = "done"
  <2> SUFFICES ASSUME NEW e \in Execution, NEW w \in Unconfirmed, exec'[e].pc # "idle"
               PROVE  attempt'[e][w] = "done"
      OBVIOUS
  <2>1. CASE Aside
        BY <2>1 DEF Aside, Begun
  <2>2. CASE Ending
        BY <2>2, <1>c DEF Ending, EndExecutions, Begun
  <2>3. ASSUME NEW f \in Execution, CreatePlan(f) PROVE attempt'[e][w] = "done"
        BY <2>3, <1>a DEF CreatePlan, Begun
  <2>4. ASSUME NEW f \in Execution, NEW p \in Process, StartExec(f, p)
        PROVE  attempt'[e][w] = "done"
        BY <2>4, <1>a, <1>c DEF StartExec, Fresh, Begun
  <2>5. ASSUME NEW f \in Execution, NEW v \in Work, Claim(f, v)
        PROVE  attempt'[e][w] = "done"
    <3>1. CASE Claims(f, v)
          BY <3>1, <1>a, <1>c DEF Claims, Begun
    <3>2. CASE Blocks(f, v)
          BY <3>2, <1>a, <1>c DEF Blocks, Ends, Begun
    <3> QED
        BY <2>5, <3>1, <3>2, <1>c, ClaimKind
  <2>6. ASSUME NEW f \in Execution, NEW v \in Work, NEW use \in Usage,
               NEW to \in {"succeeded", "incomplete", "failed"}, Finish(f, v, to, use)
        PROVE  attempt'[e][w] = "done"
        BY <2>6, <1>a, <1>c DEF Finish, Ends, Begun
  <2>7. ASSUME NEW x \in Actor, TxUpdate(x) \/ TxCommit(x) PROVE attempt'[e][w] = "done"
        BY <2>7, <1>a, <1>c DEF TxUpdate, TxCommit, Begun
  <2>8. ASSUME NEW p \in Process, NEW v \in Work, CancelWork(p, v)
        PROVE  attempt'[e][w] = "done"
        BY <2>8 DEF CancelWork, Begun
  <2>9. ASSUME NEW p \in Process, NEW v \in Work, NEW to \in {"queued", "cancelled"},
               Confirm(p, v, to)
        PROVE  attempt'[e][w] = "done"
        BY <2>9 DEF Confirm, Begun
  <2>10. ASSUME NEW p \in Process, RecoverCommit(p) PROVE attempt'[e][w] = "done"
        BY <2>10 DEF RecoverCommit, Begun
  <2>11. ASSUME NEW v \in Work, LeaseLapse(v) PROVE attempt'[e][w] = "done"
        BY <2>11 DEF LeaseLapse, memVars, Begun
  <2> QED
      BY <2>1, <2>2, <2>3, <2>4, <2>5, <2>6, <2>7, <2>8, <2>9, <2>10, <2>11,
         EveryWorkStep DEF WorkStep
<1>3. \A e \in Execution : exec'[e].pc = "dispatch" => exec'[e].rev <= revision'
  <2> SUFFICES ASSUME NEW e \in Execution, exec'[e].pc = "dispatch"
               PROVE  exec'[e].rev <= revision'
      OBVIOUS
  <2>a. exec[e].rev \in Nat
        BY <1>a DEF Run
  <2>1. CASE exec'[e] = exec[e]
        BY <2>1, <2>a, <1>b DEF Begun
  <2>2. ASSUME NEW f \in Execution, CreatePlan(f), exec'[e] # exec[e]
        PROVE  exec'[e].rev <= revision'
    <3> DEFINE won == revision = exec[f].rev
                      /\ TotalConsumed + Cardinality(Planned(exec[f].rev + 1)) <= Limit
    <3>1. e = f
          BY <2>2, <1>a DEF CreatePlan
    <3>2. won
      <4>1. ~won => exec' = [exec EXCEPT ![f] = [@ EXCEPT !.pc = "over"]]
            BY <2>2 DEF CreatePlan
      <4> QED
          BY <4>1, <3>1, <1>a DEF Run
    <3>3. exec' = [exec EXCEPT ![f] = [@ EXCEPT !.pc = "dispatch", !.rev = exec[f].rev + 1]]
          /\ revision' = exec[f].rev + 1
          BY <2>2, <3>2 DEF CreatePlan
    <3> QED
        BY <3>1, <3>3, <1>a, <1>b DEF Run
  <2>3. ASSUME NEW f \in Execution, NEW p \in Process, StartExec(f, p)
        PROVE  exec'[e] = exec[e] \/ exec'[e].rev <= revision'
        BY <2>3, <1>a, <1>b DEF StartExec, dbVars
  <2>5. CASE Aside
        BY <2>5, <1>b, <2>a DEF Aside, Begun
  <2>6. \/ exec' = exec \/ Ending \/ Aside
        \/ \E f \in Execution : CreatePlan(f) \/ \E p \in Process : StartExec(f, p)
        BY EveryWorkStep DEF WorkStep, Claim, Finish, TxUpdate, TxCommit, CancelWork,
           Confirm, RecoverCommit, LeaseLapse, memVars
  <2>7. CASE Ending /\ exec'[e] # exec[e]
        BY <2>7, <1>a DEF Ending, EndExecutions, Run
  <2> QED
      BY <2>1, <2>2, <2>3, <2>5, <2>6, <2>7
<1> QED
    BY <1>1, <1>2, <1>3 DEF Begun, Busy

\* An item is listed by a handler only once it exists.
LEMMA DeskLists ==
  ASSUME TypeOK, [Next]_vars, NEW p \in Process, NEW w \in desk'[p].todo
  PROVE  w \in desk[p].todo \/ (w \in Work /\ item[w].status # "absent")
<1>a. desk \in [Process -> Desk]
      BY DEF TypeOK
<1> DEFINE G == w \in desk[p].todo \/ (w \in Work /\ item[w].status # "absent")
<1>1. CASE UNCHANGED vars
      BY <1>1 DEF vars, memVars
<1>2. ASSUME NEW e \in Execution, ExecStep(e) PROVE G
  <2>1. desk' = desk
        BY <1>2 DEF ExecStep, ReadTurn, CreatePlan, EndRound, Claim, Finish
  <2> QED
      BY <2>1
<1>3. ASSUME NEW q \in Process, DeskStep(q) PROVE G
  <2>1. CASE RecoverRead(q)
        BY <2>1, <1>a DEF RecoverRead, Expired
  <2>2. CASE RecoverCommit(q)
        BY <2>2, <1>a DEF RecoverCommit, Idle
  <2>3. ASSUME NEW v \in Work, CancelWork(q, v) PROVE G
        BY <2>3, <1>a DEF CancelWork, Desk
  <2>4. CASE CancelMark(q)
        BY <2>4, <1>a DEF CancelMark, Desk
  <2>5. CASE CancelKill(q)
        BY <2>5, <1>a DEF CancelKill, Idle
  <2> QED
      BY <1>3, <2>1, <2>2, <2>3, <2>4, <2>5 DEF DeskStep
<1>4. ASSUME NEW x \in Actor, TxUpdate(x) \/ TxCommit(x) PROVE G
      BY <1>4, <1>a DEF TxUpdate, TxCommit, Idle
<1>5. CASE Environment
  <2>1. ASSUME NEW e \in Execution, NEW q \in Process, StartExec(e, q) PROVE G
        BY <2>1 DEF StartExec
  <2>2. ASSUME NEW q \in Process, CancelList(q) PROVE G
        BY <2>2, <1>a DEF CancelList
  <2>3. ASSUME NEW q \in Process, Crash(q) PROVE G
        BY <2>3, <1>a DEF Crash, Booting
  <2>4. ASSUME NEW q \in Process, NEW v \in Work, NEW to \in {"queued", "cancelled"},
               Confirm(q, v, to)
        PROVE  G
        BY <2>4, <1>a DEF Confirm, Desk
  <2>5. ASSUME NEW e \in Execution, Abort(e) PROVE G
        BY <2>5 DEF Abort
  <2>6. ASSUME NEW v \in Work, LeaseLapse(v) PROVE G
        BY <2>6 DEF LeaseLapse, memVars
  <2> QED
      BY <1>5, <2>1, <2>2, <2>3, <2>4, <2>5, <2>6 DEF Environment
<1> QED
    BY <1>1, <1>2, <1>3, <1>4, <1>5 DEF Next

\* A plan is committed for the revision after the current one, and no other.
LEMMA PlanKind ==
  ASSUME NEW e \in Execution, CreatePlan(e)
  PROVE  \/ UNCHANGED <<revision, ledger, item>>
         \/ /\ revision' = revision + 1
            /\ ledger' = [ledger EXCEPT ![revision'].reserved = Cardinality(Planned(revision'))]
            /\ \A w \in Work : w \notin Planned(revision') => item'[w] = item[w]
            /\ \A w \in Planned(revision') :
                 item'[w].status = IF w \in Unconfirmed THEN "waiting_confirmation" ELSE "queued"
<1> DEFINE r == exec[e].rev + 1
           won == revision = exec[e].rev /\ TotalConsumed + Cardinality(Planned(r)) <= Limit
<1>1. CASE won
  <2>1. revision' = r /\ revision' = revision + 1
        BY <1>1 DEF CreatePlan
  <2>2. item' = [w \in Work |->
                   IF w \notin Planned(r) THEN item[w]
                   ELSE [NoItem EXCEPT !.status =
                           IF w \in Unconfirmed THEN "waiting_confirmation" ELSE "queued"]]
        BY <1>1 DEF CreatePlan
  <2>3. \A w \in Planned(r) :
          item'[w].status = IF w \in Unconfirmed THEN "waiting_confirmation" ELSE "queued"
        BY <2>2 DEF Planned, NoItem
  <2>4. \A w \in Work : w \notin Planned(r) => item'[w] = item[w]
        BY <2>2
  <2>5. ledger' = [ledger EXCEPT ![r].reserved = Cardinality(Planned(r))]
        BY <1>1 DEF CreatePlan
  <2> HIDE DEF r
  <2> QED
      BY <2>1, <2>3, <2>4, <2>5
<1>2. CASE ~won
      BY <1>2 DEF CreatePlan
<1> QED
    BY <1>1, <1>2

LEMMA ListedStep ==
  ASSUME TypeOK, Working, Bookkeeping, [Next]_vars
  PROVE  Listed'
<1>a. item \in [Work -> Item] /\ tx \in [Actor -> Tx]
      BY DEF TypeOK
<1>b. revision \in Nat /\ revision' \in Nat /\ revision <= revision'
      BY RevisionGrows
<1>c. Listed /\ Signed
      BY DEF Bookkeeping
<1> DEFINE Exists == \A w \in Work : item'[w].status # "absent" <=> PlanOf[w] <= revision'
           Waits == \A w \in Work : item'[w].status = "waiting_confirmation" => w \in Unconfirmed
<1>1. \A p \in Process : \A w \in desk'[p].todo : PlanOf[w] <= revision'
  <2> SUFFICES ASSUME NEW p \in Process, NEW w \in desk'[p].todo
               PROVE  PlanOf[w] <= revision'
      OBVIOUS
  <2>1. w \in Work
        BY WorkStepTypeOK DEF TypeOK, Desk
  <2>2. PlanOf[w] <= revision
        BY <1>c, DeskLists DEF Listed
  <2> QED
      BY <2>1, <2>2, <1>b, PlanNat
<1>2. Exists /\ Waits
  <2>1. CASE UNCHANGED <<item, revision>>
        BY <2>1, <1>c DEF Listed
  <2>2. ASSUME NEW f \in Execution, CreatePlan(f) PROVE Exists /\ Waits
    <3>1. CASE UNCHANGED <<revision, ledger, item>>
          BY <3>1, <1>c DEF Listed
    <3>2. CASE revision' = revision + 1
               /\ (\A w \in Work : w \notin Planned(revision') => item'[w] = item[w])
               /\ \A w \in Planned(revision') :
                    item'[w].status = IF w \in Unconfirmed THEN "waiting_confirmation" ELSE "queued"
      <4> SUFFICES ASSUME NEW w \in Work
                   PROVE  /\ item'[w].status # "absent" <=> PlanOf[w] <= revision'
                          /\ item'[w].status = "waiting_confirmation" => w \in Unconfirmed
          OBVIOUS
      <4>1. CASE PlanOf[w] = revision'
            BY <3>2, <4>1, <1>b DEF Planned
      <4>2. CASE PlanOf[w] # revision'
        <5>1. item'[w] = item[w]
              BY <3>2, <4>2 DEF Planned
        <5>2. PlanOf[w] <= revision' <=> PlanOf[w] <= revision
              BY <3>2, <4>2, <1>b, PlanNat
        <5> QED
            BY <5>1, <5>2, <1>c DEF Listed
      <4> QED
          BY <4>1, <4>2
    <3> QED
        BY <2>2, <3>1, <3>2, PlanKind
  <2>3. ASSUME NEW f \in Execution, NEW v \in Work, Claim(f, v) PROVE Exists /\ Waits
    <3>1. CASE Claims(f, v)
          BY <3>1, <1>a, <1>c DEF Claims, Claimable, Expired, Listed
    <3>2. CASE Blocks(f, v)
          BY <3>2, <1>a, <1>c DEF Blocks, Claimable, Expired, Listed, Item
    <3> QED
        BY <2>3, <3>1, <3>2, ClaimKind
  <2>4. ASSUME NEW x \in Actor, TxCommit(x) PROVE Exists /\ Waits
    <3>1. /\ tx[x].to \in {"succeeded", "incomplete", "failed", "cancelled", "queued"}
          /\ PlanOf[tx[x].work] <= revision
          BY <2>4, <1>c DEF TxCommit, Signed
    <3>2. item' = [item EXCEPT ![tx[x].work] = [status |-> tx[x].to, lease |-> "none"]]
          /\ revision' = revision
          BY <2>4 DEF TxCommit
    <3> QED
        BY <3>1, <3>2, <1>a, <1>c DEF Listed
  <2>5. ASSUME NEW p \in Process, RecoverCommit(p) PROVE Exists /\ Waits
    <3>1. revision' = revision /\ \A w \in Work :
            \/ w \notin desk[p].todo /\ item'[w] = item[w]
            \/ w \in desk[p].todo /\ item'[w].status \in {"blocked", "queued"}
          BY <2>5 DEF RecoverCommit
    <3> QED
        BY <3>1, <1>c DEF Listed
  <2>6. ASSUME NEW v \in Work, LeaseLapse(v) PROVE Exists /\ Waits
        BY <2>6, <1>a, <1>c DEF LeaseLapse, Listed, Item
  <2> QED
      BY <2>1, <2>2, <2>3, <2>4, <2>5, <2>6, EveryWorkStep
      DEF WorkStep, Aside, Ending, StartExec, Finish, TxUpdate, CancelWork, Confirm, dbVars
<1> QED
    BY <1>1, <1>2 DEF Listed

\* What Signed says of one transaction t held by x.
SignedTx(x, t) ==
  /\ PlanOf[t.work] <= revision
  /\ t.to \in {"succeeded", "incomplete", "failed", "cancelled", "queued"}
  /\ t.to = "queued" => t.work \in Unconfirmed
  /\ x \in Process => t.to \in {"cancelled", "queued"}
  /\ \A e \in Execution, w \in Work : x = <<e, w>> =>
       t.work = w /\ Busy(e, w) /\ t.to \in {"succeeded", "incomplete", "failed"}

LEMMA SignedStep ==
  ASSUME TypeOK, Working, Bookkeeping, [Next]_vars
  PROVE  Signed'
<1>a. /\ tx \in [Actor -> Tx]
      /\ attempt \in [Execution -> [Work -> {"todo", "run", "done"}]]
      BY DEF TypeOK
<1>b. revision \in Nat /\ revision' \in Nat /\ revision <= revision'
      BY RevisionGrows
<1>c. Begun /\ Listed /\ Signed
      BY DEF Bookkeeping
<1> SUFFICES ASSUME NEW x \in Actor, tx'[x].pc # "none"
             PROVE  SignedTx(x, tx[x])' 
    BY DEF Signed, SignedTx
<1>d. Process \cap (Execution \X Work) = {}
      BY LedgerAssumption
<1>k. \* a transaction that stays as it is, or only moves on
      ASSUME tx[x].pc # "none",
             tx'[x].work = tx[x].work, tx'[x].to = tx[x].to,
             \A e \in Execution, w \in Work : x = <<e, w>> /\ Busy(e, w) => Busy(e, w)'
      PROVE  SignedTx(x, tx[x])'
  <2>1. PlanOf[tx'[x].work] <= revision'
    <3>1. PlanOf[tx[x].work] <= revision /\ tx[x].work \in Work
          BY <1>k, <1>c DEF Signed, Working
    <3>2. PlanOf[tx[x].work] \in Nat
          BY <3>1, PlanNat
    <3> QED
        BY <3>1, <3>2, <1>k, <1>b
  <2> QED
      BY <2>1, <1>k, <1>c DEF Signed, SignedTx
<1>1. CASE Aside
  <2>1. tx' = tx /\ attempt' = attempt
        BY <1>1 DEF Aside
  <2> QED
      BY <2>1, <1>k DEF Busy
<1>2. CASE Ending
  <2>1. PICK E, P : EndExecutions(E, P)
        BY <1>2 DEF Ending
  <2>2. x \notin E \X Work /\ tx'[x] = tx[x]
        BY <2>1 DEF EndExecutions, NoTx
  <2>3. \A e \in Execution, w \in Work : x = <<e, w>> /\ Busy(e, w) => Busy(e, w)'
        BY <2>1, <2>2, <1>a DEF EndExecutions, Busy
  <2> QED
      BY <2>2, <2>3, <1>k
<1>3. ASSUME NEW f \in Execution, CreatePlan(f) PROVE SignedTx(x, tx[x])'
  <2>1. tx' = tx /\ attempt' = attempt
        BY <1>3 DEF CreatePlan
  <2> QED
      BY <2>1, <1>k DEF Busy
<1>4. ASSUME NEW f \in Execution, NEW p \in Process, StartExec(f, p)
      PROVE  SignedTx(x, tx[x])'
  <2>1. tx' = tx /\ \A e \in Execution, w \in Work : e # f => attempt'[e][w] = attempt[e][w]
        BY <1>4, <1>a DEF StartExec
  <2>2. \A w \in Work : ~Busy(f, w)
        BY <1>4, <1>c DEF StartExec, Begun
  <2>3. \A e \in Execution, w \in Work : Busy(e, w) => Busy(e, w)'
        BY <2>1, <2>2 DEF Busy
  <2> QED
      BY <2>1, <2>3, <1>k
<1>5. ASSUME NEW f \in Execution, NEW v \in Work, Claim(f, v)
      PROVE  SignedTx(x, tx[x])'
  <2>1. tx' = tx /\ attempt[f][v] = "todo"
        BY <1>5 DEF Claim, Turn
  <2>2. \A e \in Execution, w \in Work : Busy(e, w) => Busy(e, w)'
        BY <1>5, <2>1, <1>a DEF Claim, Ends, Busy
  <2> QED
      BY <2>1, <2>2, <1>k
<1>6. ASSUME NEW f \in Execution, NEW v \in Work, NEW use \in Usage,
             NEW to \in {"succeeded", "incomplete", "failed"}, Finish(f, v, to, use)
      PROVE  SignedTx(x, tx[x])'
  <2>1. CASE item[v].status = "leased"
    <3>1. tx' = [tx EXCEPT ![<<f, v>>] = Opened(v, to, use)] /\ attempt' = attempt
          BY <1>6, <2>1 DEF Finish
    <3>2. CASE x = <<f, v>>
      <4>1. tx'[x] = Opened(v, to, use) /\ Busy(f, v)'
            BY <3>1, <3>2, <1>6, <1>a DEF Finish, Busy
      <4>2. tx'[x].work = v /\ tx'[x].to = to
            BY <4>1 DEF Opened
      <4>3. PlanOf[v] <= revision'
            BY <1>6, <1>b, <1>c, PlanNat DEF Finish, Begun
      <4>4. x \notin Process
            BY <3>2, <1>d
      <4> QED
          BY <3>2, <4>1, <4>2, <4>3, <4>4 DEF SignedTx
    <3>3. CASE x # <<f, v>>
          BY <3>1, <3>3, <1>a, <1>k DEF Busy
    <3> QED
        BY <3>2, <3>3
  <2>2. CASE item[v].status # "leased"
    <3>1. tx' = tx /\ tx[<<f, v>>].pc = "none" /\ Ends(f, v)
          BY <1>6, <2>2 DEF Finish
    <3>2. \A e \in Execution, w \in Work : x = <<e, w>> /\ Busy(e, w) => Busy(e, w)'
          BY <3>1, <1>a DEF Ends, Busy
    <3> QED
        BY <3>1, <3>2, <1>k
  <2> QED
      BY <2>1, <2>2
<1>7. ASSUME NEW y \in Actor, TxUpdate(y) PROVE SignedTx(x, tx[x])'
  <2>1. attempt' = attempt /\ tx[x].pc # "none" /\ tx'[x].work = tx[x].work
        /\ tx'[x].to = tx[x].to
        BY <1>7, <1>a DEF TxUpdate, Tx
  <2> QED
      BY <2>1, <1>k DEF Busy
<1>8. ASSUME NEW y \in Actor, TxCommit(y) PROVE SignedTx(x, tx[x])'
  <2>1. tx' = [tx EXCEPT ![y] = NoTx]
        BY <1>8 DEF TxCommit
  <2>2. x # y /\ tx'[x] = tx[x]
        BY <2>1, <1>a DEF NoTx
  <2>3. \A e \in Execution, w \in Work : x = <<e, w>> /\ Busy(e, w) => Busy(e, w)'
        BY <1>8, <2>2, <1>a DEF TxCommit, Busy
  <2> QED
      BY <2>2, <2>3, <1>k
<1>9. ASSUME NEW p \in Process, NEW v \in Work, CancelWork(p, v)
      PROVE  SignedTx(x, tx[x])'
  <2>1. attempt' = attempt /\ (tx' = tx \/ tx' = [tx EXCEPT ![p] = Opened(v, "cancelled", 0)])
        BY <1>9 DEF CancelWork
  <2>2. CASE x = p /\ tx'[x] = Opened(v, "cancelled", 0)
    <3>1. tx'[x].work = v /\ tx'[x].to = "cancelled"
          BY <2>2 DEF Opened
    <3>2. PlanOf[v] <= revision'
          BY <1>9, <1>b, <1>c, PlanNat DEF CancelWork, Listed
    <3>3. x \notin Execution \X Work
          BY <2>2, <1>d
    <3> QED
        BY <3>1, <3>2, <3>3 DEF SignedTx
  <2>3. CASE tx'[x] = tx[x]
        BY <2>1, <2>3, <1>k DEF Busy
  <2> QED
      BY <2>1, <2>2, <2>3, <1>a
<1>10. ASSUME NEW p \in Process, NEW v \in Work, NEW to \in {"queued", "cancelled"},
              Confirm(p, v, to)
       PROVE  SignedTx(x, tx[x])'
  <2>1. attempt' = attempt /\ tx' = [tx EXCEPT ![p] = Opened(v, to, 0)]
        BY <1>10 DEF Confirm
  <2>2. CASE x = p
    <3>1. tx'[x].work = v /\ tx'[x].to = to
          BY <2>1, <2>2, <1>a DEF Opened
    <3>2. v \in Unconfirmed /\ PlanOf[v] <= revision'
          BY <1>10, <1>b, <1>c, PlanNat DEF Confirm, Listed
    <3>3. x \notin Execution \X Work
          BY <2>2, <1>d
    <3> QED
        BY <3>1, <3>2, <3>3 DEF SignedTx
  <2>3. CASE x # p
        BY <2>1, <2>3, <1>a, <1>k DEF Busy
  <2> QED
      BY <2>2, <2>3
<1>11. ASSUME NEW p \in Process, RecoverCommit(p) PROVE SignedTx(x, tx[x])'
  <2>1. tx' = tx /\ attempt' = attempt
        BY <1>11 DEF RecoverCommit
  <2> QED
      BY <2>1, <1>k DEF Busy
<1>12. ASSUME NEW v \in Work, LeaseLapse(v) PROVE SignedTx(x, tx[x])'
  <2>1. tx' = tx /\ attempt' = attempt
        BY <1>12 DEF LeaseLapse, memVars
  <2> QED
      BY <2>1, <1>k DEF Busy
<1> QED
    BY <1>1, <1>2, <1>3, <1>4, <1>5, <1>6, <1>7, <1>8, <1>9, <1>10, <1>11, <1>12,
       EveryWorkStep DEF WorkStep

LEMMA BookkeepingHolds ==
  /\ Init => Bookkeeping
  /\ TypeOK /\ Working /\ Bookkeeping /\ [Next]_vars => Bookkeeping'
<1>1. ASSUME Init PROVE Bookkeeping
  <2>1. Begun
        BY <1>1 DEF Init, Begun, Busy
  <2>2. Listed
    <3>1. \A w \in Work : ~(PlanOf[w] <= 0)
          BY LedgerAssumption DEF Revision
    <3> QED
        BY <1>1, <3>1 DEF Init, Listed, NoItem, Booting
  <2>3. Signed
        BY <1>1 DEF Init, Signed, NoTx
  <2> QED
      BY <2>1, <2>2, <2>3 DEF Bookkeeping
<1>2. ASSUME TypeOK, Working, Bookkeeping, [Next]_vars PROVE Bookkeeping'
      BY <1>2, BegunStep, ListedStep, SignedStep DEF Bookkeeping
<1> QED
    BY <1>1, <1>2

\* While no kept lease was lost, the item of a running attempt is leased to it and
\* the lease is live, or the task's cancellation took the item away for good.
Leased(w) == item[w] = [status |-> "leased", lease |-> "live"]

Kept ==
  "lease" \notin revoked =>
    \A e \in Execution, w \in Work :
      Busy(e, w) => Leased(w) \/ (item[w].status = "cancelled" /\ "cancel" \in revoked)

Exclusive == RunsOnce /\ Kept

LEMMA RevokedGrows ==
  ASSUME [Next]_vars, TypeOK
  PROVE  revoked \subseteq revoked'
<1>1. CASE revoked' = revoked
      BY <1>1
<1>2. CASE \E x \in Actor : TxCommit(x)
      BY <1>2 DEF TxCommit
<1>3. CASE \E p \in Process : RecoverCommit(p)
      BY <1>3 DEF RecoverCommit
<1>4. CASE \E w \in Work : LeaseLapse(w)
      BY <1>4 DEF LeaseLapse
<1> QED
    BY <1>1, <1>2, <1>3, <1>4, EveryWorkStep
    DEF WorkStep, Aside, Ending, CreatePlan, StartExec, Claim, Finish, TxUpdate,
        CancelWork, Confirm, history

LEMMA RunsOnceStep ==
  ASSUME TypeOK, Working, Bookkeeping, Exclusive, [Next]_vars
  PROVE  RunsOnce'
<1> SUFFICES ASSUME "lease" \notin revoked',
                    NEW w \in Work, NEW e \in Execution, NEW f \in Execution,
                    Busy(e, w)', Busy(f, w)'
             PROVE  e = f
    BY DEF RunsOnce
<1>1. "lease" \notin revoked
      BY RevokedGrows
<1>2. (Busy(e, w) \/ Claims(e, w)) /\ (Busy(f, w) \/ Claims(f, w))
      BY OnlyClaimsRun
<1>3. Claimable(w) => \A g \in Execution : ~Busy(g, w)
      BY <1>1 DEF Claimable, Expired, Exclusive, Kept, Leased
<1>4. CASE Busy(e, w) /\ Busy(f, w)
      BY <1>1, <1>4 DEF Exclusive, RunsOnce
<1>5. ASSUME NEW g \in Execution, NEW h \in Execution, Claims(g, w), Busy(h, w)'
      PROVE  g = h
  <2>1. ~Busy(h, w)
        BY <1>3, <1>5 DEF Claims
  <2>2. attempt' = [attempt EXCEPT ![g][w] = "run"]
        BY <1>5 DEF Claims
  <2> QED
      BY <1>5, <2>1, <2>2 DEF Busy, TypeOK
<1> QED
    BY <1>2, <1>4, <1>5

LEMMA KeptStep ==
  ASSUME TypeOK, Working, Bookkeeping, Exclusive, [Next]_vars
  PROVE  Kept'
<1>a. /\ item \in [Work -> Item]
      /\ attempt \in [Execution -> [Work -> {"todo", "run", "done"}]]
      BY DEF TypeOK
<1>c. Begun /\ Listed /\ Signed
      BY DEF Bookkeeping
<1> DEFINE Gone(w) == item[w].status = "cancelled" /\ "cancel" \in revoked
<1> SUFFICES ASSUME "lease" \notin revoked',
                    NEW e \in Execution, NEW w \in Work, Busy(e, w)'
             PROVE  Leased(w)' \/ (item'[w].status = "cancelled" /\ "cancel" \in revoked')
    BY DEF Kept
<1> DEFINE Goal == Leased(w)' \/ (item'[w].status = "cancelled" /\ "cancel" \in revoked')
<1>1. "lease" \notin revoked /\ revoked \subseteq revoked'
      BY RevokedGrows
<1>2. CASE Claims(e, w)
      BY <1>2, <1>a DEF Claims, Leased
<1>3. ASSUME Busy(e, w) PROVE Goal
  <2>1. Leased(w) \/ Gone(w)
        BY <1>1, <1>3 DEF Exclusive, Kept
  <2>2. w \notin Unconfirmed /\ PlanOf[w] <= revision
        BY <1>3, <1>c DEF Begun
  <2>3. CASE item'[w] = item[w]
        BY <2>1, <2>3, <1>1 DEF Leased
  <2>4. ASSUME NEW f \in Execution, CreatePlan(f) PROVE item'[w] = item[w]
    <3>1. revision \in Nat /\ PlanOf[w] \in Nat
          BY PlanNat, LedgerAssumption DEF TypeOK
    <3>2. PlanOf[w] # revision + 1
          BY <2>2, <3>1
    <3> QED
        BY <2>4, <3>2, PlanKind DEF Planned
  <2>5. ASSUME NEW f \in Execution, NEW v \in Work, Claim(f, v) PROVE item'[w] = item[w]
    <3>1. ~Claimable(w)
          BY <2>1 DEF Claimable, Expired, Leased
    <3>2. CASE Claims(f, v)
          BY <3>1, <3>2, <1>a DEF Claims
    <3>3. CASE Blocks(f, v)
          BY <3>1, <3>3, <1>a DEF Blocks
    <3> QED
        BY <2>5, <3>2, <3>3, ClaimKind
  <2>6. ASSUME NEW x \in Actor, TxCommit(x) PROVE Goal
    <3> DEFINE t == tx[x]
    <3>1. item' = [item EXCEPT ![t.work] = [status |-> t.to, lease |-> "none"]]
          /\ (t.to = "cancelled" => "cancel" \in revoked')
          BY <2>6 DEF TxCommit
    <3>2. CASE t.work # w
          BY <3>1, <3>2, <1>a, <2>3
    <3>3. CASE t.work = w
      <4>1. t.to # "queued"
            BY <2>2, <2>6, <3>3, <1>c DEF TxCommit, Signed
      <4>2. x \notin Execution \X Work
        <5> SUFFICES ASSUME NEW g \in Execution, NEW v \in Work, x = <<g, v>> PROVE FALSE
            OBVIOUS
        <5>1. v = w /\ Busy(g, w)
              BY <2>6, <3>3, <1>c DEF TxCommit, Signed
        <5>2. g = e
              BY <5>1, <1>1, <1>3 DEF Exclusive, RunsOnce
        <5>3. attempt'[e][w] = "done"
              BY <2>6, <5>1, <5>2 DEF TxCommit
        <5> QED
            BY <5>3 DEF Busy
      <4>3. t.to = "cancelled"
            BY <4>1, <4>2, <2>6, <1>c DEF Actor, TxCommit, Signed
      <4> QED
          BY <3>1, <3>3, <4>3, <1>a
    <3> QED
        BY <3>2, <3>3
  <2>7. ASSUME NEW p \in Process, RecoverCommit(p) PROVE item'[w] = item[w]
    <3>1. \A v \in desk[p].todo : Expired(v)
          BY <2>7 DEF RecoverCommit
    <3>2. w \notin desk[p].todo
          BY <3>1, <2>1 DEF Expired, Leased
    <3> QED
        BY <2>7, <3>2 DEF RecoverCommit
  <2>8. ASSUME NEW v \in Work, LeaseLapse(v) PROVE Goal
    <3>1. ~Beating(v)
          BY <2>8 DEF LeaseLapse
    <3>2. v # w
          BY <3>1, <1>3 DEF Beating
    <3> QED
        BY <2>8, <3>2, <1>a, <2>3 DEF LeaseLapse
  <2>9. CASE item' = item
        BY <2>9, <2>3
  <2> QED
      BY <2>3, <2>4, <2>5, <2>6, <2>7, <2>8, <2>9, EveryWorkStep
      DEF WorkStep, Aside, Ending, StartExec, Finish, TxUpdate, CancelWork, Confirm, dbVars
<1> QED
    BY <1>2, <1>3, OnlyClaimsRun

\* "The same WorkItem can never run twice under parallel dispatch": unless a kept
\* lease was lost, no two attempts run for one item at the same time.  An attempt
\* that runs keeps its item leased and live (Kept), which the claim refuses.
THEOREM RunsOnceHolds == Spec => []RunsOnce
<1>1. Init => Exclusive
      BY DEF Init, Exclusive, RunsOnce, Kept, Busy
<1>2. TypeOK /\ Working /\ Bookkeeping /\ Exclusive /\ [Next]_vars
        => (TypeOK /\ Working /\ Bookkeeping /\ Exclusive)'
      BY WorkStepTypeOK, BookkeepingHolds, RunsOnceStep, KeptStep DEF Exclusive
<1>3. Exclusive => RunsOnce
      BY DEF Exclusive
<1> QED
    BY <1>1, <1>2, <1>3, InitWorkTypeOK, BookkeepingHolds, PTL DEF Spec

-----------------------------------------------------------------------------
(* Reservations cover the outstanding work *)

\* Outstanding, as a function of the items it looks at.
Left(items, r) ==
  {w \in Planned(r) :
     items[w].status \in {"queued", "leased", "waiting_confirmation", "blocked"}}

\* The rows cover what is outstanding, and so does what a transaction about to
\* commit has read of them, which is why writing it back, less one item that ends,
\* cannot forget a reservation.
Covers(items, rows, open) ==
  /\ \A r \in Revision : Cardinality(Left(items, r)) <= rows[r].reserved
  /\ \A x \in Actor : open[x].pc = "commit" =>
       Cardinality(Left(items, PlanOf[open[x].work])) <= open[x].seen.reserved
  /\ \A w \in Unconfirmed : items[w].status \in {"absent", "waiting_confirmation", "queued"}

\* While nothing was taken from anybody.
Covered == revoked = {} => Covers(item, ledger, tx)

NextCovers == Covers(item', ledger', tx')

LEMMA LeftFinite ==
  ASSUME NEW items, NEW r
  PROVE  IsFiniteSet(Left(items, r)) /\ Cardinality(Left(items, r)) \in Nat
<1>1. Left(items, r) \subseteq Planned(r)
      BY DEF Left
<1> QED
    BY <1>1, PlannedFinite, FS_Subset, FS_CardinalityType

\* A step after which every item is as outstanding as before.
Steady ==
  \A w \in Work :
    item'[w].status \in {"queued", "leased", "waiting_confirmation", "blocked"}
      <=> item[w].status \in {"queued", "leased", "waiting_confirmation", "blocked"}

LEMMA SteadyLeft ==
  ASSUME Steady
  PROVE  \A r : Left(item', r) = Left(item, r)
  BY DEF Steady, Left, Planned

LEMMA SteadyCovered ==
  ASSUME Covers(item, ledger, tx), Steady, ledger' = ledger,
         \A w \in Unconfirmed :
           item'[w].status \in {"absent", "waiting_confirmation", "queued"},
         \A x \in Actor : tx'[x].pc = "commit" => tx'[x] = tx[x]
  PROVE  NextCovers
<1>1. \A r : Left(item', r) = Left(item, r)
      BY SteadyLeft
<1>2. \A r \in Revision : Cardinality(Left(item', r)) <= ledger'[r].reserved
      BY <1>1 DEF Covers
<1>3. ASSUME NEW x \in Actor, tx'[x].pc = "commit"
      PROVE  Cardinality(Left(item', PlanOf[tx'[x].work])) <= tx'[x].seen.reserved
      BY <1>1, <1>3 DEF Covers
<1> QED
    BY <1>2, <1>3 DEF Covers, NextCovers

LEMMA UpdateCovered ==
  ASSUME TypeOK, Working, Covers(item, ledger, tx), NEW x \in Actor, TxUpdate(x)
  PROVE  NextCovers
<1>1. item' = item /\ ledger' = ledger
      BY DEF TxUpdate, dbVars
<1>2. tx[x].work \in Work /\ PlanOf[tx[x].work] \in Revision
      BY LedgerAssumption DEF TxUpdate, Working
<1>3. ASSUME NEW y \in Actor, tx'[y].pc = "commit"
      PROVE  Cardinality(Left(item', PlanOf[tx'[y].work])) <= tx'[y].seen.reserved
  <2>1. CASE y = x
    <3>1. tx'[x].work = tx[x].work /\ tx'[x].seen = ledger[PlanOf[tx[x].work]]
          BY DEF TxUpdate, TypeOK, Tx
    <3>2. Cardinality(Left(item, PlanOf[tx[x].work])) <= ledger[PlanOf[tx[x].work]].reserved
          BY <1>2 DEF Covers
    <3> QED
        BY <2>1, <3>1, <3>2, <1>1
  <2>2. CASE y # x
    <3>1. tx'[y] = tx[y]
          BY <2>2 DEF TxUpdate, TypeOK
    <3> QED
        BY <3>1, <1>1, <1>3 DEF Covers
  <2> QED
      BY <2>1, <2>2
<1> QED
    BY <1>1, <1>3 DEF Covers, NextCovers

\* A committed plan reserves one unit per item, all of which are outstanding.
LEMMA PlanCovered ==
  ASSUME TypeOK, Working, Bookkeeping, Covers(item, ledger, tx),
         NEW e \in Execution, CreatePlan(e)
  PROVE  NextCovers
<1>a. revision \in Nat /\ ledger \in [Revision -> Account] /\ tx \in [Actor -> Tx]
      BY LedgerAssumption DEF TypeOK
<1>b. tx' = tx
      BY DEF CreatePlan
<1>1. CASE UNCHANGED <<revision, ledger, item>>
      BY <1>1, <1>b DEF Covers, NextCovers
<1>2. ASSUME NEW n, n = revision + 1,
             ledger' = [ledger EXCEPT ![n].reserved = Cardinality(Planned(n))],
             \A w \in Work : w \notin Planned(n) => item'[w] = item[w],
             \A w \in Planned(n) :
               item'[w].status = IF w \in Unconfirmed THEN "waiting_confirmation" ELSE "queued"
      PROVE  NextCovers
  <2>1. ASSUME NEW r, r # n PROVE Left(item', r) = Left(item, r)
    <3>1. \A w \in Planned(r) : item'[w] = item[w]
          BY <1>2, <2>1 DEF Planned
    <3> QED
        BY <3>1 DEF Left
  <2>2. Cardinality(Left(item', n)) <= Cardinality(Planned(n))
    <3>1. Left(item', n) \subseteq Planned(n)
          BY DEF Left
    <3> QED
        BY <3>1, PlannedFinite, FS_Subset
  <2>3. ASSUME NEW r \in Revision PROVE Cardinality(Left(item', r)) <= ledger'[r].reserved
    <3>1. CASE r = n
      <4>1. ledger'[r].reserved = Cardinality(Planned(n))
            BY <1>2, <1>a, <3>1 DEF Account
      <4> QED
          BY <4>1, <3>1, <2>2
    <3>2. CASE r # n
      <4>1. ledger'[r] = ledger[r]
            BY <1>2, <1>a, <3>2
      <4> QED
          BY <4>1, <2>1, <3>2 DEF Covers
    <3> QED
        BY <3>1, <3>2
  <2>4. ASSUME NEW x \in Actor, tx'[x].pc = "commit"
        PROVE  Cardinality(Left(item', PlanOf[tx'[x].work])) <= tx'[x].seen.reserved
    <3>1. tx[x].pc = "commit"
          BY <1>b, <2>4
    <3>2. PlanOf[tx[x].work] <= revision /\ tx[x].work \in Work
          BY <3>1 DEF Bookkeeping, Signed, Working
    <3>3. PlanOf[tx[x].work] # n
          BY <3>2, <1>2, <1>a, PlanNat
    <3>4. Left(item', PlanOf[tx[x].work]) = Left(item, PlanOf[tx[x].work])
          BY <3>3, <2>1
    <3> QED
        BY <3>1, <3>4, <1>b DEF Covers
  <2>5. ASSUME NEW w \in Unconfirmed
        PROVE  item'[w].status \in {"absent", "waiting_confirmation", "queued"}
    <3>1. w \in Work
          BY LedgerAssumption
    <3> QED
        BY <1>2, <3>1 DEF Covers
  <2> QED
      BY <2>3, <2>4, <2>5 DEF Covers, NextCovers
<1> QED
    BY <1>1, <1>2, PlanKind

\* The heart of it: an attempt that commits ends an item that was outstanding, and
\* writes one reservation less than it read, which covered that item too.
LEMMA FinishCovered ==
  ASSUME TypeOK, Working, Bookkeeping, Exclusive, Covers(item, ledger, tx),
         revoked = {}, NEW e \in Execution, NEW w \in Work, TxCommit(<<e, w>>)
  PROVE  NextCovers
<1> DEFINE x == <<e, w>>
           t == tx[x]
           r == PlanOf[w]
<1>a. /\ tx \in [Actor -> Tx] /\ ledger \in [Revision -> Account]
      /\ item \in [Work -> Item] /\ x \in Actor
      BY DEF TypeOK, Actor
<1>b. /\ t.pc = "commit" /\ t.work = w /\ Busy(e, w) /\ r \in Revision
      /\ t.to \in {"succeeded", "incomplete", "failed"} /\ t.seen.reserved \in Nat
  <2>1. t.pc = "commit" /\ t \in Tx
        BY <1>a DEF TxCommit
  <2> QED
      BY <1>a, <2>1, LedgerAssumption DEF Bookkeeping, Signed, Tx, Account
<1>1. item[w].status = "leased"
      BY <1>b DEF Exclusive, Kept, Leased
<1>2. item' = [item EXCEPT ![w] = [status |-> t.to, lease |-> "none"]]
      BY <1>b DEF TxCommit
<1>3. Left(item', r) = Left(item, r) \ {w} /\ w \in Left(item, r)
      BY <1>1, <1>2, <1>a, <1>b DEF Left, Planned
<1>4. ASSUME NEW q, q # r PROVE Left(item', q) = Left(item, q)
  <2>1. \A v \in Planned(q) : item'[v] = item[v]
        BY <1>2, <1>a, <1>4 DEF Planned
  <2> QED
      BY <2>1 DEF Left
<1>5. Cardinality(Left(item', r)) = Cardinality(Left(item, r)) - 1
      BY <1>3, LeftFinite, FS_RemoveElement
<1>6. /\ Cardinality(Left(item, r)) <= t.seen.reserved
      /\ Cardinality(Left(item, r)) \in Nat /\ Cardinality(Left(item, r)) # 0
  <2>1. Cardinality(Left(item, r)) # 0
        BY <1>3, LeftFinite, FS_EmptySet
  <2>2. Cardinality(Left(item, r)) <= t.seen.reserved
        BY <1>a, <1>b DEF Covers
  <2> QED
      BY <2>1, <2>2, LeftFinite
<1>7. ledger'[r].reserved = t.seen.reserved - 1
      /\ \A q \in Revision : q # r => ledger'[q] = ledger[q]
  <2>1. ledger' = [ledger EXCEPT ![r] = Settled(ledger[r], t)]
        BY <1>a, <1>b DEF TxCommit
  <2>2. t.seen.reserved > 0 /\ t.to # "queued"
        BY <1>b, <1>6
  <2>3. Settled(ledger[r], t).reserved = t.seen.reserved - 1
        BY <2>2 DEF Settled
  <2> QED
      BY <2>1, <2>3, <1>a, <1>b
<1>8. ASSUME NEW q \in Revision PROVE Cardinality(Left(item', q)) <= ledger'[q].reserved
  <2>1. CASE q = r
        BY <2>1, <1>b, <1>5, <1>6, <1>7
  <2>2. CASE q # r
        BY <2>2, <1>4, <1>7 DEF Covers
  <2> QED
      BY <2>1, <2>2
<1>9. ASSUME NEW y \in Actor, tx'[y].pc = "commit"
      PROVE  Cardinality(Left(item', PlanOf[tx'[y].work])) <= tx'[y].seen.reserved
  <2>1. tx'[y] = tx[y] /\ tx[y].pc = "commit"
        BY <1>9, <1>a DEF TxCommit, NoTx
  <2>2. Cardinality(Left(item, PlanOf[tx[y].work])) <= tx[y].seen.reserved
        BY <2>1 DEF Covers
  <2>3. CASE PlanOf[tx[y].work] = r
    <3>1. tx[y].seen.reserved \in Nat
          BY <1>a DEF Tx, Account
    <3>2. Cardinality(Left(item, r)) - 1 <= tx[y].seen.reserved
          BY <2>2, <2>3, <3>1, <1>6
    <3> QED
        BY <2>1, <2>3, <3>2, <1>5
  <2>4. CASE PlanOf[tx[y].work] # r
        BY <2>1, <2>2, <2>4, <1>4
  <2> QED
      BY <2>3, <2>4
<1>10. ASSUME NEW v \in Unconfirmed
       PROVE  item'[v].status \in {"absent", "waiting_confirmation", "queued"}
  <2>1. w \notin Unconfirmed
        BY <1>b DEF Bookkeeping, Begun
  <2> QED
      BY <2>1, <1>2, <1>a, LedgerAssumption DEF Covers
<1> QED
    BY <1>8, <1>9, <1>10 DEF Covers, NextCovers

LEMMA CoveredStep ==
  ASSUME TypeOK, Working, Bookkeeping, Exclusive, Covered, [Next]_vars
  PROVE  Covered'
<1> SUFFICES ASSUME revoked' = {} PROVE NextCovers
    BY DEF Covered, NextCovers
<1>a. item \in [Work -> Item] /\ tx \in [Actor -> Tx] /\ Unconfirmed \subseteq Work
      BY LedgerAssumption DEF TypeOK
<1>b. revoked = {} /\ Covers(item, ledger, tx)
      BY RevokedGrows DEF Covered
<1>c. \A w \in Unconfirmed : item[w].status \in {"absent", "waiting_confirmation", "queued"}
      BY <1>b DEF Covers
<1>1. CASE Aside
      BY <1>1, <1>b, <1>c, SteadyCovered DEF Aside, Steady
<1>2. CASE Ending
  <2>1. \A x \in Actor : tx'[x].pc = "commit" => tx'[x] = tx[x]
        BY <1>2 DEF Ending, EndExecutions, NoTx
  <2> QED
      BY <1>2, <2>1, <1>b, <1>c, SteadyCovered DEF Ending, Steady
<1>3. ASSUME NEW f \in Execution, CreatePlan(f) PROVE NextCovers
      BY <1>3, <1>b, PlanCovered
<1>4. ASSUME NEW f \in Execution, NEW p \in Process, StartExec(f, p) PROVE NextCovers
      BY <1>4, <1>b, <1>c, SteadyCovered DEF StartExec, Steady, dbVars
<1>5. ASSUME NEW f \in Execution, NEW v \in Work, Claim(f, v) PROVE NextCovers
  <2>1. tx' = tx /\ ledger' = ledger
        BY <1>5 DEF Claim
  <2>2. v \notin Unconfirmed
        BY <1>5 DEF Claim, Turn, Bookkeeping, Begun
  <2>3. CASE Claims(f, v)
        BY <2>1, <2>2, <2>3, <1>a, <1>b, <1>c, SteadyCovered
        DEF Claims, Claimable, Expired, Steady
  <2>4. CASE Blocks(f, v)
        BY <2>1, <2>2, <2>4, <1>a, <1>b, <1>c, SteadyCovered
        DEF Blocks, Claimable, Expired, Steady, Item
  <2> QED
      BY <1>5, <2>3, <2>4, ClaimKind
<1>6. ASSUME NEW f \in Execution, NEW v \in Work, NEW use \in Usage,
             NEW to \in {"succeeded", "incomplete", "failed"}, Finish(f, v, to, use)
      PROVE  NextCovers
  <2>1. \A x \in Actor : tx'[x].pc = "commit" => tx'[x] = tx[x]
        BY <1>6, <1>a DEF Finish, Opened
  <2> QED
      BY <1>6, <2>1, <1>b, <1>c, SteadyCovered DEF Finish, Steady, dbVars
<1>7. ASSUME NEW x \in Actor, TxUpdate(x) PROVE NextCovers
      BY <1>7, <1>b, UpdateCovered
<1>8. ASSUME NEW p \in Process, TxCommit(p) PROVE NextCovers
  <2> DEFINE t == tx[p]
  <2>a. p \in Actor /\ t.pc = "commit"
        BY <1>8 DEF Actor, TxCommit
  <2>1. t.to = "queued" /\ t.work \in Unconfirmed /\ PlanOf[t.work] <= revision
        BY <1>8, <2>a DEF TxCommit, Bookkeeping, Signed
  <2>2. ledger' = ledger
        BY <1>8, <2>1 DEF TxCommit, Settled, TypeOK
  <2>3. item' = [item EXCEPT ![t.work] = [status |-> "queued", lease |-> "none"]]
        BY <1>8, <2>1 DEF TxCommit
  <2>4. item[t.work].status \in {"waiting_confirmation", "queued"}
        BY <2>1, <1>a, <1>c DEF Bookkeeping, Listed
  <2>5. Steady
        BY <2>3, <2>4, <1>a DEF Steady
  <2>6. \A w \in Unconfirmed : item'[w].status \in {"absent", "waiting_confirmation", "queued"}
        BY <2>3, <1>a, <1>c
  <2>7. \A x \in Actor : tx'[x].pc = "commit" => tx'[x] = tx[x]
        BY <1>8, <1>a DEF TxCommit, NoTx
  <2> QED
      BY <2>2, <2>5, <2>6, <2>7, <1>b, SteadyCovered
<1>9. ASSUME NEW e \in Execution, NEW w \in Work, TxCommit(<<e, w>>) PROVE NextCovers
      BY <1>9, <1>b, FinishCovered
<1>10. ASSUME NEW p \in Process, NEW v \in Work, CancelWork(p, v) PROVE NextCovers
  <2>1. \A x \in Actor : tx'[x].pc = "commit" => tx'[x] = tx[x]
        BY <1>10, <1>a DEF CancelWork, Opened
  <2> QED
      BY <1>10, <2>1, <1>b, <1>c, SteadyCovered DEF CancelWork, Steady, dbVars
<1>11. ASSUME NEW p \in Process, NEW v \in Work, NEW to \in {"queued", "cancelled"},
              Confirm(p, v, to)
       PROVE  NextCovers
  <2>1. \A x \in Actor : tx'[x].pc = "commit" => tx'[x] = tx[x]
        BY <1>11, <1>a DEF Confirm, Opened
  <2> QED
      BY <1>11, <2>1, <1>b, <1>c, SteadyCovered DEF Confirm, Steady, dbVars
<1>12. ASSUME NEW p \in Process, RecoverCommit(p) PROVE NextCovers
  <2>1. \A w \in desk[p].todo : Expired(w)
        BY <1>12 DEF RecoverCommit
  <2>2. \A w \in Work : \/ w \notin desk[p].todo /\ item'[w] = item[w]
                        \/ /\ item[w].status = "leased"
                           /\ item'[w].status \in {"blocked", "queued"}
        BY <1>12, <2>1 DEF RecoverCommit, Expired
  <2>3. Steady
        BY <2>2 DEF Steady
  <2>4. \A w \in Unconfirmed : item'[w].status \in {"absent", "waiting_confirmation", "queued"}
        BY <2>2, <1>a, <1>c
  <2> QED
      BY <1>12, <2>3, <2>4, <1>b, SteadyCovered DEF RecoverCommit
<1>13. ASSUME NEW v \in Work, LeaseLapse(v) PROVE NextCovers
  <2>1. \A w \in Work : item'[w].status = item[w].status
        BY <1>13, <1>a DEF LeaseLapse, Item
  <2> QED
      BY <1>13, <2>1, <1>a, <1>b, <1>c, SteadyCovered DEF LeaseLapse, Steady, memVars
<1> QED
    BY <1>1, <1>2, <1>3, <1>4, <1>5, <1>6, <1>7, <1>8, <1>9, <1>10, <1>11, <1>12, <1>13,
       EveryWorkStep DEF WorkStep, Actor

\* The settlements that overwrite each other never forget a reservation of work
\* still to be done, as long as nothing was cancelled and no kept lease was lost.
THEOREM ReservationsHold == Spec => []ReservationsCover
<1>1. Init => Covered
  <2> SUFFICES ASSUME Init PROVE Covered
      OBVIOUS
  <2>1. \A r \in Revision : Left(item, r) = {} /\ ledger[r].reserved = 0
        BY DEF Init, Left, Planned, NoItem, NoMoney
  <2>2. \A r \in Revision : Cardinality(Left(item, r)) <= ledger[r].reserved
        BY <2>1, FS_EmptySet
  <2> QED
      BY <2>2, LedgerAssumption DEF Init, Covered, Covers, NoTx, NoItem
<1>2. Init => Exclusive
      BY DEF Init, Exclusive, RunsOnce, Kept, Busy
<1>3. TypeOK /\ Working /\ Bookkeeping /\ Exclusive /\ Covered /\ [Next]_vars
        => (TypeOK /\ Working /\ Bookkeeping /\ Exclusive /\ Covered)'
      BY WorkStepTypeOK, BookkeepingHolds, RunsOnceStep, KeptStep, CoveredStep DEF Exclusive
<1>4. TypeOK /\ Covered => ReservationsCover
  <2> SUFFICES ASSUME TypeOK, Covered, revoked = {}, NEW r \in Revision
               PROVE  ledger[r].reserved >= Cardinality(Outstanding(r))
      BY DEF ReservationsCover
  <2>1. Outstanding(r) = Left(item, r)
        BY DEF Outstanding, Left
  <2>2. ledger[r].reserved \in Nat /\ Cardinality(Left(item, r)) \in Nat
        BY LeftFinite DEF TypeOK, Account
  <2> QED
      BY <2>1, <2>2 DEF Covered, Covers
<1> QED
    BY <1>1, <1>2, <1>3, <1>4, InitWorkTypeOK, BookkeepingHolds, PTL DEF Spec
=============================================================================
