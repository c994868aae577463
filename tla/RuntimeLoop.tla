---------------------------- MODULE RuntimeLoop -----------------------------
(***************************************************************************)
(* The learning loop of each task: interpret, orchestrate, dispatch,       *)
(* observe, update, evaluate, wait for the learner (runtime/graph.py,      *)
(* runtime/nodes, runtime/evaluation.py, runtime/guardrails.py,            *)
(* runtime/interactions.py, state/agent_task_state.py), over the learner's *)
(* EvidenceLedger.                                                         *)
(*                                                                         *)
(* A node works on a copy of the graph state and is checkpointed when it   *)
(* returns; what it writes to the database before that is not undone if    *)
(* the process dies.  The database keeps the phase, the budget, the goals  *)
(* and the decisions of a task across its turns.                           *)
(***************************************************************************)
EXTENDS EvidenceLedger

CONSTANTS
  Looping,     \* the tasks whose loop is modelled; of the others only what
               \* they do with the ledger
  Plans,       \* sequences of tier sizes a validated plan may have
  MaxSteps, MaxReplans,
  MaxGoals,    \* bound on the open goals of a task
  MaxTurns,    \* bound on the learner's messages and answers, over all tasks
  MaxCrashes   \* bound on the processes that die

ASSUME LoopAssumption ==
  /\ Looping \subseteq Task
  /\ Plans \subseteq Seq(Nat \ {0}) \ {<<>>}
  /\ MaxSteps \in Nat \ {0} /\ MaxReplans \in Nat /\ MaxGoals \in Nat \ {0}
  /\ MaxTurns \in Nat /\ MaxCrashes \in Nat

VARIABLES
  \* database
  phase,       \* agent_task_state.runtime_status
  budget,      \* agent_task_state.budget
  stack,       \* open goals, the current one last
  decisions,   \* the highest step in decision_trace
  command,     \* the prompt or answer in the inbox
  ckpt,        \* the graph's checkpoint
  \* process memory
  exec,        \* the node an execution is in, and its copy of the state
  \* history
  reentered,   \* executions that have not saved a node since a crash
  turns, crashes

dbVars   == <<phase, budget, stack, decisions, command, ckpt>>
history  == <<reentered, turns, crashes>>
loopVars == <<dbVars, exec, history>>
vars     == <<evVars, loopVars>>

Phase    == {"PLANNING", "EXECUTING", "WAITING", "OBSERVING", "UPDATING",
             "REPLANNING", "COMPLETED", "FAILED"}
Terminal == {"COMPLETED", "FAILED"}
Node     == {"interpret", "orchestrate", "dispatch", "observe", "update",
             "evaluate", "await", "end"}
Spent    == [steps: Nat, replans: Nat]
Outcome  == {"failed", "unmet", "card", "bare"}
Graph    == [node: Node, status: Phase, goal: Nat, replanning: BOOLEAN, step: Nat,
             spent: Spent, ask: BOOLEAN, plan: Plans \cup {<<>>}, out: SUBSET Outcome]

\* _TRANSITIONS
Follows ==
  [PLANNING   |-> {"EXECUTING", "WAITING", "COMPLETED", "FAILED"},
   EXECUTING  |-> {"OBSERVING", "WAITING", "FAILED"},
   OBSERVING  |-> {"UPDATING", "FAILED"},
   UPDATING   |-> {"REPLANNING", "WAITING", "COMPLETED", "FAILED"},
   REPLANNING |-> {"PLANNING", "WAITING", "COMPLETED", "FAILED"},
   WAITING    |-> {"PLANNING", "COMPLETED", "FAILED"},
   COMPLETED  |-> {},
   FAILED     |-> {}]
Legal(source, target) == source = target \/ target \in Follows[source]

NewGraph(b) ==
  [node |-> "interpret", status |-> "PLANNING", goal |-> 0, replanning |-> FALSE,
   step |-> 0, spent |-> b, ask |-> FALSE, plan |-> <<>>, out |-> {}]

\* pc: the point inside the node; answer: the resume value is unread; open:
\* rounds announced and not closed; tier, left: the tier at work and its tasks
\* still to run; rounds: the rounds of this execution (history).
Exec == [pc: {"off", "node", "planning", "blocked", "decided", "saved", "work", "spent",
              "fold", "popped", "done"},
         mem: Graph, answer: BOOLEAN, open: SUBSET Nat, tier: Nat, left: Nat, rounds: Nat]
Off  == [pc |-> "off", mem |-> NewGraph([steps |-> 0, replans |-> 0]), answer |-> FALSE,
         open |-> {}, tier |-> 0, left |-> 0, rounds |-> 0]

Init ==
  /\ EvInit
  /\ phase = [t \in Looping |-> "PLANNING"]
  /\ budget = [t \in Looping |-> [steps |-> 0, replans |-> 0]]
  /\ stack = [t \in Looping |-> <<>>]
  /\ decisions = [t \in Looping |-> 0]
  /\ command = [t \in Looping |-> "none"]
  /\ ckpt = [t \in Looping |-> NewGraph(budget[t])]
  /\ exec = [t \in Looping |-> Off]
  /\ reentered = {}
  /\ turns = 0
  /\ crashes = 0

-----------------------------------------------------------------------------
(* Turns *)

Message(t) ==
  /\ command[t] = "none"
  /\ turns < MaxTurns
  /\ turns' = turns + 1
  /\ command' = [command EXCEPT ![t] = "message"]
  /\ UNCHANGED <<evVars, phase, budget, stack, decisions, ckpt, exec, reentered, crashes>>

\* The learner answers the question the graph is parked on.
Answer(t) ==
  /\ command[t] = "none"
  /\ ckpt[t].node = "await" /\ ckpt[t].ask
  /\ turns < MaxTurns
  /\ turns' = turns + 1
  /\ command' = [command EXCEPT ![t] = "answer"]
  /\ UNCHANGED <<evVars, phase, budget, stack, decisions, ckpt, exec, reentered, crashes>>

\* A message, also one recovered after a crash, enters the graph at START with
\* a new state and the stored budget; an answer continues from the checkpoint.
Start(t, p) ==
  /\ command[t] # "none"
  /\ Arrive(t, p)
  /\ LET g == IF command[t] = "message" THEN NewGraph(budget[t]) ELSE ckpt[t]
     IN  /\ ckpt' = [ckpt EXCEPT ![t] = g]
         /\ exec' = [exec EXCEPT ![t] = [Off EXCEPT !.pc = "node", !.mem = g,
                                                    !.answer = g.node = "await"]]
  /\ UNCHANGED <<phase, budget, stack, decisions, command, history>>

\* The execution is over: at END, parked at an interrupt, or by an exception.
Ends(t) ==
  /\ Leave(t)
  /\ exec' = [exec EXCEPT ![t] = Off]
  /\ command' = [command EXCEPT ![t] = "none"]
  /\ reentered' = reentered \ {t}
  /\ UNCHANGED <<phase, budget, stack, decisions, ckpt, turns, crashes>>

Crash(p) ==
  /\ crashes < MaxCrashes
  /\ crashes' = crashes + 1
  /\ Dies(p)
  /\ exec' = [t \in Looping |-> IF at[t] = p THEN Off ELSE exec[t]]
  /\ reentered' = reentered \cup {t \in Looping : at[t] = p}
  /\ UNCHANGED <<dbVars, turns>>

-----------------------------------------------------------------------------
(* Steps of a node *)

At(t, node, pc) == exec[t].mem.node = node /\ exec[t].pc = pc

\* A step within the node, in memory.
Works(t, e) ==
  /\ exec' = [exec EXCEPT ![t] = e]
  /\ UNCHANGED <<phase, command, ckpt, history>>

\* Mutant: an illegal transition is not raised, the graph goes on without it.
MoveAnyway(t, target, e) ==
  /\ phase' = [phase EXCEPT ![t] = IF Legal(@, target) THEN target ELSE @]
  /\ exec' = [exec EXCEPT ![t] = e]
  /\ UNCHANGED <<evVars, budget, stack, decisions, command, ckpt, history>>

\* transition_status, checked against the phase in the database.
Move(t, target, e) ==
  \/ /\ Legal(phase[t], target)
     /\ phase' = [phase EXCEPT ![t] = target]
     /\ exec' = [exec EXCEPT ![t] = e]
     /\ UNCHANGED <<evVars, budget, stack, decisions, command, ckpt, history>>
  \/ /\ ~Legal(phase[t], target)
     /\ Ends(t)

\* The node returns after the transition, with the new phase in its patch.
Return(t, target, e) ==
  Move(t, target, [e EXCEPT !.pc = "done", !.mem.status = target])

\* close_round
Closed(e, step) == [e EXCEPT !.open = @ \ {step}]

Successor(g) ==
  CASE g.node = "interpret"  -> "orchestrate"
    [] g.node = "orchestrate" -> "dispatch"
    [] g.node = "dispatch"   -> "observe"
    [] g.node = "observe"    -> "update"
    [] g.node = "update"     -> "evaluate"
    [] g.node = "await"      -> "orchestrate"
    [] g.node = "evaluate"   -> IF g.status \in Terminal THEN "end"
                                ELSE IF g.status = "WAITING" THEN "await"
                                ELSE "orchestrate"

\* The graph checkpoints what the node returned and goes to the next.
Checkpoints(t, e) ==
  LET g == [e.mem EXCEPT !.node = Successor(e.mem)]
  IN  /\ ckpt' = [ckpt EXCEPT ![t] = g]
      /\ exec' = [exec EXCEPT ![t] = [e EXCEPT !.pc = "node", !.mem = g]]
      /\ reentered' = reentered \ {t}
      /\ UNCHANGED <<evVars, phase, budget, stack, decisions, command, turns, crashes>>

Save(t) == exec[t].pc = "done" /\ Checkpoints(t, exec[t])

\* Mutant: evaluate returns at once like the other nodes.
PassedOpen(t) == exec[t]

\* evaluate closes the round before it passes.
Passed(t) ==
  IF exec[t].mem.node = "evaluate" THEN Closed(exec[t], exec[t].mem.step) ELSE exec[t]

\* A node whose phase has passed returns at once.
Pass(t) ==
  LET s == exec[t].mem.status
  IN  /\ \/ At(t, "orchestrate", "node") /\ s \in Terminal
         \/ At(t, "dispatch", "node") /\ s # "EXECUTING"
         \/ At(t, "observe", "node") /\ s \notin {"OBSERVING", "EXECUTING"}
         \/ At(t, "update", "node") /\ s # "UPDATING"
         \/ At(t, "evaluate", "node") /\ s \in Terminal \cup {"WAITING"}
      /\ Checkpoints(t, Passed(t))

-----------------------------------------------------------------------------
(* interpret_goal *)

NewGoal(t) ==
  CHOOSE g \in 1..MaxGoals + 1 : \A i \in DOMAIN stack[t] : stack[t][i] # g

Current(goals) == goals[Len(goals)]
Under(goals)   == SubSeq(goals, 1, Len(goals) - 1)

\* A correction replaces the current goal, an interrupt goes on top of it.
Interpret(t) ==
  /\ At(t, "interpret", "node")
  /\ \/ stack' = [stack EXCEPT ![t] = Append(IF @ = <<>> THEN <<>> ELSE Under(@), NewGoal(t))]
     \/ /\ stack[t] # <<>> /\ Len(stack[t]) < MaxGoals
        /\ stack' = [stack EXCEPT ![t] = Append(@, NewGoal(t))]
  /\ Works(t, [exec[t] EXCEPT !.pc = "planning", !.mem.goal = NewGoal(t)])
  /\ UNCHANGED <<evVars, budget, decisions>>

Interpreted(t) ==
  /\ At(t, "interpret", "planning")
  /\ Return(t, "PLANNING", exec[t])

InterpretFails(t) ==
  /\ At(t, "interpret", "node")
  /\ Return(t, "FAILED", exec[t])

\* A prompt of blanks takes up the current goal, if there is one.
InterpretNothing(t) ==
  /\ At(t, "interpret", "node")
  /\ IF stack[t] = <<>>
       THEN Return(t, "COMPLETED", exec[t])
       ELSE Return(t, "PLANNING", [exec[t] EXCEPT !.mem.goal = Current(stack[t])])

-----------------------------------------------------------------------------
(* orchestrate *)

Orchestrate(t) ==
  /\ At(t, "orchestrate", "node")
  /\ exec[t].mem.status \notin Terminal
  /\ Move(t, "PLANNING", [exec[t] EXCEPT !.pc = "planning"])

Step(t) == decisions[t] + 1

\* The round is announced before the planner runs.
Opened(t) == [exec[t] EXCEPT !.open = @ \cup {Step(t)}, !.rounds = @ + 1]

\* Mutant: one more replan than the budget has.
NoReplanOver(t) ==
  exec[t].mem.replanning /\ exec[t].mem.spent.replans > MaxReplans

\* check_replan
NoReplanLeft(t) ==
  exec[t].mem.replanning /\ exec[t].mem.spent.replans >= MaxReplans

ReplanRefused(t) ==
  /\ At(t, "orchestrate", "planning")
  /\ NoReplanLeft(t)
  /\ budget' = [budget EXCEPT ![t] = exec[t].mem.spent]
  /\ Works(t, [Opened(t) EXCEPT !.pc = "blocked"])
  /\ UNCHANGED <<evVars, stack, decisions>>

Blocked(t) ==
  /\ At(t, "orchestrate", "blocked")
  /\ Return(t, "FAILED", Closed(exec[t], Step(t)))

\* The budget after spend_replan.
Replanned(t) ==
  LET g == exec[t].mem
  IN  [g.spent EXCEPT !.replans = @ + IF g.replanning THEN 1 ELSE 0]

PlanRaises(t) ==
  /\ At(t, "orchestrate", "planning")
  /\ ~NoReplanLeft(t)
  /\ Ends(t)

\* create_work_plan has no room for the plan's reservations.
PlanExceeds(t) ==
  /\ At(t, "orchestrate", "planning")
  /\ ~NoReplanLeft(t)
  /\ Return(t, "FAILED",
       Closed([Opened(t) EXCEPT !.mem.spent = Replanned(t), !.mem.step = Step(t)], Step(t)))

\* check_plan: the phase a validated plan leads to.
Exhausted(spent) == spent.steps >= MaxSteps

Decide(t, e, target, m) ==
  /\ At(t, "orchestrate", "planning")
  /\ ~NoReplanLeft(t)
  /\ decisions' = [decisions EXCEPT ![t] = Step(t)]
  /\ Works(t, [e EXCEPT !.pc = "decided",
                 !.mem = [m EXCEPT !.status = target, !.spent = Replanned(t),
                                   !.step = Step(t)]])
  /\ UNCHANGED <<evVars, budget, stack>>

PlanFatal(t) ==
  /\ Exhausted(exec[t].mem.spent)
  /\ Decide(t, Opened(t), "FAILED", exec[t].mem)

PlanRuns(t) ==
  /\ ~Exhausted(exec[t].mem.spent)
  /\ \E plan \in Plans :
       Decide(t, Opened(t), "EXECUTING",
              [exec[t].mem EXCEPT !.plan = plan, !.replanning = FALSE, !.ask = FALSE])

\* Nothing may run.  A plan that waits for the learner closes its round, and
\* may carry a question; an empty one has neither.
PlanWaits(t) ==
  /\ ~Exhausted(exec[t].mem.spent)
  /\ \E awaiting, ask \in BOOLEAN :
       /\ ask => awaiting
       /\ Decide(t, IF awaiting THEN Closed(Opened(t), Step(t)) ELSE Opened(t), "WAITING",
                 [exec[t].mem EXCEPT !.plan = <<>>, !.replanning = FALSE, !.ask = ask])

SavePlan(t) ==
  /\ At(t, "orchestrate", "decided")
  /\ budget' = [budget EXCEPT ![t] = exec[t].mem.spent]
  /\ Works(t, [exec[t] EXCEPT !.pc = "saved"])
  /\ UNCHANGED <<evVars, stack, decisions>>

Decided(t) ==
  /\ At(t, "orchestrate", "saved")
  /\ LET e == exec[t]
         target == e.mem.status
     IN  Return(t, target, IF target = "FAILED" THEN Closed(e, e.mem.step) ELSE e)

-----------------------------------------------------------------------------
(* dispatch, observe, update_state *)

\* spend_step for each task of the tier that has run.
TierSpent(e) ==
  [e.mem.spent EXCEPT !.steps = @ + IF e.tier = 0 THEN 0 ELSE e.mem.plan[e.tier]]

\* The next tier starts unless the budget is exhausted by then.
NextTier(t) ==
  LET e == exec[t]  spent == TierSpent(e)
  IN  /\ \/ At(t, "dispatch", "node") /\ e.mem.status = "EXECUTING"
         \/ At(t, "dispatch", "work") /\ e.left = 0
      /\ LET entered == [e EXCEPT !.mem.spent = spent,
                                 !.mem.out = IF e.pc = "node" THEN {} ELSE @]
         IN  IF e.tier < Len(e.mem.plan) /\ ~Exhausted(spent)
               THEN Works(t, [entered EXCEPT !.pc = "work", !.tier = @ + 1,
                                            !.left = e.mem.plan[e.tier + 1]])
               ELSE Works(t, [entered EXCEPT !.pc = "spent", !.tier = 0, !.left = 0])
      /\ UNCHANGED <<evVars, budget, stack, decisions>>

\* A task of the tier is settled with an outcome.
Settles(t, o) ==
  Works(t, [exec[t] EXCEPT !.left = @ - 1, !.mem.out = @ \cup {o}])

\* Mutant: a tier that is through settles once more.
RunningOn(t) == At(t, "dispatch", "work") /\ exec[t].left >= 0

Running(t) == At(t, "dispatch", "work") /\ exec[t].left > 0

\* It fails, is not claimed, or returns without observations.
TaskEnds(t) ==
  /\ Running(t)
  /\ job[t].pc = "idle"
  /\ \E o \in Outcome : Settles(t, o)
  /\ UNCHANGED <<evVars, budget, stack, decisions>>

TaskReports(t) ==
  /\ Running(t)
  /\ \E batch \in SUBSET Obs : BeginAppend(t, batch)
  /\ UNCHANGED loopVars

TaskStored(t) ==
  /\ Running(t)
  /\ job[t].pc = "stored"
  /\ Release(t)
  /\ \E o \in Outcome \ {"failed"} : Settles(t, o)
  /\ UNCHANGED <<budget, stack, decisions>>

\* The last append attempt collided: a serial task takes the turn with it, a
\* parallel one is a failed outcome.
TaskRefused(t) ==
  /\ Running(t)
  /\ job[t].pc = "refused"
  /\ \/ Release(t) /\ Settles(t, "failed") /\ UNCHANGED <<budget, stack, decisions>>
     \/ Ends(t)

SaveBudget(t) ==
  /\ At(t, "dispatch", "spent")
  /\ budget' = [budget EXCEPT ![t] = exec[t].mem.spent]
  /\ Works(t, [exec[t] EXCEPT !.pc = "saved"])
  /\ UNCHANGED <<evVars, stack, decisions>>

Dispatched(t) ==
  /\ At(t, "dispatch", "saved")
  /\ Return(t, "OBSERVING", exec[t])

Observe(t) ==
  /\ At(t, "observe", "node")
  /\ exec[t].mem.status \in {"OBSERVING", "EXECUTING"}
  /\ Return(t, "UPDATING", exec[t])

\* Mutant: the node skips the fold while another execution holds the lock.
UpdateIfFree(t) ==
  /\ At(t, "update", "node")
  /\ exec[t].mem.status = "UPDATING"
  /\ \/ BeginFold(t) /\ Works(t, [exec[t] EXCEPT !.pc = "fold"])
     \/ ~LockFree(t) /\ Works(t, [exec[t] EXCEPT !.pc = "done"]) /\ UNCHANGED evVars
  /\ UNCHANGED <<budget, stack, decisions>>

Update(t) ==
  /\ At(t, "update", "node")
  /\ exec[t].mem.status = "UPDATING"
  /\ BeginFold(t)
  /\ Works(t, [exec[t] EXCEPT !.pc = "fold"])
  /\ UNCHANGED <<budget, stack, decisions>>

Updated(t) ==
  /\ At(t, "update", "fold")
  /\ \/ /\ job[t].pc = "folded"
        /\ Release(t)
        /\ Works(t, [exec[t] EXCEPT !.pc = "done"])
        /\ UNCHANGED <<budget, stack, decisions>>
     \/ job[t].pc = "failed" /\ Ends(t)

-----------------------------------------------------------------------------
(* evaluate_goal, await_user *)

Evaluating(t) == At(t, "evaluate", "node") /\ exec[t].mem.status = "UPDATING"

RoundClosed(t) == Closed(exec[t], exec[t].mem.step)

\* GoalStack.pop: the goal is no longer open, wherever it stands.
Without(goals, g) ==
  LET i == CHOOSE i \in DOMAIN goals : goals[i] = g
  IN  IF \E k \in DOMAIN goals : goals[k] = g
        THEN SubSeq(goals, 1, i - 1) \o SubSeq(goals, i + 1, Len(goals))
        ELSE goals

\* The goal is achieved: it leaves the stack, and the loop goes on if another
\* is open.
Achieved(t) ==
  /\ Evaluating(t)
  /\ stack' = [stack EXCEPT ![t] = Without(@, exec[t].mem.goal)]
  /\ Works(t, [exec[t] EXCEPT !.pc = "popped"])
  /\ UNCHANGED <<evVars, budget, decisions>>

Popped(t) ==
  /\ At(t, "evaluate", "popped")
  /\ IF stack[t] = <<>>
       THEN Return(t, "COMPLETED", RoundClosed(t))
       ELSE Return(t, "REPLANNING", [RoundClosed(t) EXCEPT !.mem.replanning = TRUE,
                                       !.mem.goal = Current(stack[t])])

\* An answer or explanation completes the turn; some offer a follow-up card.
TurnComplete(t) ==
  /\ Evaluating(t)
  /\ \E o \in exec[t].mem.out \cap {"card", "bare"} :
       Return(t, "WAITING", [RoundClosed(t) EXCEPT !.mem.replanning = FALSE,
                               !.mem.ask = @ \/ o = "card"])

NoProgress(t) ==
  /\ Evaluating(t)
  /\ exec[t].mem.out \subseteq {"failed"}
  /\ Return(t, "FAILED", RoundClosed(t))

Replan(t) ==
  /\ Evaluating(t)
  /\ exec[t].mem.out \cap {"card", "bare"} = {}
  /\ ~(exec[t].mem.out \subseteq {"failed"})
  /\ Return(t, "REPLANNING", [RoundClosed(t) EXCEPT !.mem.replanning = TRUE])

\* Mutant: without a question the node waits for an answer all the same.
AwaitHangs(t) == At(t, "await", "node") /\ ~exec[t].mem.ask /\ exec[t].answer /\ Ends(t)

\* Without a question to park on the node raises.
AwaitRaises(t) ==
  /\ At(t, "await", "node")
  /\ ~exec[t].mem.ask
  /\ Ends(t)

Park(t) ==
  /\ At(t, "await", "node")
  /\ exec[t].mem.ask /\ ~exec[t].answer
  /\ Ends(t)

Resume(t) ==
  /\ At(t, "await", "node")
  /\ exec[t].mem.ask /\ exec[t].answer
  /\ Return(t, "PLANNING", [exec[t] EXCEPT !.answer = FALSE, !.mem.ask = FALSE])

Finish(t) == At(t, "end", "node") /\ Ends(t)

-----------------------------------------------------------------------------

NodeStep(t) ==
  \/ Save(t) \/ Pass(t)
  \/ Interpret(t) \/ Interpreted(t) \/ InterpretFails(t) \/ InterpretNothing(t)
  \/ Orchestrate(t) \/ ReplanRefused(t) \/ Blocked(t) \/ PlanRaises(t) \/ PlanExceeds(t)
  \/ PlanFatal(t) \/ PlanRuns(t) \/ PlanWaits(t) \/ SavePlan(t) \/ Decided(t)
  \/ NextTier(t) \/ TaskEnds(t) \/ TaskReports(t) \/ TaskStored(t) \/ TaskRefused(t)
  \/ SaveBudget(t) \/ Dispatched(t) \/ Observe(t) \/ Update(t) \/ Updated(t)
  \/ Achieved(t) \/ Popped(t) \/ TurnComplete(t) \/ NoProgress(t) \/ Replan(t)
  \/ AwaitRaises(t) \/ Park(t) \/ Resume(t) \/ Finish(t)
  \/ EvStep(t) /\ UNCHANGED loopVars

Next ==
  \/ \E t \in Looping :
       \/ Message(t) \/ Answer(t) \/ NodeStep(t)
       \/ \E p \in Process : Start(t, p)
  \/ \E t \in Task \ Looping : EvTask(t) /\ UNCHANGED loopVars
  \/ \E p \in Process : Crash(p)

Spec == Init /\ [][Next]_vars

\* The event loop runs what is ready, and a message is taken up again.
Fairness == \A t \in Looping : WF_vars(NodeStep(t)) /\ WF_vars(\E p \in Process : Start(t, p))

FairSpec == Spec /\ Fairness

-----------------------------------------------------------------------------
(* Properties *)

\* Type invariant of the loop and the ledger below it.
TypeOK ==
  /\ EvTypeOK
  /\ phase \in [Looping -> Phase]
  /\ budget \in [Looping -> Spent]
  /\ stack \in [Looping -> Seq(Nat)]
  /\ decisions \in [Looping -> Nat]
  /\ command \in [Looping -> {"none", "message", "answer"}]
  /\ ckpt \in [Looping -> Graph]
  /\ exec \in [Looping -> Exec]
  /\ reentered \subseteq Looping
  /\ turns \in Nat /\ crashes \in Nat

\* Between two nodes the checkpoint shows the phase the database confirmed,
\* except where a run enters the graph and after a crash until a node has
\* returned (transition_status: the graph never advances to a phase the
\* database has not confirmed).
PhaseConfirmed ==
  \A t \in Looping :
    exec[t].pc = "node" /\ exec[t].mem.node # "interpret" /\ t \notin reentered
      => exec[t].mem.status = phase[t]

\* Whatever way a round ends, no round is left open when the loop plans
\* again, waits for the learner or stops (close_round).
RoundsClosed ==
  \A t \in Looping :
    exec[t].pc = "node" /\ exec[t].mem.node \in {"orchestrate", "await", "end"}
      => exec[t].open = {}

\* The budget stops the loop: steps are exceeded by less than a tier, replans
\* never, and an execution opens a bounded number of rounds: the first, one
\* for each replan and one that is refused (check_plan, check_replan).
BudgetsHold ==
  \A t \in Looping : \A spent \in {budget[t], ckpt[t].spent, exec[t].mem.spent} :
    /\ spent.replans <= MaxReplans
    /\ exec[t].rounds <= MaxReplans + 2
    /\ \/ spent.steps < MaxSteps
       \/ \E plan \in Plans : \E i \in DOMAIN plan : spent.steps < MaxSteps + plan[i]

\* What a round has observed is in the profile before the round is judged by
\* it, unless folds of two processes overlapped or more than a page was
\* waiting (dispatch, update_state, evaluate_goal).
EvaluatedOnEvidence ==
  \A t \in Looping :
    At(t, "evaluate", "node") /\ exec[t].mem.status = "UPDATING"
      /\ ~overlapped /\ Len(ledger) <= Page =>
        \A i \in DOMAIN ledger :
          ledger[i].task = t /\ ledger[i].seq \in Seqs =>
            profile[ledger[i].point].times[ledger[i].seq] = 1

\* Every turn comes to an end.
TurnEnds == \A t \in Looping : command[t] # "none" ~> command[t] = "none"

\* What a comment says of a turn that has ended: the next one can plan.
TalksAgain ==
  \A t \in Looping : At(t, "interpret", "node") => Legal(phase[t], "PLANNING")

=============================================================================
