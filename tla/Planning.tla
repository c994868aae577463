------------------------------ MODULE Planning ------------------------------
(***************************************************************************)
(* One round's decision.  The orchestrate node reads the learner's state,  *)
(* scores every capability of every registered skill for the goal and for  *)
(* its weak prerequisites, shows the model what is worth doing, and takes  *)
(* its answer only when it fits what was offered.  The guardrails drop     *)
(* what may not run, and what is left is dispatched tier by tier to the    *)
(* skill the choice was bound to; a task is done when its condition holds. *)
(*                                                                         *)
(* Gains and utilities are in ten-thousandths, the learner's numbers in    *)
(* hundredths, so that the arithmetic of the code is exact here.  The      *)
(* holds of the delivery board are DeliveryBoard's; here a plan may revise *)
(* some of them.                                                           *)
(***************************************************************************)
EXTENDS Integers, Sequences, FiniteSets

CONSTANTS Point,     \* knowledge points
          Registry,  \* the enabled skills, in the order of their identifiers
          Worlds,    \* what an orchestration may find
          Explored,  \* bound: the worlds whose decisions are explored
          Shapes,    \* bound: the dependencies of the tasks a model plans
          Conditions \* bound: the conditions it closes them by

\* A skill is interactive, a background or an offline one, which is its weight.  A
\* board holds an artifact once, and what revises it is not named like a task of the
\* model.
ASSUME PlanningAssumption ==
  /\ Explored \subseteq Worlds
  /\ Registry \in Seq([can : SUBSET STRING, provider : STRING, weight : {1, 2, 4}, heavy : BOOLEAN])
  /\ Shapes \subseteq Seq(SUBSET Nat)
  /\ \A w \in Worlds :
       /\ \A v \in w.targets \cup w.prerequisites :
            v.mastery \in 0..100 /\ v.difficulty \in 0..100
       /\ IsFiniteSet(w.holds)
       /\ \A h, k \in w.holds : h.key \in Nat /\ (h.key = k.key => h = k)
       /\ \A h \in w.holds : \A needs \in Shapes : h.key \notin DOMAIN needs

VARIABLES world,   \* what this round has found
          offered, \* the candidates the model is shown
          phase,   \* how far the round has come
          plan,    \* the plan it is about
          allowed, \* identifiers of the tasks the guardrails let through
          tiers,   \* how many tiers of tasks have run
          runs     \* outcomes: task identifier -> skill and status

planning == <<world, offered, phase, plan, allowed, tiers, runs>>

HeavyKinds == {"content.lesson_intro", "content.deck", "content.visual"}
Irreversible == {"graph.build", "meta.author_skill"}
Conversational == {"dialog.converse", "dialog.interview"}
Weak == 45
Strong == 75
MinUtility == 500
MaxTasksPerRound == 3

-----------------------------------------------------------------------------
(* What the world says of a subject. *)

\* A plausible bug: a prerequisite at the threshold is not a subject.
SubjectsBelow(w) ==
    {[view |-> v, aimed |-> TRUE] : v \in w.targets}
    \cup {[view |-> v, aimed |-> FALSE] :
            v \in {p \in w.prerequisites : p.mastery < Weak}}

\* `aimed` tells a target from a prerequisite, which is a subject when weak.
Subjects(w) ==
    {[view |-> v, aimed |-> TRUE] : v \in w.targets}
    \cup {[view |-> v, aimed |-> FALSE] :
            v \in {p \in w.prerequisites : p.mastery <= Weak}}

\* A plausible bug: only the questions already on record count.
RecordedQuestions(w, s) == s.aimed /\ w.questions

\* A direct question counts as an open one, and asks for an answer.
Direct(w) == w.question /\ ~w.material
Questions(w, s) == s.aimed /\ (w.questions \/ Direct(w))
Requested(w) == w.wants \cup (IF Direct(w) THEN {"dialog.answer"} ELSE {})
\* Artifacts and quizzes are the task's, and the target's.
Has(w, s, artifact) == s.aimed /\ artifact \in w.artifacts
\* Only a target is judged against its prerequisites.
Blocked(w, s) == s.aimed /\ \E p \in w.prerequisites : p.mastery <= Weak

-----------------------------------------------------------------------------
(* Scoring. *)

Clamp(g) == IF g > 10000 THEN 10000 ELSE g

\* The expected learning gain of running capability c for s.
Gain(w, s, c) ==
    LET v == s.view
        room == 100 - v.mastery
        blocked == Blocked(w, s)
        nudge == IF s.aimed /\ c \in Requested(w) THEN 1500 ELSE 0
    IN Clamp(CASE
        c = "graph.prerequisite" ->
          nudge + (IF ~v.mapped /\ v.mastery < Strong THEN 5500 + 25 * v.difficulty
                   ELSE IF blocked THEN 4500 ELSE 1200)
     [] c = "content.lesson_intro" ->
          nudge + (IF Has(w, s, "lesson-intro") THEN 500
                   ELSE IF blocked THEN 2000 ELSE 3500 + 45 * room)
     [] c = "content.deck" ->
          nudge + (IF Has(w, s, "lecture-deck") THEN 500
                   ELSE IF blocked THEN 1800 ELSE 3000 + 50 * room)
     [] c = "content.visual" ->
          IF Has(w, s, "visual") /\ nudge = 0 THEN 800
          ELSE nudge + (IF blocked THEN 1800
                        ELSE 2000 + 35 * v.difficulty
                               + (IF v.mastery <= Weak THEN 2500 ELSE 0))
     [] c = "teach.explain" ->
          nudge + (IF blocked THEN 1800
                   ELSE IF v.misconceived THEN 6000 + 30 * room
                   ELSE IF Questions(w, s) THEN 4500 ELSE 2000 + 30 * room)
     [] c = "teach.strategy" ->
          nudge + (IF blocked THEN 2000 ELSE 3000 + 30 * room)
     [] c = "dialog.answer" ->
          nudge + (IF Questions(w, s) THEN 5000 ELSE 1500)
     [] c = "assess.generate" ->
          nudge + (IF s.aimed /\ w.openQuiz THEN 500
                   ELSE IF blocked THEN 1500
                   ELSE IF v.evidence < 2 THEN 5500 + 25 * room
                   ELSE IF v.mastery >= Strong THEN 2000 ELSE 3500 + 30 * room)
     [] c = "assess.grade" -> IF s.aimed /\ w.openQuiz THEN 7000 ELSE 500
     [] c = "assess.interpret" ->
          nudge + (IF v.evidence > 0 /\ v.misconceived THEN 4500 ELSE 1500)
     [] c = "review.schedule" ->
          nudge + (IF v.due THEN 4000 + 50 * v.priority
                   ELSE IF v.priority > 60 THEN 3000 ELSE 800)
     [] c = "model.reflect" -> IF v.evidence > 0 THEN 2500 ELSE 500
     [] c = "graph.build" -> nudge + 2000
     [] c = "tool.investigate" -> nudge + 2500 + 25 * v.difficulty
     [] c = "meta.report" -> IF v.mastery >= Strong THEN 3500 ELSE 1000
     [] OTHER -> nudge + 1000)

\* Why a skill cannot run right now is about state, never about intent.
Possible(w, s, row, c) ==
    LET v == s.view
        settled == ~w.openQuiz /\ ~w.submission
    IN /\ row.provider # "none"
       /\ c \in HeavyKinds \/ row.heavy => w.material
       /\ Direct(w) => c \in {"dialog.answer", "dialog.converse", "teach.explain"}
       /\ c = "assess.grade" => s.aimed /\ w.submission
       /\ c = "assess.interpret" => v.evidence > 0
       /\ c = "content.lesson_intro" => ~Has(w, s, "lesson-intro")
       /\ c = "content.deck" => ~Has(w, s, "lecture-deck")
       /\ c = "content.visual" => ~Has(w, s, "visual")
       /\ c = "assess.generate" => ~(s.aimed /\ w.openQuiz)
       /\ c = "dialog.answer" => Questions(w, s)
       /\ c = "dialog.probe" =>
            s.aimed /\ settled /\ (v.mastery \in 25..75 \/ v.misconceived)
       /\ c = "meta.report" => s.aimed /\ v.evidence > 0
       /\ c = "review.schedule" => s.aimed /\ (w.reviews \/ v.priority >= 30)
       /\ c \notin {"meta.author_skill", "meta.evaluate", "dialog.negotiate"}

\* Gain for cost; the cost, in halves, counts heavy artifacts by 1.5 more.
CostOf(row, c) ==
    2 * row.weight + (IF row.heavy \/ c \in HeavyKinds THEN 3 ELSE 0)
Utility(w, s, c, row) ==
    LET cost == CostOf(row, c) IN (4 * Gain(w, s, c) + cost) \div (2 * cost)

\* A candidate is bound to its skill, capability and point.
Candidate(w, s, i, c) ==
    [skill |-> i, capability |-> c, point |-> s.view.point,
     utility |-> Utility(w, s, c, Registry[i])]
\* The candidates that can run.
Scored(w) ==
    UNION {{Candidate(w, s, i, c) :
               c \in {d \in Registry[i].can : Possible(w, s, Registry[i], d)}} :
             i \in DOMAIN Registry, s \in Subjects(w)}
\* What is worth a turn is what the model is offered.
Offered(w) == {c \in Scored(w) : c.utility >= MinUtility}
Id(c) == <<c.skill, c.capability, c.point>>
KeyOf(c) == <<c.capability, c.point>>

-----------------------------------------------------------------------------
(* Deciding. *)

\* The model scores by capability and point.  Of the candidates that share
\* both the last one is kept, in the place of all of them.
Comes(c, d) == c.utility > d.utility \/ (c.utility = d.utility /\ c.skill < d.skill)
LastOf(c) == \A d \in offered : KeyOf(d) = KeyOf(c) /\ d # c => Comes(d, c)
\* What a task may name once the model has scored the keys `scores`.
Selectable(scores) ==
    {Id(c) : c \in {d \in offered : KeyOf(d) \in scores => LastOf(d)}}

\* What the model answers.  A task names the candidate it picked, a point, what
\* it needs, and a condition; `sound` says that all else about it parses.  It
\* may revise holds of the board, or close some; `negotiation` is a sentence to
\* the learner, `interaction` a question.
Condition == [kind : {"always", "result", "artifact", "any"},
              of : SUBSET {"always", "result", "artifact"}]
SoundCondition(condition) ==
    condition.kind # "always" /\ (condition.kind = "any" => condition.of # {})

\* A point outside of the goal or, when something was requested, anything else.
Deviates(w, capability, point) ==
    \/ point \notin {v.point : v \in w.targets}
    \/ Requested(w) # {} /\ capability \notin Requested(w)

\* A reply to what the learner said goes before a probe, a probe before chat.
Dropped(w, tasks) ==
    LET plans(c) == \E i \in DOMAIN tasks : tasks[i].capability = c
    IN IF w.message /\ plans("dialog.converse") THEN "dialog.probe"
       ELSE IF plans("dialog.probe") THEN "dialog.converse" ELSE "none"
Trimmed(w, tasks) ==
    LET drop == Dropped(w, tasks)
        kept[i \in 0..Len(tasks)] ==
          IF i = 0 THEN <<>>
          ELSE IF tasks[i].capability = drop THEN kept[i - 1]
          ELSE Append(kept[i - 1], tasks[i])
    IN kept[Len(tasks)]
Deviating(w, tasks) ==
    \E i \in DOMAIN tasks : Deviates(w, tasks[i].pick[2], tasks[i].pick[3])

\* The answer fits what was offered; otherwise all of it is refused, and the
\* round fails rather than choose a route of its own.
Validates(w, d) ==
    LET tasks == Trimmed(w, d.tasks)
        ids == {tasks[i].id : i \in DOMAIN tasks}
        holds == d.revises # {} \/ d.closes
        selectable == Selectable(d.scores)
    IN /\ d.scores # {} \/ holds
       /\ \A i \in DOMAIN d.tasks :
            /\ d.tasks[i].pick \in selectable
            /\ SoundCondition(d.tasks[i].done) /\ d.tasks[i].sound
       /\ tasks # <<>> \/ d.awaits \/ holds
       /\ \A i \in DOMAIN tasks : tasks[i].needs \subseteq ids \ {tasks[i].id}
       /\ d.awaits \/ Deviating(w, tasks) => d.interaction

\* A task for the candidate c, at the point the model names.
TaskOf(id, c, point, needs, done) ==
    [id |-> id, pick |-> Id(c), capability |-> c.capability, point |-> point,
     needs |-> needs, heavy |-> c.capability \in HeavyKinds, done |-> done,
     sound |-> TRUE]
\* Revisions of held artifacts come first; they name no candidate.
RevisionOf(hold) ==
    [id |-> hold.key, pick |-> <<>>, capability |-> hold.capability,
     point |-> hold.point, needs |-> {}, heavy |-> TRUE,
     done |-> [kind |-> "artifact", of |-> {}], sound |-> TRUE]
RevisionTasks(d) ==
    [i \in 1..Cardinality(d.revises) |->
       RevisionOf(CHOOSE h \in d.revises :
                    Cardinality({g \in d.revises : g.key < h.key}) = i - 1)]

\* A plan that only settles holds waits for the learner.
PlanOf(w, d) ==
    LET own == Trimmed(w, d.tasks)
        tasks == RevisionTasks(d) \o own
    IN [tasks |-> tasks, negotiation |-> d.negotiation,
        awaits |-> d.awaits \/ Deviating(w, own) \/ tasks = <<>>]

-----------------------------------------------------------------------------
(* The guardrails. *)

\* The allow-list: what some skill with a provider can do.
Able == UNION {Registry[i].can : i \in {j \in DOMAIN Registry :
                                          Registry[j].provider # "none"}}

\* The first tasks of the plan, one after the other: who may run, with the
\* conversations and the heavy artifacts counted so far.
Guarded(w, p) ==
    LET n == IF Len(p.tasks) > MaxTasksPerRound THEN MaxTasksPerRound
                                                ELSE Len(p.tasks)
        g[i \in 0..n] ==
          IF i = 0 THEN [ids |-> {}, talks |-> 0, heavy |-> 0] ELSE
          LET t == p.tasks[i]
              known == t.capability \in Able
              talk == known /\ t.capability \in Conversational
              passes == /\ known
                        /\ ~(talk /\ g[i - 1].talks > 0)
                        /\ t.capability \in Irreversible => t.capability \in w.confirmed
                        /\ Deviates(w, t.capability, t.point) => p.negotiation
                        /\ t.heavy => g[i - 1].heavy < w.heavyLeft
          IN [ids |-> IF passes THEN g[i - 1].ids \cup {t.id} ELSE g[i - 1].ids,
              talks |-> g[i - 1].talks + (IF talk THEN 1 ELSE 0),
              heavy |-> g[i - 1].heavy + (IF passes /\ t.heavy THEN 1 ELSE 0)]
    IN g[n].ids

-----------------------------------------------------------------------------
(* Dispatch. *)

\* A plausible bug: the choice is forgotten, any skill with the capability serves.
ServesAny(t) ==
    {i \in DOMAIN Registry :
       Registry[i].provider # "none" /\ t.capability \in Registry[i].can}

\* The skill that serves a task: the one its candidate was bound to, provided
\* the point is still the candidate's, or the cheapest for a revision.
Serves(t) ==
    {i \in DOMAIN Registry :
       /\ Registry[i].provider # "none" /\ t.capability \in Registry[i].can
       /\ t.pick # <<>> => <<i, t.capability, t.point>> = t.pick}
Resolved(t) ==
    CHOOSE i \in Serves(t) :
      \A j \in Serves(t) \ {i} :
        \/ Registry[i].weight < Registry[j].weight
        \/ Registry[i].weight = Registry[j].weight /\ i < j

\* A condition against what a provider has left behind.
Holds(kind, made) == kind = "always" \/ kind \in made
Done(condition, made) ==
    IF condition.kind = "any" THEN \E kind \in condition.of : Holds(kind, made)
                              ELSE Holds(condition.kind, made)

Planned == {plan.tasks[i] : i \in DOMAIN plan.tasks}
Succeeded == {id \in DOMAIN runs : runs[id].status = "completed"}
\* The ledger gives out a work item when what it needs has succeeded.
Claimable(t) == t.needs \subseteq Succeeded

\* How the attempt at a task may end.
Outcomes(t) ==
    IF ~Claimable(t) \/ Serves(t) = {} THEN {[skill |-> 0, status |-> "blocked"]}
    ELSE {[skill |-> Resolved(t), status |-> "failed"]}
         \cup {[skill |-> Resolved(t),
                status |-> IF Done(t.done, made) THEN "completed" ELSE "incomplete"] :
                 made \in SUBSET {"result", "artifact"}}

\* The dependency tiers; a cycle leaves tasks that are in none.
Tier(n) ==
    LET tier[i \in 0..n] ==
          IF i = 0 THEN {} ELSE
          tier[i - 1] \cup {t.id : t \in {u \in Planned : u.needs \subseteq tier[i - 1]}}
    IN tier[n]
Cyclic == Tier(Len(plan.tasks)) # {t.id : t \in Planned}
-----------------------------------------------------------------------------
PlanInit ==
    /\ world \in Worlds
    /\ offered = Offered(world)
    /\ phase = "deciding"
    /\ plan = [tasks |-> <<>>, negotiation |-> FALSE, awaits |-> FALSE]
    /\ allowed = {}
    /\ tiers = 0
    /\ runs = <<>>

\* The model cannot answer, has nothing to choose from, or fails.
NoPlan ==
    /\ phase = "deciding"
    /\ phase' = "refused"
    /\ UNCHANGED <<world, offered, plan, allowed, tiers, runs>>

DecidePlan(d) ==
    /\ phase = "deciding"
    /\ offered # {} \/ world.holds # {}
    /\ IF Validates(world, d) THEN phase' = "planned" /\ plan' = PlanOf(world, d)
                              ELSE phase' = "refused" /\ UNCHANGED plan
    /\ UNCHANGED <<world, offered, allowed, tiers, runs>>

\* A plausible bug: the round does not wait for the learner to agree.
GuardAnyway ==
    /\ phase = "planned"
    /\ allowed' = IF world.stepsLeft = 0 THEN {} ELSE Guarded(world, plan)
    /\ phase' = IF world.stepsLeft = 0 THEN "failed"
                ELSE IF allowed' = {} THEN "waiting" ELSE "executing"
    /\ UNCHANGED <<world, offered, plan, tiers, runs>>

\* An exhausted budget ends the turn.  A sentence to the learner makes the
\* round wait even when something may run.
Guard ==
    /\ phase = "planned"
    /\ allowed' = IF world.stepsLeft = 0 THEN {} ELSE Guarded(world, plan)
    /\ phase' = IF world.stepsLeft = 0 THEN "failed"
                ELSE IF plan.negotiation \/ allowed' = {} THEN "waiting"
                ELSE "executing"
    /\ UNCHANGED <<world, offered, plan, tiers, runs>>

\* One tier: what may run of it runs, and spends a step each.  A cycle raises
\* before anything runs; the budget is looked at between tiers.
RunTier ==
    /\ phase = "executing" /\ ~Cyclic
    /\ Tier(tiers) # {t.id : t \in Planned}
    /\ Cardinality(DOMAIN runs) < world.stepsLeft
    /\ LET ready == {t \in Planned : t.id \in (Tier(tiers + 1) \ Tier(tiers)) \cap allowed}
       IN \E ends \in [ready -> UNION {Outcomes(t) : t \in ready}] :
            /\ \A t \in ready : ends[t] \in Outcomes(t)
            /\ runs' = [id \in DOMAIN runs \cup {t.id : t \in ready} |->
                          IF id \in DOMAIN runs THEN runs[id]
                                                ELSE ends[CHOOSE t \in ready : t.id = id]]
    /\ tiers' = tiers + 1
    /\ UNCHANGED <<world, offered, phase, plan, allowed>>

EndRound ==
    /\ phase = "executing"
    /\ \/ Cyclic /\ phase' = "failed"
       \/ /\ ~Cyclic
          /\ \/ Tier(tiers) = {t.id : t \in Planned}
             \/ Cardinality(DOMAIN runs) >= world.stepsLeft
          /\ phase' = "executed"
    /\ UNCHANGED <<world, offered, plan, allowed, tiers, runs>>

\* Answers of the model: up to two tasks, or revisions and closed holds.
Answers(w) ==
    {[scores |-> scores, awaits |-> awaits, interaction |-> asks, negotiation |-> says,
      revises |-> revises, closes |-> closes, tasks |-> tasks] :
        scores \in {{}, {KeyOf(c) : c \in offered}},
        awaits \in BOOLEAN, asks \in BOOLEAN, says \in BOOLEAN,
        revises \in SUBSET w.holds, closes \in {w.holds # {}, FALSE},
        tasks \in UNION {{[i \in DOMAIN needs |->
                             TaskOf(i, picks[i], points[i], needs[i], done)] :
                             picks \in [DOMAIN needs -> offered],
                             points \in [DOMAIN needs -> Point],
                             done \in Conditions} : needs \in Shapes}}

PlanNext ==
    \/ NoPlan
    \/ phase = "deciding" /\ world \in Explored /\ \E d \in Answers(world) : DecidePlan(d)
    \/ Guard \/ RunTier \/ EndRound

PlanSpec == PlanInit /\ [][PlanNext]_planning

-----------------------------------------------------------------------------
(* Properties. *)

\* A gap is closed first: while a prerequisite is weak, a skill that could teach the
\* target is offered for every weak prerequisite, and outranks itself there, though
\* teaching the target may be what the learner asked for.
Teaching == {"content.lesson_intro", "content.deck", "content.visual",
             "teach.explain", "teach.strategy", "assess.generate"}
RemedyFirst ==
    \A s, gap \in Subjects(world), i \in DOMAIN Registry :
      Blocked(world, s) /\ ~gap.aimed =>
        \A c \in Registry[i].can \cap Teaching :
          Candidate(world, s, i, c) \in offered =>
            /\ Candidate(world, gap, i, c) \in offered
            /\ Candidate(world, gap, i, c).utility > Candidate(world, s, i, c).utility

\* The answer of a model that scores everything and picks c alone.
Choosing(c, asks) ==
    [scores |-> {KeyOf(e) : e \in offered}, awaits |-> FALSE,
     interaction |-> asks, negotiation |-> FALSE, revises |-> {}, closes |-> FALSE,
     tasks |-> <<TaskOf(1, c, c.point, {}, [kind |-> "result", of |-> {}])>>]

\* A direct question can be answered at once, if some skill answers at all: one of the
\* candidates, chosen without a question or a sentence to the learner, is accepted and
\* let through.
QuestionsAnswered ==
    Direct(world) /\ world.targets # {} =>
      \A i \in DOMAIN Registry :
        /\ "dialog.answer" \in Registry[i].can
        /\ Registry[i].provider # "none" /\ ~Registry[i].heavy
        => \E c \in offered :
             LET d == Choosing(c, FALSE)
             IN Validates(world, d) /\ Guarded(world, PlanOf(world, d)) # {}

\* Nothing runs that the learner did not ask for: neither at a point outside of
\* the goal nor, when something was requested, with another capability.
NothingUnasked ==
    \A t \in Planned : t.id \in DOMAIN runs => ~Deviates(world, t.capability, t.point)

\* What runs is what was chosen: the skill, and at the point it was scored for.
BoundToChoice ==
    \A t \in Planned :
      t.id \in DOMAIN runs /\ t.pick # <<>> /\ runs[t.id].skill # 0
        => t.pick = <<runs[t.id].skill, t.capability, t.point>>

\* orchestrator.py: "The model evaluates every registry-eligible candidate and
\* produces the plan.  The host only enforces capability availability and
\* schema safety."  Whatever was offered may be chosen.
OfferStands ==
    \A c \in offered : Validates(world, Choosing(c, TRUE))

=============================================================================
