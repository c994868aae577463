-------------------------- MODULE MCDeliveryBoard --------------------------
(* Instances of DeliveryBoard and Planning for TLC: what a round decides,  *)
(* and what becomes of the artifacts that rounds hold back.  They share no *)
(* variable; `scene` chooses which of them a behaviour is about.           *)
EXTENDS DeliveryBoard, Planning

CONSTANTS intro, t1

VARIABLE scene

MCMakes  == [t \in Task |-> IF t = t1 THEN intro ELSE CHOOSE a \in Artifact : a # intro]
\* One order; artifacts may come to be held in the other.
MCOrders == {[a \in Artifact |-> IF a = intro THEN 1 ELSE 2]}

Symmetry == Permutations(Process) \cup Permutations(Request)

-----------------------------------------------------------------------------
(* The shipped skills that teach or talk, in the order of their names. *)
Skill(can, provider, weight, heavy) ==
    [can |-> can, provider |-> provider, weight |-> weight, heavy |-> heavy]
MCRegistry ==
    <<Skill({"teach.strategy", "teach.explain"}, "adaptive_pedagogy", 1, FALSE),
      Skill({"content.deck"}, "lecture_deck", 2, TRUE),
      Skill({"content.visual"}, "visual_explainer", 2, TRUE),
      Skill({"dialog.answer"}, "answer_user", 1, FALSE),
      Skill({"dialog.converse"}, "learning_companion", 1, FALSE),
      Skill({"content.lesson_intro"}, "lesson_intro", 2, TRUE),
      Skill({"assess.generate"}, "quiz_generator", 2, FALSE),
      Skill({"assess.generate"}, "retrieval_practice", 2, FALSE),
      Skill({"dialog.probe"}, "probe_user", 1, FALSE)>>

Subject(p, mastery, evidence) ==
    [point |-> p, mastery |-> mastery, evidence |-> evidence, misconceived |-> FALSE,
     mapped |-> FALSE, difficulty |-> 50, priority |-> 0, due |-> FALSE]
Basic ==
    [targets |-> {Subject("a", 50, 1)}, prerequisites |-> {}, artifacts |-> {},
     openQuiz |-> FALSE, submission |-> FALSE, questions |-> FALSE,
     question |-> FALSE, material |-> FALSE, wants |-> {}, message |-> FALSE,
     reviews |-> FALSE, holds |-> {}, confirmed |-> {}, heavyLeft |-> 2,
     stepsLeft |-> 2]

\* What only the scores are looked at for.
Gaps == {{}, {Subject("b", 45, 0)}, {Subject("b", 20, 2), Subject("c", 60, 2)}}
Ranked ==
    {[Basic EXCEPT !.targets = {[Subject("a", m, e) EXCEPT !.misconceived = wrong]},
                   !.prerequisites = gaps, !.artifacts = made, !.openQuiz = quiz,
                   !.questions = open, !.question = asked, !.material = material,
                   !.wants = wants] :
       m \in {20, 45, 80}, e \in {0, 2}, wrong \in BOOLEAN, gaps \in Gaps,
       made \in {{}, {"lecture-deck"}}, quiz \in BOOLEAN,
       open \in BOOLEAN, asked \in BOOLEAN, material \in BOOLEAN,
       wants \in {{}, {"content.deck"}, {"content.deck", "dialog.answer"}}}

\* A question; material and a quiz for a target with a gap; a message that asks
\* for a deck; a question with two holds and one step left.
MCExplored ==
    {[Basic EXCEPT !.question = TRUE],
     [Basic EXCEPT !.material = TRUE, !.openQuiz = TRUE, !.artifacts = {"lesson-intro"},
        !.prerequisites = {Subject("b", 20, 0)}],
     [Basic EXCEPT !.message = TRUE, !.wants = {"content.deck"}],
     [Basic EXCEPT !.question = TRUE, !.stepsLeft = 1,
        !.holds = {[key |-> 11, capability |-> "content.deck", point |-> "b"],
                   [key |-> 12, capability |-> "content.lesson_intro", point |-> "a"]}]}
Nobody == [Basic EXCEPT !.targets = {}]
MCWorlds == {Nobody} \cup Ranked \cup MCExplored
MCShapes == {<<>>, <<{}>>, <<{}, {}>>, <<{}, {1}>>, <<{2}, {1}>>}
MCConditions == {[kind |-> "result", of |-> {}],
                 [kind |-> "any", of |-> {"artifact", "result"}]}

-----------------------------------------------------------------------------
MCInit ==
    /\ scene \in {"board", "round"}
    /\ Init
    /\ PlanInit /\ (scene = "board" => world = Nobody)
MCNext ==
    /\ \/ scene = "board" /\ Next /\ UNCHANGED planning
       \/ scene = "round" /\ PlanNext /\ UNCHANGED vars
    /\ UNCHANGED scene
MCSpec == MCInit /\ [][MCNext]_<<vars, planning, scene>>
=============================================================================
