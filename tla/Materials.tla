----------------------------- MODULE Materials -----------------------------
(***************************************************************************)
(* The pages a learner is given: a lesson introduction, a lecture deck, a  *)
(* visual explainer.  Content providers let a model fill a draft area on   *)
(* disk, copy the result over the served file, have a subprocess validate  *)
(* what was copied, and only then report success; the dispatcher records   *)
(* the result and the plan opens a hold on it, which later rounds revise   *)
(* or close.  Everything is on disk under the task and the kind, so two    *)
(* attempts at one kind share both the draft and the served file.          *)
(*                                                                         *)
(* One behaviour is about one kind, chosen in Init.  A page is abstracted  *)
(* to who last wrote it and whether its validator accepts it; for a deck   *)
(* the page is the set of sources and the served file is what the build    *)
(* compiled from it.                                                       *)
(***************************************************************************)
EXTENDS Naturals, FiniteSets

CONSTANTS Attempt,   \* executions of a content provider
          None,      \* no page, no hold
          MaxStage   \* how often the model of one attempt stages a page

ASSUME MaterialsAssumption == None \notin Attempt /\ MaxStage \in Nat

VARIABLES kind,      \* which artifact this is
          draft,     \* the draft area .draft/<kind> of the task
          root,      \* the published sources of a deck
          file,      \* the file the learner is served
          att,       \* the attempts
          round,     \* the attempts the current plan dispatches
          holds,     \* attempts whose result awaits delivery
          produced,  \* the dispatcher's _artifacts has the kind
          verified,  \* the dispatcher's _validations has the kind
          writer     \* history: the attempt that wrote `file` last

materials == <<kind, draft, root, file, att, round, holds, produced, verified,
               writer>>

Kind == {"lesson-intro", "lecture-deck", "visual"}
Doc == [by : Attempt, ok : BOOLEAN]
NoDoc == None

\* What the draft area holds: the page (all sources of a deck), for a deck the
\* preset runtime, and a copy of the compiled file when a revision copied one.
Draft == [page : Doc \cup {NoDoc}, runtime : BOOLEAN, dist : Doc \cup {NoDoc}]
Empty == [page |-> NoDoc, runtime |-> FALSE, dist |-> NoDoc]

\* `of` is the held result a revision is about, and the attempt itself when it
\* generates; `stranger` says that it is for a weak prerequisite, `page` is
\* the snapshot it published, `source` what a deck's build has read, `verdict`
\* what its validators answered, and `alone` (history) that no other attempt has
\* overlapped it.
Job == [pc : {"new", "planned", "drafting", "written", "building", "built",
              "checked", "returned", "persisted", "held", "incomplete", "failed"},
        of : Attempt \cup {None}, stranger : BOOLEAN, staged : 0..MaxStage,
        page : Doc \cup {NoDoc}, source : Doc \cup {NoDoc}, verdict : BOOLEAN,
        alone : BOOLEAN]

Fresh(a) == att[a].of = a
Finished == {"held", "incomplete", "failed"}
Working(a) == att[a].pc \notin {"new", "planned"} \cup Finished

Init == /\ kind \in Kind
        /\ draft = Empty
        /\ root = NoDoc
        /\ file = NoDoc
        /\ att = [a \in Attempt |->
                    [pc |-> "new", of |-> None, stranger |-> FALSE, staged |-> 0,
                     page |-> NoDoc, source |-> NoDoc, verdict |-> FALSE,
                     alone |-> TRUE]]
        /\ round = {}
        /\ holds = {}
        /\ produced = FALSE
        /\ verified = FALSE
        /\ writer = None

-----------------------------------------------------------------------------
(* The plan of a round. *)

\* The artifact of another subject is not seen when a candidate is judged: a
\* weak prerequisite always gets a new one.
Eligible(stranger) == stranger \/ ~produced

\* A plan is revisions of distinct holds and at most one attempt to generate:
\* generation is not parallel-safe, so further ones would only follow it.
Plan(fresh, revisions) ==
    /\ round = {}
    /\ Cardinality(fresh) <= 1
    /\ fresh \cup revisions # {}
    /\ \A a \in fresh \cup revisions : att[a].pc = "new"
    /\ \E of \in [revisions -> holds], stranger \in BOOLEAN :
         /\ \A a, b \in revisions : of[a] = of[b] => a = b
         /\ fresh # {} => Eligible(stranger)
         /\ att' = [a \in Attempt |->
                      IF a \in fresh
                        THEN [att[a] EXCEPT !.pc = "planned", !.of = a,
                                            !.stranger = stranger]
                      ELSE IF a \in revisions
                        THEN [att[a] EXCEPT !.pc = "planned", !.of = of[a]]
                      ELSE att[a]]
    /\ round' = fresh \cup revisions
    /\ UNCHANGED <<kind, draft, root, file, holds, produced, verified, writer>>

\* A plan closes a hold, which queues what it holds for delivery.
CloseHold(a) ==
    /\ round = {}
    /\ a \in holds
    /\ holds' = holds \ {a}
    /\ UNCHANGED <<kind, draft, root, file, att, round, produced, verified,
                   writer>>

\* Every attempt of the round has an outcome: the held ones reach the board,
\* a revision under the key of what it revises.
EndRound ==
    /\ round # {}
    /\ \A a \in round : att[a].pc \in Finished
    /\ holds' = holds \cup {att[a].of : a \in {b \in round : att[b].pc = "held"}}
    /\ round' = {}
    /\ UNCHANGED <<kind, draft, root, file, att, produced, verified, writer>>

\* The next execution of the task starts with what it finds on disk.
Restored == produced' = (file # NoDoc) /\ verified' = FALSE

NextExecution ==
    /\ round = {}
    /\ Restored
    /\ UNCHANGED <<kind, draft, root, file, att, round, holds, writer>>

\* The process dies under the attempts; the files stay as they are.
Crash ==
    /\ round # {}
    /\ att' = [a \in Attempt |->
                 IF a \in round /\ att[a].pc \notin Finished
                   THEN [att[a] EXCEPT !.pc = "failed"] ELSE att[a]]
    /\ round' = {}
    /\ Restored
    /\ UNCHANGED <<kind, draft, root, file, holds, writer>>

-----------------------------------------------------------------------------
(* Drafting. *)

\* a begins to draft: whoever else works is no longer alone, nor is a.
Drafting(a, pc) ==
    LET others == {b \in Attempt \ {a} : Working(b)} IN
    att' = [b \in Attempt |->
              IF b = a THEN [att[a] EXCEPT !.pc = pc, !.alone = others = {}]
              ELSE IF b \in others THEN [att[b] EXCEPT !.alone = FALSE]
              ELSE att[b]]

\* A plausible bug: what is left in the draft area stays unless it is replaced.
OpensDraftAsIs(page, runtime, dist) ==
    draft' = [page |-> IF page = NoDoc THEN draft.page ELSE page,
              runtime |-> runtime, dist |-> dist]

\* Every attempt erases the draft area of its kind and fills it afresh.
OpensDraft(page, runtime, dist) ==
    draft' = [page |-> page, runtime |-> runtime, dist |-> dist]

Begins(a, k) == a \in round /\ att[a].pc = "planned" /\ kind = k

\* A revision of a lesson starts from the served page and gives up without it.
LessonBegins(a) ==
    /\ Begins(a, "lesson-intro")
    /\ OpensDraft(IF Fresh(a) THEN NoDoc ELSE file, FALSE, NoDoc)
    /\ Drafting(a, IF ~Fresh(a) /\ file = NoDoc THEN "failed" ELSE "drafting")
    /\ UNCHANGED <<kind, root, file, round, holds, produced, verified, writer>>

\* A deck's draft has the runtime from the start; a revision copies everything
\* else that is published, the compiled file included.
DeckBegins(a) ==
    /\ Begins(a, "lecture-deck")
    /\ IF Fresh(a) THEN OpensDraft(NoDoc, TRUE, NoDoc)
                   ELSE OpensDraft(root, TRUE, file)
    /\ Drafting(a, "drafting")
    /\ UNCHANGED <<kind, root, file, round, holds, produced, verified, writer>>

\* A visual is revised from the served page when there is one.
VisualBegins(a) ==
    /\ Begins(a, "visual")
    /\ OpensDraft(IF Fresh(a) THEN NoDoc ELSE file, FALSE, NoDoc)
    /\ Drafting(a, "drafting")
    /\ UNCHANGED <<kind, root, file, round, holds, produced, verified, writer>>

\* The model stages a page; the directory is made again when it is gone.
Stage(a) ==
    /\ att[a].pc = "drafting"
    /\ att[a].staged < MaxStage
    /\ \E ok \in BOOLEAN : draft' = [draft EXCEPT !.page = [by |-> a, ok |-> ok]]
    /\ att' = [att EXCEPT ![a].staged = @ + 1]
    /\ UNCHANGED <<kind, root, file, round, holds, produced, verified, writer>>

-----------------------------------------------------------------------------
(* Publishing: the served file is written before anything is validated. *)

Moves(a, pc) == att' = [att EXCEPT ![a].pc = pc]

Publishes(a, doc) ==
    /\ file' = doc
    /\ writer' = a
    /\ att' = [att EXCEPT ![a].pc = "written", ![a].page = doc]

\* The lesson agent answered: what is staged is served.
LessonReturns(a) ==
    /\ att[a].pc = "drafting" /\ kind = "lesson-intro"
    /\ draft.page # NoDoc
    /\ Publishes(a, draft.page)
    /\ UNCHANGED <<kind, draft, root, round, holds, produced, verified>>

\* The agent raised, and the attempt ends without publishing; running out of time
\* or steps is that for a lesson only, and so is having staged nothing.  Drafts are
\* erased on the way out, a deck's is not.
ModelFails(a) ==
    /\ att[a].pc = "drafting"
    /\ draft' = IF kind = "lecture-deck" THEN draft ELSE Empty
    /\ Moves(a, "failed")
    /\ UNCHANGED <<kind, root, file, round, holds, produced, verified, writer>>

\* A deck is published from what is staged, whether the model answered or ran
\* out: the old deck is removed, the staged files are written, and a missing
\* required file is reported only then.
DeckReturns(a) ==
    /\ att[a].pc = "drafting" /\ kind = "lecture-deck"
    /\ IF draft = Empty
         THEN Moves(a, "failed") /\ UNCHANGED <<root, file, writer>>
         ELSE /\ root' = draft.page
              /\ file' = draft.dist
              /\ writer' = a
              /\ att' = [att EXCEPT
                           ![a].pc = IF draft.runtime /\ draft.page # NoDoc
                                       THEN "written" ELSE "failed",
                           ![a].page = draft.page]
    /\ UNCHANGED <<kind, draft, round, holds, produced, verified>>

\* The build is a subprocess: it reads the sources it finds and writes what it
\* compiled from them later.  A page that is not valid may not compile.
BuildReads(a) ==
    /\ att[a].pc = "written" /\ kind = "lecture-deck"
    /\ att' = [att EXCEPT ![a].pc = "building", ![a].source = root]
    /\ UNCHANGED <<kind, draft, root, file, round, holds, produced, verified,
                   writer>>

BuildWrites(a) ==
    /\ att[a].pc = "building"
    /\ \E compiles \in BOOLEAN :
         /\ att[a].source = NoDoc => ~compiles
         /\ IF compiles THEN file' = att[a].source /\ writer' = a
                        ELSE UNCHANGED <<file, writer>>
         /\ att' = [att EXCEPT ![a].pc = "built", ![a].verdict = compiles]
    /\ UNCHANGED <<kind, draft, root, round, holds, produced, verified>>

\* A visual that timed out is published like one that was finished.
VisualReturns(a) ==
    /\ att[a].pc = "drafting" /\ kind = "visual"
    /\ draft' = Empty
    /\ IF draft.page = NoDoc
         THEN Moves(a, "failed") /\ UNCHANGED <<file, writer>>
         ELSE Publishes(a, draft.page)
    /\ UNCHANGED <<kind, root, round, holds, produced, verified>>

\* The validators read the served page, or the deck's sources and compiled
\* file; they also fail when they cannot run or take too long.
Validates(a) ==
    /\ IF kind = "lecture-deck" THEN att[a].pc = "built" ELSE att[a].pc = "written"
    /\ LET page == IF kind = "lecture-deck" /\ file # NoDoc THEN root ELSE file
           good == page # NoDoc /\ page.ok
                     /\ (kind = "lecture-deck" => att[a].verdict)
       IN \E v \in {good, FALSE} :
            att' = [att EXCEPT ![a].pc = "checked", ![a].verdict = v]
    /\ UNCHANGED <<kind, draft, root, file, round, holds, produced, verified,
                   writer>>

\* A plausible bug: what was published counts, whatever the verdict.
SettlesAnyway(a) ==
    /\ att[a].pc = "checked"
    /\ Moves(a, "returned")
    /\ draft' = IF kind = "visual" THEN draft ELSE Empty
    /\ UNCHANGED <<kind, root, file, round, holds, produced, verified, writer>>

\* The verdict is in.  A lesson's draft is erased either way, a deck's only
\* when it was published; a visual's is gone already.
Settles(a) ==
    /\ att[a].pc = "checked"
    /\ Moves(a, IF att[a].verdict THEN "returned" ELSE "failed")
    /\ draft' = IF kind = "lesson-intro" \/ (kind = "lecture-deck" /\ att[a].verdict)
                  THEN Empty ELSE draft
    /\ UNCHANGED <<kind, root, file, round, holds, produced, verified, writer>>

\* The dispatcher records the artifact and the provider's own verdict.
Persists(a) ==
    /\ att[a].pc = "returned"
    /\ produced' = TRUE
    /\ verified' = TRUE
    /\ Moves(a, "persisted")
    /\ UNCHANGED <<kind, draft, root, file, round, holds, writer>>

\* The done condition asks whether the file is there and a verdict recorded.
ChecksDone(a) ==
    /\ att[a].pc = "persisted"
    /\ Moves(a, IF file # NoDoc /\ verified THEN "held" ELSE "incomplete")
    /\ UNCHANGED <<kind, draft, root, file, round, holds, produced, verified,
                   writer>>

-----------------------------------------------------------------------------
Attempts(a) ==
    \/ LessonBegins(a) \/ LessonReturns(a) \/ ModelFails(a)
    \/ DeckBegins(a) \/ DeckReturns(a) \/ BuildReads(a) \/ BuildWrites(a)
    \/ VisualBegins(a) \/ VisualReturns(a)
    \/ Stage(a) \/ Validates(a) \/ Settles(a) \/ Persists(a) \/ ChecksDone(a)

MaterialsNext ==
    \/ \E fresh, revisions \in SUBSET Attempt : Plan(fresh, revisions)
    \/ \E a \in Attempt : CloseHold(a) \/ Attempts(a)
    \/ EndRound
    \/ NextExecution
    \/ Crash

MaterialsSpec == Init /\ [][MaterialsNext]_materials

-----------------------------------------------------------------------------
TypeOK ==
    /\ kind \in Kind
    /\ draft \in Draft
    /\ root \in Doc \cup {NoDoc}
    /\ file \in Doc \cup {NoDoc}
    /\ att \in [Attempt -> Job]
    /\ round \subseteq Attempt
    /\ holds \subseteq Attempt
    /\ produced \in BOOLEAN /\ verified \in BOOLEAN
    /\ writer \in Attempt \cup {None}

\* A success is served: when the attempt that wrote the served file last has
\* reported success, the file is one its validators accept.  For a deck this
\* needs that no other attempt overlapped it: the slow build of an earlier one
\* would put a mixture in its place.
SuccessIsServed ==
    \A a \in Attempt :
      /\ writer = a
      /\ att[a].pc \in {"returned", "persisted", "held"}
      /\ kind = "lecture-deck" => att[a].alone
      => file # NoDoc /\ file.ok

\* An attempt that worked alone and succeeded published its own work, or, when
\* its model changed nothing, what it was told to revise: never what another
\* attempt had left behind in the draft area.
OwnWork ==
    \A a \in Attempt :
      att[a].alone /\ Fresh(a) /\ att[a].pc \in {"returned", "persisted", "held"}
        => att[a].page # NoDoc /\ att[a].page.by = a

\* content.py: "an invalid or timed-out model result is never published as a
\* substitute artifact".  When nothing runs, what is served is valid.
NeverPublished == round = {} /\ file # NoDoc => file.ok
=============================================================================
