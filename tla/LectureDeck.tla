----------------------------- MODULE LectureDeck ----------------------------
(***************************************************************************)
(* The lecture deck of a skill: a project directory of slide pages and a   *)
(* lecture.json that walks a camera over them.  A scaffold is written file *)
(* by file and never overwrites one; an author edits it; a browser may     *)
(* measure where the anchors are drawn and write that back; the build puts *)
(* everything into one document; the validator accepts it or not; and a    *)
(* player shows the steps of what was published, while slides load and     *)
(* corrections of the camera are due.                                      *)
(*                                                                         *)
(* Wording, styling and density are one verdict per page, `clean`.  What   *)
(* the validator only warns of is left out.                                *)
(***************************************************************************)
EXTENDS Integers, Sequences, FiniteSets

CONSTANTS
  MaxPages,   \* bound on the slides of a deck
  Boxes,      \* bound: the rectangles an anchor may have
  MaxEdits,   \* bound on edits by the author
  MaxCrashes, \* bound on interrupted scripts
  MaxMoves    \* bound on moves of the viewer

ASSUME DeckAssumption ==
  /\ MaxPages \in Nat /\ MaxPages >= 3
  /\ Boxes \subseteq [x : Int, y : Int, w : Int, h : Int]
  /\ MaxCrashes \in Nat /\ MaxEdits \in Nat /\ MaxMoves \in Nat

VARIABLES
  pages,     \* slides/sNN.html: a page or NoPage
  lecture,   \* lecture.json: a sequence of slides; empty: there is none
  runtime,   \* is runtime/index.html there?
  dist,      \* dist/lecture.html: what was embedded; empty: there is none
  script,    \* the running script, how far it is and what it has measured
  counts,    \* slide counts the scaffold was ever asked for
  edits, crashes, \* how often the author has edited, a script has died
  published, \* the document of the last build that was accepted
  player     \* the player that has opened it

deck == <<pages, lecture, runtime, dist, script, counts, edits, crashes,
          published, player>>

Number == 1..MaxPages
CanvasW == 1280
CanvasH == 720

-----------------------------------------------------------------------------
(* Pages and slides.  Identifiers are numbers: slide n is "sNN", page n is  *)
(* its file, anchor n is the one the scaffold gives to page n.              *)

NoPage == [id |-> 0, role |-> "none", clean |-> FALSE, anchors |-> <<>>]
\* An anchor of a page: its data-rect, its inline style, whether that gives a
\* height, and where a browser draws it.
Mark(box) == [rect |-> box, style |-> box, high |-> TRUE, drawn |-> box]
SlidePage(n, role, anchors) == [id |-> n, role |-> role, clean |-> TRUE, anchors |-> anchors]
NoPlayer == [cursor |-> <<>>, current |-> 0, frame |-> NoPage, loading |-> <<>>,
             shown |-> <<>>, camera |-> <<>>, due |-> {}, run |-> 0, moves |-> 0]
NoScript == [kind |-> "none", count |-> 0, next |-> 0, found |-> <<>>]

Home == [x |-> 64, y |-> 208, w |-> 1152, h |-> 376]
RoleOf(n, count) == IF n = 1 THEN "opening" ELSE IF n = count THEN "closing" ELSE "content"

Overview(n, k) == [id |-> <<n, k>>, order |-> k, kind |-> "overview", mode |-> "fit",
                   anchor |-> 0, panel |-> FALSE, marks |-> {}]
Zoom(n, k, a) == [id |-> <<n, k>>, order |-> k, kind |-> "zoom", mode |-> "anchor",
                  anchor |-> a, panel |-> TRUE, marks |-> {}]

\* A plausible bug: slides are numbered from zero.
LectureFromZero(count) ==
    [n \in 1..count |->
       LET steps == IF n \in {1, count} THEN <<Overview(n, 1)>>
                    ELSE <<Overview(n, 1), Zoom(n, 2, n), Zoom(n, 3, n)>>
       IN [id |-> n, index |-> n - 1, role |-> RoleOf(n, count), file |-> n,
           anchors |-> IF n \in {1, count} THEN <<>> ELSE <<[id |-> n, rect |-> Home]>>,
           steps |-> steps]]

\* What the scaffold writes for a deck of `count` slides.
ScaffoldPage(n, count) ==
    SlidePage(n, RoleOf(n, count),
         IF n \in {1, count} THEN <<>> ELSE [a \in {n} |-> Mark(Home)])
ScaffoldLecture(count) ==
    [n \in 1..count |->
       LET steps == IF n \in {1, count} THEN <<Overview(n, 1)>>
                    ELSE <<Overview(n, 1), Zoom(n, 2, n), Zoom(n, 3, n)>>
       IN [id |-> n, index |-> n, role |-> RoleOf(n, count), file |-> n,
           anchors |-> IF n \in {1, count} THEN <<>> ELSE <<[id |-> n, rect |-> Home]>>,
           steps |-> steps]]

-----------------------------------------------------------------------------
(* The validator. *)

InCanvas(box) == box.x + box.w <= CanvasW /\ box.y + box.h <= CanvasH
Ids(anchors) == {anchors[i].id : i \in DOMAIN anchors}
Zooms(s) == {k \in DOMAIN s.steps : s.steps[k].kind = "zoom"}

\* An opening, contents and a closing, numbered in order.
RolesOk(l) ==
    /\ Len(l) >= 3
    /\ \A n \in DOMAIN l : l[n].role = RoleOf(n, Len(l)) /\ l[n].index = n

\* A plausible bug: a page is taken for the slide's by its role.
PageByRole(s, page) == page.role = s.role /\ page.clean

\* The page is the slide's: by identifier and role, not by name of its file.
PageOk(s, page) == page.id = s.id /\ page.role = s.role /\ page.clean

\* The inline style may leave the height to the content, and only that.
StyleOk(mark, box) ==
    /\ mark.style.x = box.x /\ mark.style.y = box.y /\ mark.style.w = box.w
    /\ mark.high => mark.style.h = box.h
AnchorsOk(s, page) ==
    /\ Cardinality(Ids(s.anchors)) = Len(s.anchors)
    /\ \A i \in DOMAIN s.anchors :
         LET a == s.anchors[i].id
             box == s.anchors[i].rect
         IN /\ InCanvas(box)
            /\ a \in DOMAIN page.anchors
            /\ page.anchors[a].rect = box
            /\ StyleOk(page.anchors[a], box)

StepOk(s, k) ==
    LET step == s.steps[k]
    IN /\ step.order = k
       /\ step.id[1] = s.id
       /\ step.kind = "overview" => step.mode = "fit" /\ step.anchor = 0
       /\ step.kind = "zoom" =>
            /\ step.mode = "anchor" /\ step.anchor \in Ids(s.anchors)
            /\ step.panel
            /\ step.marks \subseteq Ids(s.anchors)
StepsOk(s) ==
    /\ \A k \in DOMAIN s.steps : StepOk(s, k)
    /\ s.steps # <<>> /\ s.steps[1].kind = "overview"
    /\ s.role = "opening" => Len(s.steps) = 1
    /\ s.role = "content" => Cardinality(Zooms(s)) \in 2..4
    /\ s.role = "closing" => Cardinality(Zooms(s)) <= 2

\* Slides, anchors and steps are told apart in the whole deck.
IdsOk(l) ==
    /\ \A m, n \in DOMAIN l : m # n =>
         /\ l[m].id # l[n].id
         /\ Ids(l[m].anchors) \cap Ids(l[n].anchors) = {}
    /\ \A n \in DOMAIN l :
         /\ l[n].id > 0
         /\ \A j, k \in DOMAIN l[n].steps :
              j # k => l[n].steps[j].id # l[n].steps[k].id

\* The built document is looked at for what the build always embeds.
Accepts(l, files, player_there, built) ==
    /\ RolesOk(l) /\ IdsOk(l)
    /\ \A n \in DOMAIN l :
         LET page == files[l[n].file]
         IN page # NoPage /\ PageOk(l[n], page) /\ AnchorsOk(l[n], page) /\ StepsOk(l[n])
    /\ player_there /\ built # <<>>

-----------------------------------------------------------------------------
(* The scripts. *)

DeckInit ==
    /\ pages = [n \in Number |-> NoPage]
    /\ lecture = <<>> /\ runtime = FALSE /\ dist = <<>>
    /\ script = NoScript /\ counts = {} /\ edits = 0 /\ crashes = 0
    /\ published = <<>> /\ player = NoPlayer

\* Pages first, then the runtime, lecture.json last: whatever is there stays.
Scaffold(count) ==
    /\ script = NoScript /\ edits = 0 /\ player = NoPlayer
    /\ Cardinality(counts \cup {count}) <= 2
    /\ script' = [NoScript EXCEPT !.kind = "scaffold", !.count = count, !.next = 1]
    /\ counts' = counts \cup {count}
    /\ UNCHANGED <<pages, lecture, runtime, dist, edits, crashes, published, player>>

ScaffoldStep ==
    /\ script.kind = "scaffold"
    /\ LET n == script.next
           count == script.count
       IN /\ pages' = IF n <= count /\ pages[n] = NoPage
                      THEN [pages EXCEPT ![n] = ScaffoldPage(n, count)] ELSE pages
          /\ runtime' = (runtime \/ n = count + 1)
          /\ lecture' = IF n = count + 2 /\ lecture = <<>>
                        THEN ScaffoldLecture(count) ELSE lecture
          /\ script' = IF n = count + 2 THEN NoScript ELSE [script EXCEPT !.next = n + 1]
    /\ UNCHANGED <<dist, counts, edits, crashes, published, player>>

\* The anchors of one page are drawn and their data-rects written back; the
\* inline style stays.  lecture.json follows when all pages are done.
Measure ==
    /\ script = NoScript /\ lecture # <<>> /\ player = NoPlayer
    /\ script' = [NoScript EXCEPT !.kind = "measure", !.next = 1]
    /\ UNCHANGED <<pages, lecture, runtime, dist, counts, edits, crashes, published, player>>

Drawn(page) == [a \in DOMAIN page.anchors |-> page.anchors[a].drawn]
MeasurePage ==
    /\ script.kind = "measure" /\ script.next <= Len(lecture)
    /\ LET file == lecture[script.next].file
           page == pages[file]
       IN /\ pages' = [pages EXCEPT ![file].anchors =
                         [a \in DOMAIN page.anchors |->
                            [page.anchors[a] EXCEPT !.rect = page.anchors[a].drawn]]]
          /\ script' = [script EXCEPT !.next = @ + 1, !.found = Append(@, Drawn(page))]
    /\ UNCHANGED <<lecture, runtime, dist, counts, edits, crashes, published, player>>
MeasureEnd ==
    /\ script.kind = "measure" /\ script.next > Len(lecture)
    /\ lecture' = [n \in DOMAIN lecture |->
                     [lecture[n] EXCEPT !.anchors =
                        [i \in DOMAIN @ |->
                           IF @[i].id \in DOMAIN script.found[n]
                             THEN [@[i] EXCEPT !.rect = script.found[n][lecture[n].anchors[i].id]]
                             ELSE @[i]]]]
    /\ script' = NoScript
    /\ UNCHANGED <<pages, runtime, dist, counts, edits, crashes, published, player>>

ScriptDies ==
    /\ script # NoScript /\ crashes < MaxCrashes
    /\ script' = NoScript /\ crashes' = crashes + 1
    /\ UNCHANGED <<pages, lecture, runtime, dist, counts, edits, published, player>>

\* The author writes a page or a slide anew, with one thing changed.
PageEdits(page) ==
    {[page EXCEPT !.id = n] : n \in Number}
    \cup {[page EXCEPT !.clean = FALSE], [page EXCEPT !.anchors = <<>>]}
    \cup UNION {{[page EXCEPT !.anchors[a] = m] :
                   m \in {[page.anchors[a] EXCEPT !.high = FALSE, !.drawn = box] :
                            box \in {b \in Boxes : StyleOk([page.anchors[a] EXCEPT !.high = FALSE], b)}}
                         \cup {Mark(box) : box \in Boxes}} : a \in DOMAIN page.anchors}
SlideEdits(s) ==
    {[s EXCEPT !.id = n] : n \in Number} \cup {[s EXCEPT !.file = n] : n \in Number}
    \cup {[s EXCEPT !.anchors = <<>>], [s EXCEPT !.steps = SubSeq(@, 2, Len(@))]}
    \cup {[s EXCEPT !.anchors[i] = [id |-> a, rect |-> box]] :
            i \in DOMAIN s.anchors, a \in Number, box \in Boxes}
    \cup {[s EXCEPT !.steps[k] = step] : k \in DOMAIN s.steps,
            step \in {Zoom(s.id, Len(s.steps), a) : a \in Number}}
    \cup {[s EXCEPT !.steps = Append(@, Zoom(s.id, Len(s.steps) + 1, a))] : a \in Number}
Edit ==
    /\ script = NoScript /\ lecture # <<>> /\ edits < MaxEdits /\ player = NoPlayer
    /\ edits' = edits + 1
    /\ \/ \E n \in DOMAIN lecture : \E page \in PageEdits(pages[n]) :
            pages' = [pages EXCEPT ![n] = page] /\ UNCHANGED lecture
       \/ \E n \in DOMAIN lecture : \E s \in SlideEdits(lecture[n]) :
            lecture' = [lecture EXCEPT ![n] = s] /\ UNCHANGED pages
    /\ UNCHANGED <<runtime, dist, script, counts, crashes, published, player>>

\* Embeds the lecture and every page, by file; a page that is missing raises.
\* The validator runs all the same; both must pass.
Compiles == runtime /\ \A n \in DOMAIN lecture : pages[lecture[n].file] # NoPage
Bundle == [lecture |-> lecture,
           slides |-> [f \in {lecture[n].file : n \in DOMAIN lecture} |-> pages[f]]]
BuildAndValidate ==
    /\ script = NoScript /\ lecture # <<>> /\ player = NoPlayer
    /\ dist' = IF Compiles THEN Bundle ELSE dist
    /\ published' = IF Compiles /\ Accepts(lecture, pages, runtime, dist') THEN dist' ELSE <<>>
    /\ UNCHANGED <<pages, lecture, runtime, script, counts, edits, crashes, player>>

-----------------------------------------------------------------------------
(* The player of the published document.  A stop is a step of a slide.      *)

Lecture == published.lecture
Stops == UNION {{<<n, k>> : k \in DOMAIN Lecture[n].steps} : n \in DOMAIN Lecture}
StepAt(stop) == Lecture[stop[1]].steps[stop[2]]
After(stop, other) == other[1] > stop[1] \/ (other[1] = stop[1] /\ other[2] > stop[2])
Ahead(stop) == {t \in Stops : After(stop, t)}
Behind(stop) == {t \in Stops : After(t, stop)}
\* Arrows go one stop; Home and End go to the ends.
Reach(stop) ==
    {t \in Ahead(stop) : Ahead(stop) \ {t} \subseteq Ahead(t)}
    \cup {t \in Behind(stop) : Behind(stop) \ {t} \subseteq Behind(t)}
    \cup {t \in Stops : Ahead(t) = {} \/ Behind(t) = {}}

\* The step is drawn and the camera set; a correction of the camera is due,
\* and no earlier one may act any more.
Draw(p, stop) ==
    [p EXCEPT !.shown = stop, !.camera = stop, !.run = @ + 1,
              !.due = IF StepAt(stop).kind = "zoom"
                        THEN @ \cup {[run |-> p.run + 1, stop |-> stop]} ELSE @]
\* The frame is loaded when the slide changes; what was waiting for an earlier
\* load never goes on.  Otherwise the step is drawn at once.
RenderStep(p) ==
    LET s == Lecture[p.cursor[1]]
    IN IF p.current = s.id THEN Draw(p, p.cursor)
       ELSE [p EXCEPT !.current = s.id, !.loading = <<p.cursor>>]

Boot ==
    /\ player = NoPlayer /\ published # <<>> /\ script = NoScript
    /\ player' = RenderStep([NoPlayer EXCEPT !.cursor = <<1, 1>>])
    /\ UNCHANGED <<pages, lecture, runtime, dist, script, counts, edits, crashes, published>>

\* A key, or a change of the window's size.
Move ==
    /\ player # NoPlayer /\ player.moves < MaxMoves
    /\ \E stop \in Reach(player.cursor) \cup {player.cursor} :
         player' = RenderStep([player EXCEPT !.cursor = stop, !.moves = @ + 1])
    /\ UNCHANGED <<pages, lecture, runtime, dist, script, counts, edits, crashes, published>>

FrameLoads ==
    /\ player.loading # <<>>
    /\ LET stop == player.loading[1]
           file == Lecture[stop[1]].file
       IN player' = Draw([player EXCEPT !.frame = published.slides[file],
                                        !.loading = <<>>], stop)
    /\ UNCHANGED <<pages, lecture, runtime, dist, script, counts, edits, crashes, published>>

GuardFires ==
    /\ \E g \in player.due :
         player' = [player EXCEPT !.due = @ \ {g},
                      !.camera = IF g.run = player.run THEN g.stop ELSE @]
    /\ UNCHANGED <<pages, lecture, runtime, dist, script, counts, edits, crashes, published>>

DeckNext ==
    \/ \E count \in 3..MaxPages : Scaffold(count)
    \/ ScaffoldStep \/ Measure \/ MeasurePage \/ MeasureEnd \/ ScriptDies \/ Edit
    \/ BuildAndValidate \/ Boot \/ Move \/ FrameLoads \/ GuardFires

DeckSpec == DeckInit /\ [][DeckNext]_deck

-----------------------------------------------------------------------------
(* Properties. *)

\* Once no slide is loading, the frame holds the page of the slide the viewer
\* is at, it is that slide's own page, and a step of that slide is shown; an
\* anchor the camera is on is drawn on that page, where the lecture says, if
\* the page says how high it is.  The camera never is on another step.
ShowsItsSlide ==
    player # NoPlayer =>
      /\ player.camera = player.shown
      /\ player.loading = <<>> =>
           LET s == Lecture[player.cursor[1]]
               step == StepAt(player.shown)
           IN /\ player.frame.id = s.id /\ player.shown[1] = player.cursor[1]
              /\ step.kind = "zoom" =>
                   /\ step.anchor \in DOMAIN player.frame.anchors
                   /\ LET mark == player.frame.anchors[step.anchor]
                      IN /\ InCanvas(mark.rect)
                         /\ mark.high =>
                              \A i \in DOMAIN s.anchors :
                                s.anchors[i].id = step.anchor => s.anchors[i].rect = mark.drawn

\* A scaffold that was finished, in as many attempts as it took, builds and is
\* accepted as it stands, when it was always asked for as many slides.
ScaffoldStands ==
    lecture # <<>> /\ edits = 0 /\ Cardinality(counts) = 1 /\ script = NoScript =>
      Compiles /\ Accepts(lecture, pages, runtime, Bundle)

=============================================================================
