--------------------------- MODULE DeliveryProofs ---------------------------
(***************************************************************************)
(* The board of a task keeps its artifacts and acknowledgements, never     *)
(* locks the learner out and bounds revisions: for every number of         *)
(* processes, artifacts, tasks and requests, and every order a plan asks.  *)
(*                                                                         *)
(* A round of planning runs what was asked for and what was chosen, for    *)
(* every registry of skills, every world and whatever the model answers.   *)
(***************************************************************************)
EXTENDS DeliveryBoard, Planning, FiniteSetTheorems, WellFoundedInduction, TLAPS

States == {"queued", "unlocked", "consumed"}

\* A well-formed board whose cursor is within its queue.
Sound(b) == b \in Board /\ b.cursor <= Len(b.delivery)

OpenHead(b) == b.cursor < Len(b.delivery) => b.delivery[b.cursor + 1].state = "unlocked"

-----------------------------------------------------------------------------
(* Queues *)

\* Marking an item changes its state only.
LEMMA MarkItem ==
  ASSUME NEW q \in Seq(Item), NEW i \in 1..Len(q), NEW s \in States
  PROVE  /\ Mark(q, i, s) \in Seq(Item)
         /\ Len(Mark(q, i, s)) = Len(q)
         /\ \A j \in 1..Len(q) :
              Mark(q, i, s)[j] = IF j = i THEN [artifact |-> q[i].artifact, state |-> s] ELSE q[j]
<1>1. q[i] \in Item
      OBVIOUS
<1>a. q[i].artifact \in Artifact
      BY <1>1 DEF Item
<1>2. [artifact |-> q[i].artifact, state |-> s] \in Item
      BY <1>a DEF Item, States
<1> QED
    BY <1>2 DEF Mark, ReplaceAt

\* Unlocking concerns the item after the cursor only.
LEMMA UnlockItem ==
  ASSUME NEW q \in Seq(Item), NEW c \in Nat
  PROVE  /\ Unlock(q, c) \in Seq(Item)
         /\ Len(Unlock(q, c)) = Len(q)
         /\ \A j \in 1..Len(q) : Unlock(q, c)[j].artifact = q[j].artifact
         /\ \A j \in 1..Len(q) : j # c + 1 => Unlock(q, c)[j] = q[j]
         /\ c < Len(q) => Unlock(q, c)[c + 1].state = "unlocked"
<1>1. CASE c < Len(q)
  <2>1. c + 1 \in 1..Len(q) /\ "unlocked" \in States
        BY <1>1 DEF States
  <2>2. Unlock(q, c) = Mark(q, c + 1, "unlocked")
        BY <1>1 DEF Unlock
  <2> DEFINE m == Mark(q, c + 1, "unlocked")
  <2>3. /\ m \in Seq(Item) /\ Len(m) = Len(q)
        /\ \A j \in 1..Len(q) :
             m[j] = IF j = c + 1 THEN [artifact |-> q[c + 1].artifact, state |-> "unlocked"]
                                 ELSE q[j]
        BY <2>1, MarkItem
  <2> HIDE DEF m
  <2>4. m[c + 1].state = "unlocked" /\ m[c + 1].artifact = q[c + 1].artifact
        BY <2>1, <2>3
  <2>5. \A j \in 1..Len(q) : j # c + 1 => m[j] = q[j]
        BY <2>3
  <2>6. \A j \in 1..Len(q) : m[j].artifact = q[j].artifact
        BY <2>4, <2>5
  <2> QED
      BY <2>2, <2>3, <2>4, <2>5, <2>6 DEF m
<1>2. CASE ~(c < Len(q))
      BY <1>2 DEF Unlock
<1> QED
    BY <1>1, <1>2

\* Inserting an item moves the later ones by one place.
LEMMA InsertItem ==
  ASSUME NEW q \in Seq(Item), NEW i \in 1..Len(q) + 1, NEW x \in Item
  PROVE  /\ InsertAt(q, i, x) \in Seq(Item)
         /\ Len(InsertAt(q, i, x)) = Len(q) + 1
         /\ \A j \in 1..Len(q) + 1 :
              InsertAt(q, i, x)[j] = IF j < i THEN q[j] ELSE IF j = i THEN x ELSE q[j - 1]
<1> DEFINE front == SubSeq(q, 1, i - 1)
           back  == SubSeq(q, i, Len(q))
<1>1. front \in Seq(Item) /\ Len(front) = i - 1 /\ \A j \in 1..i - 1 : front[j] = q[j]
      OBVIOUS
<1>2. back \in Seq(Item) /\ Len(back) = Len(q) - i + 1
        /\ \A j \in 1..Len(q) - i + 1 : back[j] = q[i + j - 1]
      OBVIOUS
<1> HIDE DEF front, back
<1>3. front \o <<x>> \in Seq(Item) /\ Len(front \o <<x>>) = i
        /\ (\A j \in 1..i - 1 : (front \o <<x>>)[j] = q[j]) /\ (front \o <<x>>)[i] = x
      BY <1>1
<1>4. InsertAt(q, i, x) = (front \o <<x>>) \o back
      BY DEF InsertAt, front, back
<1> DEFINE part == front \o <<x>>
<1> HIDE DEF part
<1>5. part \in Seq(Item) /\ Len(part) = i /\ (\A j \in 1..i - 1 : part[j] = q[j]) /\ part[i] = x
      BY <1>3 DEF part
<1>a. part \in Seq(Item) /\ back \in Seq(Item) /\ Len(part) = i /\ Len(back) = Len(q) - i + 1
      BY <1>5, <1>2
<1>b. Len(q) \in Nat /\ i \in Nat /\ i <= Len(q) + 1
      OBVIOUS
<1>c. part \o back \in Seq(Item) /\ Len(part \o back) = Len(part) + Len(back)
      BY <1>a
<1>6. part \o back \in Seq(Item) /\ Len(part \o back) = Len(q) + 1
      BY <1>a, <1>b, <1>c
<1>7. ASSUME NEW j \in 1..Len(q) + 1
      PROVE  (part \o back)[j] = IF j < i THEN q[j] ELSE IF j = i THEN x ELSE q[j - 1]
  <2>1. CASE j <= i
    <3>1. (part \o back)[j] = part[j]
          BY <1>5, <1>2, <2>1
    <3> QED
        BY <3>1, <1>5, <2>1
  <2>2. CASE j > i
    <3>1. (part \o back)[j] = back[j - i]
          BY <1>5, <1>2, <2>2
    <3>2. j - i \in 1..Len(q) - i + 1 /\ i + (j - i) - 1 = j - 1
          BY <2>2
    <3> QED
        BY <3>1, <3>2, <1>2, <2>2
  <2>3. j \in Int /\ i \in Int
        OBVIOUS
  <2>4. j <= i \/ j > i
        BY <2>3
  <2> QED
      BY <2>1, <2>2, <2>4
<1> QED
    BY <1>4, <1>6, <1>7 DEF part

-----------------------------------------------------------------------------
(* Boards *)

\* A board is its three parts.
LEMMA BoardParts ==
  ASSUME NEW b, Sound(b)
  PROVE  /\ b.holds \in Numbered /\ b.delivery \in Seq(Item) /\ b.cursor \in Nat
         /\ Len(b.delivery) \in Nat /\ b.cursor <= Len(b.delivery)
<1>1. b \in Board /\ b.cursor <= Len(b.delivery)
      BY DEF Sound
<1>2. b.holds \in Numbered /\ b.delivery \in Seq(Item) /\ b.cursor \in Nat
      BY <1>1 DEF Board
<1> QED
    BY <1>1, <1>2

LEMMA MakeBoard ==
  ASSUME NEW h \in Numbered, NEW q \in Seq(Item), NEW c \in Nat, c <= Len(q),
         NEW b, b = [holds |-> h, delivery |-> q, cursor |-> c]
  PROVE  Sound(b) /\ b.holds = h /\ b.delivery = q /\ b.cursor = c
<1>1. b \in Board /\ b.holds = h /\ b.delivery = q /\ b.cursor = c
      BY DEF Board
<1> QED
    BY <1>1 DEF Sound

\* The artifacts of a queue are the artifacts of its places.
LEMMA QueuedPlaces ==
  ASSUME NEW b, Sound(b), NEW a
  PROVE  a \in Queued(b) <=> \E i \in 1..Len(b.delivery) : b.delivery[i].artifact = a
<1>1. DOMAIN b.delivery = 1..Len(b.delivery)
      BY BoardParts
<1> QED
    BY <1>1 DEF Queued

LEMMA PassedPlaces ==
  ASSUME NEW b, NEW a
  PROVE  a \in Passed(b) <=> \E i \in 1..b.cursor :
                                b.delivery[i].state = "consumed" /\ b.delivery[i].artifact = a
BY DEF Passed

\* What is kept depends on the holds and on the artifacts of the queue.
LEMMA KeptSame ==
  ASSUME NEW b, NEW c, Sound(b), Sound(c), c.holds = b.holds,
         Len(c.delivery) = Len(b.delivery),
         \A i \in 1..Len(b.delivery) : c.delivery[i].artifact = b.delivery[i].artifact
  PROVE  Kept(c) = Kept(b)
<1>1. \A a : a \in Queued(c) <=> a \in Queued(b)
      BY QueuedPlaces
<1>2. Queued(c) = Queued(b)
      BY <1>1
<1> QED
    BY <1>2 DEF Kept

\* The planner's unlock keeps the artifacts and the acknowledgements.
LEMMA UnlockFine ==
  ASSUME NEW b, Sound(b), NEW c,
         c = [holds |-> b.holds, delivery |-> Unlock(b.delivery, b.cursor), cursor |-> b.cursor]
  PROVE  Sound(c) /\ OpenHead(c) /\ c.holds = b.holds /\ Kept(c) = Kept(b) /\ Passed(c) = Passed(b)
<1> DEFINE q == Unlock(b.delivery, b.cursor)
<1>1. b.holds \in Numbered /\ b.delivery \in Seq(Item) /\ b.cursor \in Nat
        /\ Len(b.delivery) \in Nat /\ b.cursor <= Len(b.delivery)
      BY BoardParts
<1>2. /\ q \in Seq(Item) /\ Len(q) = Len(b.delivery)
      /\ \A j \in 1..Len(b.delivery) : q[j].artifact = b.delivery[j].artifact
      /\ \A j \in 1..Len(b.delivery) : j # b.cursor + 1 => q[j] = b.delivery[j]
      /\ b.cursor < Len(b.delivery) => q[b.cursor + 1].state = "unlocked"
      BY <1>1, UnlockItem
<1>3. c = [holds |-> b.holds, delivery |-> q, cursor |-> b.cursor]
      OBVIOUS
<1> HIDE DEF q
<1>4. b.cursor <= Len(q)
      BY <1>1, <1>2
<1>5. Sound(c) /\ c.holds = b.holds /\ c.delivery = q /\ c.cursor = b.cursor
      BY <1>1, <1>2, <1>3, <1>4, MakeBoard
<1>6. OpenHead(c)
      BY <1>2, <1>5 DEF OpenHead
<1>7. Kept(c) = Kept(b)
      BY <1>2, <1>5, KeptSame
<1>8. \A i \in 1..b.cursor : c.delivery[i] = b.delivery[i]
  <2>1. \A i \in 1..b.cursor : i \in 1..Len(b.delivery) /\ i # b.cursor + 1
        BY <1>1
  <2> QED
      BY <2>1, <1>2, <1>5
<1>9. \A a : a \in Passed(c) <=> a \in Passed(b)
      BY <1>5, <1>8, PassedPlaces
<1> QED
    BY <1>5, <1>6, <1>7, <1>9

\* An acknowledgement keeps the artifacts and moves past one more.
LEMMA ConsumeFine ==
  ASSUME NEW b, Sound(b), b.cursor < Len(b.delivery)
  PROVE  /\ Sound(Consume(b)) /\ OpenHead(Consume(b)) /\ Consume(b).holds = b.holds
         /\ Kept(Consume(b)) = Kept(b) /\ Passed(b) \subseteq Passed(Consume(b))
<1> DEFINE m == Mark(b.delivery, b.cursor + 1, "consumed")
           q == Unlock(m, b.cursor + 1)
           c == Consume(b)
<1>1. b.holds \in Numbered /\ b.delivery \in Seq(Item) /\ b.cursor \in Nat
        /\ Len(b.delivery) \in Nat /\ b.cursor <= Len(b.delivery)
      BY BoardParts
<1>2. b.cursor + 1 \in 1..Len(b.delivery) /\ b.cursor + 1 \in Nat
      BY <1>1
<1>3. "consumed" \in States
      BY DEF States
<1>4. /\ m \in Seq(Item) /\ Len(m) = Len(b.delivery)
      /\ \A j \in 1..Len(b.delivery) :
           m[j] = IF j = b.cursor + 1
                  THEN [artifact |-> b.delivery[b.cursor + 1].artifact, state |-> "consumed"]
                  ELSE b.delivery[j]
      BY <1>1, <1>2, <1>3, MarkItem
<1> HIDE DEF m
<1>5. /\ q \in Seq(Item) /\ Len(q) = Len(m)
      /\ \A j \in 1..Len(m) : q[j].artifact = m[j].artifact
      /\ \A j \in 1..Len(m) : j # b.cursor + 1 + 1 => q[j] = m[j]
      /\ b.cursor + 1 < Len(m) => q[b.cursor + 1 + 1].state = "unlocked"
      BY <1>2, <1>4, UnlockItem
<1>6. c = [holds |-> b.holds, delivery |-> q, cursor |-> b.cursor + 1]
      BY DEF Consume, m
<1> HIDE DEF q, c
<1>7. b.cursor + 1 <= Len(q)
      BY <1>2, <1>4, <1>5
<1>8. Sound(c) /\ c.holds = b.holds /\ c.delivery = q /\ c.cursor = b.cursor + 1
      BY <1>1, <1>2, <1>5, <1>6, <1>7, MakeBoard
<1>9. OpenHead(c)
      BY <1>5, <1>8 DEF OpenHead
<1>10. \A j \in 1..Len(b.delivery) : m[j].artifact = b.delivery[j].artifact
  <2>1. m[b.cursor + 1].artifact = b.delivery[b.cursor + 1].artifact
        BY <1>2, <1>4
  <2>2. \A j \in 1..Len(b.delivery) : j # b.cursor + 1 => m[j] = b.delivery[j]
        BY <1>4
  <2> QED
      BY <2>1, <2>2
<1>11. Kept(c) = Kept(b)
       BY <1>4, <1>5, <1>8, <1>10, KeptSame
<1>12. \A i \in 1..b.cursor : i \in 1..c.cursor /\ c.delivery[i] = b.delivery[i]
  <2>1. \A i \in 1..b.cursor : i \in 1..Len(b.delivery) /\ i # b.cursor + 1
                                 /\ i # b.cursor + 1 + 1 /\ i \in 1..b.cursor + 1
        BY <1>1
  <2> QED
      BY <2>1, <1>4, <1>5, <1>8
<1>13. \A a : a \in Passed(b) => a \in Passed(c)
       BY <1>12, PassedPlaces
<1> QED
    BY <1>8, <1>9, <1>11, <1>13 DEF c

\* Closing a hold moves its artifact to the queue; the queue has not been
\* consumed any further.
LEMMA CloseFine ==
  ASSUME BoardAssumption,
         NEW b, Sound(b), NEW t \in In(b.holds), NEW order \in [Artifact -> Nat],
         NEW q \in Enqueued(b.delivery, Makes[t], order), NEW c,
         c = [holds |-> Without(b.holds, t), delivery |-> q, cursor |-> b.cursor]
  PROVE  /\ Sound(c) /\ c.holds = Without(b.holds, t) /\ In(c.holds) = In(b.holds) \ {t}
         /\ Kept(c) = Kept(b) /\ Passed(c) \subseteq Passed(b)
<1> DEFINE d == b.delivery
           x == [artifact |-> Makes[t], state |-> "queued"]
<1>1. b.holds \in Numbered /\ d \in Seq(Item) /\ b.cursor \in Nat
        /\ Len(d) \in Nat /\ b.cursor <= Len(d)
      BY BoardParts
<1>2. t \in Task /\ Makes[t] \in Artifact
      BY DEF In, BoardAssumption
<1>3. x \in Item
      BY <1>2 DEF Item
<1>4. Without(b.holds, t) \in Numbered
      BY <1>1 DEF Without, Numbered
<1>5. In(Without(b.holds, t)) = In(b.holds) \ {t}
      BY <1>1, <1>2 DEF Without, Numbered, In
<1>6. \/ q = d /\ \E i \in DOMAIN d : d[i].artifact = Makes[t]
      \/ \E i \in 1..Len(d) + 1 : q = InsertAt(d, i, x)
      BY DEF Enqueued, Places
<1> HIDE DEF d, x
<1>x. x.artifact = Makes[t] /\ x.state # "consumed"
      BY DEF x
<1>d. b.delivery = d
      BY DEF d
<1>7. CASE q = d /\ \E i \in DOMAIN d : d[i].artifact = Makes[t]
  <2>1. Sound(c) /\ c.holds = Without(b.holds, t) /\ c.delivery = d /\ c.cursor = b.cursor
        BY <1>1, <1>4, <1>7, MakeBoard
  <2>2. Queued(c) = Queued(b) /\ Makes[t] \in Queued(b)
        BY <2>1, <1>7, <1>d DEF Queued
  <2>3. Kept(c) = Kept(b)
        BY <2>1, <2>2, <1>5 DEF Kept
  <2>4. Passed(c) = Passed(b)
        BY <2>1, <1>d DEF Passed
  <2> QED
      BY <2>1, <2>3, <2>4, <1>5
<1>8. CASE \E i \in 1..Len(d) + 1 : q = InsertAt(d, i, x)
  <2>1. PICK i \in 1..Len(d) + 1 : q = InsertAt(d, i, x)
        BY <1>8
  <2>2. /\ q \in Seq(Item) /\ Len(q) = Len(d) + 1
        /\ \A j \in 1..Len(d) + 1 : q[j] = IF j < i THEN d[j] ELSE IF j = i THEN x ELSE d[j - 1]
    <3> DEFINE e == InsertAt(d, i, x)
    <3>1. d \in Seq(Item)
          BY <1>1
    <3>2. /\ e \in Seq(Item) /\ Len(e) = Len(d) + 1
          /\ \A j \in 1..Len(d) + 1 : e[j] = IF j < i THEN d[j] ELSE IF j = i THEN x ELSE d[j - 1]
          BY <1>3, <3>1, InsertItem
    <3>3. q = e
          BY <2>1
    <3> HIDE DEF e
    <3> QED
        BY <3>2, <3>3
  <2>3. b.cursor <= Len(q)
        BY <1>1, <2>2
  <2>4. Sound(c) /\ c.holds = Without(b.holds, t) /\ c.delivery = q /\ c.cursor = b.cursor
        BY <1>1, <1>4, <2>2, <2>3, MakeBoard
  <2>i. i \in Nat /\ i >= 1 /\ i <= Len(d) + 1
        BY <1>1
  <2>5. ASSUME NEW a \in Queued(b) PROVE a \in Queued(c)
    <3>1. PICK j \in 1..Len(d) : d[j].artifact = a
          BY <1>d, QueuedPlaces
    <3>2. CASE j < i
      <4>1. j \in 1..Len(q) /\ q[j] = d[j]
            BY <1>1, <2>2, <3>2
      <4> QED
          BY <4>1, <3>1, <2>4, QueuedPlaces
    <3>3. CASE ~(j < i)
      <4>1. j + 1 \in 1..Len(q) /\ ~(j + 1 < i) /\ j + 1 # i /\ j + 1 - 1 = j
            BY <1>1, <2>2, <2>i, <3>3
      <4>2. q[j + 1] = d[j]
            BY <4>1, <2>2
      <4> QED
          BY <4>1, <4>2, <3>1, <2>4, QueuedPlaces
    <3> QED
        BY <3>2, <3>3
  <2>6. Makes[t] \in Queued(c)
    <3>1. i \in 1..Len(q) /\ q[i] = x
          BY <2>2, <2>i
    <3> QED
        BY <3>1, <1>x, <2>4, QueuedPlaces
  <2>7. ASSUME NEW a \in Queued(c), a # Makes[t] PROVE a \in Queued(b)
    <3>s. Sound(c)
          BY <2>4
    <3>a. \E j \in 1..Len(c.delivery) : c.delivery[j].artifact = a
          BY ONLY <3>s, QueuedPlaces, a \in Queued(c)
    <3>1. PICK j \in 1..Len(q) : q[j].artifact = a
          BY <2>4, <3>a
    <3>2. j # i
          BY <3>1, <2>2, <2>7, <1>x
    <3>3. CASE j < i
      <4>1. j \in 1..Len(d) /\ q[j] = d[j]
            BY <1>1, <2>2, <2>i, <3>3
      <4> QED
          BY <4>1, <3>1, <1>d, QueuedPlaces
    <3>4. CASE ~(j < i)
      <4>1. j - 1 \in 1..Len(d)
            BY <1>1, <2>2, <2>i, <3>2, <3>4
      <4>2. q[j] = d[j - 1]
            BY <2>2, <3>2, <3>4
      <4> QED
          BY <4>1, <4>2, <3>1, <1>d, QueuedPlaces
    <3> QED
        BY <3>3, <3>4
  <2>8. Queued(c) = Queued(b) \cup {Makes[t]}
        BY <2>5, <2>6, <2>7
  <2>9. Kept(c) = Kept(b)
        BY <2>4, <2>8, <1>5 DEF Kept
  <2>10. ASSUME NEW a \in Passed(c) PROVE a \in Passed(b)
    <3>a. \E j \in 1..c.cursor : c.delivery[j].state = "consumed" /\ c.delivery[j].artifact = a
          BY ONLY PassedPlaces, a \in Passed(c)
    <3>1. PICK j \in 1..b.cursor : q[j].state = "consumed" /\ q[j].artifact = a
          BY <2>4, <3>a
    <3>2. j \in 1..Len(d) + 1
          BY <1>1
    <3>3. j # i
          BY <3>1, <3>2, <2>2, <1>x
    <3>4. CASE j < i
      <4>1. q[j] = d[j]
            BY <2>2, <3>2, <3>4
      <4> QED
          BY <4>1, <3>1, <1>d, PassedPlaces
    <3>5. CASE ~(j < i)
      <4>1. j - 1 \in 1..b.cursor
            BY <1>1, <2>i, <3>3, <3>5
      <4>2. q[j] = d[j - 1]
            BY <2>2, <3>2, <3>3, <3>5
      <4> QED
          BY <4>1, <4>2, <3>1, <1>d, PassedPlaces
    <3> QED
        BY <3>4, <3>5
  <2> QED
      BY <2>4, <2>9, <2>10, <1>5
<1> QED
    BY <1>6, <1>7, <1>8

\* A hold adds its artifact and leaves the queue alone.
LEMMA HoldFine ==
  ASSUME NEW b, Sound(b), NEW t \in Task, NEW n \in Nat, None \notin Nat, NEW c,
         c = [holds |-> [b.holds EXCEPT ![t] = n], delivery |-> b.delivery, cursor |-> b.cursor]
  PROVE  /\ Sound(c) /\ c.holds = [b.holds EXCEPT ![t] = n]
         /\ (OpenHead(b) => OpenHead(c))
         /\ Kept(b) \subseteq Kept(c) /\ Passed(c) = Passed(b)
<1>1. b.holds \in Numbered /\ b.delivery \in Seq(Item) /\ b.cursor \in Nat
        /\ b.cursor <= Len(b.delivery)
      BY BoardParts
<1>2. [b.holds EXCEPT ![t] = n] \in Numbered
      BY <1>1 DEF Numbered
<1>3. /\ Sound(c) /\ c.holds = [b.holds EXCEPT ![t] = n]
      /\ c.delivery = b.delivery /\ c.cursor = b.cursor
      BY <1>1, <1>2, MakeBoard
<1>4. In(b.holds) \subseteq In(c.holds)
      BY <1>1, <1>3 DEF Numbered, In
<1>5. Queued(c) = Queued(b)
      BY <1>3 DEF Queued
<1>6. Kept(b) \subseteq Kept(c)
      BY <1>4, <1>5 DEF Kept
<1> QED
    BY <1>3, <1>6 DEF OpenHead, Passed

-----------------------------------------------------------------------------
(* Types *)

\* Whoever works does so in a process; a closing is a hold of the board that was
\* read; the outcome being stored is that of a task of the plan.
Placed ==
  /\ run.pc # "idle" => run.at \in Process
  /\ run.pc = "closing" => run.closing \subseteq In(run.board.holds)
  /\ run.pc = "storing" => run.task \in In(todo)
  /\ \A r \in Request : ack[r].pc # "idle" => ack[r].at \in Process
  /\ \A t \in fresh : todo[t] = None

\* The types of an execution and of an acknowledgement, with sound copies.
RunTyped(x) == x \in Run /\ Sound(x.board)
AckTyped(x) == x \in Ack /\ Sound(x.board)

LEMMA TypeParts ==
  TypeOK <=> /\ Sound(board) /\ RunTyped(run) /\ todo \in Numbered /\ fresh \in SUBSET Task
             /\ ack \in [Request -> Ack] /\ (\A r \in Request : AckTyped(ack[r]))
             /\ commands \in [Key -> Artifact \cup {None}] /\ revised \in [Task -> Nat]
             /\ split \in BOOLEAN /\ crashes \in Nat
<1>1. run \in Run => run.board \in Board
      BY DEF Run
<1>2. ack \in [Request -> Ack] => \A r \in Request : ack[r] \in Ack /\ ack[r].board \in Board
      BY DEF Ack
<1> QED
    BY <1>1, <1>2 DEF TypeOK, RunTyped, AckTyped, Sound

LEMMA EmptySound == Sound(EmptyBoard) /\ OpenHead(EmptyBoard)
<1>1. NoTasks \in Numbered /\ <<>> \in Seq(Item) /\ 0 \in Nat /\ 0 <= Len(<<>>)
      BY DEF NoTasks, Numbered
<1>a. EmptyBoard = [holds |-> NoTasks, delivery |-> <<>>, cursor |-> 0]
      BY DEF EmptyBoard
<1>2. EmptyBoard \in Board
      BY <1>1, <1>a DEF Board
<1>3. EmptyBoard.delivery = <<>> /\ EmptyBoard.cursor = 0 /\ Len(EmptyBoard.delivery) = 0
      BY <1>a
<1> QED
    BY <1>2, <1>3 DEF OpenHead, Sound

LEMMA IdleTyped ==
  ASSUME NEW p \in Process \cup {None}
  PROVE  RunTyped(IdleAt(p)) /\ IdleAt(p).pc = "idle" /\ IdleAt(p).at = p
<1>1. EmptyBoard \in Board /\ Sound(EmptyBoard)
      BY EmptySound DEF Sound
<1>2. NoTasks \in Numbered
      BY DEF NoTasks, Numbered
<1>3. [a \in Artifact |-> 0] \in [Artifact -> Nat]
      OBVIOUS
<1>4. IdleAt(p) \in Run /\ IdleAt(p).board = EmptyBoard
      BY <1>1, <1>2, <1>3 DEF IdleAt, Run
<1> QED
    BY <1>1, <1>4 DEF IdleAt, RunTyped

LEMMA NoAckTyped == AckTyped(NoAck) /\ NoAck.pc = "idle"
<1>1. EmptyBoard \in Board /\ Sound(EmptyBoard)
      BY EmptySound DEF Sound
<1> QED
    BY <1>1 DEF NoAck, Ack, AckTyped

\* A record of the acknowledgements that is replaced by a typed one.
LEMMA AckReplaced ==
  ASSUME ack \in [Request -> Ack], \A r \in Request : AckTyped(ack[r]),
         NEW r \in Request, NEW x, AckTyped(x), ack' = [ack EXCEPT ![r] = x]
  PROVE  /\ ack' \in [Request -> Ack] /\ (\A s \in Request : AckTyped(ack'[s]))
         /\ ack'[r] = x /\ (\A s \in Request \ {r} : ack'[s] = ack[s])
<1>1. x \in Ack
      BY DEF AckTyped
<1>2. ack' \in [Request -> Ack] /\ ack'[r] = x /\ (\A s \in Request \ {r} : ack'[s] = ack[s])
      BY <1>1
<1> QED
    BY <1>2

\* What the steps of the execution leave in it.
LEMMA ReadForPlanRun ==
  ASSUME TypeOK, ReadForPlan
  PROVE  RunTyped(run') /\ run'.pc = "planning" /\ run'.at = run.at /\ run'.board = board
<1>1. run \in Run /\ Sound(board) /\ board \in Board
      BY TypeParts DEF RunTyped, Sound
<1>2. run' \in Run /\ run'.pc = "planning" /\ run'.at = run.at /\ run'.board = board
      BY <1>1 DEF ReadForPlan, Run
<1> QED
    BY <1>1, <1>2 DEF RunTyped

LEMMA ReadForHoldRun ==
  ASSUME TypeOK, NEW t \in Task, ReadForHold(t)
  PROVE  /\ RunTyped(run') /\ run'.pc = "storing" /\ run'.at = run.at /\ run'.board = board
         /\ run'.task = t
<1>1. run \in Run /\ Sound(board) /\ board \in Board
      BY TypeParts DEF RunTyped, Sound
<1>2. run' \in Run /\ run'.pc = "storing" /\ run'.at = run.at /\ run'.board = board
        /\ run'.task = t
      BY <1>1 DEF ReadForHold, Run
<1> QED
    BY <1>1, <1>2 DEF RunTyped

LEMMA GrantedBelow ==
  ASSUME NEW b, NEW revise \in SUBSET In(b.holds), NEW spent,
         NEW t \in Granted(b, revise, spent)
  PROVE  t \in In(b.holds) /\ b.holds[t] < MaxRevisions
BY DEF Granted

LEMMA DecideRun ==
  ASSUME BoardAssumption, TypeOK, Decide
  PROVE  /\ RunTyped(run') /\ run'.pc = "closing" /\ run'.at = run.at /\ run'.board = run.board
         /\ run'.closing \subseteq In(run.board.holds)
         /\ \A t \in In(run'.revisions) :
              /\ t \in In(run.board.holds) /\ run.board.holds[t] < MaxRevisions
              /\ run'.revisions[t] = run.board.holds[t] + 1
<1>1. RunTyped(run) /\ run \in Run /\ Sound(run.board) /\ run.board.holds \in Numbered
      BY TypeParts, BoardParts DEF RunTyped
<1>2. PICK revise \in SUBSET In(run.board.holds), close \in SUBSET In(run.board.holds),
           spent \in BOOLEAN, order \in Orders :
       run' = [run EXCEPT
         !.pc = "closing",
         !.closing = Closing(run.board, revise, close, spent),
         !.revisions = [t \in Task |->
           IF t \in Granted(run.board, revise, spent) THEN run.board.holds[t] + 1 ELSE None],
         !.order = order]
      BY DEF Decide
<1> DEFINE closing == Closing(run.board, revise, close, spent)
           g == Granted(run.board, revise, spent)
           revisions == [t \in Task |-> IF t \in g THEN run.board.holds[t] + 1 ELSE None]
<1>3. closing \subseteq In(run.board.holds) /\ closing \in SUBSET Task
      BY DEF Closing, In
<1>4. \A t \in g : t \in In(run.board.holds) /\ run.board.holds[t] < MaxRevisions
      BY GrantedBelow
<1> HIDE DEF closing, g
<1>5. \A t \in Task : t \in g => run.board.holds[t] \in Nat
  <2>1. \A t \in Task : run.board.holds[t] \in Nat \cup {None}
        BY <1>1 DEF Numbered
  <2> QED
      BY <2>1, <1>4 DEF In
<1>6. revisions \in Numbered
      BY <1>5 DEF Numbered
<1>7. \A t \in In(revisions) : t \in g /\ revisions[t] = run.board.holds[t] + 1
      BY DEF In
<1>8. order \in [Artifact -> Nat]
      BY DEF BoardAssumption
<1>9. run' = [run EXCEPT !.pc = "closing", !.closing = closing, !.revisions = revisions,
                         !.order = order]
      BY <1>2 DEF closing, g
<1> HIDE DEF revisions
<1>10. /\ run' \in Run /\ run'.pc = "closing" /\ run'.at = run.at /\ run'.board = run.board
       /\ run'.closing = closing /\ run'.revisions = revisions
       BY <1>1, <1>3, <1>6, <1>8, <1>9 DEF Run
<1>11. RunTyped(run')
       BY <1>1, <1>10 DEF RunTyped
<1>12. \A t \in In(run'.revisions) :
              /\ t \in In(run.board.holds) /\ run.board.holds[t] < MaxRevisions
              /\ run'.revisions[t] = run.board.holds[t] + 1
       BY <1>4, <1>7, <1>10
<1> QED
    BY <1>3, <1>10, <1>11, <1>12

LEMMA CloseRun ==
  ASSUME BoardAssumption, TypeOK, Placed, NEW t \in Task, Close(t)
  PROVE  /\ RunTyped(run') /\ run'.pc = "closing" /\ run'.at = run.at
         /\ run'.closing \subseteq In(run'.board.holds) /\ run'.revisions = run.revisions
         /\ run'.board.holds = Without(run.board.holds, t)
         /\ Kept(run'.board) = Kept(run.board) /\ Passed(run'.board) \subseteq Passed(run.board)
<1>1. run \in Run /\ Sound(run.board) /\ run.order \in [Artifact -> Nat]
        /\ run.closing \in SUBSET Task
      BY TypeParts DEF RunTyped, Run
<1>2. run.closing \subseteq In(run.board.holds) /\ t \in run.closing
      BY DEF Close, Placed
<1>3. PICK q \in Enqueued(run.board.delivery, Makes[t], run.order) :
        run' = [run EXCEPT
          !.closing = run.closing \ {t},
          !.board = [holds    |-> Without(run.board.holds, t),
                     delivery |-> q,
                     cursor   |-> run.board.cursor]]
      BY DEF Close
<1> DEFINE b == run.board
           order == run.order
           c == [holds    |-> Without(b.holds, t),
                 delivery |-> q,
                 cursor   |-> b.cursor]
<1>a. Sound(b) /\ t \in In(b.holds) /\ order \in [Artifact -> Nat]
        /\ q \in Enqueued(b.delivery, Makes[t], order)
      BY <1>1, <1>2
<1>b. b = run.board
      OBVIOUS
<1>e. c = [holds |-> Without(b.holds, t), delivery |-> q, cursor |-> b.cursor]
      OBVIOUS
<1> HIDE DEF b, order, c
<1>c. /\ Sound(c) /\ c.holds = Without(b.holds, t)
      /\ In(c.holds) = In(b.holds) \ {t}
      /\ Kept(c) = Kept(b) /\ Passed(c) \subseteq Passed(b)
      BY <1>a, <1>e, CloseFine
<1>4. /\ Sound(c) /\ c.holds = Without(run.board.holds, t)
      /\ In(c.holds) = In(run.board.holds) \ {t}
      /\ Kept(c) = Kept(run.board) /\ Passed(c) \subseteq Passed(run.board)
      BY <1>b, <1>c
<1> HIDE DEF c
<1>5. run' = [run EXCEPT !.closing = run.closing \ {t}, !.board = c]
      BY <1>b, <1>3 DEF c
<1>6. c \in Board
      BY <1>4 DEF Sound
<1>7. run.pc = "closing"
      BY DEF Close
<1>8. /\ run' \in Run /\ run'.pc = run.pc /\ run'.at = run.at /\ run'.board = c
      /\ run'.closing = run.closing \ {t} /\ run'.revisions = run.revisions
      BY <1>1, <1>5, <1>6 DEF Run
<1> QED
    BY <1>2, <1>4, <1>7, <1>8 DEF RunTyped

\* What the save of a plan leaves.
LEMMA SavePlanBoard ==
  ASSUME BoardAssumption, TypeOK, SavePlan
  PROVE  /\ Sound(board') /\ OpenHead(board') /\ board'.holds = run.board.holds
         /\ Kept(board') = Kept(run.board) /\ Passed(board') = Passed(run.board)
         /\ todo' \in Numbered /\ fresh' \subseteq fresh /\ (\A t \in fresh' : todo'[t] = None)
         /\ \A t \in In(todo') : \/ t \in In(run.revisions) /\ todo'[t] = run.revisions[t]
                                 \/ t \in fresh /\ todo'[t] = 0
<1>1. Sound(run.board) /\ run \in Run /\ run.revisions \in Numbered /\ fresh \in SUBSET Task
      BY TypeParts DEF RunTyped, Run
<1> DEFINE b == run.board
           revisions == run.revisions
<1>2. Sound(b)
      BY <1>1
<1>3. board' = [holds |-> b.holds, delivery |-> Unlock(b.delivery, b.cursor), cursor |-> b.cursor]
      BY DEF SavePlan
<1>4. PICK go \in SUBSET (fresh \cup In(revisions)) :
        /\ todo' = [t \in Task |-> IF t \notin go THEN None
                                   ELSE IF t \in In(revisions) THEN revisions[t] ELSE 0]
        /\ fresh' = fresh \ go
      BY DEF SavePlan
<1>5. revisions \in Numbered /\ None \notin Nat
      BY <1>1 DEF BoardAssumption
<1>6. b = run.board /\ revisions = run.revisions
      OBVIOUS
<1> HIDE DEF b, revisions
<1>7. /\ Sound(board') /\ OpenHead(board') /\ board'.holds = b.holds
      /\ Kept(board') = Kept(b) /\ Passed(board') = Passed(b)
  <2> DEFINE c == [holds |-> b.holds, delivery |-> Unlock(b.delivery, b.cursor),
                   cursor |-> b.cursor]
  <2>1. Sound(c) /\ OpenHead(c) /\ c.holds = b.holds /\ Kept(c) = Kept(b) /\ Passed(c) = Passed(b)
        BY <1>2, UnlockFine
  <2>2. board' = c
        BY <1>3
  <2> HIDE DEF c
  <2> QED
      BY <2>1, <2>2
<1>8. todo' \in Numbered
      BY <1>4, <1>5 DEF Numbered
<1>9. fresh' \subseteq fresh /\ \A t \in fresh' : todo'[t] = None
      BY <1>1, <1>4
<1>10. \A t \in In(todo') : \/ t \in In(revisions) /\ todo'[t] = revisions[t]
                            \/ t \in fresh /\ todo'[t] = 0
  <2>1. ASSUME NEW t \in In(todo')
        PROVE  \/ t \in In(revisions) /\ todo'[t] = revisions[t]
               \/ t \in fresh /\ todo'[t] = 0
    <3>1. t \in Task /\ todo'[t] # None
          BY DEF In
    <3>2. t \in go
          BY <3>1, <1>4
    <3> QED
        BY <3>1, <3>2, <1>4
  <2> QED
      BY <2>1
<1> QED
    BY <1>6, <1>7, <1>8, <1>9, <1>10

\* The revisions that a task's hold records once its outcome is stored.
Stored(t) == IF todo[t] > 0 THEN todo[t] ELSE Revisions(run.board, t)

\* What the save of an outcome leaves.
LEMMA SaveHoldBoard ==
  ASSUME BoardAssumption, TypeOK, Placed, SaveHold
  PROVE  /\ run.task \in Task /\ todo[run.task] \in Nat /\ Stored(run.task) \in Nat
         /\ Sound(board') /\ board'.holds = [run.board.holds EXCEPT ![run.task] = Stored(run.task)]
         /\ (OpenHead(run.board) => OpenHead(board'))
         /\ Kept(run.board) \subseteq Kept(board') /\ Passed(board') = Passed(run.board)
         /\ todo' = [todo EXCEPT ![run.task] = None] /\ todo' \in Numbered
         /\ revised' = [revised EXCEPT ![run.task] = IF todo[run.task] > 0
                                                     THEN revised[run.task] + 1
                                                     ELSE revised[run.task]]
<1> DEFINE b == run.board
           t == run.task
           n == Stored(t)
<1>1. Sound(b) /\ b.holds \in Numbered /\ todo \in Numbered
      BY TypeParts, BoardParts DEF RunTyped
<1>2. t \in Task /\ todo[t] # None
      BY DEF Placed, SaveHold, In
<1>3. todo[t] \in Nat
      BY <1>1, <1>2 DEF Numbered
<1>4. Revisions(b, t) \in Nat
      BY <1>1, <1>2 DEF Revisions, Numbered
<1>5. n \in Nat
      BY <1>3, <1>4 DEF Stored
<1>6. board' = [holds |-> [b.holds EXCEPT ![t] = n], delivery |-> b.delivery, cursor |-> b.cursor]
      BY DEF SaveHold, Stored
<1>7. None \notin Nat
      BY DEF BoardAssumption
<1>8. todo' = [todo EXCEPT ![t] = None]
      BY DEF SaveHold, Without
<1>9. revised' = [revised EXCEPT ![t] = IF todo[t] > 0 THEN revised[t] + 1 ELSE revised[t]]
      BY DEF SaveHold
<1>10. b = run.board /\ t = run.task /\ n = Stored(t)
       OBVIOUS
<1> HIDE DEF b, t, n
<1>11. /\ Sound(board') /\ board'.holds = [b.holds EXCEPT ![t] = n]
       /\ (OpenHead(b) => OpenHead(board'))
       /\ Kept(b) \subseteq Kept(board') /\ Passed(board') = Passed(b)
  <2> DEFINE c == [holds |-> [b.holds EXCEPT ![t] = n], delivery |-> b.delivery,
                   cursor |-> b.cursor]
  <2>1. /\ Sound(c) /\ c.holds = [b.holds EXCEPT ![t] = n]
        /\ (OpenHead(b) => OpenHead(c))
        /\ Kept(b) \subseteq Kept(c) /\ Passed(c) = Passed(b)
        BY <1>1, <1>2, <1>5, <1>7, HoldFine
  <2>2. board' = c
        BY <1>6
  <2> HIDE DEF c
  <2> QED
      BY <2>1, <2>2
<1>12. todo' \in Numbered
       BY <1>1, <1>8 DEF Numbered
<1> QED
    BY <1>2, <1>3, <1>5, <1>8, <1>9, <1>10, <1>11, <1>12

\* What the read of an acknowledgement leaves.
LEMMA ReadForAckCopy ==
  ASSUME BoardAssumption, TypeOK, Placed, NEW r \in Request, ReadForAck(r)
  PROVE  /\ AckTyped(ack'[r]) /\ ack' \in [Request -> Ack]
         /\ ack'[r].pc = "saving" /\ ack'[r].at = ack[r].at
         /\ ack'[r].at \in Process /\ OpenHead(ack'[r].board) /\ ack'[r].board.holds = board.holds
         /\ Kept(ack'[r].board) = Kept(board) /\ Passed(board) \subseteq Passed(ack'[r].board)
         /\ (\A s \in Request \ {r} : ack'[s] = ack[s])
<1>1. Sound(board) /\ ack \in [Request -> Ack] /\ (\A s \in Request : AckTyped(ack[s]))
      BY TypeParts
<1>2. board.cursor < Len(board.delivery)
      BY DEF ReadForAck, AtCursor
<1> DEFINE c == Consume(board)
<1>3. /\ Sound(c) /\ OpenHead(c) /\ c.holds = board.holds
      /\ Kept(c) = Kept(board) /\ Passed(board) \subseteq Passed(c)
      BY <1>1, <1>2, ConsumeFine
<1> DEFINE x == [pc |-> "saving", at |-> ack[r].at, artifact |-> ack[r].artifact, board |-> c]
<1>4. ack' = [ack EXCEPT ![r] = x]
      BY DEF ReadForAck, SavingFrom
<1> HIDE DEF c
<1>5. ack[r] \in Ack /\ ack[r].pc = "waiting"
      BY <1>1 DEF ReadForAck
<1>6. ack[r].at \in Process
      BY <1>5 DEF Placed
<1>7. ack[r].artifact \in Artifact \cup {None} /\ c \in Board
      BY <1>3, <1>5 DEF Ack, Sound
<1>8. x.pc = "saving" /\ x.at = ack[r].at /\ x.board = c
      OBVIOUS
<1>9. x \in Ack
      BY <1>6, <1>7 DEF Ack
<1> HIDE DEF x
<1>10. AckTyped(x)
       BY <1>3, <1>8, <1>9 DEF AckTyped
<1>11. /\ ack' \in [Request -> Ack] /\ ack'[r] = x
       /\ (\A s \in Request \ {r} : ack'[s] = ack[s])
       BY <1>1, <1>4, <1>10, AckReplaced
<1> QED
    BY <1>3, <1>6, <1>8, <1>10, <1>11

\* The inductive invariant of the types.
TypeInv == TypeOK /\ Placed

LEMMA TypeInit ==
  ASSUME BoardAssumption, Init
  PROVE  TypeInv
<1>1. Sound(board)
      BY EmptySound DEF Init
<1>2. RunTyped(run) /\ run.pc = "idle"
      BY IdleTyped DEF Init
<1>3. todo \in Numbered /\ fresh \in SUBSET Task /\ \A t \in fresh : todo[t] = None
      BY DEF Init, NoTasks, Numbered
<1>4. ack \in [Request -> Ack] /\ \A r \in Request : AckTyped(ack[r]) /\ ack[r].pc = "idle"
      BY NoAckTyped DEF Init, AckTyped
<1>5. /\ commands \in [Key -> Artifact \cup {None}] /\ revised \in [Task -> Nat]
      /\ split \in BOOLEAN /\ crashes \in Nat
      BY DEF Init
<1> QED
    BY <1>1, <1>2, <1>3, <1>4, <1>5, TypeParts DEF TypeInv, Placed

\* A step that leaves the acknowledgements alone keeps the types if it keeps
\* those of the board, the execution and the plan.
LEMMA RunTypes ==
  ASSUME TypeInv, UNCHANGED <<ack, commands>>,
         Sound(board'), RunTyped(run'), todo' \in Numbered, fresh' \in SUBSET Task,
         revised' \in [Task -> Nat], split' \in BOOLEAN, crashes' \in Nat,
         run'.pc # "idle" => run'.at \in Process,
         run'.pc = "closing" => run'.closing \subseteq In(run'.board.holds),
         run'.pc = "storing" => run'.task \in In(todo'),
         \A t \in fresh' : todo'[t] = None
  PROVE  TypeInv'
<1>1. TypeOK /\ Placed
      BY DEF TypeInv
<1>2. /\ ack' \in [Request -> Ack] /\ (\A r \in Request : AckTyped(ack'[r]))
      /\ commands' \in [Key -> Artifact \cup {None}]
      BY <1>1, TypeParts
<1>3. TypeOK'
  <2>1. \A r \in Request : ack'[r].board.cursor <= Len(ack'[r].board.delivery)
        BY <1>2 DEF AckTyped, Sound
  <2> QED
      BY <1>2, <2>1 DEF TypeOK, Sound, RunTyped
<1>4. \A r \in Request : ack'[r].pc # "idle" => ack'[r].at \in Process
      BY <1>1 DEF Placed
<1> QED
    BY <1>3, <1>4 DEF TypeInv, Placed

\* A step of an acknowledgement.
LEMMA AckTypes ==
  ASSUME TypeInv, UNCHANGED <<run, todo, fresh, revised, crashes>>,
         Sound(board'), split' \in BOOLEAN, commands' \in [Key -> Artifact \cup {None}],
         ack' \in [Request -> Ack],
         \A r \in Request : AckTyped(ack'[r]) /\ (ack'[r].pc # "idle" => ack'[r].at \in Process)
  PROVE  TypeInv'
<1>1. TypeOK /\ Placed
      BY DEF TypeInv
<1>2. /\ RunTyped(run') /\ todo' \in Numbered /\ fresh' \in SUBSET Task
      /\ revised' \in [Task -> Nat] /\ crashes' \in Nat
      BY <1>1, TypeParts
<1>3. TypeOK'
  <2>1. \A r \in Request : ack'[r].board.cursor <= Len(ack'[r].board.delivery)
        BY DEF AckTyped, Sound
  <2> QED
      BY <1>2, <2>1 DEF TypeOK, Sound, RunTyped
<1> QED
    BY <1>1, <1>3 DEF TypeInv, Placed

\* One acknowledgement goes idle.
LEMMA AckCleared ==
  ASSUME TypeInv, NEW r \in Request, ack' = [ack EXCEPT ![r] = NoAck]
  PROVE  /\ ack' \in [Request -> Ack] /\ ack'[r].pc = "idle"
         /\ \A s \in Request : /\ AckTyped(ack'[s]) /\ (ack'[s].pc # "idle" => ack'[s].at \in Process)
                               /\ (s # r => ack'[s] = ack[s])
<1>1. TypeOK /\ Placed
      BY DEF TypeInv
<1>2. ack \in [Request -> Ack] /\ \A s \in Request : AckTyped(ack[s])
      BY <1>1, TypeParts
<1>3. AckTyped(NoAck) /\ NoAck.pc = "idle"
      BY NoAckTyped
<1>4. /\ ack' \in [Request -> Ack] /\ (\A s \in Request : AckTyped(ack'[s]))
      /\ ack'[r] = NoAck /\ (\A s \in Request \ {r} : ack'[s] = ack[s])
      BY <1>2, <1>3, AckReplaced
<1> QED
    BY <1>1, <1>3, <1>4 DEF Placed

LEMMA BooleanOr ==
  ASSUME NEW a \in BOOLEAN, NEW b \in BOOLEAN
  PROVE  (a \/ b) \in BOOLEAN
OBVIOUS

LEMMA SplitTyped ==
  ASSUME split \in BOOLEAN, NEW p, split' = (split \/ LockedElsewhere(p))
  PROVE  split' \in BOOLEAN
<1>1. LockedElsewhere(p) \in BOOLEAN
      BY Zenon DEF LockedElsewhere
<1> QED
    BY <1>1, BooleanOr

LEMMA TypeStep ==
  ASSUME BoardAssumption, TypeInv, Next
  PROVE  TypeInv'
<1> USE DEF TypeInv
<1>1. /\ Sound(board) /\ RunTyped(run) /\ run.at \in Process \cup {None}
      /\ todo \in Numbered /\ fresh \in SUBSET Task
      /\ revised \in [Task -> Nat] /\ split \in BOOLEAN /\ crashes \in Nat
      /\ (\A t \in fresh : todo[t] = None)
      /\ (run.pc # "idle" => run.at \in Process)
      BY TypeParts DEF Placed, RunTyped, Run
<1>2. ASSUME NEW p \in Process, Start(p) PROVE TypeInv'
  <2>1. RunTyped(run') /\ run'.pc = "idle"
        BY <1>2, IdleTyped DEF Start
  <2> QED
      BY <1>1, <1>2, <2>1, RunTypes DEF Start
<1>3. CASE ReadForPlan
  <2>1. RunTyped(run') /\ run'.pc = "planning" /\ run'.at \in Process
        BY <1>1, <1>3, ReadForPlanRun DEF ReadForPlan
  <2> QED
      BY <1>1, <1>3, <2>1, RunTypes DEF ReadForPlan
<1>4. CASE Decide
  <2>1. /\ RunTyped(run') /\ run'.pc = "closing" /\ run'.at \in Process
        /\ run'.closing \subseteq In(run'.board.holds)
        BY <1>1, <1>4, DecideRun DEF Decide
  <2> QED
      BY <1>1, <1>4, <2>1, RunTypes DEF Decide
<1>5. ASSUME NEW t \in Task, Close(t) PROVE TypeInv'
  <2>1. /\ RunTyped(run') /\ run'.pc = "closing" /\ run'.at \in Process
        /\ run'.closing \subseteq In(run'.board.holds)
        BY <1>1, <1>5, CloseRun DEF Close
  <2> QED
      BY <1>1, <1>5, <2>1, RunTypes DEF Close
<1>6. CASE SavePlan
  <2>1. RunTyped(run') /\ run'.pc = "idle"
        BY <1>1, <1>6, IdleTyped DEF SavePlan
  <2>2. /\ Sound(board') /\ todo' \in Numbered /\ fresh' \subseteq fresh
        /\ (\A t \in fresh' : todo'[t] = None)
        BY <1>6, SavePlanBoard
  <2>3. UNCHANGED <<ack, commands, revised, split, crashes>>
        BY <1>6 DEF SavePlan
  <2> QED
      BY <1>1, <2>1, <2>2, <2>3, RunTypes
<1>7. ASSUME NEW t \in Task, ReadForHold(t) PROVE TypeInv'
  <2>1. RunTyped(run') /\ run'.pc = "storing" /\ run'.at = run.at /\ run'.task = t
        BY <1>7, ReadForHoldRun
  <2>2. UNCHANGED <<board, todo, fresh, ack, commands, revised, split, crashes>>
        BY <1>7 DEF ReadForHold
  <2>3. t \in In(todo) /\ run.at \in Process
        BY <1>1, <1>7 DEF ReadForHold
  <2>4. In(todo') = In(todo)
        BY <2>2 DEF In
  <2> QED
      BY <1>1, <2>1, <2>2, <2>3, <2>4, RunTypes
<1>8. CASE SaveHold
  <2>1. RunTyped(run') /\ run'.pc = "idle"
        BY <1>1, <1>8, IdleTyped DEF SaveHold
  <2>2. /\ Sound(board') /\ todo' \in Numbered /\ todo' = [todo EXCEPT ![run.task] = None]
        /\ run.task \in Task
        /\ revised' = [revised EXCEPT ![run.task] = IF todo[run.task] > 0
                                                    THEN revised[run.task] + 1
                                                    ELSE revised[run.task]]
        BY <1>8, SaveHoldBoard
  <2>3. revised' \in [Task -> Nat]
        BY <1>1, <2>2
  <2>4. split' \in BOOLEAN
        BY <1>1, <1>8, SplitTyped DEF SaveHold
  <2>5. UNCHANGED <<fresh, ack, commands, crashes>>
        BY <1>8 DEF SaveHold
  <2>6. \A t \in fresh' : todo'[t] = None
        BY <1>1, <2>2, <2>5 DEF Numbered
  <2> QED
      BY <1>1, <2>1, <2>2, <2>3, <2>4, <2>5, <2>6, RunTypes
<1>9. ASSUME NEW t \in Task, NotHeld(t) PROVE TypeInv'
  <2>1. todo' = [todo EXCEPT ![t] = None] /\ run.pc = "idle"
        BY <1>9 DEF NotHeld, Without
  <2>2. UNCHANGED <<board, run, fresh, ack, commands, revised, split, crashes>>
        BY <1>9 DEF NotHeld
  <2>3. todo' \in Numbered /\ \A u \in fresh' : todo'[u] = None
        BY <1>1, <2>1, <2>2 DEF Numbered
  <2> QED
      BY <1>1, <2>1, <2>2, <2>3, RunTypes
<1>10. CASE Leave
  <2>1. RunTyped(run') /\ run'.pc = "idle"
        BY <1>10, IdleTyped DEF Leave
  <2>2. UNCHANGED <<board, fresh, ack, commands, revised, split, crashes>> /\ todo' = NoTasks
        BY <1>10 DEF Leave
  <2>3. todo' \in Numbered /\ \A u \in fresh' : todo'[u] = None
        BY <1>1, <2>2 DEF Numbered, NoTasks
  <2> QED
      BY <1>1, <2>1, <2>2, <2>3, RunTypes
<1>11. ASSUME NEW r \in Request, NEW p \in Process, NEW a \in Artifact, NEW k \in Key \cup {None},
              Acknowledge(r, p, a, k)
       PROVE  TypeInv'
  <2> DEFINE x == [pc |-> "waiting", at |-> p, artifact |-> a, board |-> EmptyBoard]
  <2>1. AckTyped(x) /\ x.at \in Process
        BY EmptySound DEF AckTyped, Ack, Sound
  <2>2. ack' = [ack EXCEPT ![r] = x]
        BY <1>11 DEF Acknowledge
  <2> HIDE DEF x
  <2>3. ack \in [Request -> Ack] /\ \A s \in Request : AckTyped(ack[s])
        BY TypeParts
  <2>4. /\ ack' \in [Request -> Ack] /\ (\A s \in Request : AckTyped(ack'[s]))
        /\ ack'[r] = x /\ (\A s \in Request \ {r} : ack'[s] = ack[s])
        BY <2>1, <2>2, <2>3, AckReplaced
  <2>5. \A s \in Request : ack'[s].pc # "idle" => ack'[s].at \in Process
        BY <2>1, <2>4 DEF Placed
  <2>6. commands' \in [Key -> Artifact \cup {None}]
        BY <1>11, TypeParts DEF Acknowledge
  <2>7. UNCHANGED <<board, run, todo, fresh, revised, split, crashes>>
        BY <1>11 DEF Acknowledge
  <2> QED
      BY <1>1, <2>4, <2>5, <2>6, <2>7, AckTypes
<1>12. ASSUME NEW r \in Request, ReadForAck(r) PROVE TypeInv'
  <2>1. /\ AckTyped(ack'[r]) /\ ack' \in [Request -> Ack] /\ ack'[r].at \in Process
        /\ (\A s \in Request \ {r} : ack'[s] = ack[s])
        BY <1>12, ReadForAckCopy
  <2>2. \A s \in Request : AckTyped(ack'[s]) /\ (ack'[s].pc # "idle" => ack'[s].at \in Process)
        BY <2>1, TypeParts DEF Placed
  <2>3. UNCHANGED <<board, run, todo, fresh, commands, revised, split, crashes>>
        BY <1>12 DEF ReadForAck, SavingFrom
  <2>4. commands' \in [Key -> Artifact \cup {None}]
        BY <2>3, TypeParts
  <2> QED
      BY <1>1, <2>1, <2>2, <2>3, <2>4, AckTypes
<1>13. ASSUME NEW r \in Request, Answered(r) \/ AckFails(r) PROVE TypeInv'
  <2>1. /\ ack' = [ack EXCEPT ![r] = NoAck]
        /\ UNCHANGED <<board, run, todo, fresh, commands, revised, split, crashes>>
        BY <1>13 DEF Answered, AckFails
  <2>2. commands' \in [Key -> Artifact \cup {None}]
        BY <2>1, TypeParts
  <2> QED
      BY <1>1, <2>1, <2>2, AckCleared, AckTypes
<1>14. ASSUME NEW r \in Request, SaveAck(r) PROVE TypeInv'
  <2>1. /\ ack' = [ack EXCEPT ![r] = NoAck] /\ board' = ack[r].board
        /\ UNCHANGED <<run, todo, fresh, commands, revised, crashes>>
        BY <1>14 DEF SaveAck
  <2>2. commands' \in [Key -> Artifact \cup {None}] /\ Sound(board')
        BY <2>1, TypeParts DEF AckTyped
  <2>3. split' \in BOOLEAN
        BY <1>1, <1>14, SplitTyped DEF SaveAck
  <2> QED
      BY <1>1, <2>1, <2>2, <2>3, AckCleared, AckTypes
<1>15. ASSUME NEW p \in Process, Crash(p) PROVE TypeInv'
  <2>1. /\ ack \in [Request -> Ack] /\ (\A r \in Request : AckTyped(ack[r]))
        /\ commands \in [Key -> Artifact \cup {None}]
        BY TypeParts
  <2>2. /\ ack' = [r \in Request |-> IF ack[r].at = p THEN NoAck ELSE ack[r]]
        /\ UNCHANGED <<board, todo, fresh, commands, revised, split>> /\ crashes' = crashes + 1
        /\ run' = IF run.at = p THEN IdleAt(None) ELSE run
        BY <1>15 DEF Crash
  <2>3. NoAck \in Ack /\ AckTyped(NoAck) /\ NoAck.pc = "idle"
        BY NoAckTyped DEF AckTyped
  <2>4. ack' \in [Request -> Ack]
        BY <2>1, <2>2, <2>3
  <2>5. \A r \in Request : ack'[r] = NoAck \/ ack'[r] = ack[r]
        BY <2>2
  <2>6. \A r \in Request : /\ AckTyped(ack'[r]) /\ (ack'[r].pc # "idle" => ack'[r].at \in Process)
                           /\ ack'[r].board.cursor <= Len(ack'[r].board.delivery)
        BY <2>1, <2>3, <2>5 DEF Placed, AckTyped, Sound
  <2>7. RunTyped(IdleAt(None)) /\ IdleAt(None).pc = "idle"
        BY IdleTyped
  <2>8. RunTyped(run') /\ (run' = run \/ run'.pc = "idle")
        BY <1>1, <2>2, <2>7
  <2>9. TypeOK'
        BY <1>1, <2>1, <2>2, <2>4, <2>6, <2>8 DEF TypeOK, Sound, RunTyped
  <2>10. In(todo') = In(todo)
        BY <2>2 DEF In
  <2>11. Placed'
        BY <1>1, <2>2, <2>6, <2>8, <2>10 DEF Placed
  <2> QED
      BY <2>9, <2>11
<1> QED
    BY <1>2, <1>3, <1>4, <1>5, <1>6, <1>7, <1>8, <1>9, <1>10, <1>11, <1>12, <1>13, <1>14, <1>15
    DEF Next, RunStep, AckStep

LEMMA TypeStutter ==
  ASSUME TypeInv, UNCHANGED vars
  PROVE  TypeInv'
BY DEF TypeInv, TypeOK, Placed, vars, In

\* Every state the board and its writers reach is well formed; the cursor of
\* every copy stays within its queue.
THEOREM BoardTypeCorrect == Spec => []TypeOK
<1>1. Init => TypeInv
      BY TypeInit, BoardAssumption
<1>2. TypeInv /\ [Next]_vars => TypeInv'
      BY TypeStep, TypeStutter, BoardAssumption
<1>3. TypeInv => TypeOK
      BY DEF TypeInv
<1> QED
    BY <1>1, <1>2, <1>3, PTL DEF Spec

-----------------------------------------------------------------------------
(* Quiet steps *)

\* A step that writes no board, reads none and settles at most a task.
Quiet ==
  /\ UNCHANGED <<board, fresh, revised, split>>
  /\ run' = run \/ run'.pc = "idle"
  /\ \A r \in Request : ack'[r] = ack[r] \/ ack'[r].pc # "saving"
  /\ \A t \in Task : todo'[t] = todo[t] \/ todo'[t] = None

LEMMA QuietSteps ==
  ASSUME BoardAssumption, TypeInv, [Next]_vars,
         ~ReadForPlan, ~Decide, \A t \in Task : ~Close(t), ~SavePlan,
         \A t \in Task : ~ReadForHold(t), ~SaveHold,
         \A r \in Request : ~ReadForAck(r), \A r \in Request : ~SaveAck(r)
  PROVE  Quiet
<1>1. /\ TypeOK /\ todo \in Numbered
      /\ ack \in [Request -> Ack] /\ \A r \in Request : AckTyped(ack[r])
      BY TypeParts DEF TypeInv
<1>2. ASSUME NEW p \in Process, Start(p) PROVE Quiet
      BY <1>2, IdleTyped DEF Start, Quiet
<1>3. ASSUME NEW t \in Task, NotHeld(t) PROVE Quiet
  <2>1. todo' = [todo EXCEPT ![t] = None]
        BY <1>3 DEF NotHeld, Without
  <2>2. \A u \in Task : todo'[u] = todo[u] \/ todo'[u] = None
        BY <1>1, <2>1 DEF Numbered
  <2> QED
      BY <1>3, <2>2 DEF NotHeld, Quiet
<1>4. CASE Leave
  <2>1. run'.pc = "idle" /\ todo' = NoTasks
        BY <1>4, IdleTyped DEF Leave
  <2>2. \A u \in Task : todo'[u] = None
        BY <2>1 DEF NoTasks
  <2> QED
      BY <1>4, <2>1, <2>2 DEF Leave, Quiet
<1>5. ASSUME NEW r \in Request, NEW p \in Process, NEW a \in Artifact, NEW k \in Key \cup {None},
             Acknowledge(r, p, a, k)
      PROVE  Quiet
  <2> DEFINE x == [pc |-> "waiting", at |-> p, artifact |-> a, board |-> EmptyBoard]
  <2>1. ack' = [ack EXCEPT ![r] = x] /\ x.pc = "waiting"
        BY <1>5 DEF Acknowledge
  <2> HIDE DEF x
  <2>2. \A s \in Request : ack'[s] = IF s = r THEN x ELSE ack[s]
        BY <1>1, <2>1
  <2>3. \A s \in Request : ack'[s] = ack[s] \/ ack'[s].pc # "saving"
        BY <2>1, <2>2
  <2> QED
      BY <1>5, <2>3 DEF Acknowledge, Quiet
<1>6. ASSUME NEW r \in Request, Answered(r) \/ AckFails(r) PROVE Quiet
  <2>1. ack' = [ack EXCEPT ![r] = NoAck]
        /\ UNCHANGED <<board, run, todo, fresh, commands, revised, split, crashes>>
        BY <1>6 DEF Answered, AckFails
  <2>2. \A s \in Request : ack'[s] = ack[s] \/ ack'[s].pc # "saving"
        BY <2>1, AckCleared
  <2> QED
      BY <2>1, <2>2 DEF Quiet
<1>7. ASSUME NEW p \in Process, Crash(p) PROVE Quiet
  <2>1. /\ ack' = [r \in Request |-> IF ack[r].at = p THEN NoAck ELSE ack[r]]
        /\ UNCHANGED <<board, todo, fresh, commands, revised, split>>
        /\ run' = IF run.at = p THEN IdleAt(None) ELSE run
        BY <1>7 DEF Crash
  <2>2. NoAck.pc = "idle" /\ IdleAt(None).pc = "idle"
        BY NoAckTyped, IdleTyped
  <2>3. \A r \in Request : ack'[r] = NoAck \/ ack'[r] = ack[r]
        BY <2>1
  <2>4. \A r \in Request : ack'[r] = ack[r] \/ ack'[r].pc # "saving"
        BY <2>2, <2>3
  <2>5. run' = run \/ run'.pc = "idle"
        BY <2>1, <2>2
  <2> QED
      BY <2>1, <2>4, <2>5 DEF Quiet
<1>8. CASE UNCHANGED vars
      BY <1>8 DEF vars, Quiet
<1> QED
    BY <1>2, <1>3, <1>4, <1>5, <1>6, <1>7, <1>8 DEF Next, RunStep, AckStep

-----------------------------------------------------------------------------
(* The head of the queue *)

\* Every copy that will be written back leaves the queue open at its cursor.
HeadInv ==
  /\ OpenHead(board)
  /\ run.pc = "storing" => OpenHead(run.board)
  /\ \A r \in Request : ack[r].pc = "saving" => OpenHead(ack[r].board)

LEMMA HeadStep ==
  ASSUME BoardAssumption, TypeInv, HeadInv, [Next]_vars
  PROVE  HeadInv'
<1>1. TypeOK /\ Placed
      BY DEF TypeInv
<1>2. CASE Quiet
      BY <1>2 DEF Quiet, HeadInv
<1>3. CASE ReadForPlan
  <2>1. run'.pc = "planning" /\ UNCHANGED <<board, ack>>
        BY <1>1, <1>3, ReadForPlanRun DEF ReadForPlan
  <2> QED
      BY <2>1 DEF HeadInv
<1>4. CASE Decide
  <2>1. run'.pc = "closing" /\ UNCHANGED <<board, ack>>
        BY <1>1, <1>4, DecideRun DEF Decide
  <2> QED
      BY <2>1 DEF HeadInv
<1>5. ASSUME NEW t \in Task, Close(t) PROVE HeadInv'
  <2>1. run'.pc = "closing" /\ UNCHANGED <<board, ack>>
        BY <1>1, <1>5, CloseRun DEF Close
  <2> QED
      BY <2>1 DEF HeadInv
<1>6. CASE SavePlan
  <2>1. OpenHead(board') /\ UNCHANGED ack
        BY <1>1, <1>6, SavePlanBoard DEF SavePlan
  <2>2. run'.pc = "idle"
        BY <1>6 DEF SavePlan, IdleAt
  <2> QED
      BY <2>1, <2>2 DEF HeadInv
<1>7. ASSUME NEW t \in Task, ReadForHold(t) PROVE HeadInv'
  <2>1. run'.board = board /\ UNCHANGED <<board, ack>>
        BY <1>1, <1>7, ReadForHoldRun DEF ReadForHold
  <2> QED
      BY <2>1 DEF HeadInv
<1>8. CASE SaveHold
  <2>1. (OpenHead(run.board) => OpenHead(board')) /\ UNCHANGED ack
        BY <1>1, <1>8, SaveHoldBoard DEF SaveHold
  <2>2. run.pc = "storing" /\ run'.pc = "idle"
        BY <1>8 DEF SaveHold, IdleAt
  <2> QED
      BY <2>1, <2>2 DEF HeadInv
<1>9. ASSUME NEW r \in Request, ReadForAck(r) PROVE HeadInv'
  <2>1. /\ UNCHANGED <<board, run>> /\ OpenHead(ack'[r].board)
        /\ (\A s \in Request \ {r} : ack'[s] = ack[s])
        BY <1>1, <1>9, ReadForAckCopy DEF ReadForAck, SavingFrom
  <2> QED
      BY <2>1 DEF HeadInv
<1>10. ASSUME NEW r \in Request, SaveAck(r) PROVE HeadInv'
  <2>1. /\ ack' = [ack EXCEPT ![r] = NoAck] /\ board' = ack[r].board /\ UNCHANGED run
        /\ ack[r].pc = "saving"
        BY <1>10 DEF SaveAck
  <2>2. \A s \in Request : ack'[s] = ack[s] \/ ack'[s].pc # "saving"
        BY <2>1, AckCleared
  <2> QED
      BY <2>1, <2>2 DEF HeadInv
<1> QED
    BY <1>2, <1>3, <1>4, <1>5, <1>6, <1>7, <1>8, <1>9, <1>10, QuietSteps

\* Whoever wrote the board last, the item at the cursor is unlocked: also when
\* an acknowledgement overwrites a plan with an older copy, and also when two
\* processes write the board at the same time.
THEOREM HeadUnlockedHolds == Spec => []HeadUnlocked
<1>1. Init => TypeInv /\ HeadInv
  <2>1. ASSUME Init PROVE HeadInv
        BY <2>1, EmptySound DEF Init, HeadInv, IdleAt, NoAck
  <2> QED
      BY <2>1, TypeInit, BoardAssumption
<1>2. TypeInv /\ HeadInv /\ [Next]_vars => (TypeInv /\ HeadInv)'
      BY TypeStep, TypeStutter, HeadStep, BoardAssumption
<1>3. HeadInv => HeadUnlocked
      BY DEF HeadInv, OpenHead, HeadUnlocked
<1> QED
    BY <1>1, <1>2, <1>3, PTL DEF Spec

-----------------------------------------------------------------------------
(* The lock of a process *)

\* Within one process at most one holder of the lock has read and not yet saved.
Mutex ==
  /\ \A r, s \in Request :
       r # s /\ ack[r].pc = "saving" /\ ack[s].pc = "saving" => ack[r].at # ack[s].at
  /\ \A r \in Request :
       run.pc = "storing" /\ ack[r].pc = "saving" => ack[r].at # run.at

LEMMA MutexStep ==
  ASSUME BoardAssumption, TypeInv, Mutex, [Next]_vars
  PROVE  Mutex'
<1>1. TypeOK /\ Placed
      BY DEF TypeInv
<1>2. CASE Quiet
      BY <1>2 DEF Quiet, Mutex
<1>3. CASE ReadForPlan
  <2>1. run'.pc = "planning" /\ UNCHANGED ack
        BY <1>1, <1>3, ReadForPlanRun DEF ReadForPlan
  <2> QED
      BY <2>1 DEF Mutex
<1>4. CASE Decide
  <2>1. run'.pc = "closing" /\ UNCHANGED ack
        BY <1>1, <1>4, DecideRun DEF Decide
  <2> QED
      BY <2>1 DEF Mutex
<1>5. ASSUME NEW t \in Task, Close(t) PROVE Mutex'
  <2>1. run'.pc = "closing" /\ UNCHANGED ack
        BY <1>1, <1>5, CloseRun DEF Close
  <2> QED
      BY <2>1 DEF Mutex
<1>6. CASE SavePlan
  <2>1. run'.pc = "idle" /\ UNCHANGED ack
        BY <1>6 DEF SavePlan, IdleAt
  <2> QED
      BY <2>1 DEF Mutex
<1>7. ASSUME NEW t \in Task, ReadForHold(t) PROVE Mutex'
  <2>1. run'.at = run.at /\ UNCHANGED ack
        BY <1>1, <1>7, ReadForHoldRun DEF ReadForHold
  <2>2. \A r \in Request : ack[r].pc = "saving" => ack[r].at # run.at
        BY <1>7 DEF ReadForHold, LockFree
  <2> QED
      BY <2>1, <2>2 DEF Mutex
<1>8. CASE SaveHold
  <2>1. run'.pc = "idle" /\ UNCHANGED ack
        BY <1>8 DEF SaveHold, IdleAt
  <2> QED
      BY <2>1 DEF Mutex
<1>9. ASSUME NEW r \in Request, ReadForAck(r) PROVE Mutex'
  <2>1. /\ UNCHANGED run /\ ack'[r].at = ack[r].at
        /\ (\A s \in Request \ {r} : ack'[s] = ack[s])
        BY <1>1, <1>9, ReadForAckCopy DEF ReadForAck, SavingFrom
  <2>2. /\ \A s \in Request : ack[s].pc = "saving" => ack[s].at # ack[r].at
        /\ run.pc = "storing" => run.at # ack[r].at
        BY <1>9 DEF ReadForAck, LockFree
  <2> QED
      BY <2>1, <2>2 DEF Mutex
<1>10. ASSUME NEW r \in Request, SaveAck(r) PROVE Mutex'
  <2>1. ack' = [ack EXCEPT ![r] = NoAck] /\ UNCHANGED run
        BY <1>10 DEF SaveAck
  <2>2. \A s \in Request : ack'[s] = ack[s] \/ ack'[s].pc # "saving"
        BY <2>1, AckCleared
  <2> QED
      BY <2>1, <2>2 DEF Mutex
<1> QED
    BY <1>2, <1>3, <1>4, <1>5, <1>6, <1>7, <1>8, <1>9, <1>10, QuietSteps

\* Unless the locks of two processes are held, who saves is alone.
LEMMA HoldAlone ==
  ASSUME TypeInv, Mutex, SaveHold, ~split'
  PROVE  ~split /\ \A r \in Request : ack[r].pc # "saving"
<1>1. ~split /\ ~LockedElsewhere(run.at) /\ run.pc = "storing"
      BY DEF SaveHold
<1>2. \A q \in Process \ {run.at} : LockFree(q)
      BY <1>1, Zenon DEF LockedElsewhere
<1>3. ASSUME NEW r \in Request, ack[r].pc = "saving" PROVE FALSE
  <2>1. ack[r].at \in Process /\ ack[r].at # run.at
        BY <1>1, <1>3 DEF TypeInv, Placed, Mutex
  <2> QED
      BY <1>2, <1>3, <2>1 DEF LockFree
<1> QED
    BY <1>1, <1>3

LEMMA AckAlone ==
  ASSUME TypeInv, Mutex, NEW r \in Request, SaveAck(r), ~split'
  PROVE  ~split /\ run.pc # "storing" /\ \A s \in Request \ {r} : ack[s].pc # "saving"
<1>1. ~split /\ ~LockedElsewhere(ack[r].at) /\ ack[r].pc = "saving"
      BY DEF SaveAck
<1>2. \A q \in Process \ {ack[r].at} : LockFree(q)
      BY <1>1, Zenon DEF LockedElsewhere
<1>3. ASSUME NEW s \in Request \ {r}, ack[s].pc = "saving" PROVE FALSE
  <2>1. ack[s].at \in Process /\ ack[s].at # ack[r].at
        BY <1>1, <1>3 DEF TypeInv, Placed, Mutex
  <2> QED
      BY <1>2, <1>3, <2>1 DEF LockFree
<1>4. ASSUME run.pc = "storing" PROVE FALSE
  <2>1. run.at \in Process /\ ack[r].at # run.at
        BY <1>1, <1>4 DEF TypeInv, Placed, Mutex
  <2> QED
      BY <1>2, <1>4, <2>1 DEF LockFree
<1> QED
    BY <1>1, <1>3, <1>4

-----------------------------------------------------------------------------
(* The copies *)

\* Every copy that may be written back keeps what the board keeps.  Those read
\* under a lock know every acknowledgement; the planner's knows no others.
Copies ==
  /\ run.pc # "idle" => Kept(run.board) = Kept(board)
  /\ run.pc \in {"planning", "closing"} => Passed(run.board) \subseteq Passed(board)
  /\ run.pc = "storing" => Passed(board) \subseteq Passed(run.board)
  /\ \A r \in Request : ack[r].pc = "saving" =>
       Kept(ack[r].board) = Kept(board) /\ Passed(board) \subseteq Passed(ack[r].board)

CopiesInv == ~split => Copies

LEMMA CopiesStep ==
  ASSUME BoardAssumption, TypeInv, Mutex, CopiesInv, [Next]_vars
  PROVE  CopiesInv'
<1>1. TypeOK /\ Placed
      BY DEF TypeInv
<1>2. CASE Quiet
      BY <1>2 DEF Quiet, CopiesInv, Copies
<1>3. CASE ReadForPlan
  <2>1. run'.pc = "planning" /\ run'.board = board /\ UNCHANGED <<board, ack, split>>
        BY <1>1, <1>3, ReadForPlanRun DEF ReadForPlan
  <2> QED
      BY <2>1 DEF CopiesInv, Copies
<1>4. CASE Decide
  <2>1. /\ run'.pc = "closing" /\ run'.board = run.board /\ UNCHANGED <<board, ack, split>>
        /\ run.pc = "planning"
        BY <1>1, <1>4, DecideRun DEF Decide
  <2> QED
      BY <2>1 DEF CopiesInv, Copies
<1>5. ASSUME NEW t \in Task, Close(t) PROVE CopiesInv'
  <2>1. /\ run'.pc = "closing" /\ Kept(run'.board) = Kept(run.board)
        /\ Passed(run'.board) \subseteq Passed(run.board)
        BY <1>1, <1>5, CloseRun
  <2>2. run.pc = "closing" /\ UNCHANGED <<board, ack, split>>
        BY <1>5 DEF Close
  <2> QED
      BY <2>1, <2>2 DEF CopiesInv, Copies
<1>6. CASE SavePlan
  <2>1. /\ run'.pc = "idle" /\ run.pc = "closing" /\ UNCHANGED <<ack, split>>
        BY <1>6 DEF SavePlan, IdleAt
  <2>2. Kept(board') = Kept(run.board) /\ Passed(board') = Passed(run.board)
        BY <1>1, <1>6, SavePlanBoard
  <2> QED
      BY <2>1, <2>2 DEF CopiesInv, Copies
<1>7. ASSUME NEW t \in Task, ReadForHold(t) PROVE CopiesInv'
  <2>1. run'.pc = "storing" /\ run'.board = board /\ UNCHANGED <<board, ack, split>>
        BY <1>1, <1>7, ReadForHoldRun DEF ReadForHold
  <2> QED
      BY <2>1 DEF CopiesInv, Copies
<1>8. CASE SaveHold
  <2>1. run'.pc = "idle" /\ UNCHANGED ack
        BY <1>8 DEF SaveHold, IdleAt
  <2>2. ~split' => \A r \in Request : ack'[r].pc # "saving"
        BY <1>8, <2>1, HoldAlone
  <2> QED
      BY <2>1, <2>2 DEF CopiesInv, Copies
<1>9. ASSUME NEW r \in Request, ReadForAck(r) PROVE CopiesInv'
  <2>1. /\ UNCHANGED <<board, run, split>> /\ Kept(ack'[r].board) = Kept(board)
        /\ Passed(board) \subseteq Passed(ack'[r].board)
        /\ (\A s \in Request \ {r} : ack'[s] = ack[s])
        BY <1>1, <1>9, ReadForAckCopy DEF ReadForAck, SavingFrom
  <2> QED
      BY <2>1 DEF CopiesInv, Copies
<1>10. ASSUME NEW r \in Request, SaveAck(r) PROVE CopiesInv'
  <2>1. /\ ack' = [ack EXCEPT ![r] = NoAck] /\ UNCHANGED run /\ board' = ack[r].board
        /\ ack[r].pc = "saving"
        BY <1>10 DEF SaveAck
  <2>2. \A s \in Request : (s # r => ack'[s] = ack[s]) /\ ack'[r].pc = "idle"
        BY <2>1, AckCleared
  <2>3. ~split' => ~split /\ run.pc # "storing" /\ \A s \in Request \ {r} : ack[s].pc # "saving"
        BY <1>10, AckAlone
  <2> QED
      BY <2>1, <2>2, <2>3 DEF CopiesInv, Copies
<1> QED
    BY <1>2, <1>3, <1>4, <1>5, <1>6, <1>7, <1>8, <1>9, <1>10, QuietSteps

\* The inductive invariant of the copies.
BoardInv == TypeInv /\ Mutex /\ CopiesInv

LEMMA BoardInvInit ==
  ASSUME BoardAssumption, Init
  PROVE  BoardInv
<1>1. run.pc = "idle" /\ \A r \in Request : ack[r].pc = "idle"
      BY DEF Init, IdleAt, NoAck
<1> QED
    BY <1>1, TypeInit DEF BoardInv, Mutex, CopiesInv, Copies

LEMMA BoardInvStep ==
  ASSUME BoardAssumption, BoardInv, [Next]_vars
  PROVE  BoardInv'
BY TypeStep, TypeStutter, MutexStep, CopiesStep DEF BoardInv

\* What each step does to the artifacts and to the acknowledgements.
LEMMA WritesKeep ==
  ASSUME BoardAssumption, BoardInv, [Next]_vars, ~split'
  PROVE  /\ Kept(board) \subseteq Kept(board')
         /\ (run.pc = "closing" => UNCHANGED run) => Passed(board) \subseteq Passed(board')
<1>1. TypeInv /\ TypeOK /\ Placed /\ Mutex /\ CopiesInv
      BY DEF BoardInv, TypeInv
<1> DEFINE Goal == /\ Kept(board) \subseteq Kept(board')
                   /\ (run.pc = "closing" => UNCHANGED run) => Passed(board) \subseteq Passed(board')
<1>2. CASE UNCHANGED board
      BY <1>2
<1>3. CASE SavePlan
  <2>1. run'.pc = "idle" /\ run.pc = "closing" /\ ~split
        BY <1>3 DEF SavePlan, IdleAt
  <2>2. Kept(board') = Kept(run.board)
        BY <1>1, <1>3, SavePlanBoard
  <2> QED
      BY <1>1, <2>1, <2>2 DEF CopiesInv, Copies
<1>4. CASE SaveHold
  <2>1. run.pc = "storing" /\ ~split
        BY <1>1, <1>4, HoldAlone DEF SaveHold
  <2>2. Kept(run.board) \subseteq Kept(board') /\ Passed(board') = Passed(run.board)
        BY <1>1, <1>4, SaveHoldBoard
  <2> QED
      BY <1>1, <2>1, <2>2 DEF CopiesInv, Copies
<1>5. ASSUME NEW r \in Request, SaveAck(r) PROVE Goal
  <2>1. ack[r].pc = "saving" /\ board' = ack[r].board /\ ~split
        BY <1>1, <1>5, AckAlone DEF SaveAck
  <2> QED
      BY <1>1, <2>1 DEF CopiesInv, Copies
<1>6. \/ UNCHANGED board \/ SavePlan \/ SaveHold \/ \E r \in Request : SaveAck(r)
  <2>1. CASE Quiet
        BY <2>1 DEF Quiet
  <2>2. ReadForPlan \/ Decide => UNCHANGED board
        BY DEF ReadForPlan, Decide
  <2>3. \A t \in Task : Close(t) \/ ReadForHold(t) => UNCHANGED board
        BY DEF Close, ReadForHold
  <2>4. \A r \in Request : ReadForAck(r) => UNCHANGED board
        BY DEF ReadForAck, SavingFrom
  <2> QED
      BY <1>1, <2>1, <2>2, <2>3, <2>4, QuietSteps
<1> QED
    BY <1>2, <1>3, <1>4, <1>5, <1>6

\* An artifact that has reached the board never vanishes, whatever copies the
\* planner, the dispatch node and the acknowledgements write back, unless the
\* locks of two processes are held at the same time.
THEOREM ArtifactsKeptHolds == Spec => ArtifactsKept
<1>1. Init => BoardInv
      BY BoardInvInit, BoardAssumption
<1>2. BoardInv /\ [Next]_vars => BoardInv'
      BY BoardInvStep, BoardAssumption
<1>3. BoardInv /\ [Next]_vars => [~split' => Kept(board) \subseteq Kept(board')]_vars
      BY WritesKeep, BoardAssumption
<1> QED
    BY <1>1, <1>2, <1>3, PTL DEF Spec, ArtifactsKept

\* Under the same condition only the save of a plan takes an acknowledgement back.
THEOREM AcksKeptHolds == Spec => AcksKept
<1>1. Init => BoardInv
      BY BoardInvInit, BoardAssumption
<1>2. BoardInv /\ [Next]_vars => BoardInv'
      BY BoardInvStep, BoardAssumption
<1>3. BoardInv /\ [Next]_vars =>
        [~split' /\ (run.pc = "closing" => UNCHANGED run)
           => Passed(board) \subseteq Passed(board')]_vars
      BY WritesKeep, BoardAssumption
<1> QED
    BY <1>1, <1>2, <1>3, PTL DEF Spec, AcksKept

-----------------------------------------------------------------------------
(* The revisions *)

\* A hold records at least the revisions its task has had, and never too many.
Counted(h, rev) ==
  \A t \in Task : h[t] # None => rev[t] <= h[t] /\ h[t] <= MaxRevisions

\* A revision that is planned has a number above those its task has had.
Ahead(f, rev) ==
  \A t \in Task : f[t] # None => IF f[t] = 0 THEN rev[t] = 0
                                 ELSE rev[t] < f[t] /\ f[t] <= MaxRevisions

Counts ==
  /\ Counted(board.holds, revised)
  /\ run.pc # "idle" => Counted(run.board.holds, revised)
  /\ \A r \in Request : ack[r].pc = "saving" => Counted(ack[r].board.holds, revised)
  /\ run.pc = "closing" => Ahead(run.revisions, revised)
  /\ Ahead(todo, revised)
  /\ \A t \in fresh : revised[t] = 0
  /\ \A t \in Task : revised[t] <= MaxRevisions

CountsInv == ~split => Counts

LEMMA WithoutCounted ==
  ASSUME NEW h \in Numbered, NEW rev, Counted(h, rev), NEW t \in Task
  PROVE  Counted(Without(h, t), rev)
BY DEF Counted, Without, Numbered

\* The numbers of a hold and of its task once an outcome of the task is stored.
HoldNumber(h, f, k)    == IF f[k] > 0 THEN f[k] ELSE IF h[k] = None THEN 0 ELSE h[k]
RevisedOnce(rev, f, k) == [rev EXCEPT ![k] = IF f[k] > 0 THEN rev[k] + 1 ELSE rev[k]]

LEMMA StoredCounted ==
  ASSUME None \notin Nat, MaxRevisions \in Nat,
         NEW h \in Numbered, NEW f \in Numbered, NEW rev \in [Task -> Nat],
         NEW k \in Task, f[k] # None,
         Counted(h, rev), Ahead(f, rev), \A t \in Task : rev[t] <= MaxRevisions
  PROVE  /\ Counted([h EXCEPT ![k] = HoldNumber(h, f, k)], RevisedOnce(rev, f, k))
         /\ Ahead([f EXCEPT ![k] = None], RevisedOnce(rev, f, k))
         /\ \A t \in Task : /\ RevisedOnce(rev, f, k)[t] <= MaxRevisions
                            /\ t # k => RevisedOnce(rev, f, k)[t] = rev[t]
<1> DEFINE n    == HoldNumber(h, f, k)
           rev2 == RevisedOnce(rev, f, k)
           g    == [f EXCEPT ![k] = None]
<1>n. n = IF f[k] > 0 THEN f[k] ELSE IF h[k] = None THEN 0 ELSE h[k]
      BY DEF HoldNumber
<1>r. rev2 = [rev EXCEPT ![k] = IF f[k] > 0 THEN rev[k] + 1 ELSE rev[k]]
      BY DEF RevisedOnce
<1>g. g = [f EXCEPT ![k] = None]
      OBVIOUS
<1> HIDE DEF n, rev2, g
<1>1. f[k] \in Nat /\ rev[k] \in Nat /\ h[k] \in Nat \cup {None}
      BY DEF Numbered
<1>2. /\ \A t \in Task : t # k => rev2[t] = rev[t]
      /\ rev2[k] = IF f[k] > 0 THEN rev[k] + 1 ELSE rev[k]
      BY <1>r
<1>3. rev2[k] <= n /\ n <= MaxRevisions /\ rev2[k] <= MaxRevisions
  <2>1. IF f[k] = 0 THEN rev[k] = 0 ELSE rev[k] < f[k] /\ f[k] <= MaxRevisions
        BY DEF Ahead
  <2>2. h[k] # None => rev[k] <= h[k] /\ h[k] <= MaxRevisions
        BY DEF Counted
  <2> QED
      BY <1>1, <1>2, <1>n, <2>1, <2>2
<1>4. Counted([h EXCEPT ![k] = n], rev2)
  <2>1. \A t \in Task : [h EXCEPT ![k] = n][t] = IF t = k THEN n ELSE h[t]
        BY DEF Numbered
  <2> QED
      BY <1>2, <1>3, <2>1 DEF Counted
<1>5. Ahead(g, rev2)
  <2>1. \A t \in Task : g[t] = IF t = k THEN None ELSE f[t]
        BY <1>g DEF Numbered
  <2> QED
      BY <1>2, <2>1 DEF Ahead
<1>6. \A t \in Task : rev2[t] <= MaxRevisions /\ (t # k => rev2[t] = rev[t])
      BY <1>2, <1>3
<1> QED
    BY <1>4, <1>5, <1>6 DEF n, rev2, g

LEMMA CountsStep ==
  ASSUME BoardAssumption, TypeInv, Mutex, CountsInv, [Next]_vars
  PROVE  CountsInv'
<1> SUFFICES ASSUME ~split' PROVE Counts'
    BY DEF CountsInv
<1>1. /\ TypeOK /\ Placed /\ todo \in Numbered /\ revised \in [Task -> Nat]
      /\ run.board.holds \in Numbered /\ fresh \in SUBSET Task
      BY TypeParts, BoardParts DEF TypeInv, RunTyped
<1>2. None \notin Nat /\ MaxRevisions \in Nat
      BY DEF BoardAssumption
<1>3. CASE Quiet
  <2>1. /\ UNCHANGED <<board, fresh, revised>> /\ Counts
        /\ run' = run \/ run'.pc = "idle"
        /\ \A r \in Request : ack'[r] = ack[r] \/ ack'[r].pc # "saving"
        /\ \A t \in Task : todo'[t] = todo[t] \/ todo'[t] = None
        BY <1>3 DEF Quiet, CountsInv
  <2>2. Ahead(todo', revised)
        BY <2>1 DEF Ahead, Counts
  <2> QED
      BY <2>1, <2>2 DEF Counts
<1>4. CASE ReadForPlan
  <2>1. run'.pc = "planning" /\ run'.board = board
        /\ UNCHANGED <<board, todo, fresh, ack, revised, split>>
        BY <1>1, <1>4, ReadForPlanRun DEF ReadForPlan
  <2> QED
      BY <2>1 DEF CountsInv, Counts
<1>5. CASE Decide
  <2>1. /\ run'.pc = "closing" /\ run'.board = run.board
        /\ \A t \in In(run'.revisions) :
              /\ t \in In(run.board.holds) /\ run.board.holds[t] < MaxRevisions
              /\ run'.revisions[t] = run.board.holds[t] + 1
        BY <1>1, <1>5, DecideRun
  <2>2. run.pc = "planning" /\ UNCHANGED <<board, todo, fresh, ack, revised, split>>
        BY <1>5 DEF Decide
  <2>3. Counts /\ Counted(run.board.holds, revised)
        BY <2>2 DEF CountsInv, Counts
  <2>4. ASSUME NEW t \in Task, run'.revisions[t] # None
        PROVE  /\ run'.revisions[t] # 0
               /\ revised[t] < run'.revisions[t] /\ run'.revisions[t] <= MaxRevisions
    <3>1. t \in In(run'.revisions)
          BY <2>4 DEF In
    <3>2. /\ run.board.holds[t] # None /\ run.board.holds[t] < MaxRevisions
          /\ run'.revisions[t] = run.board.holds[t] + 1
          BY <2>1, <3>1 DEF In
    <3>3. run.board.holds[t] \in Nat /\ revised[t] \in Nat /\ revised[t] <= run.board.holds[t]
          BY <1>1, <2>3, <3>2 DEF Numbered, Counted
    <3> QED
        BY <1>2, <3>2, <3>3
  <2>5. Ahead(run'.revisions, revised)
        BY <2>4 DEF Ahead
  <2> QED
      BY <2>1, <2>2, <2>3, <2>5 DEF Counts
<1>6. ASSUME NEW t \in Task, Close(t) PROVE Counts'
  <2>1. /\ run'.pc = "closing" /\ run'.board.holds = Without(run.board.holds, t)
        /\ run'.revisions = run.revisions
        BY <1>1, <1>6, CloseRun
  <2>2. run.pc = "closing" /\ UNCHANGED <<board, todo, fresh, ack, revised, split>>
        BY <1>6 DEF Close
  <2>3. Counts /\ Counted(run.board.holds, revised)
        BY <2>2 DEF CountsInv, Counts
  <2>4. Counted(run'.board.holds, revised)
        BY <1>1, <2>1, <2>3, WithoutCounted
  <2> QED
      BY <2>1, <2>2, <2>3, <2>4 DEF Counts
<1>7. CASE SavePlan
  <2>1. run'.pc = "idle" /\ run.pc = "closing" /\ UNCHANGED <<ack, revised, split>>
        BY <1>7 DEF SavePlan, IdleAt
  <2>2. /\ board'.holds = run.board.holds /\ fresh' \subseteq fresh
        /\ \A t \in In(todo') : \/ t \in In(run.revisions) /\ todo'[t] = run.revisions[t]
                                \/ t \in fresh /\ todo'[t] = 0
        BY <1>1, <1>7, SavePlanBoard
  <2>3. Counts /\ Counted(run.board.holds, revised) /\ Ahead(run.revisions, revised)
        BY <2>1 DEF CountsInv, Counts
  <2>4. Ahead(todo', revised)
    <3>1. ASSUME NEW t \in Task, todo'[t] # None
          PROVE  IF todo'[t] = 0 THEN revised[t] = 0
                 ELSE revised[t] < todo'[t] /\ todo'[t] <= MaxRevisions
      <4>1. t \in In(todo')
            BY <3>1 DEF In
      <4>2. CASE t \in In(run.revisions) /\ todo'[t] = run.revisions[t]
            BY <2>3, <4>2 DEF Ahead, In
      <4>3. CASE t \in fresh /\ todo'[t] = 0
            BY <2>3, <4>3 DEF Counts
      <4> QED
          BY <2>2, <4>1, <4>2, <4>3
    <3> QED
        BY <3>1 DEF Ahead
  <2> QED
      BY <2>1, <2>2, <2>3, <2>4 DEF Counts
<1>8. ASSUME NEW t \in Task, ReadForHold(t) PROVE Counts'
  <2>1. run'.pc = "storing" /\ run'.board = board
        /\ UNCHANGED <<board, todo, fresh, ack, revised, split>>
        BY <1>1, <1>8, ReadForHoldRun DEF ReadForHold
  <2> QED
      BY <2>1 DEF CountsInv, Counts
<1>9. CASE SaveHold
  <2>1. run'.pc = "idle" /\ run.pc = "storing" /\ UNCHANGED <<ack, fresh>>
        BY <1>9 DEF SaveHold, IdleAt
  <2>2. ~split /\ \A r \in Request : ack[r].pc # "saving"
        BY <1>9, HoldAlone
  <2>3. Counts
        BY <2>2 DEF CountsInv
  <2> DEFINE k == run.task
             n == Stored(k)
  <2>4. /\ k \in Task /\ todo[k] \in Nat
        /\ board'.holds = [run.board.holds EXCEPT ![k] = n]
        /\ todo' = [todo EXCEPT ![k] = None]
        /\ revised' = [revised EXCEPT ![k] = IF todo[k] > 0 THEN revised[k] + 1 ELSE revised[k]]
        BY <1>1, <1>9, SaveHoldBoard
  <2>5. n = HoldNumber(run.board.holds, todo, k)
        BY DEF Stored, Revisions, HoldNumber
  <2> HIDE DEF k, n
  <2>6. todo[k] # None /\ k \notin fresh
        BY <1>1, <1>2, <2>4 DEF Placed
  <2>7. /\ Counted(run.board.holds, revised) /\ Ahead(todo, revised)
        /\ \A t \in Task : revised[t] <= MaxRevisions
        /\ \A t \in fresh : revised[t] = 0
        BY <2>1, <2>3 DEF Counts
  <2> DEFINE h == run.board.holds
  <2>a. h \in Numbered /\ Counted(h, revised)
        BY <1>1, <2>7
  <2>b. /\ board'.holds = [h EXCEPT ![k] = HoldNumber(h, todo, k)]
        /\ todo' = [todo EXCEPT ![k] = None] /\ revised' = RevisedOnce(revised, todo, k)
        BY <2>4, <2>5 DEF RevisedOnce
  <2> HIDE DEF h
  <2>c. /\ k \in Task /\ todo[k] # None /\ todo \in Numbered /\ revised \in [Task -> Nat]
        /\ Ahead(todo, revised) /\ (\A t \in Task : revised[t] <= MaxRevisions)
        BY <1>1, <2>4, <2>6, <2>7
  <2>d. /\ Counted([h EXCEPT ![k] = HoldNumber(h, todo, k)], RevisedOnce(revised, todo, k))
        /\ Ahead([todo EXCEPT ![k] = None], RevisedOnce(revised, todo, k))
        /\ \A t \in Task : /\ RevisedOnce(revised, todo, k)[t] <= MaxRevisions
                           /\ t # k => RevisedOnce(revised, todo, k)[t] = revised[t]
        BY <1>2, <2>a, <2>c, StoredCounted
  <2>8. /\ Counted(board'.holds, revised') /\ Ahead(todo', revised')
        /\ \A t \in Task : revised'[t] <= MaxRevisions /\ (t # k => revised'[t] = revised[t])
        BY <2>b, <2>d
  <2>9. \A t \in fresh' : revised'[t] = 0
        BY <1>1, <2>1, <2>6, <2>7, <2>8
  <2> QED
      BY <2>1, <2>2, <2>8, <2>9 DEF Counts
<1>10. ASSUME NEW r \in Request, ReadForAck(r) PROVE Counts'
  <2>1. ack'[r].board.holds = board.holds /\ (\A s \in Request \ {r} : ack'[s] = ack[s])
        BY <1>1, <1>10, ReadForAckCopy
  <2>2. UNCHANGED <<board, run, todo, fresh, revised, split>>
        BY <1>10 DEF ReadForAck, SavingFrom
  <2> QED
      BY <2>1, <2>2 DEF CountsInv, Counts
<1>11. ASSUME NEW r \in Request, SaveAck(r) PROVE Counts'
  <2>1. /\ ack' = [ack EXCEPT ![r] = NoAck] /\ UNCHANGED <<run, todo, fresh, revised>>
        /\ board' = ack[r].board /\ ack[r].pc = "saving"
        BY <1>11 DEF SaveAck
  <2>2. \A s \in Request : (s # r => ack'[s] = ack[s]) /\ ack'[r].pc = "idle"
        BY <2>1, AckCleared
  <2>3. ~split
        BY <1>11, AckAlone
  <2> QED
      BY <2>1, <2>2, <2>3 DEF CountsInv, Counts
<1> QED
    BY <1>3, <1>4, <1>5, <1>6, <1>7, <1>8, <1>9, <1>10, <1>11, QuietSteps

\* A task is revised at most MAX_REVISIONS_PER_TASK times, whatever copies of its
\* hold are written back, unless the locks of two processes are held at once.
THEOREM RevisedBoundedHolds == Spec => []RevisedBounded
<1>1. Init => BoardInv /\ CountsInv
  <2>1. ASSUME Init PROVE CountsInv
    <3>1. /\ run.pc = "idle" /\ \A r \in Request : ack[r].pc = "idle"
          /\ revised = [t \in Task |-> 0] /\ todo = NoTasks /\ fresh = Task
          /\ board.holds = NoTasks
          BY <2>1 DEF Init, IdleAt, NoAck, EmptyBoard
    <3>2. Counted(board.holds, revised) /\ Ahead(todo, revised)
          BY <3>1 DEF Counted, Ahead, NoTasks
    <3>3. \A t \in Task : revised[t] = 0 /\ revised[t] <= MaxRevisions
          BY <3>1, BoardAssumption DEF BoardAssumption
    <3> QED
        BY <3>1, <3>2, <3>3 DEF CountsInv, Counts
  <2> QED
      BY <2>1, BoardInvInit, BoardAssumption
<1>2. BoardInv /\ CountsInv /\ [Next]_vars => (BoardInv /\ CountsInv)'
  <2>1. BoardInv => TypeInv /\ Mutex
        BY DEF BoardInv
  <2> QED
      BY <2>1, BoardInvStep, CountsStep, BoardAssumption
<1>3. CountsInv => RevisedBounded
      BY DEF CountsInv, Counts, RevisedBounded
<1> QED
    BY <1>1, <1>2, <1>3, PTL DEF Spec
-----------------------------------------------------------------------------
(* A round: what is chosen, what may run and what runs                      *)

\* Induction, as a fact about sets of naturals.
LEMMA SetInduction ==
  ASSUME NEW S, 0 \in S, \A n \in Nat : n \in S => n + 1 \in S
  PROVE  Nat \subseteq S
<1> DEFINE R == OpToRel(<, Nat)
           T == Nat \ S
<1> SUFFICES ASSUME T # {} PROVE FALSE
    OBVIOUS
<1>1. IsWellFoundedOn(R, Nat)
      BY NatLessThanWellFounded
<1> HIDE DEF R
<1>2. PICK x \in T : \A y \in T : ~ (<<y, x>> \in R)
      BY <1>1, WFMin
<1>3. x \in Nat /\ x - 1 \in Nat /\ x - 1 \in T
      OBVIOUS
<1>4. <<x - 1, x>> \in R
      BY <1>3 DEF R, OpToRel
<1> QED
    BY <1>2, <1>3, <1>4

\* What is left of the tasks is some of them.
LEMMA TrimmedFrom ==
  ASSUME NEW S, NEW tasks \in Seq(S), NEW w
  PROVE  Trimmed(w, tasks) \in Seq(S)
<1> DEFINE n == Len(tasks)
           drop == Dropped(w, tasks)
           After(i, before) == IF tasks[i].capability = drop THEN before
                              ELSE Append(before, tasks[i])
           F(g, k) == [i \in 0..k |-> IF i = 0 THEN <<>> ELSE After(i, g[i - 1])]
           A == {k \in Nat : k <= n => \E g : g = F(g, k)}
<1>1. n \in Nat /\ \A i \in 1..n : tasks[i] \in S
      OBVIOUS
<1>0. \A b \in Seq(S) : \A i \in 1..n : After(i, b) \in Seq(S)
      BY <1>1
<1> HIDE DEF After, n
<1>2. 0 \in A
  <2> DEFINE g == [i \in 0..0 |-> <<>>]
  <2>1. g = F(g, 0)
        OBVIOUS
  <2> HIDE DEF g
  <2> QED
      BY <2>1
<1>3. ASSUME NEW k \in Nat, k \in A
      PROVE  k + 1 \in A
  <2> SUFFICES ASSUME k + 1 <= n PROVE \E g : g = F(g, k + 1)
      OBVIOUS
  <2>1. PICK h : h = F(h, k)
        BY <1>1, <1>3
  <2> DEFINE g == [i \in 0..k + 1 |-> IF i = 0 THEN <<>> ELSE After(i, h[i - 1])]
  <2>2. \A i \in 0..k : g[i] = h[i]
    <3>1. \A i \in 0..k : h[i] = IF i = 0 THEN <<>> ELSE After(i, h[i - 1])
          BY <2>1
    <3>2. \A i \in 0..k : i \in 0..k + 1
          OBVIOUS
    <3> QED
        BY <3>1, <3>2
  <2>3. \A i \in 0..k + 1 : i # 0 => i - 1 \in 0..k
        OBVIOUS
  <2>4. \A i \in 0..k + 1 : i # 0 => After(i, h[i - 1]) = After(i, g[i - 1])
        BY <2>2, <2>3
  <2>5. g = F(g, k + 1)
        BY <2>4
  <2> HIDE DEF g
  <2> QED
      BY <2>5
<1>4. \E g : g = F(g, n)
  <2>1. n \in A
    <3> HIDE DEF A
    <3> QED
        BY <1>1, <1>2, <1>3, SetInduction
  <2> QED
      BY <2>1
<1> DEFINE p == CHOOSE g : g = F(g, n)
<1>5. p = F(p, n)
      BY <1>4
<1>6. Trimmed(w, tasks) = p[n]
      BY DEF Trimmed, After, n
<1> HIDE DEF p
<1>7. p[0] = <<>> /\ \A i \in 1..n : p[i] = After(i, p[i - 1])
  <2>1. \A i \in 0..n : p[i] = IF i = 0 THEN <<>> ELSE After(i, p[i - 1])
        BY <1>5
  <2>2. 0 \in 0..n /\ \A i \in 1..n : i \in 0..n /\ i # 0
        BY <1>1
  <2> QED
      BY <2>1, <2>2
<1> DEFINE B == {k \in Nat : k <= n => p[k] \in Seq(S)}
<1>8. 0 \in B
  <2>1. <<>> \in Seq(S)
        OBVIOUS
  <2> QED
      BY <1>7, <2>1
<1>9. ASSUME NEW k \in Nat, k \in B
      PROVE  k + 1 \in B
  <2>1. ASSUME k + 1 <= n PROVE p[k + 1] \in Seq(S)
    <3>1. k + 1 \in 1..n /\ p[k] \in Seq(S) /\ (k + 1) - 1 = k
          BY <1>1, <1>9, <2>1
    <3>2. p[k + 1] = After(k + 1, p[k])
          BY <1>7, <3>1
    <3> QED
        BY <1>0, <3>1, <3>2
  <2> QED
      BY <2>1
<1>10. n \in B
  <2> HIDE DEF B
  <2> QED
      BY <1>1, <1>8, <1>9, SetInduction
<1> QED
    BY <1>1, <1>6, <1>10

\* What the guardrails let through strays from the request only with a word to
\* the learner.
LEMMA GuardedAgreed ==
  ASSUME NEW S, NEW w, NEW plan0, plan0.tasks \in Seq(S), NEW id \in Guarded(w, plan0)
  PROVE  \E i \in 1..Len(plan0.tasks) :
           /\ plan0.tasks[i].id = id
           /\ Deviates(w, plan0.tasks[i].capability, plan0.tasks[i].point) => plan0.negotiation
<1> DEFINE tasks == plan0.tasks
           n == IF Len(tasks) > MaxTasksPerRound THEN MaxTasksPerRound ELSE Len(tasks)
           After(i, b) == LET t == tasks[i]
              known == t.capability \in Able
              talk == known /\ t.capability \in Conversational
              passes == /\ known
                        /\ ~(talk /\ b.talks > 0)
                        /\ t.capability \in Irreversible => t.capability \in w.confirmed
                        /\ Deviates(w, t.capability, t.point) => plan0.negotiation
                        /\ t.heavy => b.heavy < w.heavyLeft
          IN [ids |-> IF passes THEN b.ids \cup {t.id} ELSE b.ids,
              talks |-> b.talks + (IF talk THEN 1 ELSE 0),
              heavy |-> b.heavy + (IF passes /\ t.heavy THEN 1 ELSE 0)]
           None0 == [ids |-> {}, talks |-> 0, heavy |-> 0]
           F(g, k) == [i \in 0..k |-> IF i = 0 THEN None0 ELSE After(i, g[i - 1])]
           A == {k \in Nat : k <= n => \E g : g = F(g, k)}
           Agreed(i) == Deviates(w, tasks[i].capability, tasks[i].point) => plan0.negotiation
<1>1. n \in Nat /\ n <= Len(tasks)
      BY DEF MaxTasksPerRound
<1> HIDE DEF n
<1>2. 0 \in A
  <2> DEFINE g == [i \in 0..0 |-> None0]
  <2>1. g = F(g, 0)
        OBVIOUS
  <2> HIDE DEF g
  <2> QED
      BY <2>1
<1>0. \A i, b : After(i, b).ids \subseteq b.ids \cup (IF Agreed(i) THEN {tasks[i].id} ELSE {})
      OBVIOUS
<1> HIDE DEF After
<1>3. ASSUME NEW k \in Nat, k \in A
      PROVE  k + 1 \in A
  <2> SUFFICES ASSUME k + 1 <= n PROVE \E g : g = F(g, k + 1)
      OBVIOUS
  <2>1. PICK h : h = F(h, k)
        BY <1>1, <1>3
  <2> DEFINE g == [i \in 0..k + 1 |-> IF i = 0 THEN None0 ELSE After(i, h[i - 1])]
  <2>2. \A i \in 0..k : g[i] = h[i]
    <3>1. \A i \in 0..k : h[i] = IF i = 0 THEN None0 ELSE After(i, h[i - 1])
          BY <2>1
    <3>2. \A i \in 0..k : i \in 0..k + 1
          OBVIOUS
    <3> QED
        BY <3>1, <3>2
  <2>3. \A i \in 0..k + 1 : i # 0 => i - 1 \in 0..k
        OBVIOUS
  <2>4. \A i \in 0..k + 1 : i # 0 => After(i, h[i - 1]) = After(i, g[i - 1])
        BY <2>2, <2>3
  <2>5. g = F(g, k + 1)
        BY <2>4
  <2> HIDE DEF g
  <2> QED
      BY <2>5
<1>4. \E g : g = F(g, n)
  <2>1. n \in A
    <3> HIDE DEF A
    <3> QED
        BY <1>1, <1>2, <1>3, SetInduction
  <2> QED
      BY <1>1, <2>1
<1> DEFINE p == CHOOSE g : g = F(g, n)
<1>5. p = F(p, n)
      BY <1>4
<1>6. Guarded(w, plan0) = p[n].ids
      BY DEF Guarded, After, n
<1> HIDE DEF p
<1>7. p[0] = None0 /\ \A i \in 1..n : p[i] = After(i, p[i - 1])
  <2>1. \A i \in 0..n : p[i] = IF i = 0 THEN None0 ELSE After(i, p[i - 1])
        BY <1>5
  <2>2. 0 \in 0..n /\ \A i \in 1..n : i \in 0..n /\ i # 0
        BY <1>1
  <2> QED
      BY <2>1, <2>2
<1> DEFINE B == {k \in Nat : k <= n =>
                   \A x \in p[k].ids : \E i \in 1..Len(tasks) : tasks[i].id = x /\ Agreed(i)}
<1>8. 0 \in B
      BY <1>7
<1> HIDE DEF Agreed
<1>9. ASSUME NEW k \in Nat, k \in B
      PROVE  k + 1 \in B
  <2> SUFFICES ASSUME k + 1 <= n, NEW x \in p[k + 1].ids
               PROVE  \E i \in 1..Len(tasks) : tasks[i].id = x /\ Agreed(i)
      OBVIOUS
  <2>1. x \in p[k].ids \/ (Agreed(k + 1) /\ x = tasks[k + 1].id)
    <3>1. p[k + 1] = After(k + 1, p[k])
          BY <1>1, <1>7
    <3> QED
        BY <3>1, <1>0
  <2>2. k + 1 \in 1..Len(tasks) /\ k <= n
        BY <1>1
  <2> QED
      BY <1>9, <2>1, <2>2
<1>10. n \in B
  <2> HIDE DEF B
  <2> QED
      BY <1>1, <1>8, <1>9, SetInduction
<1> QED
    BY <1>1, <1>6, <1>10 DEF Agreed

\* Artifacts with keys of their own can be put in the order of their keys.
LEMMA Ranked ==
  ASSUME NEW S, IsFiniteSet(S),
         \A h, k \in S : h.key \in Nat /\ (h.key = k.key => h = k),
         NEW i \in 1..Cardinality(S)
  PROVE  \E h \in S : Cardinality({g \in S : g.key < h.key}) = i - 1
<1> DEFINE Under(h) == {g \in S : g.key < h.key}
           T == 0..Cardinality(S) - 1
           f == [h \in S |-> Cardinality(Under(h))]
<1>1. Cardinality(S) \in Nat
      BY FS_CardinalityType
<1>2. ASSUME NEW h \in S
      PROVE  IsFiniteSet(Under(h)) /\ Cardinality(Under(h)) \in T
  <2>1. Under(h) \subseteq S /\ h \in S \ Under(h)
        OBVIOUS
  <2> HIDE DEF Under
  <2>2. /\ IsFiniteSet(Under(h)) /\ Cardinality(Under(h)) <= Cardinality(S)
        /\ Cardinality(Under(h)) = Cardinality(S) => Under(h) = S
        BY <2>1, FS_Subset
  <2>3. Cardinality(Under(h)) \in Nat
        BY <2>2, FS_CardinalityType
  <2> QED
      BY <1>1, <2>1, <2>2, <2>3
<1>3. ASSUME NEW h \in S, NEW k \in S, h.key < k.key
      PROVE  Cardinality(Under(h)) < Cardinality(Under(k))
  <2>1. Under(h) \subseteq Under(k) /\ h \in Under(k) \ Under(h)
        BY <1>3
  <2> HIDE DEF Under
  <2>2. IsFiniteSet(Under(k)) /\ Cardinality(Under(k)) \in Nat /\ Cardinality(Under(h)) \in Nat
        BY <1>1, <1>2
  <2>3. /\ Cardinality(Under(h)) <= Cardinality(Under(k))
        /\ Cardinality(Under(h)) = Cardinality(Under(k)) => Under(h) = Under(k)
        BY <2>1, <2>2, FS_Subset
  <2> QED
      BY <2>1, <2>2, <2>3
<1>4. f \in Injection(S, T)
  <2>1. f \in [S -> T]
        BY <1>2
  <2>2. ASSUME NEW h \in S, NEW k \in S, f[h] = f[k] PROVE h = k
    <3>1. f[h] = Cardinality(Under(h)) /\ f[k] = Cardinality(Under(k))
          OBVIOUS
    <3>2. f[h] \in T /\ f[k] \in T
          BY <2>1
    <3> HIDE DEF f, Under
    <3>4. h.key \in Nat /\ k.key \in Nat /\ Cardinality(Under(h)) \in Nat
          BY <1>1, <3>1, <3>2
    <3>3. ~(h.key < k.key) /\ ~(k.key < h.key)
      <4>1. h.key < k.key => Cardinality(Under(h)) < Cardinality(Under(k))
            BY <1>3
      <4>2. k.key < h.key => Cardinality(Under(k)) < Cardinality(Under(h))
            BY <1>3
      <4>3. Cardinality(Under(h)) = Cardinality(Under(k))
            BY <2>2, <3>1
      <4> QED
          BY <3>4, <4>1, <4>2, <4>3
    <3> QED
        BY <3>3, <3>4
  <2> HIDE DEF f
  <2> QED
      BY <2>1, <2>2 DEF Injection, IsInjective
<1>5. IsFiniteSet(T) /\ Cardinality(T) = Cardinality(S)
  <2>1. \A n \in Nat : IsFiniteSet(0..n - 1) /\ Cardinality(0..n - 1) = n
        BY FS_Interval
  <2> QED
      BY <1>1, <2>1
<1>6. f \in Surjection(S, T)
  <2> HIDE DEF f, T
  <2> QED
      BY <1>4, <1>5, FS_Injection
<1>7. i - 1 \in T
      BY <1>1
<1>8. \E h \in S : f[h] = i - 1
  <2> HIDE DEF f, T
  <2> QED
      BY <1>6, <1>7 DEF Surjection
<1> QED
    BY <1>8

\* A set of naturals has a least element.
LEMMA Least ==
  ASSUME NEW S \in SUBSET Nat, S # {}
  PROVE  \E m \in S : \A n \in S : m <= n
<1> DEFINE R == OpToRel(<, Nat)
<1>1. IsWellFoundedOn(R, Nat)
      BY NatLessThanWellFounded
<1> HIDE DEF R
<1>2. PICK m \in S : \A n \in S : ~ (<<n, m>> \in R)
      BY <1>1, WFMin
<1>3. \A n \in S : ~ (n < m)
      BY <1>2 DEF R, OpToRel
<1> QED
    BY <1>2, <1>3

\* A task that some skill serves is resolved to one of those.
LEMMA ResolvedServes ==
  ASSUME NEW t, Serves(t) # {}
  PROVE  Resolved(t) \in Serves(t)
<1>1. \A i \in Serves(t) : i \in Nat /\ Registry[i].weight \in Nat
  <2> DEFINE Rows == [can : SUBSET STRING, provider : STRING, weight : {1, 2, 4}, heavy : BOOLEAN]
  <2>1. Registry \in Seq(Rows) /\ Serves(t) \subseteq DOMAIN Registry
        BY PlanningAssumption DEF Serves
  <2>2. \A row \in Rows : row.weight \in Nat
        OBVIOUS
  <2>3. \A i \in DOMAIN Registry : i \in Nat /\ Registry[i] \in Rows
    <3> HIDE DEF Rows
    <3> QED
        BY <2>1
  <2> HIDE DEF Rows
  <2> QED
      BY <2>1, <2>2, <2>3
<1> DEFINE Weights == {Registry[i].weight : i \in Serves(t)}
<1>2. Weights \in SUBSET Nat /\ Weights # {}
      BY <1>1
<1>3. PICK w \in Weights : \A v \in Weights : w <= v
  <2> HIDE DEF Weights
  <2> QED
      BY <1>2, Least
<1> DEFINE Cheap == {i \in Serves(t) : Registry[i].weight = w}
<1>4. Cheap \in SUBSET Nat /\ Cheap # {}
      BY <1>1, <1>3
<1>5. PICK i \in Cheap : \A j \in Cheap : i <= j
  <2> HIDE DEF Cheap
  <2> QED
      BY <1>4, Least
<1>6. \A j \in Serves(t) : w <= Registry[j].weight
      BY <1>3
<1>7. i \in Serves(t) /\ \A j \in Serves(t) \ {i} :
        \/ Registry[i].weight < Registry[j].weight
        \/ Registry[i].weight = Registry[j].weight /\ i < j
  <2> SUFFICES ASSUME NEW j \in Serves(t) \ {i}
               PROVE  \/ Registry[i].weight < Registry[j].weight
                      \/ Registry[i].weight = Registry[j].weight /\ i < j
      BY <1>5
  <2>1. /\ i \in Nat /\ j \in Nat /\ Registry[i].weight = w /\ w \in Nat
        /\ Registry[j].weight \in Nat /\ w <= Registry[j].weight
        BY <1>1, <1>5, <1>6
  <2>2. Registry[j].weight = w => i <= j
        BY <1>5
  <2> QED
      BY <2>1, <2>2
<1> QED
    BY <1>7, Zenon DEF Resolved

\* A skill that ran a task is one that serves it.
LEMMA OutcomeServes ==
  ASSUME NEW t, NEW o \in Outcomes(t), o.skill # 0
  PROVE  o.skill \in Serves(t)
<1>1. CASE ~Claimable(t) \/ Serves(t) = {}
      BY <1>1 DEF Outcomes
<1>2. CASE Claimable(t) /\ Serves(t) # {}
  <2>1. o.skill = Resolved(t)
        BY <1>2 DEF Outcomes
  <2> QED
      BY <1>2, <2>1, ResolvedServes
<1> QED
    BY <1>1, <1>2

\* No two tasks of a plan have a name in common.
Distinct(tasks) ==
  \A i, j \in DOMAIN tasks : tasks[i].id = tasks[j].id => tasks[i] = tasks[j]

Listed(tasks) == \E S : tasks \in Seq(S)

\* What may run keeps to the request, or the round waits for the learner.
Agreed ==
  \A i \in DOMAIN plan.tasks :
    plan.tasks[i].id \in allowed =>
      ~Deviates(world, plan.tasks[i].capability, plan.tasks[i].point)

PlanInv ==
  /\ world \in Worlds
  /\ Listed(plan.tasks) /\ Distinct(plan.tasks)
  /\ phase \in {"deciding", "planned"} => DOMAIN runs = {}
  /\ phase = "executing" => Agreed
  /\ NothingUnasked /\ BoundToChoice

LEMMA PlanListed ==
  ASSUME NEW w \in Worlds, NEW d \in Answers(w)
  PROVE  Listed(PlanOf(w, d).tasks) /\ Distinct(PlanOf(w, d).tasks)
<1> DEFINE Asked(needs) ==
             {[i \in DOMAIN needs |-> TaskOf(i, picks[i], points[i], needs[i], done)] :
                picks \in [DOMAIN needs -> offered], points \in [DOMAIN needs -> Point],
                done \in Conditions}
<1>0. PICK needs \in Shapes : d.tasks \in Asked(needs)
  <2>1. d.tasks \in UNION {Asked(needs) : needs \in Shapes}
        BY DEF Answers
  <2> HIDE DEF Asked
  <2> QED
      BY <2>1
<1>1. PICK picks \in [DOMAIN needs -> offered], points \in [DOMAIN needs -> Point],
           done \in Conditions :
        d.tasks = [i \in DOMAIN needs |-> TaskOf(i, picks[i], points[i], needs[i], done)]
  <2> DEFINE Fun(picks, points, done) ==
               [i \in DOMAIN needs |-> TaskOf(i, picks[i], points[i], needs[i], done)]
  <2>1. d.tasks \in {Fun(picks, points, done) : picks \in [DOMAIN needs -> offered],
                      points \in [DOMAIN needs -> Point], done \in Conditions}
        BY <1>0 DEF Asked
  <2>2. \E picks \in [DOMAIN needs -> offered], points \in [DOMAIN needs -> Point],
           done \in Conditions : d.tasks = Fun(picks, points, done)
    <3> HIDE DEF Fun
    <3> QED
        BY <2>1, SMT
  <2> QED
      BY <2>2, Zenon
<1>2. d.revises \in SUBSET w.holds
      BY DEF Answers
<1> DEFINE T == {d.tasks[i] : i \in DOMAIN needs}
           R == {RevisionOf(h) : h \in d.revises}
           n == Cardinality(d.revises)
           own == Trimmed(w, d.tasks)
<1>3. needs \in Seq(SUBSET Nat)
      BY PlanningAssumption
<1>4. d.tasks \in Seq(T)
      BY <1>1, <1>3
<1>5. own \in Seq(T)
  <2> HIDE DEF T
  <2> QED
      BY <1>4, TrimmedFrom
<1>6. IsFiniteSet(d.revises) /\ n \in Nat
  <2>1. IsFiniteSet(w.holds)
        BY PlanningAssumption
  <2> QED
      BY <1>2, <2>1, FS_Subset, FS_CardinalityType
<1>7. RevisionTasks(d) \in Seq(R)
  <2>1. ASSUME NEW i \in 1..n
        PROVE  (CHOOSE h \in d.revises :
                  Cardinality({g \in d.revises : g.key < h.key}) = i - 1) \in d.revises
    <3>1. \A h, k \in d.revises : h.key \in Nat /\ (h.key = k.key => h = k)
          BY <1>2, PlanningAssumption
    <3>2. \E h \in d.revises : Cardinality({g \in d.revises : g.key < h.key}) = i - 1
          BY <1>6, <3>1, Ranked
    <3> QED
        BY <3>2, Zenon
  <2>2. RevisionTasks(d) = [i \in 1..n |-> RevisionTasks(d)[i]]
        BY DEF RevisionTasks
  <2>3. \A i \in 1..n : RevisionTasks(d)[i] \in R
        BY <2>1 DEF RevisionTasks
  <2> HIDE DEF R, n
  <2> QED
      BY <1>6, <2>2, <2>3
<1>8. PlanOf(w, d).tasks = RevisionTasks(d) \o own
      BY DEF PlanOf
<1>9. PlanOf(w, d).tasks \in Seq(T \cup R)
  <2> HIDE DEF T, R, own
  <2>1. own \in Seq(T \cup R) /\ RevisionTasks(d) \in Seq(T \cup R)
        BY <1>5, <1>7
  <2> QED
      BY <1>8, <2>1
<1>10. \A t \in T : \E i \in DOMAIN needs : t = d.tasks[i] /\ t.id = i
       BY <1>1 DEF TaskOf
<1>11. \A t \in R : \E h \in d.revises : t = RevisionOf(h) /\ t.id = h.key
       BY DEF RevisionOf
<1>12. \A h, k \in d.revises : h.key = k.key => h = k
       BY <1>2, PlanningAssumption
<1>13. \A h \in d.revises : h.key \notin DOMAIN needs
       BY <1>2, PlanningAssumption
<1>14. \A t, u \in T \cup R : t.id = u.id => t = u
  <2> HIDE DEF T, R
  <2>1. \A t, u \in T : t.id = u.id => t = u
        BY <1>10
  <2>2. \A t, u \in R : t.id = u.id => t = u
        BY <1>11, <1>12
  <2>3. \A t \in T, u \in R : t.id # u.id
        BY <1>10, <1>11, <1>13
  <2> QED
      BY <2>1, <2>2, <2>3
<1>15. Distinct(PlanOf(w, d).tasks)
  <2> HIDE DEF T, R, own
  <2>1. \A i \in DOMAIN PlanOf(w, d).tasks : PlanOf(w, d).tasks[i] \in T \cup R
        BY <1>9
  <2> QED
      BY <1>14, <2>1 DEF Distinct
<1> QED
    BY <1>9, <1>15 DEF Listed

\* The plan with what may run of it is the same, and nothing has run.
LEMMA PlanSame ==
  ASSUME PlanInv, UNCHANGED <<world, plan, runs>>,
         phase' \in {"deciding", "planned"} => phase \in {"deciding", "planned"},
         phase' = "executing" => Agreed'
  PROVE  PlanInv'
<1>1. NothingUnasked' /\ BoundToChoice'
      BY DEF PlanInv, NothingUnasked, BoundToChoice, Planned
<1> QED
    BY <1>1 DEF PlanInv

LEMMA PlanStep ==
  ASSUME PlanInv, PlanNext
  PROVE  PlanInv'
<1>1. CASE NoPlan
      BY <1>1, PlanSame DEF NoPlan
<1>2. ASSUME NEW d \in Answers(world), DecidePlan(d) PROVE PlanInv'
  <2>1. CASE UNCHANGED plan
        BY <1>2, <2>1, PlanSame DEF DecidePlan, PlanInv
  <2>2. CASE plan' = PlanOf(world, d) /\ phase' = "planned"
    <3>1. Listed(plan'.tasks) /\ Distinct(plan'.tasks)
          BY <2>2, PlanListed DEF PlanInv
    <3>2. DOMAIN runs' = {}
          BY <1>2 DEF DecidePlan, PlanInv
    <3>3. NothingUnasked' /\ BoundToChoice'
          BY <3>2 DEF NothingUnasked, BoundToChoice
    <3> QED
        BY <1>2, <2>2, <3>1, <3>2, <3>3 DEF PlanInv, DecidePlan
  <2> QED
      BY <1>2, <2>1, <2>2 DEF DecidePlan
<1>3. CASE Guard
  <2>1. ASSUME phase' = "executing" PROVE Agreed'
    <3>1. /\ allowed' = Guarded(world, plan) /\ ~plan.negotiation
          /\ UNCHANGED <<world, plan>>
          BY <1>3, <2>1 DEF Guard
    <3>2. ASSUME NEW i \in DOMAIN plan.tasks, plan.tasks[i].id \in Guarded(world, plan)
          PROVE  ~Deviates(world, plan.tasks[i].capability, plan.tasks[i].point)
      <4>1. PICK S : plan.tasks \in Seq(S)
            BY DEF PlanInv, Listed
      <4>2. PICK k \in 1..Len(plan.tasks) :
              /\ plan.tasks[k].id = plan.tasks[i].id
              /\ Deviates(world, plan.tasks[k].capability, plan.tasks[k].point) => plan.negotiation
            BY <3>2, <4>1, GuardedAgreed
      <4>3. plan.tasks[k] = plan.tasks[i]
            BY <4>1, <4>2 DEF PlanInv, Distinct
      <4> QED
          BY <3>1, <4>2, <4>3
    <3> QED
        BY <3>1, <3>2 DEF Agreed
  <2> QED
      BY <1>3, <2>1, PlanSame DEF Guard
<1>4. CASE RunTier
  <2> DEFINE ready == {t \in Planned : t.id \in (Tier(tiers + 1) \ Tier(tiers)) \cap allowed}
  <2>1. PICK ends \in [ready -> UNION {Outcomes(t) : t \in ready}] :
          /\ \A t \in ready : ends[t] \in Outcomes(t)
          /\ runs' = [id \in DOMAIN runs \cup {t.id : t \in ready} |->
                          IF id \in DOMAIN runs THEN runs[id]
                                                ELSE ends[CHOOSE t \in ready : t.id = id]]
        BY <1>4 DEF RunTier
  <2>2. /\ phase = "executing" /\ phase' = "executing" /\ Agreed
        /\ UNCHANGED <<world, plan, allowed>>
        BY <1>4 DEF RunTier, PlanInv
  <2>3. \A t \in ready : t \in Planned /\ t.id \in allowed
        OBVIOUS
  <2>4. \A t, u \in Planned : t.id = u.id => t = u
        BY DEF PlanInv, Distinct, Planned
  <2>5. \A t \in Planned : t.id \in allowed => ~Deviates(world, t.capability, t.point)
        BY <2>2 DEF Agreed, Planned
  <2> HIDE DEF ready
  <2>6. ASSUME NEW t \in Planned, t.id \in DOMAIN runs', t.id \notin DOMAIN runs
        PROVE  t \in ready /\ runs'[t.id] = ends[t]
    <3>1. PICK u \in ready : u.id = t.id
          BY <2>1, <2>6
    <3>2. \A v \in ready : v.id = t.id => v = t
          BY <2>3, <2>4
    <3>3. t \in ready
          BY <3>1, <3>2
    <3>4. (CHOOSE v \in ready : v.id = t.id) = t
          BY <3>2, <3>3
    <3> QED
        BY <2>1, <2>6, <3>3, <3>4
  <2>7. ASSUME NEW t \in Planned, t.id \in DOMAIN runs
        PROVE  runs'[t.id] = runs[t.id]
        BY <2>1, <2>7
  <2>8. Planned' = Planned
        BY <2>2 DEF Planned
  <2>9. NothingUnasked'
    <3> SUFFICES ASSUME NEW t \in Planned, t.id \in DOMAIN runs'
                 PROVE  ~Deviates(world, t.capability, t.point)
        BY <2>2, <2>8 DEF NothingUnasked, Deviates, Requested, Direct
    <3>1. CASE t.id \in DOMAIN runs
          BY <3>1 DEF PlanInv, NothingUnasked
    <3>2. CASE t.id \notin DOMAIN runs
          BY <2>3, <2>5, <2>6, <3>2
    <3> QED
        BY <3>1, <3>2
  <2>10. BoundToChoice'
    <3> SUFFICES ASSUME NEW t \in Planned, t.id \in DOMAIN runs', t.pick # <<>>,
                        runs'[t.id].skill # 0
                 PROVE  t.pick = <<runs'[t.id].skill, t.capability, t.point>>
        BY <2>8 DEF BoundToChoice
    <3>1. CASE t.id \in DOMAIN runs
          BY <2>7, <3>1 DEF PlanInv, BoundToChoice
    <3>2. CASE t.id \notin DOMAIN runs
      <4>1. runs'[t.id] \in Outcomes(t)
            BY <2>1, <2>6, <3>2
      <4>2. runs'[t.id].skill \in Serves(t)
            BY <4>1, OutcomeServes
      <4> QED
          BY <4>2 DEF Serves
    <3> QED
        BY <3>1, <3>2
  <2>11. Agreed'
        BY <2>2 DEF Agreed
  <2> QED
      BY <2>2, <2>9, <2>10, <2>11 DEF PlanInv
<1>5. CASE EndRound
      BY <1>5, PlanSame DEF EndRound
<1> QED
    BY <1>1, <1>2, <1>3, <1>4, <1>5 DEF PlanNext

LEMMA PlanInvHolds == PlanSpec => []PlanInv
<1>1. PlanInit => PlanInv
  <2> SUFFICES ASSUME PlanInit PROVE PlanInv
      OBVIOUS
  <2>1. Listed(plan.tasks) /\ Distinct(plan.tasks) /\ DOMAIN runs = {}
    <3>1. plan.tasks = <<>> /\ <<>> \in Seq({}) /\ DOMAIN runs = {}
          BY DEF PlanInit
    <3> QED
        BY <3>1 DEF Listed, Distinct
  <2> QED
      BY <2>1 DEF PlanInit, PlanInv, NothingUnasked, BoundToChoice
<1>2. PlanInv /\ [PlanNext]_planning => PlanInv'
  <2> SUFFICES ASSUME PlanInv, [PlanNext]_planning PROVE PlanInv'
      OBVIOUS
  <2>1. CASE UNCHANGED planning
    <3>1. phase' = "executing" => Agreed'
          BY <2>1 DEF planning, PlanInv, Agreed
    <3> QED
        BY <2>1, <3>1, PlanSame DEF planning
  <2> QED
      BY <2>1, PlanStep
<1> QED
    BY <1>1, <1>2, PTL DEF PlanSpec

\* Nothing runs that the learner did not ask for, whatever the model answers: what strays
\* from the request is let through only with a sentence to the learner, and then the
\* round waits.
THEOREM NothingUnaskedHolds == PlanSpec => []NothingUnasked
<1>1. PlanInv => NothingUnasked
      BY DEF PlanInv
<1> QED
    BY <1>1, PlanInvHolds, PTL

\* What runs is what was chosen, for every registry of skills: a task is served by the
\* skill its candidate was bound to, at the point it was scored for.
THEOREM BoundToChoiceHolds == PlanSpec => []BoundToChoice
<1>1. PlanInv => BoundToChoice
      BY DEF PlanInv
<1> QED
    BY <1>1, PlanInvHolds, PTL

-----------------------------------------------------------------------------
(* Gaps first                                                               *)

\* What teaching is worth at most for a target with a gap.
Poor(c) == IF c = "teach.explain" THEN 3300 ELSE 3500

LEMMA TargetGain ==
  ASSUME NEW w, NEW s, Blocked(w, s), NEW c \in Teaching
  PROVE  Gain(w, s, c) \in 0..Poor(c)
<1> DEFINE nudge == IF s.aimed /\ c \in Requested(w) THEN 1500 ELSE 0
<1>1. nudge \in {0, 1500}
      OBVIOUS
<1>2. Blocked(w, s) = TRUE
      BY DEF Blocked
<1> HIDE DEF nudge
<1>3. CASE c = "content.lesson_intro"
  <2>1. Gain(w, s, c) = Clamp(nudge + (IF Has(w, s, "lesson-intro") THEN 500 ELSE 2000))
        BY <1>2, <1>3 DEF Gain, nudge
  <2> QED
      BY <1>1, <1>3, <2>1 DEF Clamp, Poor
<1>4. CASE c = "content.deck"
  <2>1. Gain(w, s, c) = Clamp(nudge + (IF Has(w, s, "lecture-deck") THEN 500 ELSE 1800))
        BY <1>2, <1>4 DEF Gain, nudge
  <2> QED
      BY <1>1, <1>4, <2>1 DEF Clamp, Poor
<1>5. CASE c = "content.visual"
  <2>1. Gain(w, s, c) = Clamp(IF Has(w, s, "visual") /\ nudge = 0 THEN 800 ELSE nudge + 1800)
        BY <1>2, <1>5 DEF Gain, nudge
  <2> QED
      BY <1>1, <1>5, <2>1 DEF Clamp, Poor
<1>6. CASE c = "teach.explain"
  <2>1. Gain(w, s, c) = Clamp(nudge + 1800)
        BY <1>2, <1>6 DEF Gain, nudge
  <2> QED
      BY <1>1, <1>6, <2>1 DEF Clamp, Poor
<1>7. CASE c = "teach.strategy"
  <2>1. Gain(w, s, c) = Clamp(nudge + 2000)
        BY <1>2, <1>7 DEF Gain, nudge
  <2> QED
      BY <1>1, <1>7, <2>1 DEF Clamp, Poor
<1>8. CASE c = "assess.generate"
  <2>1. Gain(w, s, c) = Clamp(nudge + (IF s.aimed /\ w.openQuiz THEN 500 ELSE 1500))
        BY <1>2, <1>8 DEF Gain, nudge
  <2> QED
      BY <1>1, <1>8, <2>1 DEF Clamp, Poor
<1> QED
    BY <1>3, <1>4, <1>5, <1>6, <1>7, <1>8 DEF Teaching

\* And at least for the gap itself.
LEMMA GapGain ==
  ASSUME NEW w, NEW s, ~s.aimed, s.view.mastery \in 0..Weak, s.view.difficulty \in Nat,
         NEW c \in Teaching
  PROVE  Gain(w, s, c) \in Nat /\ Gain(w, s, c) >= Poor(c) + 350
<1> DEFINE m == s.view.mastery
           e == s.view.difficulty
<1>1. m \in 0..45 /\ e \in Nat
      BY DEF Weak
<1>2. /\ Blocked(w, s) = FALSE /\ Questions(w, s) = FALSE
      /\ \A x : Has(w, s, x) = FALSE
      BY Zenon DEF Blocked, Questions, Has
<1>3. ~(s.aimed /\ c \in Requested(w)) /\ ~(s.aimed /\ w.openQuiz)
      OBVIOUS
<1> HIDE DEF m, e
<1>4. CASE c = "content.lesson_intro"
  <2>1. Gain(w, s, c) = Clamp(0 + (3500 + 45 * (100 - m)))
        BY <1>2, <1>3, <1>4 DEF Gain, m
  <2> QED
      BY <1>1, <1>4, <2>1 DEF Clamp, Poor
<1>5. CASE c = "content.deck"
  <2>1. Gain(w, s, c) = Clamp(0 + (3000 + 50 * (100 - m)))
        BY <1>2, <1>3, <1>5 DEF Gain, m
  <2> QED
      BY <1>1, <1>5, <2>1 DEF Clamp, Poor
<1>6. CASE c = "content.visual"
  <2>0. m <= Weak
        BY <1>1 DEF Weak
  <2>1. Gain(w, s, c) = Clamp(0 + (2000 + 35 * e + 2500))
        BY <1>2, <1>3, <1>6, <2>0 DEF Gain, m, e
  <2> QED
      BY <1>1, <1>6, <2>1 DEF Clamp, Poor
<1>7. CASE c = "teach.explain"
  <2>1. \/ Gain(w, s, c) = Clamp(0 + (6000 + 30 * (100 - m)))
        \/ Gain(w, s, c) = Clamp(0 + (2000 + 30 * (100 - m)))
        BY <1>2, <1>3, <1>7 DEF Gain, m
  <2> QED
      BY <1>1, <1>7, <2>1 DEF Clamp, Poor
<1>8. CASE c = "teach.strategy"
  <2>1. Gain(w, s, c) = Clamp(0 + (3000 + 30 * (100 - m)))
        BY <1>2, <1>3, <1>8 DEF Gain, m
  <2> QED
      BY <1>1, <1>8, <2>1 DEF Clamp, Poor
<1>9. CASE c = "assess.generate"
  <2>0. ~(m >= Strong)
        BY <1>1 DEF Strong
  <2>1. \/ Gain(w, s, c) = Clamp(0 + (5500 + 25 * (100 - m)))
        \/ Gain(w, s, c) = Clamp(0 + (3500 + 30 * (100 - m)))
        BY <1>2, <1>3, <1>9, <2>0 DEF Gain, m
  <2> QED
      BY <1>1, <1>9, <2>1 DEF Clamp, Poor
<1> QED
    BY <1>4, <1>5, <1>6, <1>7, <1>8, <1>9 DEF Teaching

\* A gain that is greater by 350 is a greater utility, whatever the skill costs.
LEMMA MoreUseful ==
  ASSUME NEW k \in {2, 4, 5, 7, 8, 11}, NEW g \in Nat, NEW h \in Nat, h >= g + 350
  PROVE  (4 * h + k) \div (2 * k) > (4 * g + k) \div (2 * k)
<1>1. CASE k = 2
      BY <1>1
<1>2. CASE k = 4
      BY <1>2
<1>3. CASE k = 5
      BY <1>3
<1>4. CASE k = 7
      BY <1>4
<1>5. CASE k = 8
      BY <1>5
<1>6. CASE k = 11
      BY <1>6
<1> QED
    BY <1>1, <1>2, <1>3, <1>4, <1>5, <1>6

LEMMA Costs ==
  ASSUME NEW i \in DOMAIN Registry, NEW c
  PROVE  CostOf(Registry[i], c) \in {2, 4, 5, 7, 8, 11}
<1> DEFINE Row == [can : SUBSET STRING, provider : STRING, weight : {1, 2, 4}, heavy : BOOLEAN]
<1>1. Registry[i].weight \in {1, 2, 4}
  <2>1. Registry \in Seq(Row)
        BY PlanningAssumption
  <2>2. Registry[i] \in Row
    <3> HIDE DEF Row
    <3> QED
        BY <2>1
  <2> QED
      BY <2>2
<1> QED
    BY <1>1 DEF CostOf

\* What a subject is.
LEMMA SubjectIs ==
  ASSUME NEW w, NEW s \in Subjects(w)
  PROVE  \/ s.aimed /\ s.view \in w.targets
         \/ ~s.aimed /\ s.view \in w.prerequisites /\ s.view.mastery <= Weak
<1>1. \/ \E v \in w.targets : s = [view |-> v, aimed |-> TRUE]
      \/ \E v \in w.prerequisites : v.mastery <= Weak /\ s = [view |-> v, aimed |-> FALSE]
      BY Zenon DEF Subjects
<1>2. \A v, b : [view |-> v, aimed |-> b].view = v /\ [view |-> v, aimed |-> b].aimed = b
      OBVIOUS
<1> QED
    BY <1>1, <1>2, Zenon

\* A skill that can teach a subject can teach a gap.
LEMMA PossibleThere ==
  ASSUME NEW w, NEW s, NEW gap, ~gap.aimed, NEW row, NEW c \in Teaching, Possible(w, s, row, c)
  PROVE  Possible(w, gap, row, c)
<1>1. \A x : ~Has(w, gap, x)
      BY Zenon DEF Has
<1>2. ~(gap.aimed /\ w.openQuiz)
      OBVIOUS
<1>3. /\ row.provider # "none"
      /\ c \in HeavyKinds \/ row.heavy => w.material
      /\ Direct(w) => c \in {"dialog.answer", "dialog.converse", "teach.explain"}
      BY Zenon DEF Possible
<1>4. c \notin {"assess.grade", "assess.interpret", "dialog.answer", "dialog.probe",
                "meta.report", "review.schedule", "meta.author_skill", "meta.evaluate",
                "dialog.negotiate"}
      BY DEF Teaching
<1>5. /\ c # "assess.grade" /\ c # "assess.interpret" /\ c # "dialog.answer"
      /\ c # "dialog.probe" /\ c # "meta.report" /\ c # "review.schedule"
      /\ c \notin {"meta.author_skill", "meta.evaluate", "dialog.negotiate"}
      BY <1>4
<1> QED
    BY <1>1, <1>2, <1>3, <1>5, Zenon DEF Possible

\* A candidate that was scored is of a subject for which it is possible.
LEMMA ScoredFrom ==
  ASSUME NEW w, NEW x \in Scored(w)
  PROVE  \E i \in DOMAIN Registry, s \in Subjects(w) : \E c \in Registry[i].can :
            Possible(w, s, Registry[i], c) /\ x = Candidate(w, s, i, c)
<1> DEFINE Of(i, s) == {Candidate(w, s, i, c) :
                          c \in {d \in Registry[i].can : Possible(w, s, Registry[i], d)}}
<1>1. x \in UNION {Of(i, s) : i \in DOMAIN Registry, s \in Subjects(w)}
      BY DEF Scored
<1>2. \E i \in DOMAIN Registry, s \in Subjects(w) : x \in Of(i, s)
  <2> HIDE DEF Of
  <2> QED
      BY <1>1
<1> QED
    BY <1>2

LEMMA ScoredHas ==
  ASSUME NEW w, NEW i \in DOMAIN Registry, NEW s \in Subjects(w), NEW c \in Registry[i].can,
         Possible(w, s, Registry[i], c)
  PROVE  Candidate(w, s, i, c) \in Scored(w)
<1> DEFINE Of(j, t) == {Candidate(w, t, j, d) :
                          d \in {e \in Registry[j].can : Possible(w, t, Registry[j], e)}}
<1>1. Candidate(w, s, i, c) \in Of(i, s)
      OBVIOUS
<1>2. Candidate(w, s, i, c) \in UNION {Of(j, t) : j \in DOMAIN Registry, t \in Subjects(w)}
  <2> HIDE DEF Of
  <2> QED
      BY <1>1
<1> QED
    BY <1>2 DEF Scored

LEMMA CandidateIs ==
  ASSUME NEW w, NEW s, NEW i, NEW c
  PROVE  /\ Candidate(w, s, i, c).skill = i /\ Candidate(w, s, i, c).capability = c
         /\ Candidate(w, s, i, c).utility = Utility(w, s, c, Registry[i])
  BY DEF Candidate

\* What is offered is what was worth a turn when the round began.
LEMMA OfferKept == PlanSpec => [](world \in Worlds /\ offered = Offered(world))
<1>1. PlanInit => world \in Worlds /\ offered = Offered(world)
      BY DEF PlanInit
<1>2. world \in Worlds /\ offered = Offered(world) /\ [PlanNext]_planning
        => world' \in Worlds /\ offered' = Offered(world')
  <2> SUFFICES ASSUME [PlanNext]_planning
               PROVE  UNCHANGED <<world, offered>>
      OBVIOUS
  <2> QED
      BY DEF PlanNext, NoPlan, DecidePlan, Guard, RunTier, EndRound, planning
<1>3. world \in Worlds /\ offered = Offered(world) /\ [PlanNext]_planning
        => (world \in Worlds /\ offered = Offered(world))'
      BY <1>2
<1> QED
    BY <1>1, <1>3, PTL DEF PlanSpec

\* A gap is closed first: in no world does a request of the learner put teaching a target
\* on top while one of its prerequisites is weak, for every registry of skills and
\* whatever they cost.
THEOREM RemedyFirstHolds == PlanSpec => []RemedyFirst
<1>1. world \in Worlds /\ offered = Offered(world) => RemedyFirst
  <2> SUFFICES ASSUME world \in Worlds, offered = Offered(world),
                      NEW s \in Subjects(world), NEW gap \in Subjects(world),
                      NEW i \in DOMAIN Registry,
                      Blocked(world, s), ~gap.aimed,
                      NEW c \in Registry[i].can \cap Teaching,
                      Candidate(world, s, i, c) \in offered
               PROVE  /\ Candidate(world, gap, i, c) \in offered
                      /\ Candidate(world, gap, i, c).utility > Candidate(world, s, i, c).utility
      BY DEF RemedyFirst
  <2> DEFINE mine == Candidate(world, s, i, c)
             its == Candidate(world, gap, i, c)
             k == CostOf(Registry[i], c)
             g == Gain(world, s, c)
             h == Gain(world, gap, c)
  <2>1. mine \in Scored(world) /\ mine.utility >= MinUtility
        BY DEF Offered
  <2>2. Possible(world, gap, Registry[i], c)
    <3>1. PICK j \in DOMAIN Registry, t \in Subjects(world) : \E d \in Registry[j].can :
                 Possible(world, t, Registry[j], d) /\ mine = Candidate(world, t, j, d)
          BY <2>1, ScoredFrom
    <3>2. PICK d \in Registry[j].can :
                 Possible(world, t, Registry[j], d) /\ mine = Candidate(world, t, j, d)
          BY <3>1
    <3>3. j = i /\ d = c
          BY <3>2, CandidateIs
    <3> QED
        BY <3>2, <3>3, PossibleThere
  <2>3. its \in Scored(world)
        BY <2>2, ScoredHas
  <2>4. /\ gap.view \in world.prerequisites /\ gap.view.mastery <= Weak
        BY SubjectIs
  <2>5. gap.view.mastery \in 0..100 /\ gap.view.difficulty \in 0..100
        BY <2>4, PlanningAssumption
  <2>6. gap.view.mastery \in 0..Weak /\ gap.view.difficulty \in Nat
        BY <2>4, <2>5 DEF Weak
  <2>7. g \in 0..Poor(c)
        BY TargetGain
  <2>8. h \in Nat /\ h >= Poor(c) + 350
        BY <2>6, GapGain
  <2>9. Poor(c) \in Nat
        BY DEF Poor
  <2>10. k \in {2, 4, 5, 7, 8, 11}
         BY Costs
  <2>11. mine.utility = (4 * g + k) \div (2 * k) /\ its.utility = (4 * h + k) \div (2 * k)
         BY CandidateIs DEF Utility
  <2>12. (4 * h + k) \div (2 * k) > (4 * g + k) \div (2 * k)
    <3> HIDE DEF g, h, k
    <3>1. g \in Nat /\ h >= g + 350
          BY <2>7, <2>8, <2>9
    <3> QED
        BY <2>8, <2>10, <3>1, MoreUseful
  <2>13. /\ (4 * g + k) \div (2 * k) \in Int /\ (4 * h + k) \div (2 * k) \in Int
    <3> HIDE DEF g, h, k
    <3> QED
        BY <2>7, <2>8, <2>9, <2>10
  <2>14. its.utility > mine.utility /\ its.utility >= MinUtility
    <3> HIDE DEF g, h, k, mine, its
    <3> QED
        BY <2>1, <2>11, <2>12, <2>13 DEF MinUtility
  <2> QED
      BY <2>3, <2>14 DEF Offered
<1> QED
    BY <1>1, OfferKept, PTL

-----------------------------------------------------------------------------
(* Questions are answered                                                   *)

\* What the model says that picks c alone.
LEMMA ChoosingIs ==
  ASSUME NEW c
  PROVE  LET d == Choosing(c, FALSE)
         IN /\ d.scores = {KeyOf(e) : e \in offered}
            /\ ~d.awaits /\ ~d.interaction /\ ~d.negotiation /\ ~d.closes
            /\ d.revises = {}
            /\ d.tasks = <<TaskOf(1, c, c.point, {}, [kind |-> "result", of |-> {}])>>
<1> DEFINE done == [kind |-> "result", of |-> {}]
           tasks == <<TaskOf(1, c, c.point, {}, done)>>
           d == Choosing(c, FALSE)
           keys == {KeyOf(e) : e \in offered}
<1> HIDE DEF tasks, keys
<1>1. d = [scores |-> keys, awaits |-> FALSE, interaction |-> FALSE, negotiation |-> FALSE,
           revises |-> {}, closes |-> FALSE, tasks |-> tasks]
      BY DEF Choosing, tasks, keys
<1> HIDE DEF d
<1>2. ~d.awaits /\ ~d.interaction /\ ~d.negotiation /\ ~d.closes
      BY <1>1, Zenon
<1>3. d.scores = keys /\ d.revises = {} /\ d.tasks = tasks
      BY <1>1
<1> QED
    BY <1>2, <1>3 DEF tasks, keys, d

LEMMA TaskIs ==
  ASSUME NEW id, NEW c, NEW point, NEW done
  PROVE  LET t == TaskOf(id, c, point, {}, done)
         IN /\ t.id = id /\ t.pick = Id(c) /\ t.capability = c.capability /\ t.point = point
            /\ t.needs = {} /\ t.done = done
            /\ t.sound /\ (t.heavy <=> c.capability \in HeavyKinds)
<1> DEFINE t == TaskOf(id, c, point, {}, done)
<1>1. /\ t.id = id /\ t.pick = Id(c) /\ t.capability = c.capability /\ t.point = point
      /\ t.needs = {} /\ t.done = done
      BY DEF TaskOf
<1>2. t.sound /\ (t.heavy <=> c.capability \in HeavyKinds)
      BY Zenon DEF TaskOf
<1> QED
    BY <1>1, <1>2

\* A plan of one answer is left as it is,
LEMMA OneTrimmed ==
  ASSUME NEW w, NEW t, t.capability = "dialog.answer"
  PROVE  Trimmed(w, <<t>>) = <<t>>
<1> DEFINE tasks == <<t>>
           drop == Dropped(w, tasks)
           F(g) == [i \in 0..Len(tasks) |->
                      IF i = 0 THEN <<>>
                      ELSE IF tasks[i].capability = drop THEN g[i - 1]
                      ELSE Append(g[i - 1], tasks[i])]
           p == CHOOSE g : g = F(g)
<1>1. Len(tasks) = 1 /\ DOMAIN tasks = {1} /\ tasks[1] = t
      OBVIOUS
<1>2. drop # "dialog.answer"
      BY DEF Dropped
<1> HIDE DEF tasks, drop
<1>3. \E g : g = F(g)
  <2> DEFINE g == [i \in 0..1 |-> IF i = 0 THEN <<>> ELSE Append(<<>>, t)]
  <2>1. g[0] = <<>>
        OBVIOUS
  <2>2. \A i \in 0..1 : i = 0 \/ (i = 1 /\ i - 1 = 0 /\ tasks[i] = t)
        BY <1>1
  <2>4. \A i \in 0..1 : i # 0 => /\ tasks[i].capability # drop
                               /\ Append(g[i - 1], tasks[i]) = Append(<<>>, t)
        BY <1>1, <1>2, <2>1, <2>2
  <2>5. F(g) = [i \in 0..1 |-> IF i = 0 THEN <<>> ELSE Append(g[i - 1], tasks[i])]
    <3> HIDE DEF g
    <3> QED
        BY <1>1, <2>4
  <2>3. g = F(g)
        BY <2>4, <2>5
  <2> HIDE DEF g
  <2> QED
      BY <2>3
<1>4. p = F(p)
      BY <1>3
<1> HIDE DEF p
<1>5. p[0] = <<>> /\ p[1] = Append(p[0], t)
  <2>1. \A i \in 0..1 : p[i] = IF i = 0 THEN <<>>
                               ELSE IF tasks[i].capability = drop THEN p[i - 1]
                               ELSE Append(p[i - 1], tasks[i])
        BY <1>1, <1>4
  <2>2. p[0] = <<>>
        BY <2>1
  <2>3. tasks[1].capability # drop /\ tasks[1] = t
        BY <1>1, <1>2
  <2>4. p[1] = IF tasks[1].capability = drop THEN p[1 - 1] ELSE Append(p[1 - 1], tasks[1])
        BY <2>1
  <2>5. 1 - 1 = 0
        OBVIOUS
  <2> QED
      BY <2>2, <2>3, <2>4, <2>5
<1>6. Trimmed(w, tasks) = p[Len(tasks)]
      BY DEF Trimmed, drop, p
<1> QED
    BY <1>1, <1>5, <1>6 DEF tasks

\* and the guardrails let it through.
LEMMA OneGuarded ==
  ASSUME NEW w, NEW plan0, NEW t, plan0.tasks = <<t>>,
         t.capability \in Able, t.capability \notin Conversational \cup Irreversible,
         ~Deviates(w, t.capability, t.point), ~t.heavy
  PROVE  t.id \in Guarded(w, plan0)
<1> DEFINE tasks == plan0.tasks
           n == IF Len(tasks) > MaxTasksPerRound THEN MaxTasksPerRound ELSE Len(tasks)
           After(i, b) == LET u == tasks[i]
              known == u.capability \in Able
              talk == known /\ u.capability \in Conversational
              passes == /\ known
                        /\ ~(talk /\ b.talks > 0)
                        /\ u.capability \in Irreversible => u.capability \in w.confirmed
                        /\ Deviates(w, u.capability, u.point) => plan0.negotiation
                        /\ u.heavy => b.heavy < w.heavyLeft
          IN [ids |-> IF passes THEN b.ids \cup {u.id} ELSE b.ids,
              talks |-> b.talks + (IF talk THEN 1 ELSE 0),
              heavy |-> b.heavy + (IF passes /\ u.heavy THEN 1 ELSE 0)]
           None0 == [ids |-> {}, talks |-> 0, heavy |-> 0]
           F(g) == [i \in 0..n |-> IF i = 0 THEN None0 ELSE After(i, g[i - 1])]
           p == CHOOSE g : g = F(g)
<1>1. n = 1 /\ tasks[1] = t
      BY DEF MaxTasksPerRound
<1>2. \A b : t.id \in After(1, b).ids
  <2> TAKE b
  <2> DEFINE known == t.capability \in Able
             talk == known /\ t.capability \in Conversational
             passes == /\ known
                       /\ ~(talk /\ b.talks > 0)
                       /\ t.capability \in Irreversible => t.capability \in w.confirmed
                       /\ Deviates(w, t.capability, t.point) => plan0.negotiation
                       /\ t.heavy => b.heavy < w.heavyLeft
  <2>1. passes
        OBVIOUS
  <2> HIDE DEF known, talk, passes
  <2>2. After(1, b) = [ids |-> IF passes THEN b.ids \cup {t.id} ELSE b.ids,
              talks |-> b.talks + (IF talk THEN 1 ELSE 0),
              heavy |-> b.heavy + (IF passes /\ t.heavy THEN 1 ELSE 0)]
        BY <1>1 DEF passes, talk, known
  <2>3. After(1, b).ids = b.ids \cup {t.id}
    <3> HIDE DEF After
    <3> QED
        BY <2>1, <2>2
  <2> HIDE DEF After
  <2> QED
      BY <2>3
<1> HIDE DEF After, n, None0
<1>3. \E g : g = F(g)
  <2> DEFINE g == [i \in 0..1 |-> IF i = 0 THEN None0 ELSE After(1, None0)]
  <2>1. g[0] = None0
        OBVIOUS
  <2>2. \A i \in 0..1 : i = 0 \/ (i = 1 /\ i - 1 = 0)
        OBVIOUS
  <2>3. g = F(g)
        BY <1>1, <2>1, <2>2
  <2> HIDE DEF g
  <2> QED
      BY <2>3
<1>4. p = F(p)
      BY <1>3
<1> HIDE DEF p
<1>5. p[1] = After(1, p[0])
  <2>1. \A i \in 0..1 : p[i] = IF i = 0 THEN None0 ELSE After(i, p[i - 1])
        BY <1>1, <1>4
  <2> QED
      BY <2>1
<1>6. Guarded(w, plan0) = p[n].ids
      BY DEF Guarded, After, n, None0, p
<1> QED
    BY <1>1, <1>2, <1>5, <1>6

\* Among candidates that share a key one comes last.
LEMMA LastExists ==
  ASSUME NEW w, offered = Offered(w), NEW c0 \in offered,
         \A c \in offered : KeyOf(c) = KeyOf(c0) => c.utility \in Nat
  PROVE  \E c \in offered : KeyOf(c) = KeyOf(c0) /\ LastOf(c)
<1> DEFINE Same == {c \in offered : KeyOf(c) = KeyOf(c0)}
           Utilities == {c.utility : c \in Same}
<1>1. Utilities \in SUBSET Nat /\ Utilities # {}
      OBVIOUS
<1>2. PICK u \in Utilities : \A v \in Utilities : u <= v
  <2> HIDE DEF Utilities
  <2> QED
      BY <1>1, Least
<1> DEFINE Cheap == {c \in Same : c.utility = u}
           N == Len(Registry)
           Back == {N - c.skill : c \in Cheap}
<1>3. N \in Nat /\ DOMAIN Registry = 1..N
      BY PlanningAssumption
<1> HIDE DEF N
<1>4. \A c \in offered :
        /\ c.skill \in 1..N
        /\ \A d \in offered : d.skill = c.skill /\ KeyOf(d) = KeyOf(c) /\ d.utility = c.utility
                                => d = c
  <2>1. \A c \in offered : \E i \in DOMAIN Registry : \E k, p, v :
          c = [skill |-> i, capability |-> k, point |-> p, utility |-> v]
    <3>1. \A c \in offered : c \in Scored(w)
          BY DEF Offered
    <3> QED
        BY <3>1, ScoredFrom DEF Candidate
  <2>2. \A c, d \in offered : KeyOf(d) = KeyOf(c) => d.capability = c.capability /\ d.point = c.point
        BY DEF KeyOf
  <2>3. \A c \in offered : c = [skill |-> c.skill, capability |-> c.capability,
                                point |-> c.point, utility |-> c.utility] /\ c.skill \in 1..N
        BY <1>3, <2>1
  <2> QED
      BY <2>2, <2>3
<1>5. Back \in SUBSET Nat /\ Back # {}
  <2>1. Cheap # {}
        BY <1>2
  <2>2. \A c \in Cheap : N - c.skill \in Nat
        BY <1>3, <1>4
  <2> HIDE DEF Cheap
  <2> QED
      BY <2>1, <2>2
<1>6. PICK m \in Back : \A n \in Back : m <= n
  <2> HIDE DEF Back
  <2> QED
      BY <1>5, Least
<1>7. PICK c \in Cheap : m = N - c.skill
      OBVIOUS
<1>8. c \in offered /\ KeyOf(c) = KeyOf(c0) /\ c.utility = u
      BY <1>7
<1>9. LastOf(c)
  <2> SUFFICES ASSUME NEW d \in offered, KeyOf(d) = KeyOf(c), d # c
               PROVE  Comes(d, c)
      BY DEF LastOf
  <2>1. d \in Same /\ d.utility \in Utilities /\ u <= d.utility /\ d.utility \in Nat /\ u \in Nat
        BY <1>1, <1>2, <1>8
  <2>2. CASE d.utility = u
    <3>1. d \in Cheap /\ N - d.skill \in Back
          BY <2>1, <2>2
    <3>2. N - c.skill <= N - d.skill
          BY <1>6, <1>7, <3>1
    <3>3. d.skill # c.skill
          BY <1>4, <1>8, <2>2
    <3>4. d.skill \in 1..N /\ c.skill \in 1..N
          BY <1>4, <1>8
    <3>5. d.skill < c.skill
          BY <1>3, <3>2, <3>3, <3>4
    <3> QED
        BY <1>8, <2>2, <3>5 DEF Comes
  <2>3. CASE d.utility # u
        BY <1>8, <2>1, <2>3 DEF Comes
  <2> QED
      BY <2>2, <2>3
<1> QED
    BY <1>8, <1>9

\* Any skill that answers is on offer for a question,
LEMMA AnswerOffered ==
  ASSUME NEW w, Direct(w), NEW v \in w.targets, NEW i \in DOMAIN Registry,
         "dialog.answer" \in Registry[i].can, Registry[i].provider # "none", ~Registry[i].heavy
  PROVE  \E s \in Subjects(w) :
           s.aimed /\ s.view = v /\ Candidate(w, s, i, "dialog.answer") \in Offered(w)
<1> DEFINE s == [view |-> v, aimed |-> TRUE]
           c == "dialog.answer"
<1>1. s \in Subjects(w)
      BY Zenon DEF Subjects
<1>2. s.aimed
      BY Zenon
<1>3. s.view = v
      OBVIOUS
<1> HIDE DEF s
<1>4. Questions(w, s) /\ c \in Requested(w)
      BY <1>2, Zenon DEF Questions, Requested
<1>5. Possible(w, s, Registry[i], c)
  <2>1. c \notin HeavyKinds
        BY DEF HeavyKinds
  <2>2. /\ c # "assess.grade" /\ c # "assess.interpret" /\ c # "content.lesson_intro"
        /\ c # "content.deck" /\ c # "content.visual" /\ c # "assess.generate"
        /\ c # "dialog.probe" /\ c # "meta.report" /\ c # "review.schedule"
        /\ c \notin {"meta.author_skill", "meta.evaluate", "dialog.negotiate"}
        /\ c \in {"dialog.answer", "dialog.converse", "teach.explain"}
        OBVIOUS
  <2> HIDE DEF c
  <2> QED
      BY <1>4, <2>1, <2>2, Zenon DEF Possible
<1>6. Gain(w, s, c) = 6500
  <2>1. Gain(w, s, c) = Clamp(1500 + 5000)
        BY <1>2, <1>4 DEF Gain
  <2> QED
      BY <2>1 DEF Clamp
<1>7. CostOf(Registry[i], c) \in {2, 4, 5, 7, 8, 11}
      BY Costs
<1>8. Utility(w, s, c, Registry[i]) >= MinUtility
  <2> DEFINE k == CostOf(Registry[i], c)
  <2>1. Utility(w, s, c, Registry[i]) = (4 * 6500 + k) \div (2 * k)
        BY <1>6 DEF Utility
  <2> HIDE DEF k
  <2>2. k \in {2, 4, 5, 7, 8, 11}
        BY <1>7 DEF k
  <2>3. (4 * 6500 + k) \div (2 * k) >= 500
        BY <2>2
  <2> QED
      BY <2>1, <2>3 DEF MinUtility
<1>9. Candidate(w, s, i, c) \in Scored(w)
      BY <1>1, <1>5, ScoredHas
<1> QED
    BY <1>1, <1>2, <1>3, <1>8, <1>9, CandidateIs DEF Offered

\* and what answers has a utility.
LEMMA AnswerUtility ==
  ASSUME NEW w, NEW x \in Offered(w), x.capability = "dialog.answer"
  PROVE  x.utility \in Nat
<1> DEFINE c == "dialog.answer"
<1>1. PICK i \in DOMAIN Registry, s \in Subjects(w) : \E d \in Registry[i].can :
          x = Candidate(w, s, i, d)
      BY ScoredFrom DEF Offered
<1>2. x = Candidate(w, s, i, c)
      BY <1>1, CandidateIs
<1>3. Gain(w, s, c) \in {1500, 3000, 5000, 6500}
  <2>1. \E n \in {0, 1500}, g \in {1500, 5000} : Gain(w, s, c) = Clamp(n + g)
        BY DEF Gain
  <2> QED
      BY <2>1 DEF Clamp
<1> DEFINE k == CostOf(Registry[i], c)
           g == Gain(w, s, c)
<1>4. k \in {2, 4, 5, 7, 8, 11}
      BY Costs
<1>5. x.utility = (4 * g + k) \div (2 * k)
      BY <1>2, CandidateIs DEF Utility
<1> HIDE DEF k
<1>6. g \in Nat
      BY <1>3
<1> HIDE DEF g
<1>7. (4 * g + k) \div (2 * k) \in Nat
      BY <1>4, <1>6
<1> QED
    BY <1>5, <1>7

LEMMA AnswerAble ==
  ASSUME NEW w, NEW x \in Offered(w)
  PROVE  x.capability \in Able
<1>1. PICK i \in DOMAIN Registry, s \in Subjects(w) : \E c \in Registry[i].can :
          Possible(w, s, Registry[i], c) /\ x = Candidate(w, s, i, c)
      BY ScoredFrom DEF Offered
<1>2. PICK c \in Registry[i].can : Possible(w, s, Registry[i], c) /\ x = Candidate(w, s, i, c)
      BY <1>1
<1>3. Registry[i].provider # "none"
      BY <1>2, Zenon DEF Possible
<1>4. x.capability = c
      BY <1>2, CandidateIs
<1>5. Registry[i].can \in {Registry[j].can : j \in {k \in DOMAIN Registry :
                                                      Registry[k].provider # "none"}}
      BY <1>3
<1> QED
    BY <1>4, <1>5 DEF Able

\* A direct question can be answered at once: whatever else is on offer and whoever asks,
\* the model has a choice that the host neither refuses nor holds back, as long as
\* a skill that answers is enabled.
THEOREM QuestionsAnsweredHolds == PlanSpec => []QuestionsAnswered
<1>1. world \in Worlds /\ offered = Offered(world) => QuestionsAnswered
  <2> SUFFICES ASSUME offered = Offered(world), Direct(world), world.targets # {},
                      NEW i \in DOMAIN Registry, "dialog.answer" \in Registry[i].can,
                      Registry[i].provider # "none", ~Registry[i].heavy
               PROVE  \E c \in offered :
                        LET d == Choosing(c, FALSE)
                        IN Validates(world, d) /\ Guarded(world, PlanOf(world, d)) # {}
      BY DEF QuestionsAnswered
  <2>1. PICK v : v \in world.targets
        OBVIOUS
  <2>2. PICK s \in Subjects(world) :
          s.aimed /\ s.view = v /\ Candidate(world, s, i, "dialog.answer") \in offered
        BY <2>1, AnswerOffered
  <2> DEFINE c0 == Candidate(world, s, i, "dialog.answer")
  <2>3. c0 \in offered /\ c0.capability = "dialog.answer" /\ c0.point = v.point
        BY <2>2 DEF Candidate
  <2> HIDE DEF c0
  <2>4. \A c \in offered : KeyOf(c) = KeyOf(c0) =>
                            c.capability = "dialog.answer" /\ c.point = v.point
        BY <2>3 DEF KeyOf
  <2>5. PICK c \in offered : KeyOf(c) = KeyOf(c0) /\ LastOf(c)
        BY <2>3, <2>4, AnswerUtility, LastExists
  <2>6. c.capability = "dialog.answer" /\ c.point = v.point
        BY <2>4, <2>5
  <2> DEFINE done == [kind |-> "result", of |-> {}]
             t == TaskOf(1, c, c.point, {}, done)
             d == Choosing(c, FALSE)
             own == Trimmed(world, d.tasks)
  <2>7. /\ t.id = 1 /\ t.pick = Id(c) /\ t.capability = "dialog.answer" /\ t.point = v.point
        /\ t.needs = {} /\ t.done = done /\ t.sound /\ ~t.heavy
    <3>1. "dialog.answer" \notin HeavyKinds
          BY DEF HeavyKinds
    <3>2. /\ t.id = 1 /\ t.pick = Id(c) /\ t.capability = c.capability /\ t.point = c.point
          /\ t.needs = {} /\ t.done = done
          BY TaskIs
    <3>3. t.sound /\ (t.heavy <=> c.capability \in HeavyKinds)
          BY Zenon DEF TaskOf
    <3> HIDE DEF t
    <3>4. c.capability \notin HeavyKinds
          BY <2>6, <3>1
    <3>5. ~t.heavy
          BY <3>3, <3>4, Zenon
    <3> QED
        BY <2>6, <3>2, <3>3, <3>5, Zenon
  <2>8. /\ d.scores = {KeyOf(e) : e \in offered}
        /\ ~d.awaits /\ ~d.interaction /\ ~d.negotiation /\ ~d.closes
        /\ d.revises = {} /\ d.tasks = <<t>>
        BY ChoosingIs, Zenon
  <2>9. SoundCondition(done)
        BY DEF SoundCondition
  <2> HIDE DEF t, d, done
  <2>10. own = <<t>>
         BY <2>7, <2>8, OneTrimmed
  <2>11. ~Deviates(world, "dialog.answer", v.point)
    <3>1. v.point \in {x.point : x \in world.targets}
          BY <2>1
    <3>2. "dialog.answer" \in Requested(world)
          BY Zenon DEF Requested
    <3> QED
        BY <3>1, <3>2 DEF Deviates
  <2>12. t.pick[2] = "dialog.answer" /\ t.pick[3] = v.point
         BY <2>6, <2>7 DEF Id
  <2>13. t.pick \in Selectable(d.scores)
         BY <2>5, <2>7 DEF Selectable
  <2> HIDE DEF own
  <2>14. /\ DOMAIN d.tasks = {1} /\ d.tasks[1] = t
         /\ DOMAIN own = {1} /\ own[1] = t /\ own # <<>>
         BY <2>8, <2>10
  <2>15. ~Deviating(world, own)
         BY <2>11, <2>12, <2>14 DEF Deviating
  <2>16. d.scores # {}
         BY <2>3, <2>8
  <2>17. Validates(world, d)
    <3>1. \A j \in DOMAIN d.tasks :
            /\ d.tasks[j].pick \in Selectable(d.scores)
            /\ SoundCondition(d.tasks[j].done) /\ d.tasks[j].sound
          BY <2>7, <2>9, <2>13, <2>14, Zenon
    <3>2. \A j \in DOMAIN own : own[j].needs \subseteq {own[k].id : k \in DOMAIN own} \ {own[j].id}
          BY <2>7, <2>14
    <3> QED
        BY <2>8, <2>14, <2>15, <2>16, <3>1, <3>2, Zenon DEF Validates, own
  <2>18. PlanOf(world, d).tasks = <<t>>
    <3>1. PlanOf(world, d).tasks = RevisionTasks(d) \o own
          BY DEF PlanOf, own
    <3>2. RevisionTasks(d) = <<>>
      <4>1. Cardinality(d.revises) = 0
            BY <2>8, FS_EmptySet
      <4> QED
          BY <4>1 DEF RevisionTasks
    <3> QED
        BY <2>10, <3>1, <3>2
  <2>19. t.id \in Guarded(world, PlanOf(world, d))
    <3>1. "dialog.answer" \in Able
          BY <2>5, <2>6, AnswerAble
    <3>2. "dialog.answer" \notin Conversational \cup Irreversible
          BY DEF Conversational, Irreversible
    <3> QED
        BY <2>7, <2>11, <2>18, <3>1, <3>2, OneGuarded, Zenon
  <2> QED
      BY <2>17, <2>19 DEF d
<1> QED
    BY <1>1, OfferKept, PTL
=============================================================================
