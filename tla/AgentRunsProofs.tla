-------------------------- MODULE AgentRunsProofs ---------------------------
(***************************************************************************)
(* The stream of an execution is a tree with complete as its last word, its *)
(* rows say what the stream says, and its final snapshot is terminal: for  *)
(* every tier of tasks and delegated runs and any number of faults.        *)
(***************************************************************************)
EXTENDS AgentRuns, FiniteSetTheorems, WellFoundedInduction, TLAPS

-----------------------------------------------------------------------------
(* The projector, event by event                                            *)

\* Induction, as a fact about sets of naturals.
LEMMA SetInduction ==
  ASSUME NEW S, 0 \in S, \A n \in Nat : n \in S => n + 1 \in S
  PROVE  Nat \subseteq S
<1> DEFINE R == OpToRel(<, Nat)
           T == Nat \ S
<1> SUFFICES ASSUME T # {} PROVE FALSE
    OBVIOUS
<1>1. IsWellFoundedOn(R, Nat)
      BY NatLessThanWellFounded
<1> HIDE DEF R
<1>2. PICK x \in T : \A y \in T : ~ (<<y, x>> \in R)
      BY <1>1, WFMin
<1>3. x \in Nat /\ x - 1 \in Nat /\ x - 1 \in T
      OBVIOUS
<1>4. <<x - 1, x>> \in R
      BY <1>3 DEF R, OpToRel
<1> QED
    BY <1>2, <1>3, <1>4

Begun == [rows |-> <<>>, open |-> open, ended |-> ended]

\* What the projector is after each event of a batch.
LEMMA ProjectSteps ==
  ASSUME NEW batch \in Seq(Line)
  PROVE  \E p : /\ p[0] = Begun
                /\ \A i \in 1..Len(batch) : p[i] = Heeds(p[i - 1], batch[i])
                /\ Project(batch) = p[Len(batch)]
<1> DEFINE n == Len(batch)
           F(g, k) == [i \in 0..k |-> IF i = 0 THEN Begun ELSE Heeds(g[i - 1], batch[i])]
           S == {k \in Nat : k <= n => \E g : g = F(g, k)}
<1>1. n \in Nat
      OBVIOUS
<1>2. 0 \in S
  <2> DEFINE g == [i \in 0..0 |-> Begun]
  <2>1. g = F(g, 0)
        OBVIOUS
  <2> HIDE DEF g
  <2> QED
      BY <2>1
<1>3. ASSUME NEW k \in Nat, k \in S
      PROVE  k + 1 \in S
  <2> SUFFICES ASSUME k + 1 <= n PROVE \E g : g = F(g, k + 1)
      OBVIOUS
  <2>1. PICK h : h = F(h, k)
        BY <1>1, <1>3
  <2> DEFINE g == [i \in 0..k + 1 |-> IF i = 0 THEN Begun ELSE Heeds(h[i - 1], batch[i])]
  <2>2. \A i \in 0..k : g[i] = h[i]
        BY <2>1
  <2>3. \A i \in 1..k + 1 : i - 1 \in 0..k
        OBVIOUS
  <2>4. g = F(g, k + 1)
        BY <2>2, <2>3
  <2> HIDE DEF g
  <2> QED
      BY <2>4
<1>4. \E g : g = F(g, n)
  <2>1. n \in S
    <3> HIDE DEF S
    <3> QED
        BY <1>1, <1>2, <1>3, SetInduction
  <2> QED
      BY <2>1
<1> DEFINE p == CHOOSE g : g = F(g, n)
<1>5. p = F(p, n)
      BY <1>4
<1>6. Project(batch) = p[n]
      BY DEF Project, Begun
<1> HIDE DEF p
<1>7. p[0] = Begun /\ \A i \in 1..n : p[i] = Heeds(p[i - 1], batch[i])
      BY <1>1, <1>5
<1> QED
    BY <1>6, <1>7
-----------------------------------------------------------------------------
(* What has been told, in the log, on its way there or in the buffer        *)

Pending == IF flying = <<>> THEN <<>> ELSE Waits(flying[1])

Told == log \o Pending \o buffer

IsStart(e, r) == e.kind = "start" /\ e.run = r
IsEnd(e, r)   == e.kind = "end" /\ e.run = r

Started(s, r) == \E i \in DOMAIN s : IsStart(s[i], r)
Finished(s, r) == \E i \in DOMAIN s : IsEnd(s[i], r)
Says(s, e) == \E i \in DOMAIN s : s[i] = e

\* Starts and ends are told once.
Once(s) ==
  \A i, j \in DOMAIN s :
    s[i].kind # "complete" /\ s[i].kind = s[j].kind /\ s[i].run = s[j].run => i = j

\* Runs end after they have started, and children lie inside their parents.
Nests(s) ==
  /\ \A r \in Run, j \in DOMAIN s :
       IsEnd(s[j], r) => \E i \in 1..j - 1 : IsStart(s[i], r)
  /\ \A r \in Child, j \in DOMAIN s :
       IsStart(s[j], r) => \E i \in 1..j - 1 : IsStart(s[i], Parent(r))
  /\ \A r \in Child, j \in DOMAIN s :
       Started(s, r) /\ IsEnd(s[j], Parent(r)) => \E i \in 1..j - 1 : IsEnd(s[i], r)

\* What an attempt has told, and its rows have.
Speaks(r) ==
  /\ att[r].pc \in {"idle", "create"} => ~Started(Told, r)
  /\ att[r].pc \in {"idle", "create", "provider"} => ~Finished(Told, r)
  /\ ~spoiled /\ att[r].pc = "provider" => Started(Told, r)
  /\ ~spoiled /\ att[r].pc \in {"close", "over"} /\ Started(Told, r) => Finished(Told, r)
  /\ att[r].pc = "close" => att[r].status \in Status
  /\ ~spoiled /\ att[r].pc = "close" => Says(Told, EndOf(r, att[r].status))
  /\ \A st \in {row[r].agent, row[r].skill} :
       st \in Status /\ ~spoiled => Says(Told, EndOf(r, st))

\* The events of a batch that speak of a run speak of one there is.
Named(s) == \A i \in DOMAIN s : s[i].kind # "complete" => s[i].run \in Run

\* Each end in a batch is of a run that is open by then.
Opens(s) ==
  \A j \in DOMAIN s : s[j].kind = "end" =>
    s[j].run \in open \/ \E i \in 1..j - 1 : IsStart(s[i], s[j].run)

\* The projector has a run open when its end comes.
Spans ==
  /\ \A r \in Run : att[r].pc = "provider" => r \in open \/ Started(buffer, r)
  /\ Opens(buffer)

\* Who is at work is a task of the tier, or the child of a task that waits for it.
Tree ==
  /\ doomed \subseteq Top \cup Child
  /\ \A r \in Run :
       /\ r \notin Top \cup Child => att[r].pc = "idle"
       /\ r \in Child /\ InFlight(r) => att[Parent(r)].pc = "provider"

\* An execution that nobody has cancelled leaves no row behind.
Tidy ==
  /\ doomed # {} => graph = "cancelled"
  /\ graph \in {"after", "ended"} => TierOver
  /\ main = "stream" => graph # "ended"
  /\ main = "final" \/ execRow.status = "completed" => graph = "ended"
  /\ execRow.status = "completed" => main = "over"
  /\ faults = 0 /\ graph # "cancelled" => \A r \in Run :
       /\ att[r].pc = "idle" => row[r].agent = "none" /\ row[r].skill = "none"
       /\ att[r].pc = "over" => row[r].agent # "running" /\ row[r].skill # "running"

\* Types; one batch is on its way at most.
Base == TypeOK /\ Named(buffer) /\ Len(flying) <= 1

Voices == Once(Told) /\ (~spoiled => Nests(Told)) /\ \A r \in Run : Speaks(r)

Stream == Voices /\ Spans /\ Tree

RunsInv == Base /\ Stream /\ Tidy
-----------------------------------------------------------------------------
(* Streams that say the same                                                *)

Spoken(s) == {i \in DOMAIN s : s[i].kind # "complete"}

Within(f, s, t) ==
  /\ f \in [Spoken(s) -> Spoken(t)]
  /\ \A i, j \in Spoken(s) : i < j => f[i] < f[j]
  /\ \A i \in Spoken(s) : s[i] = t[f[i]]

\* The starts and ends of s are among those of t, in their order, or all of them.
Follows(s, t) == \E f : Within(f, s, t)
Repeats(s, t) ==
  \E f : Within(f, s, t) /\ \A j \in Spoken(t) : \E i \in Spoken(s) : f[i] = j

LEMMA SpokenNat ==
  ASSUME NEW s \in Seq(Line)
  PROVE  Spoken(s) \subseteq Nat /\ \A i \in Spoken(s) : i \in DOMAIN s /\ i \in 1..Len(s)
BY DEF Spoken

LEMMA RepeatsFollows ==
  ASSUME NEW s, NEW t, Repeats(s, t)
  PROVE  Follows(s, t)
BY DEF Repeats, Follows

LEMMA RepeatsSelf ==
  ASSUME NEW s \in Seq(Line)
  PROVE  Repeats(s, s)
<1> DEFINE f == [i \in Spoken(s) |-> i]
<1>1. Within(f, s, s) /\ \A j \in Spoken(s) : \E i \in Spoken(s) : f[i] = j
      BY DEF Within
<1> HIDE DEF f
<1> QED
    BY <1>1 DEF Repeats

\* The empty stream says some of what any stream says, and all of one that has
\* no start and no end.
LEMMA EmptyFollows ==
  ASSUME NEW t
  PROVE  Follows(<<>>, t) /\ (Spoken(t) = {} => Repeats(<<>>, t))
<1> DEFINE f == [i \in {} |-> i]
<1>1. Spoken(<<>>) = {}
      BY DEF Spoken
<1>2. Within(f, <<>>, t)
      BY <1>1 DEF Within
<1> HIDE DEF f
<1> QED
    BY <1>2 DEF Follows, Repeats

LEMMA SilentRepeats ==
  ASSUME NEW s, Spoken(s) = {}
  PROVE  Repeats(s, <<>>)
<1> DEFINE f == [i \in {} |-> i]
<1>1. Spoken(<<>>) = {}
      BY DEF Spoken
<1>2. Within(f, s, <<>>)
      BY <1>1 DEF Within
<1> HIDE DEF f
<1> QED
    BY <1>1, <1>2 DEF Repeats

LEMMA CatSpoken ==
  ASSUME NEW s \in Seq(Line), NEW t \in Seq(Line)
  PROVE  /\ s \o t \in Seq(Line) /\ Len(s \o t) = Len(s) + Len(t)
         /\ Spoken(s \o t) = Spoken(s) \cup {Len(s) + j : j \in Spoken(t)}
         /\ \A i \in DOMAIN s : (s \o t)[i] = s[i] /\ i \in DOMAIN (s \o t)
         /\ \A j \in DOMAIN t : (s \o t)[Len(s) + j] = t[j] /\ Len(s) + j \in DOMAIN (s \o t)
<1>1. /\ s \o t \in Seq(Line) /\ Len(s \o t) = Len(s) + Len(t)
      /\ DOMAIN s = 1..Len(s) /\ DOMAIN t = 1..Len(t) /\ DOMAIN (s \o t) = 1..Len(s) + Len(t)
      /\ Len(s) \in Nat /\ Len(t) \in Nat
      OBVIOUS
<1>2. \A i \in DOMAIN s : (s \o t)[i] = s[i] /\ i \in DOMAIN (s \o t)
      OBVIOUS
<1>3. \A j \in DOMAIN t : (s \o t)[Len(s) + j] = t[j] /\ Len(s) + j \in DOMAIN (s \o t)
      OBVIOUS
<1>4. \A k \in DOMAIN (s \o t) : k \in DOMAIN s \/ \E j \in DOMAIN t : k = Len(s) + j
  <2> SUFFICES ASSUME NEW k \in DOMAIN (s \o t), k \notin DOMAIN s
               PROVE  \E j \in DOMAIN t : k = Len(s) + j
      OBVIOUS
  <2>1. k - Len(s) \in DOMAIN t /\ k = Len(s) + (k - Len(s))
        BY <1>1
  <2> QED
      BY <2>1
<1>5. Spoken(s \o t) = Spoken(s) \cup {Len(s) + j : j \in Spoken(t)}
  <2>1. ASSUME NEW k \in Spoken(s \o t)
        PROVE  k \in Spoken(s) \cup {Len(s) + j : j \in Spoken(t)}
        BY <1>2, <1>3, <1>4 DEF Spoken
  <2>2. ASSUME NEW k \in Spoken(s) PROVE k \in Spoken(s \o t)
        BY <1>2 DEF Spoken
  <2>3. ASSUME NEW j \in Spoken(t) PROVE Len(s) + j \in Spoken(s \o t)
        BY <1>3 DEF Spoken
  <2> QED
      BY <2>1, <2>2, <2>3
<1> QED
    BY <1>1, <1>2, <1>3, <1>5

\* Streams that follow others do so when they are put one after another.
LEMMA CatWithin ==
  ASSUME NEW s1 \in Seq(Line), NEW t1 \in Seq(Line), NEW f1, Within(f1, s1, t1),
         NEW s2 \in Seq(Line), NEW t2 \in Seq(Line), NEW f2, Within(f2, s2, t2)
  PROVE  \E g : /\ Within(g, s1 \o s2, t1 \o t2)
                /\ \A i \in Spoken(s1) : g[i] = f1[i]
                /\ \A i \in Spoken(s2) : g[Len(s1) + i] = Len(t1) + f2[i]
<1> DEFINE s == s1 \o s2
           t == t1 \o t2
           g == [i \in Spoken(s) |-> IF i \in Spoken(s1) THEN f1[i]
                                     ELSE Len(t1) + f2[i - Len(s1)]]
<1>1. /\ Spoken(s1) \subseteq 1..Len(s1) /\ Spoken(s2) \subseteq 1..Len(s2)
      /\ Spoken(t1) \subseteq 1..Len(t1) /\ Spoken(t2) \subseteq 1..Len(t2)
      /\ Len(s1) \in Nat /\ Len(t1) \in Nat /\ Len(s2) \in Nat /\ Len(t2) \in Nat
      BY SpokenNat
<1>2. /\ Spoken(s) = Spoken(s1) \cup {Len(s1) + j : j \in Spoken(s2)}
      /\ Spoken(t) = Spoken(t1) \cup {Len(t1) + j : j \in Spoken(t2)}
      BY CatSpoken
<1>3. \A i \in Spoken(s1) : i \in Spoken(s) /\ g[i] = f1[i] /\ f1[i] \in Spoken(t1)
      BY <1>2 DEF Within
<1>4. ASSUME NEW i \in Spoken(s2)
      PROVE  /\ Len(s1) + i \in Spoken(s) /\ g[Len(s1) + i] = Len(t1) + f2[i]
             /\ f2[i] \in Spoken(t2)
  <2>1. Len(s1) + i \in Spoken(s) /\ Len(s1) + i \notin Spoken(s1) /\ f2[i] \in Spoken(t2)
        BY <1>1, <1>2 DEF Within
  <2>2. (Len(s1) + i) - Len(s1) = i
        BY <1>1
  <2> QED
      BY <2>1, <2>2
<1>5. \A k \in Spoken(s) : k \in Spoken(s1) \/ \E i \in Spoken(s2) : k = Len(s1) + i
      BY <1>2
<1>6. g \in [Spoken(s) -> Spoken(t)]
  <2>1. \A i \in Spoken(s1) : g[i] \in Spoken(t)
        BY <1>2, <1>3
  <2>2. \A i \in Spoken(s2) : g[Len(s1) + i] \in Spoken(t)
        BY <1>2, <1>4
  <2>3. \A k \in Spoken(s) : g[k] \in Spoken(t)
    <3> HIDE DEF g, s, t
    <3> QED
        BY <1>5, <2>1, <2>2
  <2> QED
      BY <2>3
<1>7. \A i \in Spoken(s) : s[i] = t[g[i]]
  <2>1. /\ \A i \in DOMAIN s1 : s[i] = s1[i]
        /\ \A i \in DOMAIN t1 : t[i] = t1[i]
        /\ \A i \in DOMAIN s2 : s[Len(s1) + i] = s2[i]
        /\ \A i \in DOMAIN t2 : t[Len(t1) + i] = t2[i]
        BY CatSpoken
  <2> HIDE DEF s, t, g
  <2>2. ASSUME NEW i \in Spoken(s1) PROVE s[i] = t[g[i]]
    <3>1. s1[i] = t1[f1[i]] /\ g[i] = f1[i] /\ f1[i] \in DOMAIN t1 /\ i \in DOMAIN s1
          BY <1>3 DEF Within, Spoken
    <3> QED
        BY <2>1, <3>1
  <2>3. ASSUME NEW i \in Spoken(s2) PROVE s[Len(s1) + i] = t[g[Len(s1) + i]]
    <3>1. /\ s2[i] = t2[f2[i]] /\ g[Len(s1) + i] = Len(t1) + f2[i]
          /\ f2[i] \in DOMAIN t2 /\ i \in DOMAIN s2
          BY <1>4 DEF Within, Spoken
    <3> QED
        BY <2>1, <3>1
  <2> QED
      BY <1>5, <2>2, <2>3
<1> HIDE DEF s, t, g
<1>8. ASSUME NEW i \in Spoken(s), NEW j \in Spoken(s), i < j
      PROVE  g[i] < g[j]
  <2>1. CASE i \in Spoken(s1) /\ j \in Spoken(s1)
        BY <1>3, <1>8, <2>1 DEF Within
  <2>2. ASSUME i \in Spoken(s1), NEW m \in Spoken(s2), j = Len(s1) + m
        PROVE  g[i] < g[j]
    <3>1. /\ g[i] \in 1..Len(t1) /\ f2[m] \in 1..Len(t2) /\ g[j] = Len(t1) + f2[m]
          BY <1>1, <1>3, <1>4, <2>2
    <3> QED
        BY <1>1, <3>1
  <2>3. ASSUME NEW k \in Spoken(s2), i = Len(s1) + k, j \in Spoken(s1)
        PROVE  FALSE
    <3>1. k \in 1..Len(s2) /\ j \in 1..Len(s1)
          BY <1>1, <2>3
    <3> QED
        BY <1>1, <1>8, <2>3, <3>1
  <2>4. ASSUME NEW k \in Spoken(s2), i = Len(s1) + k, NEW m \in Spoken(s2), j = Len(s1) + m
        PROVE  g[i] < g[j]
    <3>1. k \in 1..Len(s2) /\ m \in 1..Len(s2)
          BY <1>1
    <3>2. k < m
          BY <1>1, <1>8, <2>4, <3>1
    <3>3. f2[k] < f2[m]
          BY <3>2 DEF Within
    <3>4. /\ g[i] = Len(t1) + f2[k] /\ g[j] = Len(t1) + f2[m]
          /\ f2[k] \in 1..Len(t2) /\ f2[m] \in 1..Len(t2)
          BY <1>1, <1>4, <2>4
    <3> QED
        BY <1>1, <3>3, <3>4
  <2> QED
      BY <1>5, <2>1, <2>2, <2>3, <2>4
<1>9. Within(g, s, t)
      BY <1>6, <1>7, <1>8 DEF Within
<1> QED
    BY <1>3, <1>4, <1>9 DEF s, t

LEMMA CatFollows ==
  ASSUME NEW s1 \in Seq(Line), NEW t1 \in Seq(Line), Follows(s1, t1),
         NEW s2 \in Seq(Line), NEW t2 \in Seq(Line), Follows(s2, t2)
  PROVE  Follows(s1 \o s2, t1 \o t2)
<1>1. PICK f1 : Within(f1, s1, t1)
      BY DEF Follows
<1>2. PICK f2 : Within(f2, s2, t2)
      BY DEF Follows
<1> QED
    BY <1>1, <1>2, CatWithin DEF Follows

LEMMA CatRepeats ==
  ASSUME NEW s1 \in Seq(Line), NEW t1 \in Seq(Line), Repeats(s1, t1),
         NEW s2 \in Seq(Line), NEW t2 \in Seq(Line), Repeats(s2, t2)
  PROVE  Repeats(s1 \o s2, t1 \o t2)
<1>1. PICK f1 : Within(f1, s1, t1) /\ \A j \in Spoken(t1) : \E i \in Spoken(s1) : f1[i] = j
      BY DEF Repeats
<1>2. PICK f2 : Within(f2, s2, t2) /\ \A j \in Spoken(t2) : \E i \in Spoken(s2) : f2[i] = j
      BY DEF Repeats
<1>3. PICK g : /\ Within(g, s1 \o s2, t1 \o t2)
               /\ \A i \in Spoken(s1) : g[i] = f1[i]
               /\ \A i \in Spoken(s2) : g[Len(s1) + i] = Len(t1) + f2[i]
      BY <1>1, <1>2, CatWithin
<1>4. /\ Spoken(s1 \o s2) = Spoken(s1) \cup {Len(s1) + j : j \in Spoken(s2)}
      /\ Spoken(t1 \o t2) = Spoken(t1) \cup {Len(t1) + j : j \in Spoken(t2)}
      BY CatSpoken
<1>5. \A j \in Spoken(t1) : \E i \in Spoken(s1 \o s2) : g[i] = j
      BY <1>1, <1>3, <1>4
<1>6. \A j \in Spoken(t2) : \E i \in Spoken(s1 \o s2) : g[i] = Len(t1) + j
      BY <1>2, <1>3, <1>4
<1>7. \A j \in Spoken(t1 \o t2) : \E i \in Spoken(s1 \o s2) : g[i] = j
      BY <1>4, <1>5, <1>6
<1> QED
    BY <1>3, <1>7 DEF Repeats

\* What is said in a stream that follows another is said there.
LEMMA FollowsSays ==
  ASSUME NEW s, NEW t, Follows(s, t), NEW r
  PROVE  /\ Started(s, r) => Started(t, r)
         /\ Finished(s, r) => Finished(t, r)
<1>1. PICK f : Within(f, s, t)
      BY DEF Follows
<1>2. \A i \in Spoken(s) : f[i] \in DOMAIN t /\ s[i] = t[f[i]]
      BY <1>1 DEF Within, Spoken
<1> QED
    BY <1>2 DEF Started, Finished, IsStart, IsEnd, Spoken

LEMMA RepeatsSays ==
  ASSUME NEW s, NEW t, Repeats(s, t), NEW e, e.kind # "complete"
  PROVE  Says(s, e) <=> Says(t, e)
<1>1. PICK f : Within(f, s, t) /\ \A j \in Spoken(t) : \E i \in Spoken(s) : f[i] = j
      BY DEF Repeats
<1>2. \A i \in Spoken(s) : f[i] \in DOMAIN t /\ s[i] = t[f[i]]
      BY <1>1 DEF Within, Spoken
<1>3. \A j \in Spoken(t) : \E i \in DOMAIN s : s[i] = t[j]
      BY <1>1, <1>2 DEF Spoken
<1> QED
    BY <1>2, <1>3 DEF Says, Spoken

LEMMA RepeatsTold ==
  ASSUME NEW s, NEW t, Repeats(s, t), NEW r
  PROVE  (Started(s, r) <=> Started(t, r)) /\ (Finished(s, r) <=> Finished(t, r))
<1>1. Started(s, r) => Started(t, r)
      BY FollowsSays, RepeatsFollows
<1>2. Finished(s, r) => Finished(t, r)
      BY FollowsSays, RepeatsFollows
<1>3. PICK f : Within(f, s, t) /\ \A j \in Spoken(t) : \E i \in Spoken(s) : f[i] = j
      BY DEF Repeats
<1>4. \A j \in Spoken(t) : \E i \in DOMAIN s : s[i] = t[j]
      BY <1>3 DEF Within, Spoken
<1>5. (Started(t, r) => Started(s, r)) /\ (Finished(t, r) => Finished(s, r))
      BY <1>4 DEF Started, Finished, IsStart, IsEnd, Spoken
<1> QED
    BY <1>1, <1>2, <1>5

LEMMA FollowsOnce ==
  ASSUME NEW s \in Seq(Line), NEW t \in Seq(Line), Follows(s, t), Once(t)
  PROVE  Once(s)
<1>1. PICK f : Within(f, s, t)
      BY DEF Follows
<1>2. SUFFICES ASSUME NEW i \in DOMAIN s, NEW j \in DOMAIN s, s[i].kind # "complete",
                      s[i].kind = s[j].kind, s[i].run = s[j].run
               PROVE  i = j
      BY DEF Once
<1>3. i \in Spoken(s) /\ j \in Spoken(s) /\ i \in Nat /\ j \in Nat
      BY <1>2 DEF Spoken
<1>4. /\ f[i] \in DOMAIN t /\ f[j] \in DOMAIN t /\ s[i] = t[f[i]] /\ s[j] = t[f[j]]
      BY <1>1, <1>3 DEF Within, Spoken
<1>5. f[i] = f[j]
      BY <1>2, <1>4 DEF Once
<1>6. f[i] \in Nat
      BY <1>4
<1>7. ~(i < j) /\ ~(j < i)
  <2>1. (i < j => f[i] < f[j]) /\ (j < i => f[j] < f[i])
        BY <1>1, <1>3 DEF Within
  <2> QED
      BY <1>5, <1>6, <2>1
<1> QED
    BY <1>3, <1>7

LEMMA RepeatsNests ==
  ASSUME NEW s \in Seq(Line), NEW t \in Seq(Line), Repeats(s, t), Nests(t)
  PROVE  Nests(s)
<1>1. PICK f : Within(f, s, t) /\ \A j \in Spoken(t) : \E i \in Spoken(s) : f[i] = j
      BY DEF Repeats
<1>2. ASSUME NEW j \in Spoken(s)
      PROVE  f[j] \in DOMAIN t /\ t[f[j]] = s[j]
      BY <1>1 DEF Within, Spoken
<1>3. ASSUME NEW j \in Spoken(s), NEW k \in 1..f[j] - 1, k \in Spoken(t)
      PROVE  \E i \in 1..j - 1 : s[i] = t[k]
  <2>1. PICK i \in Spoken(s) : f[i] = k
        BY <1>1, <1>3
  <2>2. i \in Nat /\ j \in Nat /\ i >= 1 /\ f[j] \in Nat
        BY <1>2, SpokenNat
  <2>3. ~(j < i) /\ i # j
    <3>1. j < i => f[j] < f[i]
          BY <1>1 DEF Within
    <3> QED
        BY <2>1, <2>2, <3>1
  <2>4. i \in 1..j - 1
        BY <2>2, <2>3
  <2> QED
      BY <1>2, <2>1, <2>4
<1>4. \A j \in Spoken(s) : \A k \in 1..f[j] - 1 : k \in DOMAIN t
  <2> SUFFICES ASSUME NEW j \in Spoken(s), NEW k \in 1..f[j] - 1 PROVE k \in DOMAIN t
      OBVIOUS
  <2>1. f[j] \in 1..Len(t) /\ Len(t) \in Nat
        BY <1>2
  <2> QED
      BY <2>1
<1>5. ASSUME NEW r \in Run, NEW j \in DOMAIN s, IsEnd(s[j], r)
      PROVE  \E i \in 1..j - 1 : IsStart(s[i], r)
  <2>1. j \in Spoken(s) /\ IsEnd(t[f[j]], r) /\ f[j] \in DOMAIN t
        BY <1>2, <1>5 DEF IsEnd, Spoken
  <2>2. PICK k \in 1..f[j] - 1 : IsStart(t[k], r)
        BY <2>1 DEF Nests
  <2>3. k \in Spoken(t)
        BY <1>4, <2>1, <2>2 DEF IsStart, Spoken
  <2> QED
      BY <1>3, <2>1, <2>2, <2>3
<1>6. ASSUME NEW r \in Child, NEW j \in DOMAIN s, IsStart(s[j], r)
      PROVE  \E i \in 1..j - 1 : IsStart(s[i], Parent(r))
  <2>1. j \in Spoken(s) /\ IsStart(t[f[j]], r) /\ f[j] \in DOMAIN t
        BY <1>2, <1>6 DEF IsStart, Spoken
  <2>2. PICK k \in 1..f[j] - 1 : IsStart(t[k], Parent(r))
        BY <2>1 DEF Nests
  <2>3. k \in Spoken(t)
        BY <1>4, <2>1, <2>2 DEF IsStart, Spoken
  <2> QED
      BY <1>3, <2>1, <2>2, <2>3
<1>7. ASSUME NEW r \in Child, NEW j \in DOMAIN s, Started(s, r), IsEnd(s[j], Parent(r))
      PROVE  \E i \in 1..j - 1 : IsEnd(s[i], r)
  <2>1. j \in Spoken(s) /\ IsEnd(t[f[j]], Parent(r)) /\ f[j] \in DOMAIN t
        BY <1>2, <1>7 DEF IsEnd, Spoken
  <2>2. Started(t, r)
        BY <1>7, RepeatsTold
  <2>3. PICK k \in 1..f[j] - 1 : IsEnd(t[k], r)
        BY <2>1, <2>2 DEF Nests
  <2>4. k \in Spoken(t)
        BY <1>4, <2>1, <2>3 DEF IsEnd, Spoken
  <2> QED
      BY <1>3, <2>1, <2>3, <2>4
<1> QED
    BY <1>5, <1>6, <1>7 DEF Nests

LEMMA NestsPrefix ==
  ASSUME NEW s \in Seq(Line), NEW t \in Seq(Line), Nests(s \o t)
  PROVE  Nests(s)
<1>1. \A i \in DOMAIN s : (s \o t)[i] = s[i] /\ i \in DOMAIN (s \o t)
      BY CatSpoken
<1>2. \A j \in DOMAIN s : \A i \in 1..j - 1 : i \in DOMAIN s
      OBVIOUS
<1> DEFINE u == s \o t
<1> HIDE DEF u
<1>3. /\ \A i \in DOMAIN s : u[i] = s[i] /\ i \in DOMAIN u
      /\ Nests(u)
      BY <1>1 DEF u
<1>4. ASSUME NEW r \in Run, NEW j \in DOMAIN s, IsEnd(s[j], r)
      PROVE  \E i \in 1..j - 1 : IsStart(s[i], r)
      BY <1>2, <1>3, <1>4 DEF Nests
<1>5. ASSUME NEW r \in Child, NEW j \in DOMAIN s, IsStart(s[j], r)
      PROVE  \E i \in 1..j - 1 : IsStart(s[i], Parent(r))
      BY <1>2, <1>3, <1>5 DEF Nests
<1>6. ASSUME NEW r \in Child, NEW j \in DOMAIN s, Started(s, r), IsEnd(s[j], Parent(r))
      PROVE  \E i \in 1..j - 1 : IsEnd(s[i], r)
  <2>1. Started(u, r)
        BY <1>3, <1>6 DEF Started
  <2> QED
      BY <1>2, <1>3, <1>6, <2>1 DEF Nests
<1> QED
    BY <1>4, <1>5, <1>6 DEF Nests

\* One more event.
LEMMA Added ==
  ASSUME NEW s \in Seq(Line), NEW e \in Line
  PROVE  /\ s \o <<e>> \in Seq(Line) /\ s \o <<e>> = Append(s, e)
         /\ DOMAIN (s \o <<e>>) = DOMAIN s \cup {Len(s) + 1}
         /\ \A i \in DOMAIN s : (s \o <<e>>)[i] = s[i] /\ i < Len(s) + 1 /\ i \in Nat
         /\ (s \o <<e>>)[Len(s) + 1] = e
         /\ DOMAIN s = 1..Len(s) /\ Len(s) \in Nat
OBVIOUS

LEMMA AddedSays ==
  ASSUME NEW s \in Seq(Line), NEW e \in Line
  PROVE  /\ \A x : Says(s \o <<e>>, x) <=> Says(s, x) \/ x = e
         /\ \A r : Started(s \o <<e>>, r) <=> Started(s, r) \/ IsStart(e, r)
         /\ \A r : Finished(s \o <<e>>, r) <=> Finished(s, r) \/ IsEnd(e, r)
<1> DEFINE u == s \o <<e>>
<1>1. /\ DOMAIN u = DOMAIN s \cup {Len(s) + 1}
      /\ \A i \in DOMAIN s : u[i] = s[i]
      /\ u[Len(s) + 1] = e
      BY Added
<1> HIDE DEF u
<1>2. /\ \A x : Says(u, x) <=> Says(s, x) \/ x = e
      /\ \A r : Started(u, r) <=> Started(s, r) \/ IsStart(e, r)
      /\ \A r : Finished(u, r) <=> Finished(s, r) \/ IsEnd(e, r)
      BY <1>1 DEF Says, Started, Finished
<1> QED
    BY <1>2 DEF u

LEMMA AddedOnce ==
  ASSUME NEW s \in Seq(Line), NEW e \in Line, Once(s),
         \A i \in DOMAIN s : ~(s[i].kind = e.kind /\ s[i].run = e.run) \/ e.kind = "complete"
  PROVE  Once(s \o <<e>>)
<1> DEFINE u == s \o <<e>>
<1>1. /\ DOMAIN u = DOMAIN s \cup {Len(s) + 1}
      /\ \A i \in DOMAIN s : u[i] = s[i]
      /\ u[Len(s) + 1] = e
      BY Added
<1> HIDE DEF u
<1>2. Once(u)
      BY <1>1 DEF Once
<1> QED
    BY <1>2 DEF u

LEMMA AddedNests ==
  ASSUME NEW s \in Seq(Line), NEW e \in Line, Nests(s),
         \A r \in Run : IsEnd(e, r) => Started(s, r),
         \A r \in Child : IsStart(e, r) => Started(s, Parent(r)) /\ ~Finished(s, Parent(r)),
         \A r \in Child : IsEnd(e, Parent(r)) /\ Started(s, r) => Finished(s, r)
  PROVE  Nests(s \o <<e>>)
<1> DEFINE u == s \o <<e>>
           n == Len(s) + 1
<1>1. /\ DOMAIN u = DOMAIN s \cup {n} /\ u[n] = e
      /\ \A i \in DOMAIN s : u[i] = s[i] /\ i \in 1..n - 1
      /\ \A j \in DOMAIN s : \A i \in 1..j - 1 : i \in DOMAIN s
      BY Added
<1> HIDE DEF u, n
<1>2. /\ \A r : Started(s, r) => \E i \in 1..n - 1 : IsStart(u[i], r)
      /\ \A r : Finished(s, r) => \E i \in 1..n - 1 : IsEnd(u[i], r)
      BY <1>1 DEF Started, Finished
<1>3. ASSUME NEW r \in Run, NEW j \in DOMAIN u, IsEnd(u[j], r)
      PROVE  \E i \in 1..j - 1 : IsStart(u[i], r)
  <2>1. CASE j = n
        BY <1>1, <1>2, <1>3, <2>1
  <2>2. CASE j \in DOMAIN s
        BY <1>1, <1>3, <2>2 DEF Nests
  <2> QED
      BY <1>1, <2>1, <2>2
<1>4. ASSUME NEW r \in Child, NEW j \in DOMAIN u, IsStart(u[j], r)
      PROVE  \E i \in 1..j - 1 : IsStart(u[i], Parent(r))
  <2>1. CASE j = n
        BY <1>1, <1>2, <1>4, <2>1
  <2>2. CASE j \in DOMAIN s
        BY <1>1, <1>4, <2>2 DEF Nests
  <2> QED
      BY <1>1, <2>1, <2>2
<1>5. ASSUME NEW r \in Child, NEW j \in DOMAIN u, Started(u, r), IsEnd(u[j], Parent(r))
      PROVE  \E i \in 1..j - 1 : IsEnd(u[i], r)
  <2>1. Started(s, r) \/ IsStart(e, r)
        BY <1>1, <1>5 DEF Started
  <2>2. CASE j = n
    <3>1. e.kind = "end"
          BY <1>1, <1>5, <2>2 DEF IsEnd
    <3>2. Started(s, r)
          BY <2>1, <3>1 DEF IsStart
    <3> QED
        BY <1>1, <1>2, <1>5, <2>2, <3>2
  <2>3. CASE j \in DOMAIN s
    <3>1. IsEnd(s[j], Parent(r)) /\ Finished(s, Parent(r))
          BY <1>1, <1>5, <2>3 DEF Finished
    <3>2. Started(s, r)
          BY <2>1, <3>1
    <3> QED
        BY <1>1, <2>3, <3>1, <3>2 DEF Nests
  <2> QED
      BY <1>1, <2>2, <2>3
<1>6. Nests(u)
      BY <1>3, <1>4, <1>5 DEF Nests
<1> QED
    BY <1>6 DEF u

-----------------------------------------------------------------------------
(* What the projector leaves of a batch                                     *)

Projector(a, o, b) == [rows |-> a, open |-> o, ended |-> b]

LEMMA HeedsStart ==
  ASSUME NEW a, NEW o, NEW b, NEW e, e.kind = "start"
  PROVE  Heeds(Projector(a, o, b), e) = Projector(Append(a, e), o \cup {e.run}, b)
BY DEF Heeds, Projector

LEMMA HeedsEnd ==
  ASSUME NEW a, NEW o, NEW b, NEW e, e.kind = "end"
  PROVE  /\ e.run \in o =>
              Heeds(Projector(a, o, b), e) = Projector(Append(a, e), o \ {e.run}, b)
         /\ e.run \notin o => Heeds(Projector(a, o, b), e) = Projector(a, o, b)
<1> DEFINE p == Projector(a, o, b)
<1>1. p.rows = a /\ p.open = o /\ p.ended = b
      BY DEF Projector
<1> HIDE DEF p
<1>3. CASE e.run \in o
  <2>1. Heeds(p, e) = Projector(Append(a, e), o \ {e.run}, b)
        BY <1>1, <1>3 DEF Heeds, Projector
  <2> QED
      BY <1>3, <2>1 DEF p
<1>4. CASE e.run \notin o
  <2>1. Heeds(p, e) = p
        BY <1>1, <1>4 DEF Heeds
  <2> QED
      BY <1>4, <2>1 DEF p
<1> QED
    BY <1>3, <1>4

LEMMA HeedsComplete ==
  ASSUME NEW a, NEW o, NEW b, NEW e, e.kind = "complete"
  PROVE  \/ Heeds(Projector(a, o, b), e) = Projector(a, o, b)
         \/ \E c \in BOOLEAN : Heeds(Projector(a, o, b), e) = Projector(Append(a, e), o, c)
<1> DEFINE p == Projector(a, o, b)
<1>1. p.rows = a /\ p.open = o /\ p.ended = b
      BY DEF Projector
<1> HIDE DEF p
<1>3. CASE b
  <2>1. Heeds(p, e) = p
        BY <1>1, <1>3 DEF Heeds
  <2> QED
      BY <1>3, <2>1 DEF p
<1>4. CASE ~b
  <2>1. Heeds(p, e) = Projector(Append(a, e), o, TRUE)
        BY <1>1, <1>4 DEF Heeds, Projector
  <2>2. TRUE \in BOOLEAN
        OBVIOUS
  <2> QED
      BY <2>1, <2>2 DEF p
<1> QED
    BY <1>3, <1>4

LEMMA Prefix ==
  ASSUME NEW s \in Seq(Line), NEW k \in Nat, k + 1 <= Len(s)
  PROVE  /\ SubSeq(s, 1, k) \in Seq(Line) /\ s[k + 1] \in Line
         /\ SubSeq(s, 1, k + 1) = SubSeq(s, 1, k) \o <<s[k + 1]>>
         /\ DOMAIN SubSeq(s, 1, k) = 1..k /\ k + 1 \in DOMAIN s
         /\ \A i \in 1..k : SubSeq(s, 1, k)[i] = s[i]
OBVIOUS

LEMMA ProjectTyped ==
  ASSUME NEW batch \in Seq(Line), Named(batch), open \subseteq Run, ended \in BOOLEAN
  PROVE  \E a \in Seq(Line), o \in SUBSET Run, b \in BOOLEAN :
           Project(batch) = [rows |-> a, open |-> o, ended |-> b]
<1> DEFINE n == Len(batch)
<1>1. PICK p : /\ p[0] = Begun
               /\ \A i \in 1..n : p[i] = Heeds(p[i - 1], batch[i])
               /\ Project(batch) = p[n]
      BY ProjectSteps
<1> DEFINE Fits(k) == \E a \in Seq(Line), o \in SUBSET Run, b \in BOOLEAN :
                        p[k] = Projector(a, o, b)
           S == {k \in Nat : k <= n => Fits(k)}
<1>2. n \in Nat
      OBVIOUS
<1>3. 0 \in S
  <2>1. <<>> \in Seq(Line)
        OBVIOUS
  <2> QED
      BY <1>1, <2>1 DEF Begun, Projector
<1>4. ASSUME NEW k \in Nat, k \in S PROVE k + 1 \in S
  <2> SUFFICES ASSUME k + 1 <= n
               PROVE  Fits(k + 1)
    <3> HIDE DEF Fits
    <3> QED
        OBVIOUS
  <2>1. PICK a \in Seq(Line), o \in SUBSET Run, b \in BOOLEAN :
          p[k] = Projector(a, o, b)
    <3>1. Fits(k)
      <4> HIDE DEF Fits
      <4> QED
          BY <1>2, <1>4
    <3> HIDE DEF S
    <3> QED
        BY <3>1
  <2> DEFINE e == batch[k + 1]
  <2>2. e \in Line /\ k + 1 \in DOMAIN batch /\ k + 1 \in 1..n
        BY <1>2, Prefix
  <2>3. p[k + 1] = Heeds(p[k], e)
    <3>1. p[k + 1] = Heeds(p[(k + 1) - 1], e)
          BY <1>1, <2>2
    <3>2. (k + 1) - 1 = k
          OBVIOUS
    <3> QED
        BY <3>1, <3>2
  <2>4. e.kind # "complete" => e.run \in Run
        BY <2>2 DEF Named
  <2>5. Append(a, e) \in Seq(Line)
        BY <2>2
  <2>6. e.kind \in {"start", "end", "complete"}
        BY <2>2 DEF Line
  <2> HIDE DEF e
  <2>7. CASE e.kind = "start"
    <3>1. p[k + 1] = Projector(Append(a, e), o \cup {e.run}, b)
          BY <2>1, <2>2, <2>3, <2>7, HeedsStart
    <3>2. o \cup {e.run} \in SUBSET Run
          BY <2>4, <2>7
    <3> QED
        BY <2>5, <3>1, <3>2
  <2>8. CASE e.kind = "end"
    <3>1. \/ p[k + 1] = Projector(Append(a, e), o \ {e.run}, b)
          \/ p[k + 1] = Projector(a, o, b)
          BY <2>1, <2>2, <2>3, <2>8, HeedsEnd
    <3>2. o \ {e.run} \in SUBSET Run
          OBVIOUS
    <3> QED
        BY <2>5, <3>1, <3>2
  <2>9. CASE e.kind = "complete"
    <3>1. \/ p[k + 1] = Projector(a, o, b)
          \/ \E c \in BOOLEAN : p[k + 1] = Projector(Append(a, e), o, c)
          BY <2>1, <2>3, <2>9, HeedsComplete
    <3> QED
        BY <2>5, <3>1
  <2> QED
      BY <2>6, <2>7, <2>8, <2>9
<1>5. n \in S
  <2> HIDE DEF S
  <2> QED
      BY <1>2, <1>3, <1>4, SetInduction
<1>6. Fits(n)
  <2> HIDE DEF Fits
  <2> QED
      BY <1>2, <1>5
<1> QED
    BY <1>1, <1>6 DEF Projector

\* Of a batch with each start and end in its place, the projector drops neither;
\* and a run that the batch does not end stays open.
LEMMA ProjectRepeats ==
  ASSUME NEW batch \in Seq(Line), Named(batch), Once(batch), Opens(batch),
         open \subseteq Run, ended \in BOOLEAN
  PROVE  /\ Repeats(Project(batch).rows, batch)
         /\ \A r : (r \in open \/ Started(batch, r)) /\ ~Finished(batch, r)
                     => r \in Project(batch).open
<1> DEFINE n == Len(batch)
           Pre(k) == SubSeq(batch, 1, k)
           Keeps(k, o) == \A r : (r \in open \/ Started(Pre(k), r)) /\ ~Finished(Pre(k), r)
                                   => r \in o
<1>1. PICK p : /\ p[0] = Begun
               /\ \A i \in 1..n : p[i] = Heeds(p[i - 1], batch[i])
               /\ Project(batch) = p[n]
      BY ProjectSteps
<1> DEFINE Fits(k) == \E a, o, b :
                        /\ a \in Seq(Line) /\ b \in BOOLEAN
                        /\ p[k] = Projector(a, o, b)
                        /\ Repeats(a, Pre(k)) /\ Keeps(k, o)
           S == {k \in Nat : k <= n => Fits(k)}
<1>2. n \in Nat
      OBVIOUS
<1>3. 0 \in S
  <2>1. <<>> \in Seq(Line) /\ Pre(0) = <<>>
        OBVIOUS
  <2>2. Repeats(<<>>, <<>>)
        BY <2>1, RepeatsSelf
  <2>3. Keeps(0, open)
        BY <2>1 DEF Started
  <2>4. p[0] = Projector(<<>>, open, ended)
        BY <1>1 DEF Begun, Projector
  <2> HIDE DEF Pre, Keeps
  <2> QED
      BY <2>1, <2>2, <2>3, <2>4
<1>4. ASSUME NEW k \in Nat, k \in S PROVE k + 1 \in S
  <2> SUFFICES ASSUME k + 1 <= n
               PROVE  Fits(k + 1)
    <3> HIDE DEF Fits
    <3> QED
        OBVIOUS
  <2>1. PICK a, o, b :
          /\ a \in Seq(Line) /\ b \in BOOLEAN
          /\ p[k] = Projector(a, o, b)
          /\ Repeats(a, Pre(k)) /\ Keeps(k, o)
    <3>1. Fits(k)
      <4> HIDE DEF Fits
      <4> QED
          BY <1>2, <1>4
    <3> HIDE DEF Pre, Keeps
    <3> QED
        BY <3>1
  <2> DEFINE e == batch[k + 1]
  <2>2. /\ e \in Line /\ k + 1 \in DOMAIN batch /\ k + 1 \in 1..n /\ Pre(k) \in Seq(Line)
        /\ Pre(k + 1) = Pre(k) \o <<e>> /\ DOMAIN Pre(k) = 1..k
        /\ \A i \in 1..k : Pre(k)[i] = batch[i] /\ i \in DOMAIN batch /\ i # k + 1
        BY <1>2, Prefix
  <2>3. p[k + 1] = Heeds(p[k], e)
    <3>1. p[k + 1] = Heeds(p[(k + 1) - 1], e)
          BY <1>1, <2>2
    <3>2. (k + 1) - 1 = k
          OBVIOUS
    <3> QED
        BY <3>1, <3>2
  <2>4. Append(a, e) \in Seq(Line) /\ Append(a, e) = a \o <<e>> /\ <<e>> \in Seq(Line)
    <3> HIDE DEF e, Pre, Keeps
    <3> QED
        BY <2>1, <2>2
  <2>5. e.kind \in {"start", "end", "complete"}
        BY <2>2 DEF Line
  <2>6. Repeats(Append(a, e), Pre(k + 1))
    <3>1. Repeats(<<e>>, <<e>>)
          BY <2>4, RepeatsSelf
    <3> HIDE DEF e, Pre
    <3> QED
        BY <2>1, <2>2, <2>4, <3>1, CatRepeats
  <2>7. /\ \A r : Started(Pre(k + 1), r) <=> Started(Pre(k), r) \/ IsStart(e, r)
        /\ \A r : Finished(Pre(k + 1), r) <=> Finished(Pre(k), r) \/ IsEnd(e, r)
    <3> HIDE DEF e, Pre
    <3>1. /\ \A r : Started(Pre(k) \o <<e>>, r) <=> Started(Pre(k), r) \/ IsStart(e, r)
          /\ \A r : Finished(Pre(k) \o <<e>>, r) <=> Finished(Pre(k), r) \/ IsEnd(e, r)
          BY <2>2, AddedSays
    <3> QED
        BY <2>2, <3>1
  <2>8. CASE e.kind = "start"
    <3>1. p[k + 1] = Projector(Append(a, e), o \cup {e.run}, b)
      <4> HIDE DEF e
      <4> QED
          BY <2>1, <2>2, <2>3, <2>8, HeedsStart
    <3>2. Keeps(k + 1, o \cup {e.run})
      <4> HIDE DEF Pre, e
      <4> QED
          BY <2>1, <2>7 DEF IsStart
    <3> HIDE DEF Pre, e, Keeps
    <3> QED
        BY <2>1, <2>4, <2>6, <3>1, <3>2
  <2>9. CASE e.kind = "end"
    <3>1. e.run \in o
      <4>1. e.run \in open \/ Started(Pre(k), e.run)
        <5>1. \/ e.run \in open
              \/ \E i \in 1..(k + 1) - 1 : IsStart(batch[i], e.run)
              BY <2>2, <2>9 DEF Opens
        <5>2. (k + 1) - 1 = k
              OBVIOUS
        <5> HIDE DEF Pre, e
        <5> QED
            BY <2>2, <5>1, <5>2 DEF Started
      <4>2. ~Finished(Pre(k), e.run)
        <5> SUFFICES ASSUME NEW i \in 1..k, IsEnd(batch[i], e.run) PROVE FALSE
          <6> HIDE DEF Pre, e
          <6> QED
              BY <2>2 DEF Finished
        <5> QED
            BY <2>2, <2>9 DEF Once, IsEnd
      <4> HIDE DEF Pre, e
      <4> QED
          BY <2>1, <4>1, <4>2
    <3>2. p[k + 1] = Projector(Append(a, e), o \ {e.run}, b)
      <4> HIDE DEF e
      <4> QED
          BY <2>1, <2>2, <2>3, <2>9, <3>1, HeedsEnd
    <3>3. Keeps(k + 1, o \ {e.run})
      <4> HIDE DEF Pre, e
      <4> QED
          BY <2>1, <2>7, <2>9 DEF IsStart, IsEnd
    <3> HIDE DEF Pre, e, Keeps
    <3> QED
        BY <2>1, <2>4, <2>6, <3>2, <3>3
  <2>10. CASE e.kind = "complete"
    <3>1. Keeps(k + 1, o)
      <4> HIDE DEF Pre, e
      <4> QED
          BY <2>1, <2>7, <2>10 DEF IsStart
    <3>2. ASSUME NEW c \in BOOLEAN, p[k + 1] = Projector(Append(a, e), o, c)
          PROVE  Fits(k + 1)
      <4> HIDE DEF Pre, e, Keeps
      <4> QED
          BY <2>1, <2>4, <2>6, <3>1, <3>2
    <3>3. CASE p[k + 1] = Projector(a, o, b)
      <4>2. Repeats(a, Pre(k + 1))
        <5>1. Repeats(<<>>, <<e>>)
          <6>1. Spoken(<<e>>) = {}
                BY <2>10 DEF Spoken
          <6> QED
              BY <6>1, EmptyFollows
        <5>2. a \o <<>> = a /\ <<>> \in Seq(Line)
              OBVIOUS
        <5>3. Repeats(a \o <<>>, Pre(k) \o <<e>>)
          <6> HIDE DEF Pre, e
          <6> QED
              BY <2>1, <2>2, <2>4, <5>1, <5>2, CatRepeats
        <5> HIDE DEF Pre, e
        <5> QED
            BY <2>2, <5>2, <5>3
      <4> HIDE DEF Pre, e, Keeps
      <4> QED
          BY <2>1, <3>1, <3>3, <4>2
    <3>4. \/ p[k + 1] = Projector(a, o, b)
          \/ \E c \in BOOLEAN : p[k + 1] = Projector(Append(a, e), o, c)
      <4> HIDE DEF e
      <4> QED
          BY <2>1, <2>3, <2>10, HeedsComplete
    <3> QED
        BY <3>2, <3>3, <3>4
  <2> HIDE DEF Pre, e, Keeps
  <2> QED
      BY <2>5, <2>8, <2>9, <2>10
<1>5. n \in S
  <2> HIDE DEF S
  <2> QED
      BY <1>2, <1>3, <1>4, SetInduction
<1>6. Pre(n) = batch
      OBVIOUS
<1>7. Fits(n)
  <2> HIDE DEF Fits
  <2> QED
      BY <1>2, <1>5
<1>9. PICK a, o, b : p[n] = Projector(a, o, b) /\ Repeats(a, Pre(n)) /\ Keeps(n, o)
  <2> HIDE DEF Pre, Keeps
  <2> QED
      BY <1>7
<1>8. Project(batch).rows = a /\ Project(batch).open = o
      BY <1>1, <1>9 DEF Projector
<1> HIDE DEF Pre
<1> QED
    BY <1>6, <1>8, <1>9

-----------------------------------------------------------------------------
(* Tiers *)

ParentIn(t, c) == CHOOSE r \in TopOf(t) : t.delegate[r] = c

LEMMA Family ==
  ASSUME NEW t \in Tiers
  PROVE  /\ TopOf(t) \subseteq Run /\ ChildOf(t) \subseteq Run
         /\ TopOf(t) \cap ChildOf(t) = {} /\ t.faults \in Nat
         /\ \A c \in ChildOf(t) : /\ ParentIn(t, c) \in TopOf(t)
                                  /\ t.delegate[ParentIn(t, c)] = c /\ c # None
         /\ \A r \in TopOf(t) : t.delegate[r] # None =>
              t.delegate[r] \in ChildOf(t) /\ ParentIn(t, t.delegate[r]) = r
         /\ t.safe \subseteq TopOf(t)
         /\ \A i \in DOMAIN t.serial : t.serial[i] \in TopOf(t)
<1>1. /\ TopOf(t) \cup ChildOf(t) \subseteq Run /\ TopOf(t) \cap ChildOf(t) = {}
      /\ t.faults \in Nat /\ None \notin Run
      /\ \A r, u \in TopOf(t) :
            r # u /\ t.delegate[r] = t.delegate[u] => t.delegate[r] = None
      BY RunsAssumption
<1>2. \A c \in ChildOf(t) : c # None /\ \E r \in TopOf(t) : t.delegate[r] = c
      BY DEF ChildOf
<1>3. \A c \in ChildOf(t) : ParentIn(t, c) \in TopOf(t) /\ t.delegate[ParentIn(t, c)] = c
      BY <1>2 DEF ParentIn
<1>4. \A r \in TopOf(t) : t.delegate[r] # None => t.delegate[r] \in ChildOf(t)
      BY DEF ChildOf
<1>5. \A r \in TopOf(t) : t.delegate[r] # None => ParentIn(t, t.delegate[r]) = r
      BY <1>1, <1>3, <1>4
<1>6. t.safe \subseteq TopOf(t) /\ \A i \in DOMAIN t.serial : t.serial[i] \in TopOf(t)
      BY DEF TopOf, ToSet
<1> QED
    BY <1>1, <1>2, <1>3, <1>4, <1>5, <1>6

LEMMA Parents ==
  /\ \A c : Parent(c) = ParentIn(tier, c)
  /\ tier' = tier => /\ Top' = Top /\ Child' = Child /\ Serial' = Serial
                     /\ \A c : Parent(c)' = ParentIn(tier, c)
<1>1. \A c : Parent(c) = ParentIn(tier, c)
      BY DEF Parent, ParentIn, Top, Delegate
<1>2. \A c : Parent(c)' = ParentIn(tier', c)
      BY DEF Parent, ParentIn, Top, Delegate
<1> QED
    BY <1>1, <1>2 DEF Top, Child, Serial

-----------------------------------------------------------------------------
(* Types *)

LEMMA Lone ==
  ASSUME Base
  PROVE  flying = <<>> \/ \E b \in Flight : flying = <<b>>
<1>1. flying \in Seq(Flight) /\ Len(flying) <= 1
      BY DEF Base, TypeOK
<1>2. CASE Len(flying) = 0
      BY <1>1, <1>2
<1>3. CASE Len(flying) = 1
  <2>1. flying = <<flying[1]>> /\ flying[1] \in Flight
        BY <1>1, <1>3
  <2> QED
      BY <2>1
<1>4. Len(flying) \in Nat
      BY <1>1
<1> QED
    BY <1>1, <1>2, <1>3, <1>4

LEMMA TakenOut ==
  ASSUME NEW b
  PROVE  DOMAIN <<b>> = {1} /\ RemoveAt(<<b>>, 1) = <<>>
<1>1. DOMAIN <<b>> = {1}
      OBVIOUS
<1>2. SubSeq(<<b>>, 1, 0) = <<>> /\ SubSeq(<<b>>, 2, 1) = <<>>
      OBVIOUS
<1>3. Len(<<b>>) = 1 /\ 1 - 1 = 0 /\ 1 + 1 = 2 /\ <<>> \o <<>> = <<>>
      OBVIOUS
<1> QED
    BY <1>1, <1>2, <1>3 DEF RemoveAt

LEMMA Lines ==
  /\ \A r \in Run : StartOf(r) \in Line
  /\ \A r \in Run, st \in Status : EndOf(r, st) \in Line
  /\ Complete \in Line
BY DEF Line, StartOf, EndOf, Complete, Status

LEMMA NamedAdded ==
  ASSUME NEW s \in Seq(Line), NEW e \in Line, Named(s), e.kind # "complete" => e.run \in Run
  PROVE  s \o <<e>> \in Seq(Line) /\ Named(s \o <<e>>)
<1> DEFINE u == s \o <<e>>
<1>1. /\ DOMAIN u = DOMAIN s \cup {Len(s) + 1} /\ u \in Seq(Line)
      /\ \A i \in DOMAIN s : u[i] = s[i]
      /\ u[Len(s) + 1] = e
      BY Added
<1> HIDE DEF u
<1>2. u \in Seq(Line) /\ Named(u)
      BY <1>1 DEF Named
<1> QED
    BY <1>2 DEF u

LEMMA BaseInit == Init => Base
<1> SUFFICES ASSUME Init PROVE Base
    OBVIOUS
<1>1. tier.faults \in Nat
      BY Family DEF Init
<1>2. row \in [Run -> [agent: RowState, skill: RowState]] /\ att \in [Run -> Attempt]
      BY DEF Init, RowState, Attempt
<1>3. execRow \in [status: {"running", "completed", "failed", "cancelled"},
                   terminal: BOOLEAN]
      BY DEF Init
<1>4. Named(buffer) /\ Len(flying) <= 1
      BY DEF Init, Named
<1>5. /\ log \in Seq(Line) /\ buffer \in Seq(Line) /\ flying \in Seq(Flight)
      /\ doomed \subseteq Run /\ open \subseteq Run
      BY DEF Init
<1>6. /\ graph \in {"tier", "after", "ended", "cancelled"} /\ tier \in Tiers
      /\ main \in {"stream", "noticed", "unwinding", "final", "failing", "over"}
      /\ req \in {"none", "kill", "wait", "elsewhere", "done"}
      /\ faults \in 0..tier.faults
      BY <1>1 DEF Init
<1>7. dropped \in BOOLEAN /\ terminal \in BOOLEAN /\ ended \in BOOLEAN /\ spoiled \in BOOLEAN
      BY DEF Init
<1>8. TypeOK
      BY <1>2, <1>3, <1>5, <1>6, <1>7 DEF TypeOK
<1> QED
    BY <1>4, <1>8 DEF Base

LEMMA BeginTyped ==
  ASSUME Base, NEW r \in Run, Begin(r)
  PROVE  Base'
BY DEF Base, TypeOK, Begin, To, Attempt, dbVars, Named

LEMMA OpenedTyped ==
  ASSUME NEW r \in Run, NEW n
  PROVE  Opened(r, n) \in [agent: RowState, skill: RowState]
BY DEF Opened, RowState

LEMMA ClosedTyped ==
  ASSUME Base, NEW r \in Run, NEW n
  PROVE  Closed(r, n) \in [agent: RowState, skill: RowState]
<1>1. row[r].agent \in RowState /\ row[r].skill \in RowState /\ att[r].status \in RowState
      BY DEF Base, TypeOK, RowState, Attempt
<1>2. "none" \in RowState
      BY DEF RowState
<1> QED
    BY <1>1, <1>2 DEF Closed

\* A write of the rows of a run is whole or has a fault.
LEMMA OpenedWrites ==
  ASSUME NEW r, Writes(r, Opened)
  PROVE  \E n \in 0..2 : /\ row' = [row EXCEPT ![r] = Opened(r, n)]
                         /\ \/ n = 2 /\ faults' = faults
                            \/ faults < tier.faults /\ faults' = faults + 1
<1>1. 2 \in 0..2 /\ \A n \in 0..1 : n \in 0..2
      OBVIOUS
<1> QED
    BY <1>1, Zenon DEF Writes, Fault

LEMMA ClosedWrites ==
  ASSUME NEW r, Writes(r, Closed)
  PROVE  \E n \in 0..2 : /\ row' = [row EXCEPT ![r] = Closed(r, n)]
                         /\ \/ n = 2 /\ faults' = faults
                            \/ faults < tier.faults /\ faults' = faults + 1
<1>1. 2 \in 0..2 /\ \A n \in 0..1 : n \in 0..2
      OBVIOUS
<1> QED
    BY <1>1, Zenon DEF Writes, Fault

\* A fault is within the bound.
LEMMA FaultsTyped ==
  ASSUME Base, faults' = faults \/ (faults < tier.faults /\ faults' = faults + 1)
  PROVE  faults' \in 0..tier.faults
<1>1. tier.faults \in Nat /\ faults \in 0..tier.faults
      BY Family DEF Base, TypeOK
<1> QED
    BY <1>1

LEMMA CreateTyped ==
  ASSUME Base, NEW r \in Run, Create(r)
  PROVE  Base'
<1>1. PICK n \in 0..2 : /\ row' = [row EXCEPT ![r] = Opened(r, n)]
                        /\ \/ n = 2 /\ faults' = faults
                           \/ faults < tier.faults /\ faults' = faults + 1
      BY OpenedWrites DEF Create
<1>2. row' \in [Run -> [agent: RowState, skill: RowState]] /\ faults' \in 0..tier.faults
      BY <1>1, OpenedTyped, FaultsTyped DEF Base, TypeOK
<1>3. att' \in [Run -> Attempt]
      BY DEF Create, To, Base, TypeOK, Attempt
<1>4. buffer' \in Seq(Line) /\ Named(buffer)'
  <2>1. buffer' = buffer \o <<StartOf(r)>> /\ StartOf(r) \in Line /\ StartOf(r).run \in Run
        BY Lines DEF Create, Emit, StartOf
  <2>2. buffer' \in Seq(Line) /\ Named(buffer')
        BY <2>1, NamedAdded DEF Base, TypeOK
  <2> QED
      BY <2>2 DEF Named
<1> QED
    BY <1>2, <1>3, <1>4 DEF Base, TypeOK, Create

\* A provider that ends, or is cancelled.
LEMMA ClosingTyped ==
  ASSUME Base, NEW r \in Run, NEW st \in Status,
         att' = [att EXCEPT ![r] = [pc |-> "close", status |-> st]],
         buffer' = buffer \o <<EndOf(r, st)>>, doomed' \subseteq Run,
         UNCHANGED <<tier, dbVars, graph, main, dropped, terminal, open, ended, flying,
                     req, faults, spoiled>>
  PROVE  Base'
<1>1. att' \in [Run -> Attempt]
      BY DEF Base, TypeOK, Attempt
<1>2. buffer' \in Seq(Line) /\ Named(buffer)'
  <2>1. EndOf(r, st) \in Line /\ EndOf(r, st).run \in Run
        BY Lines DEF EndOf
  <2>2. buffer' \in Seq(Line) /\ Named(buffer')
        BY <2>1, NamedAdded DEF Base, TypeOK
  <2> QED
      BY <2>2 DEF Named
<1> QED
    BY <1>1, <1>2 DEF Base, TypeOK, dbVars

LEMMA CloseTyped ==
  ASSUME Base, NEW r \in Run, Close(r)
  PROVE  Base'
<1>1. PICK n \in 0..2 : /\ row' = [row EXCEPT ![r] = Closed(r, n)]
                        /\ \/ n = 2 /\ faults' = faults
                           \/ faults < tier.faults /\ faults' = faults + 1
      BY ClosedWrites DEF Close
<1>2. row' \in [Run -> [agent: RowState, skill: RowState]] /\ faults' \in 0..tier.faults
      BY <1>1, ClosedTyped, FaultsTyped DEF Base, TypeOK
<1>3. att' \in [Run -> Attempt]
      BY DEF Close, To, Base, TypeOK, Attempt
<1> QED
    BY <1>2, <1>3 DEF Base, TypeOK, Close, Named

LEMMA UnwindTyped ==
  ASSUME Base, NEW r \in Run, UnwindQuietly(r)
  PROVE  Base'
<1>1. PICK n \in 0..2 :
        row' = [row EXCEPT ![r] = CASE att[r].pc = "create" -> Opened(r, n)
                                    [] att[r].pc = "close"  -> Closed(r, n)
                                    [] OTHER                -> @]
      BY Zenon DEF UnwindQuietly
<1>2. row' \in [Run -> [agent: RowState, skill: RowState]]
      BY <1>1, OpenedTyped, ClosedTyped DEF Base, TypeOK
<1>3. att' \in [Run -> Attempt]
      BY DEF UnwindQuietly, To, Base, TypeOK, Attempt
<1>4. doomed' \subseteq Run
      BY DEF UnwindQuietly, Base, TypeOK
<1> QED
    BY <1>2, <1>3, <1>4 DEF Base, TypeOK, UnwindQuietly, Named

LEMMA AttemptTyped ==
  ASSUME Base, NEW r \in Run, AttemptStep(r)
  PROVE  Base'
<1>1. CASE Ends(r)
  <2>1. "finished" \in Status /\ doomed' \subseteq Run
        BY <1>1 DEF Status, Ends, Base, TypeOK
  <2> QED
      BY <1>1, <2>1, ClosingTyped DEF Ends, Emit
<1>2. CASE UnwindProvider(r)
  <2>1. "cancelled" \in Status /\ doomed' \subseteq Run
        BY <1>2 DEF Status, UnwindProvider, Base, TypeOK
  <2> QED
      BY <1>2, <2>1, ClosingTyped DEF UnwindProvider, Emit, Farewell, ClosingAs
<1> QED
    BY <1>1, <1>2, BeginTyped, CreateTyped, CloseTyped, UnwindTyped DEF AttemptStep

\* What is on its way is one batch, and removing it leaves none.
LEMMA Flights ==
  ASSUME Base, NEW i \in DOMAIN flying
  PROVE  /\ i = 1 /\ flying = <<flying[i]>> /\ flying[i] \in Flight
         /\ RemoveAt(flying, i) = <<>> /\ Waits(flying[i]) \in Seq(Line)
         /\ Pending = Waits(flying[i])
<1>1. PICK b \in Flight : flying = <<b>>
      BY Lone
<1>2. i = 1 /\ flying[i] = b /\ flying # <<>>
      BY <1>1
<1>3. RemoveAt(flying, i) = <<>>
      BY <1>1, <1>2, TakenOut
<1>4. Waits(b) \in Seq(Line)
      BY DEF Waits, Flight
<1> QED
    BY <1>1, <1>2, <1>3, <1>4 DEF Pending

LEMMA CompleteTyped ==
  ASSUME Base
  PROVE  /\ buffer \o <<Complete>> \in Seq(Line) /\ Named(buffer \o <<Complete>>)
         /\ buffer \o <<Complete, Complete>> \in Seq(Line)
         /\ Named(buffer \o <<Complete, Complete>>)
<1>1. Complete \in Line /\ Complete.kind = "complete"
      BY Lines DEF Complete
<1>2. buffer \o <<Complete>> \in Seq(Line) /\ Named(buffer \o <<Complete>>)
      BY <1>1, NamedAdded DEF Base, TypeOK
<1>3. buffer \o <<Complete, Complete>> = (buffer \o <<Complete>>) \o <<Complete>>
      BY <1>1 DEF Base, TypeOK
<1>4. /\ (buffer \o <<Complete>>) \o <<Complete>> \in Seq(Line)
      /\ Named((buffer \o <<Complete>>) \o <<Complete>>)
      BY <1>1, <1>2, NamedAdded
<1> QED
    BY <1>2, <1>3, <1>4

LEMMA TakeTyped ==
  ASSUME Base, NEW by \in {"main", "spawned"}, TakeBuffer(by)
  PROVE  Base'
<1>1. /\ buffer \in Seq(Line) /\ Named(buffer) /\ open \subseteq Run /\ ended \in BOOLEAN
      BY DEF Base, TypeOK
<1>2. PICK a \in Seq(Line), o \in SUBSET Run, b \in BOOLEAN :
        Project(buffer) = [rows |-> a, open |-> o, ended |-> b]
      BY <1>1, ProjectTyped
<1> DEFINE f == [by |-> by, pc |-> "append", rows |-> a, terminal |-> terminal]
<1>3. flying' = <<f>> /\ open' = o /\ ended' = b /\ buffer' = <<>>
      BY <1>2 DEF TakeBuffer
<1>4. f \in Flight
      BY DEF Flight, Base, TypeOK
<1> HIDE DEF f
<1>5. flying' \in Seq(Flight) /\ Len(flying') <= 1 /\ buffer' \in Seq(Line)
      BY <1>3, <1>4
<1>6. Named(buffer)'
      BY <1>3 DEF Named
<1> QED
    BY <1>2, <1>3, <1>5, <1>6 DEF Base, TypeOK, TakeBuffer, dbVars

LEMMA StoredTyped ==
  ASSUME Base, NEW i \in DOMAIN flying, Stored(i)
  PROVE  Base'
<1>1. i = 1 /\ flying = <<flying[1]>> /\ flying[1] \in Flight
      BY Flights
<1>2. flying' = <<[flying[1] EXCEPT !.pc = "update"]>>
      BY <1>1 DEF Stored
<1>3. [flying[1] EXCEPT !.pc = "update"] \in Flight
      BY <1>1 DEF Flight
<1>4. flying' \in Seq(Flight) /\ Len(flying') <= 1
      BY <1>2, <1>3
<1>5. log' \in Seq(Line)
  <2>1. flying[1].rows \in Seq(Line) /\ log' = log \o flying[1].rows
        BY <1>1 DEF Stored, Flight
  <2> QED
      BY <2>1 DEF Base, TypeOK
<1> QED
    BY <1>4, <1>5 DEF Base, TypeOK, Stored, Named

LEMMA SnapshotTyped ==
  ASSUME Base, NEW i \in DOMAIN flying, SnapshotStored(i)
  PROVE  Base'
<1>1. flying' = <<>> /\ flying[i] \in Flight
      BY Flights DEF SnapshotStored
<1>2. flying' \in Seq(Flight) /\ Len(flying') <= 1
      BY <1>1
<1>3. execRow' \in [status: {"running", "completed", "failed", "cancelled"},
                    terminal: BOOLEAN]
      BY <1>1 DEF SnapshotStored, Base, TypeOK, Flight
<1> QED
    BY <1>2, <1>3 DEF Base, TypeOK, SnapshotStored, Named

LEMMA FlushFailsTyped ==
  ASSUME Base, NEW i \in DOMAIN flying, FlushFails(i)
  PROVE  Base'
<1>1. flying' = <<>>
      BY Flights DEF FlushFails
<1>2. flying' \in Seq(Flight) /\ Len(flying') <= 1
      BY <1>1
<1>3. faults' \in 0..tier.faults
      BY FaultsTyped DEF FlushFails, Fault
<1>4. buffer' \in Seq(Line) /\ Named(buffer)'
  <2>1. buffer' = buffer \/ buffer' = buffer \o <<Complete>>
        BY DEF FlushFails, Emit
  <2>2. buffer' \in Seq(Line) /\ Named(buffer')
        BY <2>1, CompleteTyped DEF Base, TypeOK
  <2> QED
      BY <2>2 DEF Named
<1>5. /\ main' \in {"stream", "noticed", "unwinding", "final", "failing", "over"}
      /\ dropped' \in BOOLEAN
      BY DEF FlushFails, Base, TypeOK
<1>6. spoiled' \in BOOLEAN
      BY DEF FlushFails
<1> QED
    BY <1>2, <1>3, <1>4, <1>5, <1>6 DEF Base, TypeOK, FlushFails, dbVars

LEMMA GraphEndsTyped ==
  ASSUME Base, GraphEnds
  PROVE  Base'
<1>1. faults' \in 0..tier.faults
      BY FaultsTyped DEF GraphEnds, Fault
<1>2. buffer' \in Seq(Line) /\ Named(buffer)'
  <2>1. buffer' = buffer \o <<Complete>> \/ buffer' = buffer \o <<Complete, Complete>>
        BY DEF GraphEnds, Emit
  <2>2. buffer' \in Seq(Line) /\ Named(buffer')
        BY <2>1, CompleteTyped
  <2> QED
      BY <2>2 DEF Named
<1>3. main' \in {"stream", "noticed", "unwinding", "final", "failing", "over"}
      BY DEF GraphEnds
<1> QED
    BY <1>1, <1>2, <1>3 DEF Base, TypeOK, GraphEnds, dbVars

LEMMA CancelGraphTyped ==
  ASSUME Base, CancelGraph
  PROVE  /\ graph' = "cancelled" /\ doomed' \subseteq Run
         /\ doomed' \subseteq doomed \cup Top \cup Child
<1>1. Awaited \subseteq Top
  <2>1. Safe \subseteq Top /\ \A i \in DOMAIN Serial : Serial[i] \in Top
        BY Family DEF Base, TypeOK, Safe, Serial, Top
  <2> QED
      BY <2>1 DEF Awaited, Turn
<1>2. \A s \in Awaited : Waiting(s) => Delegate[s] \in Child
      BY <1>1, Family DEF Waiting, Base, TypeOK, Delegate, Child, Top
<1>3. Top \subseteq Run /\ Child \subseteq Run
      BY Family DEF Base, TypeOK, Top, Child
<1>4. Reached \subseteq Top \cup Child
      BY <1>1, <1>2 DEF Reached
<1> QED
    BY <1>3, <1>4 DEF CancelGraph, Base, TypeOK

LEMMA CancelKillTyped ==
  ASSUME Base, CancelKill
  PROVE  Base'
<1>1. /\ graph' \in {"tier", "after", "ended", "cancelled"} /\ doomed' \subseteq Run
      BY CancelGraphTyped DEF CancelKill, Base, TypeOK
<1>2. /\ main' \in {"stream", "noticed", "unwinding", "final", "failing", "over"}
      /\ dropped' \in BOOLEAN /\ req' = "wait"
      BY DEF CancelKill, Base, TypeOK
<1>3. /\ flying' \in Seq(Flight) /\ Len(flying') <= 1
      /\ log' \in Seq(Line) /\ spoiled' \in BOOLEAN
  <2>1. CASE UNCHANGED <<flying, log, spoiled>>
        BY <2>1 DEF Base, TypeOK
  <2>2. CASE Interrupted
    <3>1. SUFFICES ASSUME NEW i \in DOMAIN flying,
                          flying' = RemoveAt(flying, i),
                          \/ log' = log \o Waits(flying[i]) /\ UNCHANGED spoiled
                          \/ spoiled' = (spoiled \/ Lost(i)) /\ UNCHANGED log
                   PROVE  /\ flying' \in Seq(Flight) /\ Len(flying') <= 1
                          /\ log' \in Seq(Line) /\ spoiled' \in BOOLEAN
          BY <2>1, <2>2 DEF Interrupted
    <3>2. flying' = <<>> /\ Waits(flying[i]) \in Seq(Line)
          BY <3>1, Flights
    <3>3. log' \in Seq(Line)
      <4>1. log \in Seq(Line)
            BY DEF Base, TypeOK
      <4>2. log \o Waits(flying[i]) \in Seq(Line)
            BY <3>2, <4>1
      <4> QED
          BY <3>1, <4>1, <4>2
    <3>4. spoiled' \in BOOLEAN
          BY <3>1 DEF Base, TypeOK
    <3> QED
        BY <3>2, <3>3, <3>4
  <2> QED
      BY <2>1, <2>2 DEF CancelKill
<1> QED
    BY <1>1, <1>2, <1>3 DEF Base, TypeOK, CancelKill, Named

LEMMA OverTyped ==
  ASSUME Base, NEW st \in {"completed", "failed", "cancelled"}, NEW final \in BOOLEAN,
         Over(st, final), dropped' \in BOOLEAN
  PROVE  Base'
<1>1. execRow' \in [status: {"running", "completed", "failed", "cancelled"},
                    terminal: BOOLEAN]
      BY DEF Over
<1> QED
    BY <1>1 DEF Base, TypeOK, Over, Named

\* Steps that touch neither attempts nor batches.
LEMMA OtherTyped ==
  ASSUME Base, Report \/ Notice \/ Noticed \/ Unwound \/ Final \/ FailStore \/ CancelWrite
               \/ CancelMark \/ Finalised
  PROVE  Base'
<1>1. CASE Report \/ Notice \/ Unwound \/ CancelMark
      BY <1>1 DEF Base, TypeOK, Report, Notice, Unwound, CancelMark, dbVars, Named
<1>2. CASE Final
      BY <1>2, OverTyped DEF Final, Base, TypeOK
<1>3. CASE FailStore
      BY <1>3, OverTyped DEF FailStore, Base, TypeOK
<1>4. CASE Noticed
      BY <1>4, OverTyped DEF Noticed, Base, TypeOK
<1>5. CASE CancelWrite
  <2>1. execRow' \in [status: {"running", "completed", "failed", "cancelled"},
                      terminal: BOOLEAN]
        BY <1>5 DEF CancelWrite
  <2> QED
      BY <1>5, <2>1 DEF Base, TypeOK, CancelWrite, Named
<1>6. CASE Finalised
      BY <1>6, CancelGraphTyped DEF Base, TypeOK, Finalised, dbVars, Named
<1> QED
    BY <1>1, <1>2, <1>3, <1>4, <1>5, <1>6

LEMMA BaseStep ==
  ASSUME Base, [Next]_vars
  PROVE  Base'
<1>1. CASE UNCHANGED vars
      BY <1>1 DEF vars, dbVars, Base, TypeOK, Named
<1>2. CASE Next
      BY <1>2, AttemptTyped, TakeTyped, StoredTyped, SnapshotTyped, FlushFailsTyped,
         GraphEndsTyped, CancelKillTyped, OtherTyped
      DEF Next, Progress, FlushStep, MainStep, CancelStep
<1> QED
    BY <1>1, <1>2

-----------------------------------------------------------------------------
(* What has been told *)

LEMMA WaitingTyped ==
  \A fl \in Seq(Flight) : (IF fl = <<>> THEN <<>> ELSE Waits(fl[1])) \in Seq(Line)
<1> SUFFICES ASSUME NEW fl \in Seq(Flight), fl # <<>>
             PROVE  Waits(fl[1]) \in Seq(Line)
    OBVIOUS
<1>1. fl[1] \in Flight
      OBVIOUS
<1> QED
    BY <1>1 DEF Waits, Flight

LEMMA ToldTyped ==
  ASSUME Base
  PROVE  /\ Told \in Seq(Line) /\ Pending \in Seq(Line)
         /\ log \in Seq(Line) /\ buffer \in Seq(Line) /\ log \o Pending \in Seq(Line)
<1>1. log \in Seq(Line) /\ buffer \in Seq(Line)
      BY DEF Base, TypeOK
<1>2. Pending \in Seq(Line)
  <2>1. CASE flying = <<>>
        BY <2>1 DEF Pending
  <2>2. CASE flying # <<>>
    <3>1. 1 \in DOMAIN flying
          BY <2>2, Lone
    <3> QED
        BY <3>1, Flights
  <2> QED
      BY <2>1, <2>2
<1>3. log \o Pending \in Seq(Line)
      BY <1>1, <1>2
<1> QED
    BY <1>1, <1>2, <1>3 DEF Told

\* The log and the buffer are parts of it.
LEMMA Parts ==
  ASSUME Base, Once(Told)
  PROVE  /\ Once(log) /\ Once(buffer) /\ Follows(buffer, Told)
         /\ (Nests(Told) => Nests(log))
<1>1. /\ Told = log \o (Pending \o buffer) /\ Pending \o buffer \in Seq(Line)
      /\ <<>> \in Seq(Line) /\ log \o <<>> = log /\ <<>> \o buffer = buffer
      BY ToldTyped DEF Told
<1>2. Follows(log, Told)
  <2>1. Follows(log, log) /\ Follows(<<>>, Pending \o buffer)
        BY ToldTyped, RepeatsSelf, RepeatsFollows, EmptyFollows
  <2>2. Follows(log \o <<>>, log \o (Pending \o buffer))
        BY <1>1, <2>1, ToldTyped, CatFollows
  <2> QED
      BY <1>1, <2>2
<1>3. Follows(buffer, Told)
  <2>1. Follows(buffer, buffer) /\ Follows(<<>>, log \o Pending)
        BY ToldTyped, RepeatsSelf, RepeatsFollows, EmptyFollows
  <2>2. Follows(<<>> \o buffer, (log \o Pending) \o buffer)
        BY <1>1, <2>1, ToldTyped, CatFollows
  <2> QED
      BY <1>1, <2>2 DEF Told
<1>4. Once(log) /\ Once(buffer)
      BY <1>2, <1>3, ToldTyped, FollowsOnce
<1>5. Nests(Told) => Nests(log)
      BY <1>1, ToldTyped, NestsPrefix
<1> QED
    BY <1>3, <1>4, <1>5

\* A nesting does not depend on the state but for the tier.
LEMMA SameNests ==
  ASSUME tier' = tier, Base, Base', Nests(Told')
  PROVE  Nests(Told)'
<1>1. Child' = Child /\ \A c : Parent(c)' = Parent(c)
      BY Parents
<1> QED
    BY <1>1 DEF Nests

LEMMA ToldNext ==
  ASSUME Base'
  PROVE  /\ Told' = (log' \o Pending') \o buffer' /\ Told' \in Seq(Line)
         /\ log' \in Seq(Line) /\ buffer' \in Seq(Line) /\ Pending' \in Seq(Line)
<1>1. log' \in Seq(Line) /\ buffer' \in Seq(Line) /\ flying' \in Seq(Flight)
      BY DEF Base, TypeOK
<1>2. Pending' \in Seq(Line)
      BY <1>1, WaitingTyped DEF Pending
<1>3. Told' = (log' \o Pending') \o buffer'
      BY DEF Told
<1> QED
    BY <1>1, <1>2, <1>3

\* The stream says the same.
LEMMA SameVoices ==
  ASSUME Base, Base', Voices, UNCHANGED <<tier, att, row, spoiled>>, Repeats(Told', Told)
  PROVE  Voices'
<1>1. Told \in Seq(Line) /\ Told' \in Seq(Line)
      BY ToldTyped, ToldNext
<1>2. Once(Told')
      BY <1>1, FollowsOnce, RepeatsFollows DEF Voices
<1>3. ~spoiled' => Nests(Told)'
      BY <1>1, RepeatsNests, SameNests DEF Voices
<1>4. \A r : (Started(Told', r) <=> Started(Told, r)) /\ (Finished(Told', r) <=> Finished(Told, r))
      BY RepeatsTold
<1>5. \A r, st : Says(Told', EndOf(r, st)) <=> Says(Told, EndOf(r, st))
      BY RepeatsSays DEF EndOf
<1>6. ASSUME NEW r \in Run PROVE Speaks(r)'
  <2>1. Speaks(r)
        BY DEF Voices
  <2> QED
      BY <1>4, <1>5, <2>1 DEF Speaks, Started, Finished, Says
<1>7. Once(Told)'
      BY <1>2 DEF Once
<1> QED
    BY <1>3, <1>6, <1>7 DEF Voices

\* Part of what was on its way is lost.
LEMMA LessVoices ==
  ASSUME Base, Base', Voices, UNCHANGED <<tier, att, row>>, spoiled', Follows(Told', Told)
  PROVE  Voices'
<1>1. Told \in Seq(Line) /\ Told' \in Seq(Line)
      BY ToldTyped, ToldNext
<1>2. Once(Told')
      BY <1>1, FollowsOnce DEF Voices
<1>4. \A r : (Started(Told', r) => Started(Told, r)) /\ (Finished(Told', r) => Finished(Told, r))
      BY FollowsSays
<1>6. ASSUME NEW r \in Run PROVE Speaks(r)'
  <2>1. Speaks(r)
        BY DEF Voices
  <2> QED
      BY <1>4, <2>1 DEF Speaks, Started, Finished
<1>7. Once(Told)'
      BY <1>2 DEF Once
<1> QED
    BY <1>6, <1>7 DEF Voices

LEMMA EmittedTold ==
  ASSUME Base, NEW x \in Seq(Line), log' = log, flying' = flying, buffer' = buffer \o x
  PROVE  Told' = Told \o x
<1>1. Pending' = Pending
      BY DEF Pending
<1>2. Told' = (log \o Pending) \o (buffer \o x)
      BY <1>1 DEF Told
<1>3. (log \o Pending) \o (buffer \o x) = ((log \o Pending) \o buffer) \o x
      BY ToldTyped
<1> QED
    BY <1>2, <1>3 DEF Told

\* Completes add nothing to what is said of runs.
LEMMA SilentAfter ==
  ASSUME NEW s \in Seq(Line), NEW x \in Seq(Line), Spoken(x) = {}
  PROVE  Repeats(s \o x, s)
<1>1. Repeats(s, s) /\ Repeats(x, <<>>)
      BY RepeatsSelf, SilentRepeats
<1>2. <<>> \in Seq(Line) /\ s \o <<>> = s
      OBVIOUS
<1>3. Repeats(s \o x, s \o <<>>)
      BY <1>1, <1>2, CatRepeats
<1> QED
    BY <1>2, <1>3

LEMMA Completes ==
  /\ <<Complete>> \in Seq(Line) /\ Spoken(<<Complete>>) = {}
  /\ <<Complete, Complete>> \in Seq(Line) /\ Spoken(<<Complete, Complete>>) = {}
<1>1. Complete \in Line /\ Complete.kind = "complete"
      BY Lines DEF Complete
<1> HIDE DEF Complete
<1> QED
    BY <1>1 DEF Spoken

LEMMA StoredTold ==
  ASSUME Base, NEW i \in DOMAIN flying, Stored(i)
  PROVE  Told' = Told
<1>1. i = 1 /\ flying = <<flying[1]>> /\ Pending = Waits(flying[1])
      BY Flights
<1>2. flying' = <<[flying[1] EXCEPT !.pc = "update"]>> /\ flying[1] \in Flight
      BY <1>1, Flights DEF Stored
<1>3. Pending' = <<>>
  <2>1. flying'[1].pc = "update" /\ flying' # <<>>
        BY <1>2 DEF Flight
  <2> QED
      BY <2>1 DEF Pending, Waits
<1>4. Pending = flying[1].rows /\ log' = log \o Pending
      BY <1>1 DEF Stored, Waits
<1>5. Told' = ((log \o Pending) \o <<>>) \o buffer
      BY <1>3, <1>4 DEF Told, Stored
<1>6. (log \o Pending) \o <<>> = log \o Pending
      BY ToldTyped
<1> QED
    BY <1>5, <1>6 DEF Told

LEMMA SnapshotTold ==
  ASSUME Base, NEW i \in DOMAIN flying, SnapshotStored(i)
  PROVE  Told' = Told
<1>1. flying' = <<>> /\ i = 1 /\ Pending = Waits(flying[1])
      BY Flights DEF SnapshotStored
<1>2. Pending = <<>> /\ Pending' = <<>>
      BY <1>1 DEF SnapshotStored, Waits, Pending
<1> QED
    BY <1>2 DEF Told, SnapshotStored

\* A batch that is removed without having been stored.
LEMMA DroppedTold ==
  ASSUME Base, NEW i \in DOMAIN flying, flying' = RemoveAt(flying, i), log' = log,
         NEW x \in Seq(Line), Spoken(x) = {}, buffer' = buffer \o x
  PROVE  /\ Follows(Told', Told)
         /\ ~Lost(i) => Repeats(Told', Told)
<1>1. flying' = <<>> /\ Pending = Waits(flying[i])
      BY Flights
<1>2. Pending' = <<>>
      BY <1>1 DEF Pending
<1>3. Told' = (log \o <<>>) \o (buffer \o x)
      BY <1>2 DEF Told
<1>4. /\ log \in Seq(Line) /\ buffer \in Seq(Line) /\ Pending \in Seq(Line)
      /\ <<>> \in Seq(Line) /\ buffer \o x \in Seq(Line)
      /\ log \o <<>> \in Seq(Line) /\ log \o Pending \in Seq(Line)
      BY ToldTyped
<1>5. Repeats(log, log) /\ Repeats(buffer \o x, buffer) /\ Follows(<<>>, Pending)
      BY <1>4, RepeatsSelf, SilentAfter, EmptyFollows
<1>6. Follows(log \o <<>>, log \o Pending)
      BY <1>4, <1>5, CatFollows, RepeatsFollows
<1>7. Follows((log \o <<>>) \o (buffer \o x), (log \o Pending) \o buffer)
      BY <1>4, <1>5, <1>6, CatFollows, RepeatsFollows
<1>8. ASSUME ~Lost(i) PROVE Repeats((log \o <<>>) \o (buffer \o x), (log \o Pending) \o buffer)
  <2>1. Pending = <<>>
        BY <1>1, <1>8 DEF Lost
  <2>2. Repeats(log \o <<>>, log \o Pending)
        BY <1>4, <2>1, RepeatsSelf
  <2> QED
      BY <1>4, <1>5, <2>2, CatRepeats
<1> QED
    BY <1>3, <1>7, <1>8 DEF Told

LEMMA TakenTold ==
  ASSUME Base, Voices, Spans, NEW by \in {"main", "spawned"}, TakeBuffer(by)
  PROVE  Repeats(Told', Told) /\ Spans'
<1>1. /\ buffer \in Seq(Line) /\ Named(buffer) /\ open \subseteq Run /\ ended \in BOOLEAN
      BY DEF Base, TypeOK
<1>2. Once(buffer) /\ Follows(buffer, Told)
      BY Parts DEF Voices
<1>3. PICK a \in Seq(Line), o \in SUBSET Run, b \in BOOLEAN :
        Project(buffer) = [rows |-> a, open |-> o, ended |-> b]
      BY <1>1, ProjectTyped
<1>4. /\ Repeats(a, buffer)
      /\ \A r : (r \in open \/ Started(buffer, r)) /\ ~Finished(buffer, r) => r \in o
      BY <1>1, <1>2, <1>3, ProjectRepeats DEF Spans
<1> DEFINE f == [by |-> by, pc |-> "append", rows |-> a, terminal |-> terminal]
<1>5. /\ flying = <<>> /\ flying' = <<f>> /\ open' = o /\ buffer' = <<>>
      /\ UNCHANGED <<log, att>>
      BY <1>3 DEF TakeBuffer, dbVars
<1>6. Pending = <<>> /\ Pending' = a
      BY <1>5 DEF Pending, Waits
<1>7. Told' = (log \o a) \o <<>> /\ Told = (log \o <<>>) \o buffer
      BY <1>5, <1>6 DEF Told
<1>8. log \in Seq(Line) /\ (log \o a) \o <<>> = log \o a /\ log \o <<>> = log
      BY ToldTyped
<1>9. Repeats(log \o a, log \o buffer)
      BY <1>1, <1>4, <1>8, RepeatsSelf, CatRepeats
<1>10. Spans'
  <2>1. \A r \in Run : att[r].pc = "provider" => r \in o
    <3> SUFFICES ASSUME NEW r \in Run, att[r].pc = "provider" PROVE r \in o
        OBVIOUS
    <3>1. ~Finished(Told, r)
          BY DEF Voices, Speaks
    <3>2. ~Finished(buffer, r)
          BY <1>2, <3>1, FollowsSays
    <3> QED
        BY <1>4, <3>2 DEF Spans
  <2> QED
      BY <1>5, <2>1 DEF Spans, Opens
<1> QED
    BY <1>7, <1>8, <1>9, <1>10

-----------------------------------------------------------------------------
(* What an attempt does to it *)

LEMMA Starters ==
  ASSUME Base, NEW r \in Run, MayBegin(r)
  PROVE  r \in Top \/ (r \in Child /\ att[Parent(r)].pc = "provider")
<1>1. Safe \subseteq Top /\ \A i \in DOMAIN Serial : Serial[i] \in Top
      BY Family DEF Base, TypeOK, Safe, Serial, Top
<1>2. Turn \subseteq DOMAIN Serial
      BY DEF Turn
<1> QED
    BY <1>1, <1>2 DEF MayBegin

LEMMA Families ==
  ASSUME Base
  PROVE  /\ Top \subseteq Run /\ Child \subseteq Run /\ Top \cap Child = {}
         /\ \A c \in Child : /\ Parent(c) \in Top /\ Parent(c) \in Run /\ Parent(c) # c
                             /\ Delegate[Parent(c)] = c /\ Delegate[Parent(c)] # None
         /\ \A r \in Top : Delegate[r] # None =>
              Delegate[r] \in Child /\ Parent(Delegate[r]) = r
<1>1. tier \in Tiers
      BY DEF Base, TypeOK
<1> QED
    BY <1>1, Family, Parents DEF Top, Child, Delegate

\* An attempt goes on without a word.
LEMMA QuietStream ==
  ASSUME Base, Base', Stream, NEW r \in Run, NEW pc \in {"create", "over"}, To(r, pc),
         att[r].pc \in {"idle", "create", "close"},
         pc = "create" => att[r].pc = "idle" /\ MayBegin(r),
         pc = "over" /\ att[r].pc = "idle" => r \in Top \cup Child,
         UNCHANGED <<tier, log, flying, buffer, open, spoiled>>, doomed' \subseteq doomed,
         \A u \in Run \ {r} : row'[u] = row[u],
         \A st \in {row'[r].agent, row'[r].skill} : st \in Status =>
           \/ st \in {row[r].agent, row[r].skill}
           \/ att[r].pc = "close" /\ st = att[r].status
  PROVE  Stream'
<1>1. Told' = Told
      BY DEF Told, Pending
<1>2. /\ \A u \in Run \ {r} : att'[u] = att[u]
      /\ att'[r].pc = pc /\ att'[r].status = att[r].status
      BY DEF To, Base, TypeOK, Attempt
<1>3. Voices'
  <2>1. Once(Told)' /\ (~spoiled' => Nests(Told)')
        BY <1>1, SameNests DEF Stream, Voices, Once
  <2>2. ASSUME NEW u \in Run, u # r PROVE Speaks(u)'
    <3>1. Speaks(u) /\ att'[u] = att[u] /\ row'[u] = row[u]
          BY <1>2, <2>2 DEF Stream, Voices
    <3> QED
        BY <1>1, <3>1 DEF Speaks, Started, Finished, Says
  <2>3. Speaks(r)'
    <3>1. Speaks(r)
          BY DEF Stream, Voices
    <3>2. /\ pc \in {"idle", "create"} => ~Started(Told, r)
          /\ pc \in {"idle", "create", "provider"} => ~Finished(Told, r)
          /\ ~spoiled /\ pc \in {"close", "over"} /\ Started(Told, r) => Finished(Told, r)
          BY <3>1 DEF Speaks
    <3>3. \A st \in {row'[r].agent, row'[r].skill} :
            st \in Status /\ ~spoiled => Says(Told, EndOf(r, st))
          BY <3>1 DEF Speaks
    <3> QED
        BY <1>1, <1>2, <3>2, <3>3 DEF Speaks, Started, Finished, Says
  <2> QED
      BY <2>1, <2>2, <2>3 DEF Voices
<1>4. Spans'
  <2>1. \A u \in Run : att'[u].pc = "provider" => att[u].pc = "provider"
        BY <1>2
  <2> QED
      BY <2>1 DEF Stream, Spans, Opens, Started
<1>5. Tree'
  <2>1. /\ Top' = Top /\ Child' = Child /\ \A c : Parent(c)' = Parent(c)
        BY Parents
  <2>2. ASSUME NEW u \in Run, u \notin Top \cup Child PROVE att'[u].pc = "idle"
    <3>1. att[u].pc = "idle"
          BY <2>2 DEF Stream, Tree
    <3>2. u # r
      <4>1. pc = "create" => r \in Top \cup Child
            BY Starters
      <4> QED
          BY <2>2, <3>1, <4>1
    <3> QED
        BY <1>2, <3>1, <3>2
  <2>3. ASSUME NEW u \in Run, u \in Child, att'[u].pc \notin {"idle", "over"}
        PROVE  att'[Parent(u)].pc = "provider"
    <3>1. Parent(u) \in Run /\ Parent(u) # u /\ u \notin Top
          BY <2>3, Families
    <3>2. att[Parent(u)].pc = "provider"
      <4>1. CASE u = r
            BY <1>2, <2>3, <3>1, <4>1, Starters
      <4>2. CASE u # r
            BY <1>2, <2>3, <4>2 DEF Stream, Tree, InFlight
      <4> QED
          BY <4>1, <4>2
    <3>3. Parent(u) # r
          BY <3>2
    <3> QED
        BY <1>2, <3>1, <3>2, <3>3
  <2> QED
      BY <2>1, <2>2, <2>3 DEF Stream, Tree, InFlight
<1> QED
    BY <1>3, <1>4, <1>5 DEF Stream

\* One more end, of a run that is open by then.
LEMMA OpensAdded ==
  ASSUME NEW s \in Seq(Line), NEW e \in Line, Opens(s),
         e.kind = "end" => e.run \in open \/ Started(s, e.run)
  PROVE  Opens(s \o <<e>>)
<1> DEFINE u == s \o <<e>>
           n == Len(s) + 1
<1>1. /\ DOMAIN u = DOMAIN s \cup {n} /\ u[n] = e
      /\ \A i \in DOMAIN s : u[i] = s[i] /\ i \in 1..n - 1
      /\ \A j \in DOMAIN s : \A i \in 1..j - 1 : i \in DOMAIN s
      BY Added
<1> HIDE DEF u, n
<1>2. ASSUME NEW j \in DOMAIN u, u[j].kind = "end"
      PROVE  u[j].run \in open \/ \E i \in 1..j - 1 : IsStart(u[i], u[j].run)
  <2>1. CASE j = n
        BY <1>1, <1>2, <2>1 DEF Started
  <2>2. CASE j \in DOMAIN s
        BY <1>1, <1>2, <2>2 DEF Opens
  <2> QED
      BY <1>1, <2>1, <2>2
<1>3. Opens(u)
      BY <1>2 DEF Opens
<1> QED
    BY <1>3 DEF u

\* What is new in the stream is of one run; the other attempts say what they said.
LEMMA OthersSpeak ==
  ASSUME Base, Stream, NEW r \in Run, NEW e \in Line, e.run = r, e.kind # "complete",
         Told' = Told \o <<e>>, spoiled' = spoiled,
         NEW u \in Run, u # r, att'[u] = att[u], row'[u] = row[u]
  PROVE  Speaks(u)'
<1>1. /\ \A x : Says(Told', x) <=> Says(Told, x) \/ x = e
      /\ Started(Told', u) <=> Started(Told, u)
      /\ Finished(Told', u) <=> Finished(Told, u)
      BY ToldTyped, AddedSays DEF IsStart, IsEnd
<1>2. Speaks(u)
      BY DEF Stream, Voices
<1>3. \A st : Says(Told', EndOf(u, st)) <=> Says(Told, EndOf(u, st))
  <2>1. \A st : EndOf(u, st).run = u
        BY DEF EndOf
  <2>2. \A st : EndOf(u, st) # e
        BY <2>1
  <2> QED
      BY <1>1, <2>2
<1>4. /\ att'[u].pc \in {"idle", "create"} => ~Started(Told', u)
      /\ att'[u].pc \in {"idle", "create", "provider"} => ~Finished(Told', u)
      /\ ~spoiled' /\ att'[u].pc = "provider" => Started(Told', u)
      /\ ~spoiled' /\ att'[u].pc \in {"close", "over"} /\ Started(Told', u)
           => Finished(Told', u)
      /\ att'[u].pc = "close" => att'[u].status \in Status
      BY <1>1, <1>2 DEF Speaks
<1>5. ~spoiled' /\ att'[u].pc = "close" => Says(Told', EndOf(u, att'[u].status))
      BY <1>2, <1>3 DEF Speaks
<1>6. \A st \in {row'[u].agent, row'[u].skill} :
        st \in Status /\ ~spoiled' => Says(Told', EndOf(u, st))
      BY <1>2, <1>3 DEF Speaks
<1> QED
    BY <1>4, <1>5, <1>6 DEF Speaks, Started, Finished, Says

\* A run starts.
LEMMA CreateStream ==
  ASSUME Base, Base', Stream, NEW r \in Run, Create(r)
  PROVE  Stream'
<1> DEFINE e == StartOf(r)
<1>1. /\ e \in Line /\ e.kind = "start" /\ e.run = r /\ <<e>> \in Seq(Line)
      BY Lines DEF StartOf
<1>2. /\ att[r].pc = "create" /\ att' = [att EXCEPT ![r].pc = "provider"]
      /\ buffer' = buffer \o <<e>>
      /\ UNCHANGED <<tier, log, doomed, open, flying, spoiled>>
      BY DEF Create, At, To, Emit
<1>3. /\ \A u \in Run \ {r} : att'[u] = att[u]
      /\ att'[r].pc = "provider" /\ att'[r].status = att[r].status
      BY <1>2 DEF Base, TypeOK, Attempt
<1>4. PICK n \in 0..2 : row' = [row EXCEPT ![r] = Opened(r, n)]
      BY OpenedWrites DEF Create
<1>5. /\ \A u \in Run \ {r} : row'[u] = row[u]
      /\ row'[r].agent \notin Status /\ row'[r].skill \notin Status
      BY <1>4 DEF Base, TypeOK, Opened, Status
<1>6. Told' = Told \o <<e>>
  <2> HIDE DEF e
  <2> QED
      BY <1>1, <1>2, EmittedTold
<1>7. r \in Top \cup Child /\ (r \in Child => att[Parent(r)].pc = "provider")
      BY <1>2 DEF Stream, Tree, InFlight
<1>8. Speaks(r) /\ Voices
      BY DEF Stream, Voices
<1>9. ~Started(Told, r) /\ ~Finished(Told, r)
      BY <1>2, <1>8 DEF Speaks
<1> HIDE DEF e
<1>10. /\ \A x : Says(Told', x) <=> Says(Told, x) \/ x = e
       /\ \A u : Started(Told', u) <=> Started(Told, u) \/ IsStart(e, u)
       /\ \A u : Finished(Told', u) <=> Finished(Told, u) \/ IsEnd(e, u)
       BY <1>1, <1>6, ToldTyped, AddedSays
<1>11. Once(Told')
  <2>1. \A i \in DOMAIN Told : ~(Told[i].kind = e.kind /\ Told[i].run = e.run)
        BY <1>1, <1>9 DEF Started, IsStart
  <2> QED
      BY <1>1, <1>6, <1>8, <2>1, ToldTyped, AddedOnce DEF Voices
<1>12. ASSUME ~spoiled PROVE Nests(Told')
  <2>1. Nests(Told)
        BY <1>8, <1>12 DEF Voices
  <2>2. \A u \in Run : ~IsEnd(e, u)
        BY <1>1 DEF IsEnd
  <2>3. \A u \in Child : IsStart(e, u) => Started(Told, Parent(u)) /\ ~Finished(Told, Parent(u))
    <3> SUFFICES ASSUME r \in Child
                 PROVE  Started(Told, Parent(r)) /\ ~Finished(Told, Parent(r))
        BY <1>1 DEF IsStart
    <3>1. Parent(r) \in Run /\ att[Parent(r)].pc = "provider"
          BY <1>7, Families
    <3> QED
        BY <1>8, <1>12, <3>1 DEF Voices, Speaks
  <2>4. \A u : ~IsEnd(e, u)
        BY <1>1 DEF IsEnd
  <2> QED
      BY <1>1, <1>6, <2>1, <2>2, <2>3, <2>4, ToldTyped, AddedNests
<1>13. Speaks(r)'
  <2>1. Started(Told', r) /\ ~Finished(Told', r)
        BY <1>1, <1>9, <1>10 DEF IsStart, IsEnd
  <2> QED
      BY <1>3, <1>5, <2>1 DEF Speaks, Started, Finished
<1>14. \A u \in Run : u # r => Speaks(u)'
       BY <1>1, <1>2, <1>3, <1>5, <1>6, OthersSpeak
<1>15. Voices'
  <2>1. ~spoiled' => Nests(Told)'
        BY <1>2, <1>12, SameNests
  <2>2. Once(Told)'
        BY <1>11 DEF Once
  <2> QED
      BY <1>13, <1>14, <2>1, <2>2 DEF Voices
<1>16. Spans'
  <2>1. buffer \in Seq(Line) /\ Spans
        BY ToldTyped DEF Stream
  <2>2. Opens(buffer')
        BY <1>1, <1>2, <2>1, OpensAdded DEF Spans
  <2>3. \A u : Started(buffer', u) <=> Started(buffer, u) \/ IsStart(e, u)
        BY <1>1, <1>2, <2>1, AddedSays
  <2>4. \A u \in Run : att'[u].pc = "provider" => u \in open \/ Started(buffer', u)
        BY <1>1, <1>3, <2>1, <2>3 DEF Spans, IsStart
  <2> QED
      BY <1>2, <2>2, <2>4 DEF Spans, Opens, Started
<1>17. Tree'
  <2>1. /\ Top' = Top /\ Child' = Child /\ \A c : Parent(c)' = Parent(c)
        BY <1>2, Parents
  <2>2. \A u \in Run : u \notin Top \cup Child => att'[u].pc = "idle"
        BY <1>3, <1>7 DEF Stream, Tree
  <2>3. ASSUME NEW u \in Run, u \in Child, att'[u].pc \notin {"idle", "over"}
        PROVE  att'[Parent(u)].pc = "provider"
    <3>1. Parent(u) \in Run
          BY <2>3, Families
    <3>2. att[Parent(u)].pc = "provider"
          BY <1>3, <1>7, <2>3 DEF Stream, Tree, InFlight
    <3> QED
        BY <1>2, <1>3, <3>1, <3>2
  <2> QED
      BY <1>2, <2>1, <2>2, <2>3 DEF Stream, Tree, InFlight
<1> QED
    BY <1>15, <1>16, <1>17 DEF Stream

\* A run ends, and says how.
LEMMA ClosingStream ==
  ASSUME Base, Base', Stream, NEW r \in Run, NEW st \in Status,
         att[r].pc = "provider", ~Waiting(r),
         att' = [att EXCEPT ![r] = [pc |-> "close", status |-> st]],
         buffer' = buffer \o <<EndOf(r, st)>>,
         UNCHANGED <<tier, row, log, open, flying, spoiled>>, doomed' \subseteq doomed
  PROVE  Stream'
<1> DEFINE e == EndOf(r, st)
<1>1. /\ e \in Line /\ e.kind = "end" /\ e.run = r /\ <<e>> \in Seq(Line)
      BY Lines DEF EndOf
<1>2. Told' = Told \o <<e>>
  <2>1. buffer' = buffer \o <<e>>
        OBVIOUS
  <2> HIDE DEF e
  <2> QED
      BY <1>1, <2>1, EmittedTold
<1>3. /\ \A u \in Run \ {r} : att'[u] = att[u]
      /\ att'[r].pc = "close" /\ att'[r].status = st
      BY DEF Base, TypeOK, Attempt
<1>4. Voices /\ \A u \in Run : Speaks(u)
      BY DEF Stream, Voices
<1>5. ~Finished(Told, r) /\ (~spoiled => Started(Told, r))
      BY <1>4 DEF Speaks
<1>6. \A c \in Child : Parent(c) = r => r \in Top /\ Delegate[r] = c /\ ~InFlight(c)
      BY Families DEF Waiting
<1> HIDE DEF e
<1>7. /\ \A x : Says(Told', x) <=> Says(Told, x) \/ x = e
      /\ \A u : Started(Told', u) <=> Started(Told, u) \/ IsStart(e, u)
      /\ \A u : Finished(Told', u) <=> Finished(Told, u) \/ IsEnd(e, u)
      BY <1>1, <1>2, ToldTyped, AddedSays
<1>8. Once(Told')
  <2>1. \A i \in DOMAIN Told : ~(Told[i].kind = e.kind /\ Told[i].run = e.run)
        BY <1>1, <1>5 DEF Finished, IsEnd
  <2> QED
      BY <1>1, <1>2, <1>4, <2>1, ToldTyped, AddedOnce DEF Voices
<1>9. ASSUME ~spoiled PROVE Nests(Told')
  <2>1. Nests(Told)
        BY <1>4, <1>9 DEF Voices
  <2>2. \A u \in Run : IsEnd(e, u) => Started(Told, u)
        BY <1>1, <1>5, <1>9 DEF IsEnd
  <2>3. \A u : ~IsStart(e, u)
        BY <1>1 DEF IsStart
  <2>4. ASSUME NEW c \in Child, IsEnd(e, Parent(c)), Started(Told, c)
        PROVE  Finished(Told, c)
    <3>1. c \in Run /\ att[c].pc \in {"idle", "over"}
          BY <1>1, <1>6, <2>4, Families DEF IsEnd, InFlight
    <3> QED
        BY <1>4, <1>9, <2>4, <3>1 DEF Speaks
  <2> QED
      BY <1>1, <1>2, <2>1, <2>2, <2>3, <2>4, ToldTyped, AddedNests
<1>10. Speaks(r)'
  <2>1. Finished(Told', r) /\ Says(Told', e)
        BY <1>1, <1>7 DEF IsEnd
  <2>2. \A x \in {row'[r].agent, row'[r].skill} :
          x \in Status /\ ~spoiled' => Says(Told', EndOf(r, x))
        BY <1>4, <1>7 DEF Speaks
  <2> QED
      BY <1>3, <2>1, <2>2 DEF Speaks, Started, Finished, Says, e
<1>11. \A u \in Run : u # r => Speaks(u)'
       BY <1>1, <1>2, <1>3, OthersSpeak
<1>12. Voices'
  <2>1. ~spoiled' => Nests(Told)'
        BY <1>9, SameNests
  <2>2. Once(Told)'
        BY <1>8 DEF Once
  <2> QED
      BY <1>10, <1>11, <2>1, <2>2 DEF Voices
<1>13. Spans'
  <2>1. buffer \in Seq(Line) /\ Spans /\ buffer' = buffer \o <<e>>
        BY ToldTyped DEF Stream, e
  <2>2. Opens(buffer')
        BY <1>1, <2>1, OpensAdded DEF Spans
  <2>3. \A u : Started(buffer, u) => Started(buffer', u)
        BY <1>1, <2>1, AddedSays
  <2>4. \A u \in Run : att'[u].pc = "provider" => u \in open \/ Started(buffer', u)
        BY <1>3, <2>1, <2>3 DEF Spans
  <2> QED
      BY <2>2, <2>4 DEF Spans, Opens, Started
<1>14. Tree'
  <2>1. /\ Top' = Top /\ Child' = Child /\ \A c : Parent(c)' = Parent(c)
        BY Parents
  <2>2. \A u \in Run : u \notin Top \cup Child => att'[u].pc = "idle"
        BY <1>3 DEF Stream, Tree
  <2>3. ASSUME NEW u \in Run, u \in Child, att'[u].pc \notin {"idle", "over"}
        PROVE  att'[Parent(u)].pc = "provider"
    <3>1. Parent(u) \in Run /\ Parent(u) # u
          BY <2>3, Families
    <3>2. att[u].pc \notin {"idle", "over"}
          BY <1>3, <2>3
    <3>3. att[Parent(u)].pc = "provider" /\ Parent(u) # r
          BY <1>6, <2>3, <3>2 DEF Stream, Tree, InFlight
    <3> QED
        BY <1>3, <3>1, <3>3
  <2> QED
      BY <2>1, <2>2, <2>3 DEF Stream, Tree, InFlight
<1> QED
    BY <1>12, <1>13, <1>14 DEF Stream

\* The steps of an attempt.
LEMMA AttemptStream ==
  ASSUME Base, Base', Stream, NEW r \in Run, AttemptStep(r)
  PROVE  Stream'
<1>1. CASE Begin(r)
  <2>1. PICK pc \in {"create", "over"} : To(r, pc) /\ (pc = "over" => r \in Top)
        BY <1>1 DEF Begin
  <2>2. att[r].pc = "idle" /\ MayBegin(r) /\ UNCHANGED <<tier, dbVars, flying, buffer, open, spoiled, doomed>>
        BY <1>1 DEF Begin, At
  <2> QED
      BY <2>1, <2>2, QuietStream DEF dbVars
<1>2. CASE Create(r)
      BY <1>2, CreateStream
<1>3. CASE Ends(r)
  <2>1. "finished" \in Status
        BY DEF Status
  <2> QED
      BY <1>3, <2>1, ClosingStream DEF Ends, At, Emit, dbVars
<1>4. CASE Close(r)
  <2>1. /\ att[r].pc = "close" /\ To(r, "over")
        /\ UNCHANGED <<tier, log, flying, buffer, open, spoiled, doomed>>
        BY <1>4 DEF Close, At
  <2>2. PICK n \in 0..2 : row' = [row EXCEPT ![r] = Closed(r, n)]
        BY <1>4, ClosedWrites DEF Close
  <2>3. \A u \in Run \ {r} : row'[u] = row[u]
        BY <2>2 DEF Base, TypeOK
  <2>4. \A st \in {row'[r].agent, row'[r].skill} : st \in Status =>
           st \in {row[r].agent, row[r].skill} \/ st = att[r].status
        BY <2>2 DEF Base, TypeOK, Closed, Status
  <2> QED
      BY <2>1, <2>3, <2>4, QuietStream
<1>5. CASE UnwindQuietly(r)
  <2>1. /\ r \in doomed /\ att[r].pc \in {"idle", "create", "close"} /\ To(r, "over")
        /\ UNCHANGED <<tier, log, flying, buffer, open, spoiled>> /\ doomed' \subseteq doomed
        BY <1>5 DEF UnwindQuietly, Base, TypeOK, Attempt
  <2>2. PICK n \in 0..2 :
          row' = [row EXCEPT ![r] = CASE att[r].pc = "create" -> Opened(r, n)
                                      [] att[r].pc = "close"  -> Closed(r, n)
                                      [] OTHER                -> @]
        BY <1>5 DEF UnwindQuietly
  <2>3. \A u \in Run \ {r} : row'[u] = row[u]
        BY <2>2 DEF Base, TypeOK
  <2>4. \/ att[r].pc = "create" /\ row'[r] = Opened(r, n)
        \/ att[r].pc = "close" /\ row'[r] = Closed(r, n)
        \/ att[r].pc = "idle" /\ row'[r] = row[r]
        BY <2>1, <2>2 DEF Base, TypeOK
  <2>5. \A st \in {row'[r].agent, row'[r].skill} : st \in Status =>
           \/ st \in {row[r].agent, row[r].skill}
           \/ att[r].pc = "close" /\ st = att[r].status
        BY <2>4 DEF Opened, Closed, Status
  <2>6. r \in Top \cup Child
        BY <2>1 DEF Stream, Tree
  <2> QED
      BY <2>1, <2>3, <2>5, <2>6, QuietStream
<1>6. CASE UnwindProvider(r)
  <2>1. "cancelled" \in Status
        BY DEF Status
  <2>2. doomed' \subseteq doomed
        BY <1>6 DEF UnwindProvider
  <2> QED
      BY <1>6, <2>1, <2>2, ClosingStream
      DEF UnwindProvider, Unwinds, Emit, Farewell, ClosingAs, dbVars
<1> QED
    BY <1>1, <1>2, <1>3, <1>4, <1>5, <1>6 DEF AttemptStep

-----------------------------------------------------------------------------
(* What the graph, the flushes, the loop and a cancellation do to it *)

\* A step that leaves the attempts alone.
LEMMA FlowStream ==
  ASSUME Base, Base', Stream, Voices', Spans', UNCHANGED <<tier, att>>,
         doomed' \subseteq doomed \cup Top \cup Child
  PROVE  Stream'
<1>1. /\ Top' = Top /\ Child' = Child /\ \A c : Parent(c)' = Parent(c)
      BY Parents
<1>2. Tree'
      BY <1>1 DEF Stream, Tree, InFlight
<1> QED
    BY <1>2 DEF Stream

\* Nothing but completes is emitted.
LEMMA SpansAfter ==
  ASSUME Base, Spans, UNCHANGED <<att, open>>,
         NEW x \in Seq(Line), Spoken(x) = {}, buffer' = buffer \o x
  PROVE  Spans'
<1> DEFINE s == buffer \o x
<1>1. /\ buffer \in Seq(Line) /\ Spoken(s) = Spoken(buffer)
      /\ \A i \in DOMAIN buffer : s[i] = buffer[i] /\ i \in DOMAIN s
      /\ \A j \in DOMAIN buffer : \A i \in 1..j - 1 : i \in DOMAIN buffer
  <2>1. buffer \in Seq(Line)
        BY DEF Base, TypeOK
  <2>2. /\ Spoken(s) = Spoken(buffer) \cup {Len(buffer) + j : j \in Spoken(x)}
        /\ \A i \in DOMAIN buffer : s[i] = buffer[i] /\ i \in DOMAIN s
        BY <2>1, CatSpoken
  <2>3. Spoken(s) = Spoken(buffer)
    <3> HIDE DEF s
    <3>1. {Len(buffer) + j : j \in Spoken(x)} = {}
          OBVIOUS
    <3> QED
        BY <2>2, <3>1
  <2> QED
      BY <2>1, <2>2, <2>3
<1>2. s = buffer'
      OBVIOUS
<1> HIDE DEF s
<1>3. \A j \in DOMAIN s : s[j].kind = "end" => j \in DOMAIN buffer
      BY <1>1 DEF Spoken
<1>4. Opens(s)
  <2> SUFFICES ASSUME NEW j \in DOMAIN s, s[j].kind = "end"
               PROVE  s[j].run \in open \/ \E i \in 1..j - 1 : IsStart(s[i], s[j].run)
      BY DEF Opens
  <2>1. j \in DOMAIN buffer /\ s[j] = buffer[j]
        BY <1>1, <1>3
  <2>2. \A i \in 1..j - 1 : s[i] = buffer[i]
        BY <1>1, <2>1
  <2> QED
      BY <2>1, <2>2 DEF Spans, Opens
<1>5. \A r : Started(buffer, r) => Started(s, r)
      BY <1>1 DEF Started
<1> QED
    BY <1>2, <1>4, <1>5 DEF Spans, Opens, Started

LEMMA Wordless == <<>> \in Seq(Line) /\ Spoken(<<>>) = {}
BY DEF Spoken

\* The stream stays as it is.
LEMMA StillStream ==
  ASSUME Base, Base', Stream, UNCHANGED <<tier, att, row, spoiled, open, buffer>>, Told' = Told,
         doomed' \subseteq doomed \cup Top \cup Child
  PROVE  Stream'
<1>1. buffer' = buffer \o <<>> /\ Told' \in Seq(Line)
      BY ToldTyped, ToldNext
<1>2. Repeats(Told', Told)
      BY <1>1, RepeatsSelf
<1>3. Voices'
      BY <1>2, SameVoices DEF Stream
<1>4. Spans'
      BY <1>1, Wordless, SpansAfter DEF Stream
<1> QED
    BY <1>3, <1>4, FlowStream

LEMMA FlushStream ==
  ASSUME Base, Base', Stream, FlushStep
  PROVE  Stream'
<1>1. CASE \E by \in {"main", "spawned"} : TakeBuffer(by)
  <2>1. PICK by \in {"main", "spawned"} : TakeBuffer(by)
        BY <1>1
  <2>2. Repeats(Told', Told) /\ Spans'
        BY <2>1, TakenTold DEF Stream
  <2>3. UNCHANGED <<tier, att, row, spoiled, doomed>>
        BY <2>1 DEF TakeBuffer, dbVars
  <2>4. Voices'
        BY <2>2, <2>3, SameVoices DEF Stream
  <2> QED
      BY <2>2, <2>3, <2>4, FlowStream
<1>2. CASE \E i \in DOMAIN flying : Stored(i) \/ SnapshotStored(i)
  <2>1. Told' = Told
        BY <1>2, StoredTold, SnapshotTold
  <2>2. UNCHANGED <<tier, att, row, spoiled, open, buffer, doomed>>
        BY <1>2 DEF Stored, SnapshotStored
  <2> QED
      BY <2>1, <2>2, StillStream
<1> QED
    BY <1>1, <1>2 DEF FlushStep

\* A batch is lost, or had been stored but for the snapshot.
LEMMA LostStream ==
  ASSUME Base, Base', Stream, NEW i \in DOMAIN flying, flying' = RemoveAt(flying, i),
         spoiled' = (spoiled \/ Lost(i)), NEW x \in Seq(Line), Spoken(x) = {},
         buffer' = buffer \o x, UNCHANGED <<tier, att, row, log, doomed, open>>
  PROVE  Stream'
<1>1. Follows(Told', Told) /\ (~Lost(i) => Repeats(Told', Told))
      BY DroppedTold
<1>2. Voices'
  <2>1. CASE Lost(i)
        BY <1>1, <2>1, LessVoices DEF Stream
  <2>2. CASE ~Lost(i)
    <3>1. spoiled' = spoiled
          BY <2>2 DEF Base, TypeOK
    <3> QED
        BY <1>1, <2>2, <3>1, SameVoices DEF Stream
  <2> QED
      BY <2>1, <2>2
<1>3. Spans'
      BY SpansAfter DEF Stream
<1> QED
    BY <1>2, <1>3, FlowStream

LEMMA FlushFailsStream ==
  ASSUME Base, Base', Stream, NEW i \in DOMAIN flying, FlushFails(i)
  PROVE  Stream'
<1>1. /\ flying' = RemoveAt(flying, i) /\ spoiled' = (spoiled \/ Lost(i))
      /\ UNCHANGED <<tier, att, row, log, doomed, open>>
      BY DEF FlushFails, dbVars
<1>2. CASE buffer' = buffer
  <2>1. buffer' = buffer \o <<>>
        BY <1>2, ToldTyped
  <2> QED
      BY <1>1, <2>1, Wordless, LostStream
<1>3. CASE buffer' = buffer \o <<Complete>>
      BY <1>1, <1>3, Completes, LostStream
<1> QED
    BY <1>2, <1>3 DEF FlushFails, Emit

LEMMA GraphEndsStream ==
  ASSUME Base, Base', Stream, GraphEnds
  PROVE  Stream'
<1>1. /\ UNCHANGED <<tier, att, row, log, flying, spoiled, open, doomed>>
      BY DEF GraphEnds, dbVars
<1>2. PICK x \in Seq(Line) : Spoken(x) = {} /\ buffer' = buffer \o x
      BY Completes DEF GraphEnds, Emit
<1>3. Told' = Told \o x
      BY <1>1, <1>2, EmittedTold
<1>4. Repeats(Told', Told)
      BY <1>2, <1>3, ToldTyped, SilentAfter
<1>5. Voices' /\ Spans'
      BY <1>1, <1>2, <1>4, SameVoices, SpansAfter DEF Stream
<1> QED
    BY <1>1, <1>5, FlowStream

LEMMA CancelKillStream ==
  ASSUME Base, Base', Stream, CancelKill
  PROVE  Stream'
<1>1. UNCHANGED <<tier, att, row, buffer, open>>
      BY DEF CancelKill
<1>2. doomed' \subseteq doomed \cup Top \cup Child
      BY CancelGraphTyped DEF CancelKill
<1>3. CASE UNCHANGED <<flying, log, spoiled>>
  <2>1. Told' = Told
        BY <1>1, <1>3 DEF Told, Pending
  <2> QED
      BY <1>1, <1>2, <1>3, <2>1, StillStream
<1>4. CASE Interrupted /\ UNCHANGED doomed /\ ~UNCHANGED <<flying, log, spoiled>>
  <2>1. PICK i \in DOMAIN flying :
          /\ flying' = RemoveAt(flying, i)
          /\ \/ log' = log \o Waits(flying[i]) /\ UNCHANGED spoiled
             \/ spoiled' = (spoiled \/ Lost(i)) /\ UNCHANGED log
        BY <1>4 DEF Interrupted
  <2>2. CASE log' = log \o Waits(flying[i]) /\ UNCHANGED spoiled
    <3>1. Pending = Waits(flying[i]) /\ flying' = <<>>
          BY <2>1, Flights
    <3>2. Pending' = <<>> /\ log' = log \o Pending
          BY <2>2, <3>1 DEF Pending
    <3>3. Told' = ((log \o Pending) \o <<>>) \o buffer
          BY <1>1, <3>2 DEF Told
    <3>4. (log \o Pending) \o <<>> = log \o Pending
          BY ToldTyped
    <3>5. Told' = Told
          BY <3>3, <3>4 DEF Told
    <3> QED
        BY <1>1, <1>2, <2>2, <3>5, StillStream
  <2>3. CASE spoiled' = (spoiled \/ Lost(i)) /\ UNCHANGED log
    <3>1. buffer' = buffer \o <<>>
          BY <1>1, ToldTyped
    <3> QED
        BY <1>1, <1>4, <2>1, <2>3, <3>1, Wordless, LostStream
  <2> QED
      BY <2>1, <2>2, <2>3
<1> QED
    BY <1>3, <1>4 DEF CancelKill

LEMMA OtherStream ==
  ASSUME Base, Base', Stream,
         Report \/ Notice \/ Noticed \/ Unwound \/ Final \/ FailStore \/ CancelWrite
           \/ CancelMark \/ Finalised
  PROVE  Stream'
<1>1. UNCHANGED <<tier, att, row, log, flying, buffer, open, spoiled>>
      BY DEF Report, Notice, Noticed, Unwound, Final, FailStore, CancelWrite, CancelMark,
             Finalised, Over, dbVars
<1>2. doomed' \subseteq doomed \cup Top \cup Child
      BY CancelGraphTyped DEF Report, Notice, Noticed, Unwound, Final, FailStore, CancelWrite,
         CancelMark, Finalised, Over
<1>3. Told' = Told
      BY <1>1 DEF Told, Pending
<1> QED
    BY <1>1, <1>2, <1>3, StillStream

LEMMA StreamStep ==
  ASSUME Base, Base', Stream, [Next]_vars
  PROVE  Stream'
<1>1. CASE UNCHANGED vars
  <2>1. Told' = Told /\ UNCHANGED <<tier, att, row, spoiled, open, buffer, doomed>>
        BY <1>1 DEF vars, dbVars, Told, Pending
  <2> QED
      BY <2>1, StillStream
<1>2. CASE Next
      BY <1>2, AttemptStream, FlushStream, FlushFailsStream, GraphEndsStream,
         CancelKillStream, OtherStream
      DEF Next, Progress, MainStep, CancelStep
<1> QED
    BY <1>1, <1>2

LEMMA StreamInit ==
  ASSUME Init
  PROVE  Stream
<1>1. Told = <<>>
      BY DEF Init, Told, Pending
<1>2. \A u \in Run : /\ att[u].pc = "idle" /\ row[u].agent = "none" /\ row[u].skill = "none"
      BY DEF Init
<1>3. Voices
      BY <1>1, <1>2 DEF Voices, Once, Nests, Speaks, Started, Finished, Status
<1>4. Spans /\ Tree
      BY <1>2 DEF Init, Spans, Opens, Tree, InFlight
<1> QED
    BY <1>3, <1>4 DEF Stream

-----------------------------------------------------------------------------
(* Nothing is left behind *)

\* What Tidy says of the rows.
RowsTidy ==
  faults = 0 /\ graph # "cancelled" => \A r \in Run :
    /\ att[r].pc = "idle" => row[r].agent = "none" /\ row[r].skill = "none"
    /\ att[r].pc = "over" => row[r].agent # "running" /\ row[r].skill # "running"

LEMMA TidyParts ==
  Tidy <=> /\ doomed # {} => graph = "cancelled"
           /\ graph \in {"after", "ended"} => TierOver
           /\ main = "stream" => graph # "ended"
           /\ main = "final" \/ execRow.status = "completed" => graph = "ended"
           /\ execRow.status = "completed" => main = "over"
           /\ RowsTidy
BY DEF Tidy, RowsTidy

\* Steps of the attempts.
LEMMA AttemptTidy ==
  ASSUME Base, Base', Stream, Tidy, NEW r \in Run, AttemptStep(r)
  PROVE  Tidy'
<1>1. /\ UNCHANGED <<tier, execRow, graph, main>> /\ doomed' \subseteq doomed
      /\ att[r].pc # "over" /\ \A u \in Run \ {r} : att'[u] = att[u] /\ row'[u] = row[u]
  <2>1. /\ UNCHANGED <<tier, execRow, graph, main>> /\ doomed' \subseteq doomed
        /\ att[r].pc # "over"
        BY DEF AttemptStep, Begin, Create, Ends, Close, UnwindQuietly, UnwindProvider, At, dbVars
  <2>2. \E a : att' = [att EXCEPT ![r] = a]
        BY DEF AttemptStep, Begin, Create, Ends, Close, UnwindQuietly, UnwindProvider, To
  <2>3. row' = row \/ \E a : row' = [row EXCEPT ![r] = a]
    <3>1. CASE Create(r)
          BY <3>1 DEF Create, Writes
    <3>2. CASE Close(r)
          BY <3>2 DEF Close, Writes
    <3>3. CASE UnwindQuietly(r)
          BY <3>3 DEF UnwindQuietly
    <3>4. CASE Begin(r) \/ Ends(r) \/ UnwindProvider(r)
          BY <3>4 DEF Begin, Ends, UnwindProvider, dbVars
    <3> QED
        BY <3>1, <3>2, <3>3, <3>4 DEF AttemptStep
  <2>4. DOMAIN att = Run /\ DOMAIN row = Run
        BY DEF Base, TypeOK
  <2>5. \A u \in Run \ {r} : att'[u] = att[u]
        BY <2>2, <2>4
  <2>6. \A u \in Run \ {r} : row'[u] = row[u]
        BY <2>3, <2>4
  <2> QED
      BY <2>1, <2>5, <2>6
<1>2. graph' \in {"after", "ended"} => TierOver'
  <2> SUFFICES ASSUME graph \in {"after", "ended"} PROVE TierOver'
      BY <1>1
  <2>1. TierOver /\ r \notin Top
        BY <1>1 DEF Tidy, TierOver
  <2>2. Top' = Top /\ Top \subseteq Run
        BY <1>1, Parents, Families
  <2>3. \A u \in Top : att'[u].pc = "over"
        BY <1>1, <2>1, <2>2 DEF TierOver
  <2> QED
      BY <2>2, <2>3 DEF TierOver
<1>3. RowsTidy'
  <2> SUFFICES ASSUME faults' = 0, graph # "cancelled"
               PROVE  /\ att'[r].pc = "idle" => row'[r].agent = "none" /\ row'[r].skill = "none"
                      /\ att'[r].pc = "over" => row'[r].agent # "running" /\ row'[r].skill # "running"
                      /\ faults = 0
      BY <1>1 DEF Tidy, RowsTidy
  <2>1. /\ faults \in Nat /\ tier.faults \in Nat /\ att[r] \in Attempt /\ DOMAIN att = Run
        /\ row[r] \in [agent: RowState, skill: RowState] /\ DOMAIN row = Run
        BY Family DEF Base, TypeOK
  <2>2. r \notin doomed
        BY DEF Tidy
  <2>3. CASE Begin(r)
    <3>1. /\ faults' = faults /\ row' = row /\ att[r].pc = "idle"
          /\ To(r, "create") \/ To(r, "over")
          BY <2>3 DEF Begin, At, dbVars
    <3>2. att'[r].pc \in {"create", "over"}
          BY <2>1, <3>1 DEF To, Attempt
    <3>3. row[r].agent = "none" /\ row[r].skill = "none"
          BY <3>1 DEF Tidy
    <3> QED
        BY <3>1, <3>2, <3>3
  <2>4. CASE Create(r)
    <3>1. att'[r].pc = "provider"
          BY <2>1, <2>4 DEF Create, To, Attempt
    <3>2. faults = 0
          BY <2>1, <2>4 DEF Create, Writes, Fault
    <3> QED
        BY <3>1, <3>2
  <2>5. CASE Ends(r) \/ UnwindProvider(r)
    <3>1. att'[r].pc = "close" /\ faults' = faults
          BY <2>1, <2>5 DEF Ends, UnwindProvider, dbVars
    <3> QED
        BY <3>1
  <2>6. CASE Close(r)
    <3>1. row' = [row EXCEPT ![r] = Closed(r, 2)] /\ faults' = faults
          BY <2>1, <2>6 DEF Close, Writes, Fault
    <3>2. att'[r].pc = "over"
          BY <2>1, <2>6 DEF Close, To, Attempt
    <3>3. att[r].pc = "close" /\ att[r].status \in Status
          BY <2>6 DEF Close, At, Stream, Voices, Speaks
    <3>4. row'[r].agent # "running" /\ row'[r].skill # "running"
          BY <2>1, <3>1, <3>3 DEF Closed, Status
    <3> QED
        BY <3>1, <3>2, <3>4
  <2>7. CASE UnwindQuietly(r)
        BY <2>2, <2>7 DEF UnwindQuietly
  <2> QED
      BY <2>3, <2>4, <2>5, <2>6, <2>7 DEF AttemptStep
<1> QED
    BY <1>1, <1>2, <1>3, TidyParts DEF Tidy, RowsTidy, TierOver

\* The others: the attempts and their rows stay, and faults only come.
LEMMA FlowTidy ==
  ASSUME Base, Base', Tidy, UNCHANGED <<tier, att, row>>,
         faults' = faults \/ faults' = faults + 1,
         graph' = graph \/ graph' = "cancelled" \/ (TierOver /\ graph # "cancelled")
  PROVE  (graph' \in {"after", "ended"} => TierOver') /\ RowsTidy'
<1>1. Top' = Top
      BY Parents
<1>2. graph' \in {"after", "ended"} => TierOver'
      BY <1>1 DEF Tidy, TierOver
<1>3. faults' = 0 => faults = 0
      BY Family DEF Base, TypeOK
<1> QED
    BY <1>2, <1>3 DEF Tidy, RowsTidy

LEMMA OtherTidy ==
  ASSUME Base, Base', Tidy,
         Report \/ Notice \/ Noticed \/ Unwound \/ Final \/ FailStore \/ CancelWrite
           \/ CancelMark \/ Finalised
  PROVE  Tidy'
<1>1. /\ UNCHANGED <<tier, att, row, faults>>
      /\ graph' = graph \/ graph' = "cancelled" \/ (TierOver /\ graph # "cancelled")
      BY DEF Report, Notice, Noticed, Unwound, Final, FailStore, CancelWrite, CancelMark,
             Finalised, Over, CancelGraph, dbVars
<1>2. (graph' \in {"after", "ended"} => TierOver') /\ RowsTidy'
      BY <1>1, FlowTidy
<1>3. /\ doomed' # {} => graph' = "cancelled"
      /\ main' = "stream" => graph' # "ended"
      /\ main' = "final" \/ execRow'.status = "completed" => graph' = "ended"
      /\ execRow'.status = "completed" => main' = "over"
  <2>1. CASE Report \/ Notice \/ Unwound \/ CancelMark
        BY <2>1 DEF Tidy, Report, Notice, Unwound, CancelMark, Streaming, dbVars
  <2>2. CASE Noticed \/ Final \/ FailStore
        BY <2>2 DEF Tidy, Noticed, Final, FailStore, Over
  <2>3. CASE CancelWrite \/ Finalised
        BY <2>3 DEF Tidy, CancelWrite, Finalised, CancelGraph, dbVars
  <2> QED
      BY <2>1, <2>2, <2>3
<1> QED
    BY <1>2, <1>3 DEF Tidy, RowsTidy, TierOver

LEMMA FlushTidy ==
  ASSUME Base, Base', Tidy,
         FlushStep \/ GraphEnds \/ CancelKill \/ \E i \in DOMAIN flying : FlushFails(i)
  PROVE  Tidy'
<1>1. /\ UNCHANGED <<tier, att, row>> /\ (faults' = faults \/ faults' = faults + 1)
      /\ graph' = graph \/ graph' = "cancelled" \/ (TierOver /\ graph # "cancelled")
      BY DEF FlushStep, TakeBuffer, Stored, SnapshotStored, GraphEnds, CancelKill, FlushFails,
             Fault, CancelGraph, Tidy, dbVars
<1>2. (graph' \in {"after", "ended"} => TierOver') /\ RowsTidy'
      BY <1>1, FlowTidy
<1>3. /\ doomed' # {} => graph' = "cancelled"
      /\ main' = "stream" => graph' # "ended"
      /\ main' = "final" \/ execRow'.status = "completed" => graph' = "ended"
      /\ execRow'.status = "completed" => main' = "over"
  <2>1. CASE FlushStep
    <3>1. UNCHANGED <<doomed, graph, main>> /\ execRow'.status = execRow.status
          BY <2>1 DEF FlushStep, TakeBuffer, Stored, SnapshotStored, dbVars, Base, TypeOK
    <3> QED
        BY <3>1 DEF Tidy
  <2>2. CASE GraphEnds
        BY <2>2 DEF Tidy, GraphEnds, Streaming, dbVars
  <2>3. CASE CancelKill
        BY <2>3 DEF Tidy, CancelKill, CancelGraph, Streaming
  <2>4. CASE \E i \in DOMAIN flying : FlushFails(i)
        BY <2>4 DEF Tidy, FlushFails, dbVars
  <2> QED
      BY <2>1, <2>2, <2>3, <2>4
<1> QED
    BY <1>2, <1>3 DEF Tidy, RowsTidy, TierOver

LEMMA TidyStep ==
  ASSUME Base, Base', Stream, Tidy, [Next]_vars
  PROVE  Tidy'
<1>1. CASE UNCHANGED vars
      BY <1>1 DEF vars, dbVars, Tidy, TierOver, Top
<1>2. CASE Next
      BY <1>2, AttemptTidy, OtherTidy, FlushTidy DEF Next, Progress, MainStep, CancelStep
<1> QED
    BY <1>1, <1>2

\* RunsInv is inductive.
LEMMA RunsInvHolds == Spec => []RunsInv
<1>1. Init => RunsInv
  <2> SUFFICES ASSUME Init PROVE RunsInv
      OBVIOUS
  <2>1. Tidy
        BY DEF Init, Tidy
  <2> QED
      BY <2>1, BaseInit, StreamInit DEF RunsInv
<1>2. RunsInv /\ [Next]_vars => RunsInv'
      BY BaseStep, StreamStep, TidyStep DEF RunsInv
<1> QED
    BY <1>1, <1>2, PTL DEF Spec

-----------------------------------------------------------------------------
(* Theorems *)

\* Every reachable state is well typed (the records and statuses of runtime/dispatch).
THEOREM RunsTypeCorrect == Spec => []TypeOK
<1>1. RunsInv => TypeOK
      BY DEF RunsInv, Base
<1> QED
    BY <1>1, RunsInvHolds, PTL

\* No more than one element.
LEMMA OneAtMost ==
  ASSUME NEW S, \A x, y \in S : x = y
  PROVE  Cardinality(S) <= 1
<1>1. CASE S = {}
      BY <1>1, FS_EmptySet
<1>2. CASE S # {}
  <2>1. PICK x \in S : S = {x}
        BY <1>2
  <2> QED
      BY <2>1, FS_Singleton
<1> QED
    BY <1>1, <1>2

\* In every execution the stream is a tree: a run starts and ends once at most, ends
\* after it started, and a delegated run lies inside the one that delegated it, however
\* steps, cancellations and faults interleave (invoke, run_child, PublicProjector).
THEOREM SpansNestedHolds == Spec => []SpansNested
<1>1. RunsInv => SpansNested
  <2> SUFFICES ASSUME RunsInv PROVE SpansNested
      OBVIOUS
  <2>1. /\ Once(log) /\ (~spoiled => Nests(log)) /\ log \in Seq(Line)
        BY Parts, ToldTyped DEF RunsInv, Stream, Voices
  <2>2. \A j \in DOMAIN log : \A i \in 1..j - 1 : i \in DOMAIN log /\ i < j
        BY <2>1
  <2> SUFFICES ASSUME NEW r \in Run
               PROVE  /\ Cardinality(Starts(r)) <= 1 /\ Cardinality(EndsOf(r)) <= 1
                      /\ ~spoiled => Before(Starts(r), EndsOf(r))
                      /\ ~spoiled /\ r \in Child =>
                           /\ Before(Starts(Parent(r)), Starts(r))
                           /\ Starts(r) # {} => Before(EndsOf(r), EndsOf(Parent(r)))
      BY DEF SpansNested
  <2>3. Cardinality(Starts(r)) <= 1
    <3>1. \A i, j \in Starts(r) : i = j
          BY <2>1 DEF Once, Starts
    <3> QED
        BY <3>1, OneAtMost
  <2>4. Cardinality(EndsOf(r)) <= 1
    <3>1. \A i, j \in EndsOf(r) : i = j
          BY <2>1 DEF Once, EndsOf
    <3> QED
        BY <3>1, OneAtMost
  <2>5. ASSUME ~spoiled PROVE Before(Starts(r), EndsOf(r))
        BY <2>1, <2>2, <2>5 DEF Nests, Before, Starts, EndsOf, IsStart, IsEnd
  <2>6. ASSUME ~spoiled, r \in Child PROVE Before(Starts(Parent(r)), Starts(r))
        BY <2>1, <2>2, <2>6 DEF Nests, Before, Starts, IsStart
  <2>7. ASSUME ~spoiled, r \in Child, Starts(r) # {}
        PROVE  Before(EndsOf(r), EndsOf(Parent(r)))
    <3>1. Started(log, r)
          BY <2>7 DEF Starts, Started, IsStart
    <3> QED
        BY <2>1, <2>2, <2>7, <3>1 DEF Nests, Before, EndsOf, IsEnd
  <2> QED
      BY <2>3, <2>4, <2>5, <2>6, <2>7
<1> QED
    BY <1>1, RunsInvHolds, PTL

LEMMA SaidEither ==
  ASSUME NEW s \in Seq(Line), NEW t \in Seq(Line), NEW e, e.kind # "complete", Says(s \o t, e)
  PROVE  Says(s, e) \/ Says(t, e)
<1> DEFINE u == s \o t
<1>1. /\ Spoken(u) = Spoken(s) \cup {Len(s) + j : j \in Spoken(t)}
      /\ \A i \in DOMAIN s : u[i] = s[i]
      /\ \A j \in DOMAIN t : u[Len(s) + j] = t[j]
      BY CatSpoken
<1>2. PICK k \in DOMAIN u : u[k] = e
      BY DEF Says
<1> HIDE DEF u
<1>3. k \in Spoken(u)
      BY <1>2 DEF Spoken
<1>4. CASE k \in Spoken(s)
      BY <1>1, <1>2, <1>4 DEF Says, Spoken
<1>5. CASE k \in {Len(s) + j : j \in Spoken(t)}
      BY <1>1, <1>2, <1>5 DEF Says, Spoken
<1> QED
    BY <1>1, <1>3, <1>4, <1>5

\* Whatever fails, a row that is closed says what the stream says; and when an execution
\* has completed and no write of a row failed, none of its rows is left running (invoke).
THEOREM RowsMatchHolds == Spec => []RowsMatchStream
<1>1. RunsInv => RowsMatchStream
  <2> SUFFICES ASSUME RunsInv PROVE RowsMatchStream
      OBVIOUS
  <2>1. Base /\ Voices /\ Tree /\ Tidy
        BY DEF RunsInv, Stream
  <2>2. ASSUME NEW e, e.kind # "complete", Says(Told, e)
        PROVE  e \in Said
    <3>1. Says(log, e) \/ Says(Pending, e) \/ Says(buffer, e)
          BY <2>1, <2>2, ToldTyped, SaidEither DEF Told
    <3>2. Says(Pending, e) => \E i \in DOMAIN flying : Says(flying[i].rows, e)
      <4> SUFFICES ASSUME Says(Pending, e) PROVE \E i \in DOMAIN flying : Says(flying[i].rows, e)
          OBVIOUS
      <4>1. flying # <<>>
            BY DEF Pending, Says
      <4>2. 1 \in DOMAIN flying
            BY <2>1, <4>1, Lone
      <4>3. Pending = flying[1].rows \/ Pending = <<>>
            BY <4>1 DEF Pending, Waits
      <4>4. Pending # <<>>
            BY DEF Says
      <4> QED
          BY <4>2, <4>3, <4>4
    <3> QED
        BY <3>1, <3>2 DEF Said, ToSet, Says
  <2>3. ASSUME NEW r \in Run, NEW st \in {row[r].agent, row[r].skill}, st \in Status, ~spoiled
        PROVE  EndOf(r, st) \in Said
    <3>1. Says(Told, EndOf(r, st))
          BY <2>1, <2>3 DEF Voices, Speaks
    <3>2. EndOf(r, st).kind # "complete"
          BY DEF EndOf
    <3> QED
        BY <2>2, <3>1, <3>2
  <2>4. ASSUME execRow.status = "completed", faults = 0, NEW r \in Run
        PROVE  "running" \notin {row[r].agent, row[r].skill}
    <3>1. TierOver /\ graph # "cancelled"
          BY <2>1, <2>4 DEF Tidy
    <3>2. att[r].pc \in {"idle", "over"}
      <4>1. r \in Top => att[r].pc = "over"
            BY <3>1 DEF TierOver
      <4>2. r \in Child => ~InFlight(r)
            BY <2>1, <3>1, Families DEF Tree, TierOver
      <4> QED
          BY <2>1, <4>1, <4>2 DEF Tree, InFlight
    <3> QED
        BY <2>1, <2>4, <3>1, <3>2 DEF Tidy
  <2> QED
      BY <2>3, <2>4 DEF RowsMatchStream
<1> QED
    BY <1>1, RunsInvHolds, PTL

-----------------------------------------------------------------------------
(* The last word                                                            *)

Completed(s) == \E i \in DOMAIN s : s[i].kind = "complete"

\* After a complete there are only completes; a complete is the last of all.
Closing(s) == \A i, j \in DOMAIN s : s[i].kind = "complete" /\ i < j => s[j].kind = "complete"
LastIn(s) == \A i \in DOMAIN s : s[i].kind = "complete" => i = Len(s)

\* The projector before and after it has let a complete through.
Ajar(a, o) == Projector(a, o, FALSE)
Shut(a, o) == Projector(a, o, TRUE)

LEMMA HeedsFirst ==
  ASSUME NEW a, NEW o, NEW e
  PROVE  /\ e.kind = "complete" => /\ Heeds(Ajar(a, o), e) = Shut(Append(a, e), o)
                                  /\ Heeds(Shut(a, o), e) = Shut(a, o)
         /\ e.kind \in {"start", "end"} =>
              \E q : Heeds(Ajar(a, o), e) = Ajar(a, o) \/ Heeds(Ajar(a, o), e) = Ajar(Append(a, e), q)
<1>1. CASE e.kind = "complete"
  <2>1. Heeds(Ajar(a, o), e) = Shut(Append(a, e), o)
        BY <1>1 DEF Heeds, Projector, Ajar, Shut
  <2>2. Heeds(Shut(a, o), e) = Shut(a, o)
        BY <1>1 DEF Heeds, Projector, Ajar, Shut
  <2> QED
      BY <1>1, <2>1, <2>2
<1>2. CASE e.kind = "start"
  <2>1. Heeds(Ajar(a, o), e) = Ajar(Append(a, e), o \cup {e.run})
        BY <1>2 DEF Heeds, Projector, Ajar
  <2> QED
      BY <1>2, <2>1
<1>3. CASE e.kind = "end"
  <2>1. e.run \in o => Heeds(Ajar(a, o), e) = Ajar(Append(a, e), o \ {e.run})
        BY <1>3 DEF Heeds, Projector, Ajar
  <2>2. e.run \notin o => Heeds(Ajar(a, o), e) = Ajar(a, o)
        BY <1>3 DEF Heeds, Projector, Ajar
  <2> QED
      BY <1>3, <2>1, <2>2
<1> QED
    BY <1>1, <1>2, <1>3

\* The projector lets one complete through, and nothing after it.
LEMMA ProjectLast ==
  ASSUME NEW batch \in Seq(Line), Closing(batch), ended \in BOOLEAN, ended => Spoken(batch) = {}
  PROVE  \E o : \E a \in Seq(Line) :
           \/ ~ended /\ ~Completed(a) /\ Project(batch) = Ajar(a, o)
           \/ /\ LastIn(a) /\ Project(batch) = Shut(a, o)
              /\ ended => a = <<>>
              /\ ended \/ Completed(batch)
<1> DEFINE n == Len(batch)
<1>1. PICK p : /\ p[0] = Begun
               /\ \A i \in 1..n : p[i] = Heeds(p[i - 1], batch[i])
               /\ Project(batch) = p[n]
      BY ProjectSteps
<1> DEFINE Ongoing(k) == \E o : \E a \in Seq(Line) :
                           ~ended /\ ~Completed(a) /\ p[k] = Ajar(a, o)
           Done(k)    == \E o : \E a \in Seq(Line) :
                           /\ LastIn(a) /\ p[k] = Shut(a, o)
                           /\ ended => a = <<>>
                           /\ ended \/ \E i \in 1..k : batch[i].kind = "complete"
           S == {k \in Nat : k <= n => Ongoing(k) \/ Done(k)}
<1>2. n \in Nat
      OBVIOUS
<1>3. 0 \in S
  <2>1. <<>> \in Seq(Line) /\ ~Completed(<<>>) /\ LastIn(<<>>)
        BY DEF Completed, LastIn
  <2>2. CASE ended
    <3>1. p[0] = Shut(<<>>, open)
          BY <1>1, <2>2 DEF Begun, Projector, Ajar, Shut
    <3> QED
        BY <2>1, <2>2, <3>1
  <2>3. CASE ~ended
    <3>1. p[0] = Ajar(<<>>, open)
          BY <1>1, <2>3 DEF Begun, Projector, Ajar, Shut
    <3> QED
        BY <2>1, <2>3, <3>1
  <2> QED
      BY <2>2, <2>3
<1>4. ASSUME NEW k \in Nat, k \in S PROVE k + 1 \in S
  <2> SUFFICES ASSUME k + 1 <= n
               PROVE  Ongoing(k + 1) \/ Done(k + 1)
    <3> HIDE DEF Ongoing, Done
    <3> QED
        OBVIOUS
  <2>1. Ongoing(k) \/ Done(k)
    <3> HIDE DEF Ongoing, Done
    <3> QED
        BY <1>2, <1>4
  <2> DEFINE e == batch[k + 1]
  <2>2. e \in Line /\ k + 1 \in DOMAIN batch /\ k + 1 \in 1..n
        BY <1>2, Prefix
  <2>3. p[k + 1] = Heeds(p[k], e)
    <3>1. p[k + 1] = Heeds(p[(k + 1) - 1], e)
          BY <1>1, <2>2
    <3>2. (k + 1) - 1 = k
          OBVIOUS
    <3> QED
        BY <3>1, <3>2
  <2>4. e.kind \in {"start", "end", "complete"}
        BY <2>2 DEF Line
  <2>5. CASE Ongoing(k)
    <3>1. PICK a, o :
            a \in Seq(Line) /\ ~ended /\ ~Completed(a) /\ p[k] = Ajar(a, o)
          BY <2>5
    <3> HIDE DEF e
    <3>2. /\ Append(a, e) \in Seq(Line) /\ Len(Append(a, e)) = Len(a) + 1
          /\ DOMAIN Append(a, e) = DOMAIN a \cup {Len(a) + 1}
          /\ \A i \in DOMAIN a : Append(a, e)[i] = a[i]
          /\ Append(a, e)[Len(a) + 1] = e
      <4>1. a \in Seq(Line)
            BY <3>1
      <4>2. a \o <<e>> = Append(a, e)
            BY <2>2, <4>1, Added
      <4>3. Len(Append(a, e)) = Len(a) + 1
            BY <2>2, <4>1
      <4> QED
          BY <2>2, <4>1, <4>2, <4>3, Added
    <3>3. CASE e.kind = "complete"
      <4>1. p[k + 1] = Shut(Append(a, e), o)
            BY <2>3, <3>1, <3>3, HeedsFirst
      <4>2. LastIn(Append(a, e))
            BY <3>1, <3>2 DEF LastIn, Completed
      <4>3. \E i \in 1..k + 1 : batch[i].kind = "complete"
            BY <3>3 DEF e
      <4> QED
          BY <3>1, <3>2, <4>1, <4>2, <4>3
    <3>4. CASE e.kind # "complete"
      <4>1. PICK q : p[k + 1] = Ajar(a, o) \/ p[k + 1] = Ajar(Append(a, e), q)
            BY <2>3, <2>4, <3>1, <3>4, HeedsFirst
      <4>2. ~Completed(Append(a, e))
            BY <3>1, <3>2, <3>4 DEF Completed
      <4> QED
          BY <3>1, <3>2, <4>1, <4>2
    <3> QED
        BY <3>3, <3>4
  <2>6. CASE Done(k)
    <3>1. PICK a, o :
            /\ a \in Seq(Line) /\ LastIn(a) /\ p[k] = Shut(a, o)
            /\ ended => a = <<>>
            /\ ended \/ \E i \in 1..k : batch[i].kind = "complete"
          BY <2>6
    <3>2. e.kind = "complete"
      <4>1. CASE ended
            BY <2>2, <4>1 DEF Spoken
      <4>2. CASE ~ended
        <5>1. PICK i \in 1..k : batch[i].kind = "complete"
              BY <3>1, <4>2
        <5>2. i \in DOMAIN batch /\ i < k + 1
              BY <1>2
        <5> QED
            BY <2>2, <5>1, <5>2 DEF Closing
      <4> QED
          BY <4>1, <4>2
    <3>3. p[k + 1] = Shut(a, o)
      <4> HIDE DEF e
      <4> QED
          BY <2>3, <3>1, <3>2, HeedsFirst
    <3>4. ended \/ \E i \in 1..k + 1 : batch[i].kind = "complete"
          BY <3>2
    <3> QED
        BY <3>1, <3>3, <3>4
  <2> QED
      BY <2>1, <2>5, <2>6
<1>5. n \in S
  <2> HIDE DEF S
  <2> QED
      BY <1>2, <1>3, <1>4, SetInduction
<1>6. Ongoing(n) \/ Done(n)
  <2> HIDE DEF Ongoing, Done
  <2> QED
      BY <1>2, <1>5
<1>7. (\E i \in 1..n : batch[i].kind = "complete") => Completed(batch)
      BY DEF Completed
<1> QED
    BY <1>1, <1>6, <1>7

\* What an execution that has ended leaves: nothing more to flush.
Settled ==
  /\ main = "final" => terminal
  /\ main = "failing" /\ ~dropped => graph = "ended"
  /\ execRow.status = "completed" \/ (execRow.status = "failed" /\ ~dropped) =>
       /\ main = "over" /\ graph = "ended"
       /\ execRow.terminal /\ buffer = <<>> /\ flying = <<>>

\* What the flushes have seen: the stream, and what is on its way to it.
Flown == log \o Pending

LastWord ==
  ~dropped =>
    /\ Completed(buffer) => graph = "ended"
    /\ Closing(buffer)
    /\ ended => graph = "ended" /\ Spoken(buffer) = {}
    /\ Completed(Flown) => ended
    /\ LastIn(Flown)

\* Nobody is at work when the graph has joined its tier.
LEMMA NobodyWorks ==
  ASSUME Base, Stream, Tidy, graph \in {"after", "ended"}, NEW r \in Run
  PROVE  att[r].pc \in {"idle", "over"} /\ ~AttemptStep(r)
<1>1. TierOver /\ doomed = {}
      BY DEF Tidy
<1>2. att[r].pc \in {"idle", "over"} /\ (r \in Top => att[r].pc = "over")
  <2>1. r \in Top => att[r].pc = "over"
        BY <1>1 DEF TierOver
  <2>2. r \in Child => ~InFlight(r)
        BY <1>1, Families DEF Stream, Tree, TierOver
  <2> QED
      BY <2>1, <2>2 DEF Stream, Tree, InFlight
<1>3. ~Begin(r)
  <2> SUFFICES ASSUME att[r].pc = "idle", MayBegin(r) PROVE FALSE
      BY DEF Begin, At
  <2>1. r \in Child /\ att[Parent(r)].pc = "provider"
        BY <1>2, Starters
  <2> QED
      BY <1>1, <2>1, Families DEF TierOver
<1> QED
    BY <1>1, <1>2, <1>3
    DEF AttemptStep, Create, Ends, Close, UnwindQuietly, UnwindProvider, Unwinds, At

\* What an attempt leaves alone, and what it emits.
LEMMA AttemptEmits ==
  ASSUME NEW r \in Run, AttemptStep(r)
  PROVE  /\ UNCHANGED <<execRow, log, graph, main, dropped, terminal, ended, flying>>
         /\ \/ buffer' = buffer
            \/ buffer' = buffer \o <<StartOf(r)>>
            \/ \E st \in Status : buffer' = buffer \o <<EndOf(r, st)>>
<1>1. UNCHANGED <<execRow, log, graph, main, dropped, terminal, ended, flying>>
      BY DEF AttemptStep, Begin, Create, Ends, Close, UnwindQuietly, UnwindProvider, dbVars
<1>2. "finished" \in Status /\ "cancelled" \in Status
      BY DEF Status
<1>3. \/ buffer' = buffer
      \/ buffer' = buffer \o <<StartOf(r)>>
      \/ \E st \in Status : buffer' = buffer \o <<EndOf(r, st)>>
      BY <1>2 DEF AttemptStep, Begin, Create, Ends, Close, UnwindQuietly, UnwindProvider,
             Emit, Farewell
<1> QED
    BY <1>1, <1>3

LEMMA SettledStep ==
  ASSUME RunsInv, Settled, [Next]_vars
  PROVE  Settled'
<1>1. Base /\ Stream /\ Tidy
      BY DEF RunsInv
<1>2. CASE UNCHANGED vars
      BY <1>2 DEF vars, dbVars, Settled
<1>3. CASE \E r \in Run : AttemptStep(r)
  <2>1. PICK r \in Run : AttemptStep(r)
        BY <1>3
  <2>2. graph \notin {"after", "ended"}
        BY <1>1, <2>1, NobodyWorks
  <2> QED
      BY <2>1, <2>2, AttemptEmits DEF Settled
<1>4. CASE FlushStep
  <2>1. flying # <<>> \/ buffer # <<>>
        BY <1>4 DEF FlushStep, TakeBuffer
  <2>2. /\ UNCHANGED <<main, terminal, dropped, graph>>
        /\ execRow'.status = execRow.status
        BY <1>1, <1>4 DEF FlushStep, TakeBuffer, Stored, SnapshotStored, dbVars, Base, TypeOK
  <2> QED
      BY <2>1, <2>2 DEF Settled
<1>5. CASE \E i \in DOMAIN flying : FlushFails(i)
  <2>1. PICK i \in DOMAIN flying : FlushFails(i)
        BY <1>5
  <2>2. flying # <<>>
        BY <2>1
  <2> QED
      BY <2>1, <2>2 DEF Settled, FlushFails, dbVars
<1>6. CASE GraphEnds
      BY <1>1, <1>6 DEF Settled, GraphEnds, Streaming, dbVars
<1>7. CASE Final
      BY <1>1, <1>7 DEF Settled, Tidy, Final, Over, Flushed
<1>8. CASE FailStore
      BY <1>1, <1>8 DEF Settled, Tidy, FailStore, Over, Flushed
<1>9. CASE Noticed
      BY <1>9 DEF Settled, Noticed, Over
<1>10. CASE Report
      BY <1>10 DEF Settled, Report, dbVars
<1>11. CASE Notice \/ CancelMark
      BY <1>11 DEF Settled, Notice, Streaming, CancelMark, dbVars
<1>12. CASE Unwound
      BY <1>12 DEF Settled, Unwound, dbVars
<1>13. CASE CancelWrite
      BY <1>13 DEF Settled, CancelWrite
<1>14. CASE Finalised
      BY <1>14 DEF Settled, Finalised, CancelGraph, dbVars
<1>15. CASE CancelKill
  <2>1. CASE main = "over"
        BY <1>15, <2>1 DEF Settled, CancelKill, Streaming
  <2>2. CASE main # "over"
        BY <1>15, <2>2 DEF Settled, CancelKill, Streaming
  <2> QED
      BY <2>1, <2>2
<1> QED
    BY <1>2, <1>3, <1>4, <1>5, <1>6, <1>7, <1>8, <1>9, <1>10, <1>11, <1>12, <1>13, <1>14,
       <1>15
    DEF Next, Progress, MainStep, CancelStep

LEMMA CatDomain ==
  ASSUME NEW s \in Seq(Line), NEW t \in Seq(Line)
  PROVE  /\ s \o t \in Seq(Line) /\ Len(s) \in Nat /\ Len(t) \in Nat /\ DOMAIN s = 1..Len(s)
         /\ DOMAIN t = 1..Len(t) /\ DOMAIN (s \o t) = 1..Len(s) + Len(t)
         /\ Len(s \o t) = Len(s) + Len(t)
         /\ \A i \in DOMAIN s : (s \o t)[i] = s[i] /\ i \in DOMAIN (s \o t)
         /\ \A i \in DOMAIN (s \o t) : i \notin DOMAIN s =>
              i - Len(s) \in DOMAIN t /\ (s \o t)[i] = t[i - Len(s)]
         /\ \A i \in DOMAIN t : Len(s) + i \in DOMAIN (s \o t) /\ (s \o t)[Len(s) + i] = t[i]
<1>1. /\ s \o t \in Seq(Line) /\ Len(s) \in Nat /\ Len(t) \in Nat /\ DOMAIN s = 1..Len(s)
      /\ DOMAIN t = 1..Len(t) /\ DOMAIN (s \o t) = 1..Len(s) + Len(t)
      /\ Len(s \o t) = Len(s) + Len(t)
      OBVIOUS
<1>2. \A i \in DOMAIN s : (s \o t)[i] = s[i] /\ i \in DOMAIN (s \o t)
      OBVIOUS
<1>3. \A i \in DOMAIN (s \o t) : i \notin DOMAIN s =>
        i - Len(s) \in DOMAIN t /\ (s \o t)[i] = t[i - Len(s)]
      OBVIOUS
<1>4. \A i \in DOMAIN t : Len(s) + i \in DOMAIN (s \o t) /\ (s \o t)[Len(s) + i] = t[i]
      OBVIOUS
<1> QED
    BY <1>1, <1>2, <1>3, <1>4

LEMMA CatCompleted ==
  ASSUME NEW s \in Seq(Line), NEW t \in Seq(Line)
  PROVE  Completed(s \o t) <=> Completed(s) \/ Completed(t)
<1> DEFINE u == s \o t
<1>1. /\ \A i \in DOMAIN s : u[i] = s[i] /\ i \in DOMAIN u
      /\ \A i \in DOMAIN u : i \notin DOMAIN s => i - Len(s) \in DOMAIN t /\ u[i] = t[i - Len(s)]
      /\ \A i \in DOMAIN t : Len(s) + i \in DOMAIN u /\ u[Len(s) + i] = t[i]
      BY CatDomain
<1> HIDE DEF u
<1>2. Completed(u) <=> Completed(s) \/ Completed(t)
      BY <1>1 DEF Completed
<1> QED
    BY <1>2 DEF u

\* Completes at the end of a stream that was closing; an event where none is.
LEMMA CatClosing ==
  ASSUME NEW s \in Seq(Line), NEW t \in Seq(Line)
  PROVE  /\ Closing(s) /\ Spoken(t) = {} => Closing(s \o t)
         /\ ~Completed(s) /\ ~Completed(t) => Closing(s \o t)
         /\ Spoken(s) = {} /\ Spoken(t) = {} => Spoken(s \o t) = {}
<1> DEFINE u == s \o t
<1>1. /\ \A i \in DOMAIN s : u[i] = s[i] /\ i \in DOMAIN u /\ i \in Nat
      /\ \A i \in DOMAIN u : i \in Nat
      /\ \A i \in DOMAIN u : i \notin DOMAIN s => i - Len(s) \in DOMAIN t /\ u[i] = t[i - Len(s)]
      /\ \A j \in DOMAIN s, i \in DOMAIN u : i < j => i \in DOMAIN s
      BY CatDomain
<1>2. ~Completed(s) /\ ~Completed(t) => ~Completed(u)
      BY CatCompleted
<1> HIDE DEF u
<1>3. Closing(s) /\ Spoken(t) = {} => Closing(u)
      BY <1>1 DEF Closing, Spoken
<1>4. ~Completed(u) => Closing(u)
      BY DEF Closing, Completed
<1>5. Spoken(s) = {} /\ Spoken(t) = {} => Spoken(u) = {}
      BY <1>1 DEF Spoken
<1> QED
    BY <1>2, <1>3, <1>4, <1>5 DEF u

\* The last of the second part is the last of all, if the first has none.
LEMMA CatLast ==
  ASSUME NEW s \in Seq(Line), NEW t \in Seq(Line)
  PROVE  /\ ~Completed(s) /\ LastIn(t) => LastIn(s \o t)
         /\ LastIn(s \o t) => LastIn(s)
         /\ LastIn(s \o t) /\ Completed(s) => t = <<>>
<1> DEFINE u == s \o t
<1>1. /\ Len(s) \in Nat /\ Len(t) \in Nat /\ DOMAIN s = 1..Len(s) /\ DOMAIN t = 1..Len(t)
      /\ Len(u) = Len(s) + Len(t)
      /\ \A i \in DOMAIN s : u[i] = s[i] /\ i \in DOMAIN u /\ i \in Nat
      /\ \A i \in DOMAIN u : i \in Nat
      /\ \A i \in DOMAIN u : i \notin DOMAIN s => i - Len(s) \in DOMAIN t /\ u[i] = t[i - Len(s)]
      BY CatDomain
<1> HIDE DEF u
<1>2. ~Completed(s) /\ LastIn(t) => LastIn(u)
      BY <1>1 DEF Completed, LastIn
<1>3. LastIn(u) => LastIn(s)
      BY <1>1 DEF LastIn
<1>4. LastIn(u) /\ Completed(s) => Len(t) = 0
      BY <1>1 DEF LastIn, Completed
<1>5. Len(t) = 0 => t = <<>>
      OBVIOUS
<1> QED
    BY <1>2, <1>3, <1>4, <1>5 DEF u

\* A step after which nothing more has flown, and nothing but completes is emitted.
LEMMA SameWord ==
  ASSUME Base, LastWord, ~dropped' => ~dropped, ended' = ended,
         buffer' = buffer, Flown' = Flown \/ Flown' = log,
         ~dropped' /\ graph = "ended" => graph' = "ended"
  PROVE  LastWord'
<1>1. LastIn(Flown) => LastIn(log)
      BY ToldTyped, CatLast DEF Flown
<1>2. Completed(log) => Completed(Flown)
      BY ToldTyped, CatCompleted DEF Flown
<1> QED
    BY <1>1, <1>2 DEF LastWord, Closing, Completed, LastIn, Spoken

LEMMA AttemptWord ==
  ASSUME Base, Stream, Tidy, LastWord, NEW r \in Run, AttemptStep(r)
  PROVE  LastWord'
<1>1. /\ UNCHANGED <<log, graph, dropped, ended, flying>>
      /\ \/ buffer' = buffer
         \/ buffer' = buffer \o <<StartOf(r)>>
         \/ \E st \in Status : buffer' = buffer \o <<EndOf(r, st)>>
      BY AttemptEmits
<1>2. graph # "ended"
      BY NobodyWorks
<1>3. Flown' = Flown
      BY <1>1 DEF Flown, Pending
<1>4. CASE buffer' = buffer
      BY <1>1, <1>3, <1>4, SameWord
<1>5. ASSUME NEW e \in Line, e.kind # "complete", buffer' = buffer \o <<e>>
      PROVE  LastWord'
  <2> SUFFICES ASSUME ~dropped PROVE LastWord'
      BY <1>1 DEF LastWord
  <2>1. ~Completed(buffer) /\ ~ended /\ ~Completed(Flown)
        BY <1>2 DEF LastWord
  <2>2. <<e>> \in Seq(Line) /\ ~Completed(<<e>>) /\ buffer \in Seq(Line)
        BY <1>5, ToldTyped DEF Completed
  <2>3. ~Completed(buffer')
        BY <1>5, <2>1, <2>2, CatCompleted
  <2>4. Closing(buffer')
        BY <2>3 DEF Closing, Completed
  <2>5. LastIn(Flown)
        BY DEF LastWord
  <2> QED
      BY <1>1, <1>3, <2>1, <2>3, <2>4, <2>5 DEF LastWord, Closing, Completed, LastIn
<1>6. StartOf(r) \in Line /\ StartOf(r).kind # "complete"
      BY Lines DEF StartOf
<1>7. \A st \in Status : EndOf(r, st) \in Line /\ EndOf(r, st).kind # "complete"
      BY Lines DEF EndOf
<1> QED
    BY <1>1, <1>4, <1>5, <1>6, <1>7

LEMMA TakeWord ==
  ASSUME Base, LastWord, NEW by \in {"main", "spawned"}, TakeBuffer(by)
  PROVE  LastWord'
<1> SUFFICES ASSUME ~dropped PROVE LastWord'
    BY DEF TakeBuffer, LastWord
<1>1. /\ flying = <<>> /\ buffer' = <<>> /\ ended' = Project(buffer).ended
      /\ flying' = Append(flying, [by |-> by, pc |-> "append", rows |-> Project(buffer).rows,
                                   terminal |-> terminal])
      /\ UNCHANGED <<log, graph, dropped>>
      BY DEF TakeBuffer, dbVars
<1>2. Pending = <<>> /\ Pending' = Project(buffer).rows
      BY <1>1 DEF Pending, Waits
<1>3. log \in Seq(Line) /\ buffer \in Seq(Line) /\ Flown = log /\ Flown' = log \o Project(buffer).rows
      BY <1>1, <1>2, ToldTyped DEF Flown
<1>4. /\ Closing(buffer) /\ ended \in BOOLEAN /\ (ended => Spoken(buffer) = {})
      /\ (Completed(log) => ended) /\ LastIn(log)
      /\ (ended \/ Completed(buffer) => graph = "ended")
      BY <1>3 DEF LastWord, Base, TypeOK
<1>5. PICK o : \E a \in Seq(Line) :
        \/ ~ended /\ ~Completed(a) /\ Project(buffer) = Ajar(a, o)
        \/ /\ LastIn(a) /\ Project(buffer) = Shut(a, o)
           /\ ended => a = <<>>
           /\ ended \/ Completed(buffer)
      BY <1>3, <1>4, ProjectLast
<1>6. PICK a \in Seq(Line) :
        \/ ~ended /\ ~Completed(a) /\ Project(buffer) = Ajar(a, o)
        \/ /\ LastIn(a) /\ Project(buffer) = Shut(a, o)
           /\ ended => a = <<>>
           /\ ended \/ Completed(buffer)
      BY <1>5
<1>7. Project(buffer).rows = a
      BY <1>6 DEF Ajar, Shut, Projector
<1>8. Flown' = log \o a
      BY <1>3, <1>7
<1>9. ~Completed(buffer') /\ Closing(buffer') /\ Spoken(buffer') = {}
      BY <1>1 DEF Completed, Closing, Spoken
<1>10. CASE ~ended /\ ~Completed(a) /\ Project(buffer) = Ajar(a, o)
  <2>1. ~ended'
        BY <1>1, <1>10 DEF Ajar, Projector
  <2>2. ~Completed(Flown')
        BY <1>3, <1>4, <1>8, <1>10, CatCompleted
  <2> QED
      BY <1>9, <2>1, <2>2 DEF LastWord, Completed, Closing, LastIn
<1>11. CASE /\ LastIn(a) /\ Project(buffer) = Shut(a, o)
            /\ ended => a = <<>>
            /\ ended \/ Completed(buffer)
  <2>1. ended' /\ graph' = "ended"
        BY <1>1, <1>4, <1>11 DEF Shut, Projector
  <2>2. LastIn(Flown')
    <3>1. CASE ended
          BY <1>3, <1>4, <1>8, <1>11, <3>1
    <3>2. CASE ~ended
          BY <1>3, <1>4, <1>8, <1>11, <3>2, CatLast
    <3> QED
        BY <3>1, <3>2
  <2> QED
      BY <1>9, <2>1, <2>2 DEF LastWord, Completed, Closing, LastIn, Spoken
<1> QED
    BY <1>6, <1>10, <1>11

LEMMA GraphEndsWord ==
  ASSUME Base, LastWord, GraphEnds
  PROVE  LastWord'
<1>1. /\ UNCHANGED <<log, flying, dropped, ended>> /\ graph = "after" /\ graph' = "ended"
      BY DEF GraphEnds, dbVars
<1>2. PICK x \in Seq(Line) : Spoken(x) = {} /\ buffer' = buffer \o x
      BY Completes DEF GraphEnds, Emit
<1>3. Flown' = Flown
      BY <1>1 DEF Flown, Pending
<1> SUFFICES ASSUME ~dropped PROVE LastWord'
    BY <1>1 DEF LastWord
<1>4. Closing(buffer) /\ ~ended /\ ~Completed(Flown)
      BY <1>1 DEF LastWord
<1>5. Closing(buffer')
      BY <1>2, <1>4, ToldTyped, CatClosing
<1> QED
    BY <1>1, <1>3, <1>4, <1>5 DEF LastWord, Completed, Closing, LastIn

LEMMA FlushWord ==
  ASSUME Base, LastWord, NEW i \in DOMAIN flying, Stored(i) \/ SnapshotStored(i) \/ FlushFails(i)
  PROVE  LastWord'
<1>1. CASE Stored(i)
  <2>1. i = 1 /\ flying' = <<[flying[1] EXCEPT !.pc = "update"]>> /\ flying[1] \in Flight
        /\ Pending = Waits(flying[1]) /\ flying[1].pc = "append" /\ log' = log \o flying[1].rows
    <3>1. i = 1 /\ flying = <<flying[1]>> /\ flying[1] \in Flight /\ Pending = Waits(flying[1])
          BY Flights
    <3> QED
        BY <1>1, <3>1 DEF Stored
  <2>2. flying' # <<>> /\ flying'[1].pc = "update"
        BY <2>1 DEF Flight
  <2>3. Pending' = <<>> /\ log' = Flown
        BY <2>1, <2>2 DEF Pending, Waits, Flown
  <2>4. Flown' = Flown
        BY <2>3, ToldTyped DEF Flown
  <2> QED
      BY <1>1, <2>4, SameWord DEF Stored
<1>2. CASE SnapshotStored(i)
  <2>1. flying' = <<>> /\ log' = log
        BY <1>2, Flights DEF SnapshotStored
  <2>2. Flown' = log
        BY <2>1, ToldTyped DEF Flown, Pending
  <2> QED
      BY <1>2, <2>2, SameWord DEF SnapshotStored
<1>3. CASE FlushFails(i)
  <2>1. flying' = <<>> /\ UNCHANGED <<log, graph, ended>>
        BY <1>3, Flights DEF FlushFails, dbVars
  <2>2. Flown' = log
        BY <2>1, ToldTyped DEF Flown, Pending
  <2>3. CASE buffer' = buffer /\ dropped' = dropped
        BY <2>1, <2>2, <2>3, SameWord
  <2>4. CASE dropped'
        BY <2>4 DEF LastWord
  <2> QED
      BY <1>3, <2>3, <2>4 DEF FlushFails
<1> QED
    BY <1>1, <1>2, <1>3

LEMMA OtherWord ==
  ASSUME Base, Tidy, LastWord,
         Report \/ Notice \/ Noticed \/ Unwound \/ Final \/ FailStore \/ CancelWrite
           \/ CancelMark \/ Finalised \/ CancelKill
  PROVE  LastWord'
<1>1. CASE dropped'
      BY <1>1 DEF LastWord
<1>2. CASE ~dropped'
  <2>1. ~dropped /\ UNCHANGED <<log, flying, buffer, ended>>
    <3>1. CASE CancelKill
          BY <1>2, <3>1 DEF CancelKill
    <3>2. CASE ~CancelKill
          BY <1>2, <3>2 DEF Report, Notice, Noticed, Unwound, Final, FailStore, CancelWrite,
             CancelMark, Finalised, Over, CancelGraph, dbVars
    <3> QED
        BY <3>1, <3>2
  <2>2. graph = "ended" => graph' = "ended"
    <3>1. CASE CancelKill
          BY <1>2, <3>1 DEF CancelKill, Streaming, Tidy
    <3>2. CASE ~CancelKill
          BY <1>2, <3>2 DEF Report, Notice, Noticed, Unwound, Final, FailStore, CancelWrite,
             CancelMark, Finalised, Over, dbVars
    <3> QED
        BY <3>1, <3>2
  <2>3. Flown' = Flown
        BY <2>1 DEF Flown, Pending
  <2> QED
      BY <2>1, <2>2, <2>3, SameWord
<1> QED
    BY <1>1, <1>2

LEMMA WordStep ==
  ASSUME RunsInv, LastWord, [Next]_vars
  PROVE  LastWord'
<1>1. Base /\ Stream /\ Tidy
      BY DEF RunsInv
<1>2. CASE UNCHANGED vars
  <2>1. UNCHANGED <<log, flying, buffer, ended, dropped, graph>>
        BY <1>2 DEF vars, dbVars
  <2>2. Flown' = Flown
        BY <2>1 DEF Flown, Pending
  <2> QED
      BY <1>1, <2>1, <2>2, SameWord
<1>3. CASE Next
      BY <1>1, <1>3, AttemptWord, TakeWord, GraphEndsWord, FlushWord, OtherWord
      DEF Next, Progress, FlushStep, MainStep, CancelStep
<1> QED
    BY <1>2, <1>3

LEMMA EndInvHolds == Spec => [](RunsInv /\ Settled /\ LastWord)
<1>1. Init => Settled /\ LastWord
  <2> SUFFICES ASSUME Init PROVE Settled /\ LastWord
      OBVIOUS
  <2>1. Flown = <<>> /\ buffer = <<>> /\ ~ended
        BY DEF Init, Flown, Pending
  <2>2. LastWord
        BY <2>1 DEF LastWord, Completed, Closing, LastIn
  <2>3. Settled
        BY DEF Init, Settled
  <2> QED
      BY <2>2, <2>3
<1>2. RunsInv /\ (Settled /\ LastWord) /\ [Next]_vars => (Settled /\ LastWord)'
      BY SettledStep, WordStep
<1> QED
    BY <1>1, <1>2, RunsInvHolds, PTL DEF Spec

\* The stored snapshot of an execution that completed, or failed without leaving its
\* graph behind, is terminal: no flush in flight can write an older one over it
\* (the flushes and the terminal store of the adapter).
THEOREM FinalSnapshotHolds == Spec => []FinalSnapshot
<1>1. Settled => FinalSnapshot
      BY DEF Settled, FinalSnapshot
<1> QED
    BY <1>1, EndInvHolds, PTL

\* Unless its graph was left behind, a completed execution has said its last word:
\* complete is told once, after it nothing, and every run that started has ended.
THEOREM CompleteLastHolds == Spec => []CompleteLast
<1>1. RunsInv /\ LastWord => CompleteLast
  <2> SUFFICES ASSUME RunsInv, LastWord, ~dropped, NEW i \in DOMAIN log,
                      log[i].kind = "complete"
               PROVE  /\ i = Len(log)
                      /\ ~spoiled => \A r \in Run : Starts(r) # {} => EndsOf(r) # {}
      BY DEF CompleteLast
  <2>1. Base /\ Stream /\ Tidy /\ Voices
        BY DEF RunsInv, Stream
  <2>2. Completed(log) /\ Completed(Flown) /\ LastIn(Flown)
        BY <2>1, ToldTyped, CatCompleted DEF LastWord, Flown, Completed
  <2>3. LastIn(log) /\ Pending = <<>>
        BY <2>1, <2>2, ToldTyped, CatLast DEF Flown
  <2>4. graph = "ended" /\ Spoken(buffer) = {}
        BY <2>2 DEF LastWord
  <2>5. ASSUME ~spoiled, NEW r \in Run, Starts(r) # {} PROVE EndsOf(r) # {}
    <3>1. Told = log \o buffer /\ log \in Seq(Line) /\ buffer \in Seq(Line)
          BY <2>1, <2>3, ToldTyped DEF Told
    <3>2. Started(Told, r)
      <4>1. PICK j \in DOMAIN log : IsStart(log[j], r)
            BY <2>5 DEF Starts, IsStart
      <4>2. j \in DOMAIN (log \o buffer) /\ (log \o buffer)[j] = log[j]
            BY <3>1, CatDomain
      <4> QED
          BY <3>1, <4>1, <4>2 DEF Started
    <3>3. att[r].pc = "over"
      <4>1. att[r].pc \in {"idle", "over"}
            BY <2>1, <2>4, NobodyWorks
      <4> QED
          BY <2>1, <3>2, <4>1 DEF Voices, Speaks
    <3>4. Finished(Told, r)
          BY <2>1, <2>5, <3>2, <3>3 DEF Voices, Speaks
    <3>5. PICK k \in DOMAIN Told : IsEnd(Told[k], r)
          BY <3>4 DEF Finished
    <3>6. ~Says(buffer, Told[k]) /\ Told[k].kind # "complete"
          BY <2>4, <3>5 DEF Says, Spoken, IsEnd
    <3>7. Says(log, Told[k])
      <4>1. Says(Told, Told[k])
            BY DEF Says
      <4> QED
          BY <3>1, <3>6, <4>1, SaidEither
    <3> QED
        BY <3>5, <3>7 DEF Says, EndsOf, IsEnd
  <2> QED
      BY <2>3, <2>5 DEF LastIn
<1> QED
    BY <1>1, EndInvHolds, PTL
=============================================================================
