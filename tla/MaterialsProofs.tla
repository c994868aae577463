-------------------------- MODULE MaterialsProofs --------------------------
(***************************************************************************)
(* What is served, what the learner's files show of it, and what the       *)
(* player of a deck shows, for every set of attempts, pages, projections   *)
(* and requests and every bound.                                           *)
(***************************************************************************)
EXTENDS Materials, WorkspaceFiles, LectureDeck, SequenceTheorems, FiniteSetTheorems, TLAPS

-----------------------------------------------------------------------------
(* The workspace: shapes *)

Worker == Projection \cup Request

\* Where projections and requests can be.
Doing     == {"finding", "saving", "inserting", "updating"}
AtPc      == {"idle", "waiting", "purging"} \cup Doing
RequestPc == {"idle", "adding", "replacing", "deleting", "purging", "over"}

WorkRecord == [pc : AtPc \cup RequestPc, at : Process, page : Page \cup {Nothing},
               id : Id \cup {"none"}, key : Nat, old : Nat, name : Name]

RowShaped(i, r) ==
    /\ i \in Id
    /\ {"key", "name", "edited"} \subseteq DOMAIN r
    /\ r.key \in Nat /\ r.name \in Name
    /\ r.hash \in Page \cup {Nothing}

Shapes ==
    /\ served \in Page \cup {Nothing}
    /\ used \in Nat
    /\ job \in [Worker -> WorkRecord]
    /\ \A p \in Projection :
         job[p].pc \in AtPc /\ (job[p].pc \in {"saving", "inserting"} => job[p].id \in Id)
    /\ \A u \in Request : job[u].pc \in RequestPc
    /\ \A i \in DOMAIN rows : RowShaped(i, rows[i])
    /\ missed \in BOOLEAN /\ crossed \in BOOLEAN

-----------------------------------------------------------------------------
(* The workspace: keys *)

\* A worker that has written a blob no row names yet, one that remembers the
\* key of the row it is about, and one that deletes the blob of such a key.
Pending(w) == w.pc \in {"saving", "inserting", "updating", "adding", "replacing"}
Holding(w) == w.pc \in {"updating", "replacing", "deleting"}
Purging(w) == w.pc = "purging"

\* A key is used once: by one row or by one worker.
KeysApart ==
    /\ \A i \in DOMAIN rows : rows[i].key <= used
    /\ \A i, k \in DOMAIN rows : rows[i].key = rows[k].key => i = k
    /\ \A j \in Worker : Pending(job[j]) =>
         /\ job[j].key \in blobs /\ job[j].key <= used
         /\ \A i \in DOMAIN rows : rows[i].key # job[j].key
    /\ \A j, l \in Worker :
         Pending(job[j]) /\ Pending(job[l]) /\ job[j].key = job[l].key => j = l

\* A key that is to be purged will not be named by any row again.
OldKeys ==
    /\ \A j \in Worker : Holding(job[j]) \/ Purging(job[j]) =>
         /\ job[j].old <= used
         /\ \A l \in Worker : Pending(job[l]) => job[l].key # job[j].old
    /\ \A j \in Worker : Holding(job[j]) =>
         \A i \in DOMAIN rows : rows[i].key = job[j].old => i = job[j].id
    /\ \A j \in Worker : Purging(job[j]) =>
         \A i \in DOMAIN rows : rows[i].key # job[j].old

KeysInv == Shapes /\ BlobsKept /\ KeysApart /\ OldKeys

-----------------------------------------------------------------------------
(* The workspace: pages *)

\* Unless projections of two processes have overlapped, one at a time is beyond
\* the lock, with a page.
Free == \A q \in Projection : ~Holds(q)
Alone ==
    /\ \A p, q \in Projection :
         job[p].pc \in Doing \cup {"purging"} /\ job[q].pc \in Doing \cup {"purging"} => p = q
    /\ \A p \in Projection : job[p].pc \in Doing => job[p].page # Nothing

\* An upload is being added under an identifier nobody else has.
Reserved ==
    \A u \in Request : job[u].pc = "adding" =>
      /\ job[u].id \in Id \ DOMAIN rows
      /\ \A j \in Worker \ {u} : job[j].id # job[u].id

\* What a projection has found out about the rows is still so.
Found ==
    /\ OneFile
    /\ \A i \in DOMAIN rows : ~Generated(i) => rows[i].hash = Nothing
    /\ \A p \in Projection :
         /\ job[p].pc = "inserting" => \A i \in DOMAIN rows : ~Generated(i)
         /\ job[p].pc \in {"saving", "updating"} =>
              \A i \in DOMAIN rows : rows[i].hash # job[p].page
         /\ job[p].pc = "updating" /\ job[p].id \in DOMAIN rows => Generated(job[p].id)

Shown == \E i \in DOMAIN rows : Generated(i) /\ rows[i].hash = served

\* After a normal end, whoever has read a page read the one that is served,
\* unless a projection is still to come.
Current ==
    run = "normal" /\ ~missed /\ served # Nothing =>
      \/ due # {} \/ \E p \in Projection : job[p].pc = "waiting"
      \/ /\ \A p \in Projection : job[p].pc \in Doing => job[p].page = served
         /\ Shown \/ \E p \in Projection : job[p].pc \in Doing

Pages == Alone /\ Found /\ Current
PagesInv == Shapes /\ Reserved /\ (crossed \/ Pages)

-----------------------------------------------------------------------------
(* What a step of one worker does to the keys.                              *)

Others(j) == \A l \in Worker \ {j} : job'[l] = job[l]

\* It claims nothing it did not have, or takes the key of a row for old.
LEMMA KeysMove ==
  ASSUME KeysInv, NEW j \in Worker, Others(j), UNCHANGED <<blobs, used, lost>>,
         DOMAIN rows' = DOMAIN rows, \A i \in DOMAIN rows : rows'[i].key = rows[i].key,
         Pending(job'[j]) => Pending(job[j]) /\ job'[j].key = job[j].key,
         Holding(job'[j]) =>
           \/ Holding(job[j]) /\ job'[j].old = job[j].old /\ job'[j].id = job[j].id
           \/ job'[j].id \in DOMAIN rows /\ job'[j].old = rows[job'[j].id].key,
         Purging(job'[j]) => Purging(job[j]) /\ job'[j].old = job[j].old
  PROVE  BlobsKept' /\ KeysApart' /\ OldKeys'
<1>1. \A l \in Worker : Pending(job'[l]) => Pending(job[l]) /\ job'[l].key = job[l].key
      BY DEF Others
<1>2. \A l \in Worker : Purging(job'[l]) => Purging(job[l]) /\ job'[l].old = job[l].old
      BY DEF Others
<1>3. \A l \in Worker : Holding(job'[l]) =>
        \/ Holding(job[l]) /\ job'[l].old = job[l].old /\ job'[l].id = job[l].id
        \/ job'[l].id \in DOMAIN rows /\ job'[l].old = rows[job'[l].id].key
      BY DEF Others
<1>4. BlobsKept' /\ KeysApart'
      BY <1>1 DEF KeysInv, BlobsKept, KeysApart, Pending
<1>5. OldKeys'
  <2>1. ASSUME NEW l \in Worker, Holding(job'[l])
        PROVE  /\ job'[l].old <= used
               /\ \A n \in Worker : Pending(job[n]) => job[n].key # job'[l].old
               /\ \A i \in DOMAIN rows : rows[i].key = job'[l].old => i = job'[l].id
        BY <1>3, <2>1 DEF KeysInv, KeysApart, OldKeys
  <2> QED
      BY <1>1, <1>2, <2>1 DEF KeysInv, OldKeys, Pending, Holding, Purging
<1> QED
    BY <1>4, <1>5

\* It writes the blob of a new key.
LEMMA KeysNew ==
  ASSUME KeysInv, NEW j \in Worker, Others(j), rows' = rows,
         used' = used + 1, blobs' = blobs \cup {used'}, lost' = lost,
         Pending(job'[j]), job'[j].key = used',
         Holding(job'[j]) =>
           job'[j].id \in DOMAIN rows /\ job'[j].old = rows[job'[j].id].key,
         ~Purging(job'[j])
  PROVE  BlobsKept' /\ KeysApart' /\ OldKeys'
<1>1. used \in Nat /\ \A i \in DOMAIN rows : rows[i].key \in Nat
      BY DEF KeysInv, Shapes, RowShaped
<1>2. \A l \in Worker : job[l].key \in Nat /\ job[l].old \in Nat
      BY DEF KeysInv, Shapes, WorkRecord
<1>3. \A i \in DOMAIN rows : rows[i].key < used'
      BY <1>1 DEF KeysInv, KeysApart
<1>4. \A l \in Worker : Pending(job[l]) => job[l].key < used'
      BY <1>1, <1>2 DEF KeysInv, KeysApart
<1>5. \A l \in Worker : Holding(job[l]) \/ Purging(job[l]) => job[l].old < used'
      BY <1>1, <1>2 DEF KeysInv, OldKeys
<1>6. BlobsKept'
      BY DEF KeysInv, BlobsKept
<1>7. KeysApart'
  <2>1. \A i \in DOMAIN rows' : rows'[i].key <= used'
        BY <1>1, <1>3
  <2>2. \A i, k \in DOMAIN rows' : rows'[i].key = rows'[k].key => i = k
        BY DEF KeysInv, KeysApart
  <2>3. \A l \in Worker : Pending(job'[l]) =>
          /\ job'[l].key \in blobs' /\ job'[l].key <= used'
          /\ \A i \in DOMAIN rows' : rows'[i].key # job'[l].key
    <3>1. ASSUME NEW l \in Worker, Pending(job'[l]), l # j
          PROVE  /\ job'[l].key \in blobs' /\ job'[l].key <= used'
                 /\ \A i \in DOMAIN rows' : rows'[i].key # job'[l].key
          BY <1>1, <1>2, <1>4, <3>1 DEF Others, KeysInv, KeysApart
    <3>2. /\ job'[j].key \in blobs' /\ job'[j].key <= used'
          /\ \A i \in DOMAIN rows' : rows'[i].key # job'[j].key
          BY <1>1, <1>3
    <3> QED
        BY <3>1, <3>2
  <2>4. \A l, n \in Worker :
          Pending(job'[l]) /\ Pending(job'[n]) /\ job'[l].key = job'[n].key => l = n
    <3>1. \A l \in Worker \ {j} : Pending(job'[l]) => job'[l].key # used'
          BY <1>1, <1>2, <1>4 DEF Others
    <3> QED
        BY <3>1 DEF Others, KeysInv, KeysApart
  <2> QED
      BY <2>1, <2>2, <2>3, <2>4 DEF KeysApart, Pending
<1>8. OldKeys'
  <2>1. ASSUME NEW l \in Worker, Holding(job'[l]) \/ Purging(job'[l])
        PROVE  /\ job'[l].old < used' /\ job'[l].old \in Nat
               /\ \A n \in Worker : Pending(job'[n]) => job'[n].key # job'[l].old
    <3>1. CASE l # j
          BY <1>1, <1>2, <1>5, <2>1, <3>1 DEF Others, KeysInv, OldKeys
    <3>2. CASE l = j
      <4>1. job'[j].id \in DOMAIN rows /\ job'[j].old = rows[job'[j].id].key
            BY <2>1, <3>2
      <4>2. job'[j].old < used' /\ job'[j].old \in Nat
            BY <1>1, <1>3, <4>1
      <4> QED
          BY <1>1, <3>2, <4>1, <4>2 DEF Others, KeysInv, KeysApart
    <3> QED
        BY <3>1, <3>2
  <2>2. \A l \in Worker : Holding(job'[l]) =>
          \A i \in DOMAIN rows : rows[i].key = job'[l].old => i = job'[l].id
        BY DEF Others, KeysInv, KeysApart, OldKeys
  <2>3. \A l \in Worker : Purging(job'[l]) =>
          \A i \in DOMAIN rows : rows[i].key # job'[l].old
        BY DEF Others, KeysInv, OldKeys
  <2> QED
      BY <1>1, <2>1, <2>2, <2>3 DEF OldKeys, Pending, Holding, Purging
<1> QED
    BY <1>6, <1>7, <1>8

\* It commits: its key becomes the key of its row, or the row goes; the old key
\* is named no more.
LEMMA KeysCommit ==
  ASSUME KeysInv, NEW j \in Worker, Others(j), UNCHANGED <<blobs, used, lost>>,
         \A i \in DOMAIN rows' :
           \/ i \in DOMAIN rows /\ rows'[i].key = rows[i].key /\ i # job[j].id
           \/ i = job[j].id /\ Pending(job[j]) /\ rows'[i].key = job[j].key,
         ~Pending(job'[j]), ~Holding(job'[j]),
         Purging(job'[j]) => Holding(job[j]) /\ job'[j].old = job[j].old
  PROVE  BlobsKept' /\ KeysApart' /\ OldKeys'
<1>1. BlobsKept'
      BY DEF KeysInv, BlobsKept, KeysApart
<1>2. KeysApart'
      BY DEF Others, KeysInv, KeysApart, Pending
<1>3. OldKeys'
  <2>1. ASSUME NEW l \in Worker, l # j
        PROVE  /\ Holding(job'[l]) =>
                    \A i \in DOMAIN rows' : rows'[i].key = job'[l].old => i = job'[l].id
               /\ Purging(job'[l]) => \A i \in DOMAIN rows' : rows'[i].key # job'[l].old
        BY <2>1 DEF Others, KeysInv, OldKeys
  <2>2. Purging(job'[j]) => \A i \in DOMAIN rows' : rows'[i].key # job'[j].old
        BY DEF KeysInv, OldKeys
  <2>3. \A l \in Worker : Holding(job'[l]) \/ Purging(job'[l]) =>
          /\ job'[l].old <= used
          /\ \A n \in Worker : Pending(job'[n]) => job'[n].key # job'[l].old
        BY DEF Others, KeysInv, OldKeys
  <2> QED
      BY <2>1, <2>2, <2>3 DEF OldKeys, Pending, Holding, Purging
<1> QED
    BY <1>1, <1>2, <1>3

\* It deletes a blob that is its own or that it has replaced, and is done.
LEMMA KeysDrop ==
  ASSUME KeysInv, NEW j \in Worker, Others(j), UNCHANGED <<rows, used, lost>>,
         NEW k, blobs' = blobs \ {k},
         \/ Pending(job[j]) /\ k = job[j].key
         \/ Purging(job[j]) /\ k = job[j].old,
         ~Pending(job'[j]), ~Holding(job'[j]), ~Purging(job'[j])
  PROVE  BlobsKept' /\ KeysApart' /\ OldKeys'
<1>1. BlobsKept'
      BY DEF KeysInv, BlobsKept, KeysApart, OldKeys
<1>2. KeysApart'
      BY DEF Others, KeysInv, KeysApart, OldKeys, Pending
<1>3. OldKeys'
      BY DEF Others, KeysInv, OldKeys, Pending, Holding, Purging
<1> QED
    BY <1>1, <1>2, <1>3

\* It commits and then deletes the blob that its row names.
LEMMA KeysLost ==
  ASSUME KeysInv, NEW j \in Worker, Others(j), UNCHANGED used, Pending(job[j]),
         blobs' = blobs \ {job[j].key}, lost' = lost \cup {job[j].key},
         \A i \in DOMAIN rows' :
           \/ i \in DOMAIN rows /\ rows'[i].key = rows[i].key /\ i # job[j].id
           \/ i = job[j].id /\ rows'[i].key = job[j].key,
         ~Pending(job'[j]), ~Holding(job'[j]), ~Purging(job'[j])
  PROVE  BlobsKept' /\ KeysApart' /\ OldKeys'
<1>1. BlobsKept'
      BY DEF KeysInv, BlobsKept, KeysApart
<1>2. KeysApart'
      BY DEF Others, KeysInv, KeysApart, Pending
<1>3. OldKeys'
  <2>1. ASSUME NEW l \in Worker, l # j
        PROVE  /\ Holding(job'[l]) =>
                    \A i \in DOMAIN rows' : rows'[i].key = job'[l].old => i = job'[l].id
               /\ Purging(job'[l]) => \A i \in DOMAIN rows' : rows'[i].key # job'[l].old
        BY <2>1 DEF Others, KeysInv, OldKeys
  <2>2. \A l \in Worker : Holding(job'[l]) \/ Purging(job'[l]) =>
          /\ job'[l].old <= used
          /\ \A n \in Worker : Pending(job'[n]) => job'[n].key # job'[l].old
        BY DEF Others, KeysInv, OldKeys
  <2> QED
      BY <2>1, <2>2 DEF OldKeys, Pending, Holding, Purging
<1> QED
    BY <1>1, <1>2, <1>3

-----------------------------------------------------------------------------
(* What a step of one worker does to the pages.                             *)

\* Identifiers come from the rows, from where they were, or are unused.
LEMMA ReservedStays ==
  ASSUME PagesInv, NEW j \in Worker, Others(j),
         DOMAIN rows' \subseteq DOMAIN rows \cup {job[j].id},
         job'[j].id \in {job[j].id, "none"} \cup DOMAIN rows \cup Unused,
         j \in Request /\ job'[j].pc = "adding" => job'[j].id \in Unused /\ rows' = rows
  PROVE  Reserved'
<1>1. ASSUME NEW u \in Request, job'[u].pc = "adding", u # j
      PROVE  /\ job'[u].id \in Id \ DOMAIN rows'
             /\ \A l \in Worker \ {u} : job'[l].id # job'[u].id
  <2>1. /\ job'[u] = job[u] /\ job[u].id \in Id \ DOMAIN rows
        /\ \A l \in Worker \ {u} : job[l].id # job[u].id
        BY <1>1 DEF Others, Worker, PagesInv, Reserved
  <2>2. job'[j].id # job[u].id
        BY <1>1, <2>1 DEF Unused, Id, Worker
  <2> QED
      BY <1>1, <2>1, <2>2 DEF Others
<1>2. ASSUME j \in Request, job'[j].pc = "adding"
      PROVE  /\ job'[j].id \in Id \ DOMAIN rows'
             /\ \A l \in Worker \ {j} : job'[l].id # job'[j].id
      BY <1>2 DEF Others, Unused, Worker
<1> QED
    BY <1>1, <1>2 DEF Reserved

\* A request leaves pages of projections alone, and adds uploads only.
LEMMA RequestPages ==
  ASSUME PagesInv, Shapes', NEW u \in Request, Others(u),
         \A i \in DOMAIN rows' :
           \/ /\ i \in DOMAIN rows
              /\ rows'[i].source = rows[i].source /\ rows'[i].hash = rows[i].hash
           \/ /\ rows'[i].source = "upload" /\ rows'[i].hash = Nothing
              /\ i = job[u].id /\ job[u].pc = "adding",
         job'[u].id \in {job[u].id, "none"} \cup DOMAIN rows \cup Unused,
         job'[u].pc = "adding" => job'[u].id \in Unused /\ rows' = rows,
         UNCHANGED <<served, run, due, crossed>>,
         \/ missed'
         \/ missed' = missed /\ \A i \in DOMAIN rows : Generated(i) => i \in DOMAIN rows'
  PROVE  PagesInv'
<1>1. u \in Worker /\ u \notin Projection
      BY WorkspaceAssumption DEF Worker
<1>2. \A p \in Projection : job'[p] = job[p]
      BY <1>1 DEF Others, Worker
<1>3. Reserved'
  <2>1. DOMAIN rows' \subseteq DOMAIN rows \cup {job[u].id}
        OBVIOUS
  <2> QED
      BY <1>1, <2>1, ReservedStays
<1> SUFFICES ASSUME ~crossed
             PROVE  Alone' /\ Found' /\ Current'
    BY <1>3 DEF PagesInv, Pages
<1>4. Alone'
      BY <1>2 DEF PagesInv, Pages, Alone
<1>5. \A i \in DOMAIN rows' : rows'[i].source = "agent" =>
        /\ i \in DOMAIN rows /\ rows[i].source = "agent"
        /\ rows'[i].hash = rows[i].hash
      OBVIOUS
<1>6. Found'
  <2>1. OneFile'
        BY <1>5 DEF PagesInv, Pages, Found, OneFile, Generated
  <2>2. \A i \in DOMAIN rows' : rows'[i].source # "agent" => rows'[i].hash = Nothing
        BY DEF PagesInv, Pages, Found, Generated
  <2>3. ASSUME NEW p \in Projection
        PROVE  /\ job[p].pc = "inserting" => \A i \in DOMAIN rows' : rows'[i].source # "agent"
               /\ job[p].pc \in {"saving", "updating"} =>
                    \A i \in DOMAIN rows' : rows'[i].hash # job[p].page
               /\ job[p].pc = "updating" /\ job[p].id \in DOMAIN rows' =>
                    rows'[job[p].id].source = "agent"
    <3>1. job[p].pc = "inserting" => \A i \in DOMAIN rows' : rows'[i].source # "agent"
          BY <1>5 DEF PagesInv, Pages, Found, Generated
    <3>2. job[p].pc \in {"saving", "updating"} =>
            \A i \in DOMAIN rows' : rows'[i].hash # job[p].page
          BY DEF PagesInv, Pages, Found, Alone, Doing
    <3>3. job[u].pc = "adding" => job[p].id # job[u].id
          BY <1>1 DEF PagesInv, Reserved, Worker
    <3>4. job[p].pc = "updating" /\ job[p].id \in DOMAIN rows' =>
            rows'[job[p].id].source = "agent"
          BY <3>3 DEF PagesInv, Pages, Found, Generated
    <3> QED
        BY <3>1, <3>2, <3>4
  <2> QED
      BY <1>2, <2>1, <2>2, <2>3 DEF Found, Generated
<1>7. Current'
  <2> SUFFICES ASSUME run' = "normal", ~missed', served' # Nothing,
                      due' = {}, \A p \in Projection : job'[p].pc # "waiting"
               PROVE  /\ \A p \in Projection : job'[p].pc \in Doing => job'[p].page = served'
                      /\ Shown' \/ \E p \in Projection : job'[p].pc \in Doing
      BY DEF Current
  <2>1. /\ \A p \in Projection : job[p].pc \in Doing => job[p].page = served
        /\ Shown \/ \E p \in Projection : job[p].pc \in Doing
        BY <1>2 DEF PagesInv, Pages, Current
  <2>2. Shown => Shown'
    <3>1. \A i \in DOMAIN rows : rows[i].source = "agent" =>
            i \in DOMAIN rows' /\ rows'[i].source = "agent" /\ rows'[i].hash = rows[i].hash
          BY DEF Generated, PagesInv, Reserved
    <3> QED
        BY <3>1 DEF Shown, Generated
  <2> QED
      BY <1>2, <2>1, <2>2
<1> QED
    BY <1>4, <1>6, <1>7

\* What projection p does when it leaves the rows alone.
PageStep(p) ==
    /\ job'[p].pc \in Doing \cup {"purging"} =>
         job[p].pc \in Doing \cup {"purging"} \/ Free
    /\ job'[p].pc \in Doing => job'[p].page # Nothing
    /\ job'[p].pc = "inserting" => \A i \in DOMAIN rows : ~Generated(i)
    /\ job'[p].pc \in {"saving", "updating"} =>
         \A i \in DOMAIN rows : rows[i].hash # job'[p].page
    /\ job'[p].pc = "updating" /\ job'[p].id \in DOMAIN rows => Generated(job'[p].id)
    /\ job[p].pc = "waiting" =>
         served = Nothing \/ missed' \/ (Free /\ job'[p].pc \in Doing /\ job'[p].page = served)
    /\ job'[p].pc \in Doing =>
         job'[p].page = served \/ (job[p].pc \in Doing /\ job'[p].page = job[p].page)
    /\ job[p].pc \in Doing /\ job'[p].pc \notin Doing =>
         missed' \/ \E i \in DOMAIN rows : Generated(i) /\ rows[i].hash = job[p].page

LEMMA ProjectionPages ==
  ASSUME PagesInv, Shapes', NEW p \in Projection, Others(p),
         UNCHANGED <<rows, served, run, due>>, missed' \/ missed' = missed,
         crossed => crossed',
         job'[p].id \in {job[p].id, "none"} \cup DOMAIN rows \cup Unused,
         crossed' \/ PageStep(p)
  PROVE  PagesInv'
<1>1. p \in Worker
      BY DEF Worker
<1>2. \A q \in Projection \ {p} : job'[q] = job[q]
      BY DEF Others, Worker
<1>3. Reserved'
  <2>1. p \notin Request
        BY WorkspaceAssumption
  <2> QED
      BY <1>1, <2>1, ReservedStays
<1> SUFFICES ASSUME ~crossed'
             PROVE  Alone' /\ Found' /\ Current'
    BY <1>3 DEF PagesInv, Pages
<1>4. Alone /\ Found /\ Current /\ PageStep(p)
      BY DEF PagesInv, Pages
<1>5. Free => \A q \in Projection : job[q].pc \notin Doing \cup {"purging"}
      BY DEF Free, Holds, Doing
<1>6. Alone'
      BY <1>2, <1>4, <1>5 DEF PageStep, Alone
<1>7. Found'
      BY <1>2, <1>4 DEF PageStep, Found, OneFile, Generated
<1>8. Current'
  <2> SUFFICES ASSUME run' = "normal", ~missed', served' # Nothing,
                      due' = {}, \A q \in Projection : job'[q].pc # "waiting"
               PROVE  /\ \A q \in Projection : job'[q].pc \in Doing => job'[q].page = served'
                      /\ Shown' \/ \E q \in Projection : job'[q].pc \in Doing
      BY DEF Current
  <2>1. CASE job[p].pc = "waiting"
    <3>1. \A q \in Projection : job[q].pc \notin Doing
          BY <1>4, <1>5, <2>1 DEF PageStep
    <3> QED
        BY <1>2, <1>4, <2>1, <3>1 DEF PageStep
  <2>2. CASE job[p].pc # "waiting"
    <3>1. /\ \A q \in Projection : job[q].pc \in Doing => job[q].page = served
          /\ Shown \/ \E q \in Projection : job[q].pc \in Doing
          BY <1>2, <1>4, <2>2 DEF Current
    <3>2. Shown => Shown'
          BY DEF Shown, Generated
    <3>3. job[p].pc \in Doing /\ job'[p].pc \notin Doing => Shown'
          BY <1>4, <3>1, <3>2 DEF PageStep, Shown
    <3> QED
        BY <1>2, <1>4, <3>1, <3>2, <3>3 DEF PageStep
  <2> QED
      BY <2>1, <2>2
<1> QED
    BY <1>6, <1>7, <1>8

-----------------------------------------------------------------------------
(* Records of work *)

LEMMA IdleShaped ==
  /\ Idle \in WorkRecord
  /\ \A pc \in AtPc \cup RequestPc : [Idle EXCEPT !.pc = pc] \in WorkRecord
  /\ Idle.pc = "idle" /\ Idle.id = "none"
  BY WorkspaceAssumption DEF Idle, WorkRecord, AtPc, Doing, RequestPc, Name

LEMMA RestShaped ==
  ASSUME NEW j \in Worker
  PROVE  /\ Rest(j) \in WorkRecord
         /\ j \in Projection => Rest(j).pc = "idle"
         /\ j \in Request => Rest(j).pc = "over"
         /\ Rest(j).pc \in {"idle", "over"} /\ Rest(j).id = "none"
  BY IdleShaped, WorkspaceAssumption DEF Rest, Worker, Idle, RequestPc

LEMMA WithKey ==
  ASSUME NEW r \in WorkRecord, NEW k \in Nat
  PROVE  /\ [r EXCEPT !.key = k] \in WorkRecord
         /\ [r EXCEPT !.key = k].key = k /\ [r EXCEPT !.key = k].pc = r.pc
         /\ [r EXCEPT !.key = k].id = r.id /\ [r EXCEPT !.key = k].old = r.old
         /\ [r EXCEPT !.key = k].page = r.page
  BY DEF WorkRecord

LEMMA PurgeShaped ==
  ASSUME Shapes, NEW j \in Worker
  PROVE  /\ Purge(j) \in WorkRecord /\ Purge(j).pc = "purging"
         /\ Purge(j).old = job[j].old /\ Purge(j).id = "none"
<1>1. job[j] \in WorkRecord
      BY DEF Shapes
<1> QED
    BY <1>1 DEF Purge, Idle, WorkRecord, AtPc, Name

LEMMA NewIdUnused ==
  ASSUME Unused # {}
  PROVE  NewId \in Unused
  BY DEF NewId, Unused

LEMMA WorkerGoes ==
  ASSUME Shapes, NEW j \in Worker, NEW r, Goes(j, r)
  PROVE  job'[j] = r /\ Others(j)
  BY DEF Shapes, Goes, Others

LEMMA ShapesMove ==
  ASSUME Shapes, NEW j \in Worker, NEW r \in WorkRecord, Goes(j, r),
         j \in Projection => r.pc \in AtPc /\ (r.pc \in {"saving", "inserting"} => r.id \in Id),
         j \in Request => r.pc \in RequestPc,
         used' \in Nat, served' = served,
         \A i \in DOMAIN rows' : RowShaped(i, rows'[i]),
         missed' \in BOOLEAN, crossed' \in BOOLEAN
  PROVE  Shapes'
<1>1. job'[j] = r /\ Others(j)
      BY WorkerGoes
<1>2. job' \in [Worker -> WorkRecord]
      BY DEF Shapes, Goes
<1> QED
    BY <1>1, <1>2 DEF Shapes, Others, Worker

-----------------------------------------------------------------------------
(* Each step of the workspace                                               *)

FilesInv == KeysInv /\ PagesInv

LEMMA WaitsHolds ==
  ASSUME FilesInv, NEW p \in Projection, ProjectionWaits(p)
  PROVE  FilesInv'
<1>1. PICK x \in Process : Goes(p, [Idle EXCEPT !.pc = "waiting", !.at = x])
      BY DEF ProjectionWaits
<1>2. /\ job[p] = Idle
      /\ UNCHANGED <<served, rows, blobs, used, run, missed, crossed, lost>>
      BY DEF ProjectionWaits
<1> DEFINE r == [Idle EXCEPT !.pc = "waiting", !.at = x]
<1>3. Shapes /\ p \in Worker /\ p \notin Request
      BY WorkspaceAssumption DEF FilesInv, KeysInv, Worker
<1>4. r \in WorkRecord /\ r.pc = "waiting" /\ r.id = "none"
      BY DEF Idle, AtPc, WorkRecord, Name
<1> HIDE DEF r
<1>5. Goes(p, r) /\ job'[p] = r /\ Others(p)
      BY <1>1, <1>3, WorkerGoes DEF r
<1>6. Shapes'
  <2>1. /\ \A i \in DOMAIN rows' : RowShaped(i, rows'[i])
        /\ used' \in Nat /\ missed' \in BOOLEAN /\ crossed' \in BOOLEAN
        BY <1>2, <1>3 DEF Shapes
  <2> QED
      BY <1>2, <1>3, <1>4, <1>5, <2>1, ShapesMove DEF AtPc
<1>7. BlobsKept' /\ KeysApart' /\ OldKeys'
      BY <1>2, <1>3, <1>4, <1>5, KeysMove DEF FilesInv, Pending, Holding, Purging
<1>8. \A q \in Projection \ {p} : job'[q] = job[q]
      BY <1>5 DEF Others, Worker
<1>9. Reserved'
      BY <1>2, <1>3, <1>4, <1>5, ReservedStays DEF FilesInv
<1>10. ASSUME ~crossed
       PROVE  Pages'
  <2>1. Alone'
        BY <1>4, <1>5, <1>8, <1>10 DEF FilesInv, PagesInv, Pages, Alone, Doing
  <2>2. Found'
        BY <1>2, <1>4, <1>5, <1>8, <1>10
        DEF FilesInv, PagesInv, Pages, Found, OneFile, Generated
  <2>3. Current'
        BY <1>4, <1>5 DEF Current
  <2> QED
      BY <2>1, <2>2, <2>3 DEF Pages
<1> QED
    BY <1>2, <1>6, <1>7, <1>9, <1>10 DEF FilesInv, KeysInv, PagesInv

LEMMA ReadsHolds ==
  ASSUME FilesInv, NEW p \in Projection, ProjectionReads(p)
  PROVE  FilesInv'
<1> DEFINE r == IF served = Nothing THEN Idle
                ELSE [job[p] EXCEPT !.pc = "finding", !.page = served]
<1>1. /\ Goes(p, r) /\ job[p].pc = "waiting" /\ LockFree(p)
      /\ crossed' = (crossed \/ \E q \in Projection : Holds(q) /\ job[q].at # job[p].at)
      /\ UNCHANGED <<served, rows, blobs, used, run, due, missed, lost>>
      BY DEF ProjectionReads, execution
<1>2. /\ Shapes /\ p \in Worker /\ p \notin Request
      /\ job[p] \in WorkRecord /\ served \in Page \cup {Nothing}
      BY WorkspaceAssumption DEF FilesInv, KeysInv, Worker, Shapes
<1>3. /\ r \in WorkRecord /\ r.id \in {job[p].id, "none"}
      /\ IF served = Nothing THEN r.pc = "idle" ELSE r.pc = "finding" /\ r.page = served
      BY <1>2, IdleShaped DEF WorkRecord, AtPc, Doing
<1> HIDE DEF r
<1>4. Shapes'
  <2>1. \A i \in DOMAIN rows' : RowShaped(i, rows'[i])
        BY <1>1, <1>2 DEF Shapes
  <2>2. used' \in Nat /\ missed' \in BOOLEAN /\ crossed' \in BOOLEAN
        BY <1>1, <1>2 DEF Shapes
  <2>3. r.pc \in AtPc
        BY <1>3 DEF AtPc, Doing
  <2> QED
      BY <1>1, <1>2, <1>3, <2>1, <2>2, <2>3, ShapesMove
<1>5. job'[p] = r /\ Others(p)
      BY <1>1, <1>2, WorkerGoes
<1>6. BlobsKept' /\ KeysApart' /\ OldKeys'
      BY <1>1, <1>2, <1>3, <1>5, KeysMove DEF FilesInv, Pending, Holding, Purging
<1>7. (crossed => crossed') /\ (crossed' \/ Free)
      BY <1>1 DEF LockFree, Free
<1>8. crossed' \/ PageStep(p)
      BY <1>1, <1>3, <1>5, <1>7 DEF PageStep, Doing
<1>9. PagesInv'
      BY <1>1, <1>3, <1>4, <1>5, <1>7, <1>8, ProjectionPages DEF FilesInv
<1> QED
    BY <1>4, <1>6, <1>9 DEF FilesInv, KeysInv

LEMMA FindsHolds ==
  ASSUME FilesInv, NEW p \in Projection, ProjectionFinds(p)
  PROVE  FilesInv'
<1>1. /\ job[p].pc = "finding"
      /\ UNCHANGED <<served, rows, run, due, missed, crossed, lost>>
      BY DEF ProjectionFinds, execution
<1>2. /\ Shapes /\ p \in Worker /\ p \notin Request /\ job[p] \in WorkRecord
      /\ crossed \/ job[p].page # Nothing
      BY <1>1, WorkspaceAssumption
      DEF FilesInv, KeysInv, Worker, Shapes, PagesInv, Pages, Alone, Doing
<1>3. /\ \A i \in DOMAIN rows' : RowShaped(i, rows'[i])
      /\ used \in Nat /\ missed' \in BOOLEAN /\ crossed' \in BOOLEAN
      BY <1>1, <1>2 DEF Shapes
<1>4. CASE /\ \E id \in DOMAIN rows : Generated(id) /\ rows[id].hash = job[p].page
           /\ Goes(p, Idle) /\ UNCHANGED <<blobs, used>>
  <2>1. job'[p] = Idle /\ Others(p)
        BY <1>2, <1>4, WorkerGoes
  <2>2. Shapes'
        BY <1>1, <1>2, <1>3, <1>4, IdleShaped, ShapesMove DEF AtPc
  <2>3. BlobsKept' /\ KeysApart' /\ OldKeys'
        BY <1>1, <1>2, <1>4, <2>1, IdleShaped, KeysMove DEF FilesInv, Pending, Holding, Purging
  <2>4. PageStep(p)
        BY <1>1, <1>4, <2>1, IdleShaped DEF PageStep, Doing
  <2>5. PagesInv'
        BY <1>1, <2>1, <2>2, <2>4, IdleShaped, ProjectionPages DEF FilesInv
  <2> QED
      BY <2>2, <2>3, <2>5 DEF FilesInv, KeysInv
<1>5. ASSUME NEW id \in Id, id \in DOMAIN rows \cup Unused,
             crossed \/ \A i \in DOMAIN rows : rows[i].hash # job[p].page,
             Writes(p, [job[p] EXCEPT !.pc = "saving", !.id = id])
      PROVE  FilesInv'
  <2> DEFINE q == [job[p] EXCEPT !.pc = "saving", !.id = id]
             r == [q EXCEPT !.key = used']
  <2>1. /\ used' = used + 1 /\ blobs' = blobs \cup {used'} /\ Goes(p, r)
        BY <1>5 DEF Writes
  <2>2. q \in WorkRecord /\ q.pc = "saving" /\ q.id = id /\ q.page = job[p].page
        BY <1>2 DEF WorkRecord, AtPc, Doing
  <2> HIDE DEF q
  <2>3. /\ r \in WorkRecord /\ r.pc = "saving" /\ r.id = id /\ r.page = job[p].page
        /\ r.key = used'
        BY <1>3, <2>1, <2>2, WithKey
  <2> HIDE DEF r
  <2>4. job'[p] = r /\ Others(p)
        BY <1>2, <2>1, WorkerGoes
  <2>5. Shapes'
        BY <1>1, <1>2, <1>3, <2>1, <2>3, ShapesMove DEF AtPc, Doing
  <2>6. BlobsKept' /\ KeysApart' /\ OldKeys'
        BY <1>1, <1>2, <2>1, <2>3, <2>4, KeysNew DEF FilesInv, Pending, Holding, Purging
  <2>7. crossed \/ PageStep(p)
        BY <1>1, <1>2, <1>5, <2>3, <2>4 DEF PageStep, Doing
  <2>8. PagesInv'
        BY <1>1, <1>5, <2>3, <2>4, <2>5, <2>7, ProjectionPages DEF FilesInv
  <2> QED
      BY <2>5, <2>6, <2>8 DEF FilesInv, KeysInv
<1>6. crossed \/ \A i \in DOMAIN rows : ~Generated(i) => rows[i].hash # job[p].page
      BY <1>2 DEF FilesInv, PagesInv, Pages, Found
<1>7. ASSUME NEW id \in Id, Generated(id), rows[id].hash # job[p].page,
             Writes(p, [job[p] EXCEPT !.pc = "saving", !.id = id])
      PROVE  FilesInv'
  <2>1. crossed \/ \A i \in DOMAIN rows : rows[i].hash # job[p].page
        BY <1>6, <1>7 DEF FilesInv, PagesInv, Pages, Found, OneFile, Generated
  <2> QED
      BY <1>5, <1>7, <2>1 DEF Generated
<1>8. ASSUME \A i \in DOMAIN rows : ~Generated(i), Unused # {},
             Writes(p, [job[p] EXCEPT !.pc = "saving", !.id = NewId])
      PROVE  FilesInv'
      BY <1>5, <1>6, <1>8, NewIdUnused DEF Unused
<1> QED
    BY <1>4, <1>7, <1>8 DEF ProjectionFinds

LEMMA SelectsHolds ==
  ASSUME FilesInv, NEW p \in Projection, SaveSelects(p)
  PROVE  FilesInv'
<1>1. /\ job[p].pc = "saving"
      /\ UNCHANGED <<served, rows, blobs, used, run, due, missed, crossed, lost>>
      BY DEF SaveSelects, execution
<1>2. /\ Shapes /\ p \in Worker /\ p \notin Request /\ job[p] \in WorkRecord
      /\ job[p].id \in Id
      /\ \/ crossed
         \/ /\ job[p].page # Nothing
            /\ \A i \in DOMAIN rows : rows[i].hash # job[p].page
      BY <1>1, WorkspaceAssumption
      DEF FilesInv, KeysInv, Worker, Shapes, PagesInv, Pages, Alone, Doing, Found
<1>3. /\ \A i \in DOMAIN rows' : RowShaped(i, rows'[i])
      /\ used' \in Nat /\ missed' \in BOOLEAN /\ crossed' \in BOOLEAN
      BY <1>1, <1>2 DEF Shapes
<1>4. ASSUME NEW r \in WorkRecord, Goes(p, r), r.key = job[p].key, r.page = job[p].page,
             \/ /\ r.pc = "updating" /\ Generated(r.id) /\ r.old = rows[r.id].key
             \/ /\ r.pc = "inserting" /\ r.id = job[p].id
                /\ \A i \in DOMAIN rows : ~Generated(i)
      PROVE  FilesInv'
  <2>1. job'[p] = r /\ Others(p)
        BY <1>2, <1>4, WorkerGoes
  <2>2. Shapes'
    <3>1. r.pc \in AtPc /\ (r.pc \in {"saving", "inserting"} => r.id \in Id)
          BY <1>2, <1>4 DEF AtPc, Doing
    <3> QED
        BY <1>1, <1>2, <1>3, <1>4, <3>1, ShapesMove
  <2>3. r.id \in {job[p].id} \cup DOMAIN rows
        BY <1>4 DEF Generated
  <2>4. BlobsKept' /\ KeysApart' /\ OldKeys'
        BY <1>1, <1>2, <1>4, <2>1, <2>3, KeysMove DEF FilesInv, Pending, Holding, Purging, Generated
  <2>5. crossed \/ PageStep(p)
        BY <1>1, <1>2, <1>4, <2>1 DEF PageStep, Doing
  <2>6. PagesInv'
        BY <1>1, <2>1, <2>2, <2>3, <2>5, ProjectionPages DEF FilesInv
  <2> QED
      BY <2>2, <2>4, <2>6 DEF FilesInv, KeysInv
<1>5. ASSUME NEW id \in DOMAIN rows, Generated(id),
             Goes(p, [job[p] EXCEPT !.pc = "updating", !.id = id,
                                    !.old = rows[id].key, !.name = rows[id].name])
      PROVE  FilesInv'
  <2> DEFINE r == [job[p] EXCEPT !.pc = "updating", !.id = id,
                                 !.old = rows[id].key, !.name = rows[id].name]
  <2>1. /\ r \in WorkRecord /\ r.pc = "updating" /\ r.id = id /\ r.old = rows[id].key
        /\ r.key = job[p].key /\ r.page = job[p].page
    <3>1. id \in Id /\ rows[id].key \in Nat /\ rows[id].name \in Name
          BY <1>2 DEF Shapes, RowShaped
    <3> QED
        BY <1>2, <3>1 DEF WorkRecord, AtPc, Doing
  <2> HIDE DEF r
  <2> QED
      BY <1>4, <1>5, <2>1 DEF r
<1>6. ASSUME \A i \in DOMAIN rows : ~Generated(i),
             Goes(p, [job[p] EXCEPT !.pc = "inserting"])
      PROVE  FilesInv'
  <2> DEFINE r == [job[p] EXCEPT !.pc = "inserting"]
  <2>1. /\ r \in WorkRecord /\ r.pc = "inserting" /\ r.id = job[p].id
        /\ r.key = job[p].key /\ r.page = job[p].page
        BY <1>2 DEF WorkRecord, AtPc, Doing
  <2> HIDE DEF r
  <2> QED
      BY <1>4, <1>6, <2>1 DEF r
<1> QED
    BY <1>5, <1>6 DEF SaveSelects

\* A projection commits: the row of its page is there, with what it has read.
LEMMA CommitPages ==
  ASSUME PagesInv, Shapes', NEW p \in Projection, Others(p),
         UNCHANGED <<served, run, due, crossed>>, missed' \/ missed' = missed,
         job[p].pc \in {"inserting", "updating"}, job'[p].pc \in {"idle", "purging"},
         job'[p].id \in {job[p].id, "none"},
         DOMAIN rows' = DOMAIN rows \cup {job[p].id},
         rows'[job[p].id].source = "agent", rows'[job[p].id].hash = job[p].page,
         \A i \in DOMAIN rows \ {job[p].id} : rows'[i] = rows[i],
         crossed \/ \A i \in DOMAIN rows \ {job[p].id} : ~Generated(i)
  PROVE  PagesInv'
<1>1. p \in Worker /\ p \notin Request
      BY WorkspaceAssumption DEF Worker
<1>2. Reserved'
      BY <1>1, ReservedStays
<1> SUFFICES ASSUME ~crossed
             PROVE  Alone' /\ Found' /\ Current'
    BY <1>2 DEF PagesInv, Pages
<1>3. \A q \in Projection \ {p} : job'[q] = job[q] /\ job[q].pc \notin Doing \cup {"purging"}
      BY DEF Others, Worker, PagesInv, Pages, Alone, Doing
<1>4. Alone'
      BY <1>3 DEF Alone, Doing
<1>5. Found'
  <2>1. OneFile' /\ \A i \in DOMAIN rows' : rows'[i].source # "agent" => rows'[i].hash = Nothing
        BY DEF PagesInv, Pages, Found, OneFile, Generated
  <2>2. \A q \in Projection : job'[q].pc \notin {"inserting", "saving", "updating"}
        BY <1>3 DEF Doing
  <2> QED
      BY <2>1, <2>2 DEF Found, Generated
<1>6. Current'
  <2> SUFFICES ASSUME run' = "normal", ~missed', served' # Nothing,
                      due' = {}, \A q \in Projection : job'[q].pc # "waiting"
               PROVE  /\ \A q \in Projection : job'[q].pc \in Doing => job'[q].page = served'
                      /\ Shown'
      BY DEF Current
  <2>1. job[p].page = served
        BY <1>3 DEF PagesInv, Pages, Current, Doing
  <2> QED
      BY <1>3, <2>1 DEF Shown, Generated, Doing
<1> QED
    BY <1>4, <1>5, <1>6

\* j gives up what it was doing, after an error or when the old blob is deleted.
LEMMA RestHolds ==
  ASSUME FilesInv, NEW j \in Worker, Goes(j, Rest(j)),
         UNCHANGED <<rows, used, served, run, due, crossed>>,
         BlobsKept' /\ KeysApart' /\ OldKeys',
         missed' = missed \/ missed' = TRUE,
         j \in Projection => missed' \/ Purging(job[j])
  PROVE  FilesInv'
<1>1. Shapes
      BY DEF FilesInv, KeysInv
<1>2. job'[j] = Rest(j) /\ Others(j)
      BY <1>1, WorkerGoes
<1>3. /\ Rest(j) \in WorkRecord /\ Rest(j).pc \in {"idle", "over"} /\ Rest(j).id = "none"
      /\ j \in Projection => Rest(j).pc = "idle"
      /\ j \in Request => Rest(j).pc = "over"
      BY RestShaped
<1>4. Shapes'
  <2>1. /\ \A i \in DOMAIN rows' : RowShaped(i, rows'[i])
        /\ used' \in Nat /\ missed' \in BOOLEAN /\ crossed' \in BOOLEAN
        BY <1>1 DEF Shapes
  <2> QED
      BY <1>1, <1>3, <2>1, ShapesMove DEF AtPc, RequestPc
<1>5. PagesInv'
  <2>1. CASE j \in Projection
    <3>1. PageStep(j)
          BY <1>2, <1>3, <2>1 DEF PageStep, Doing, Purging
    <3> QED
        BY <1>2, <1>3, <1>4, <2>1, <3>1, ProjectionPages DEF FilesInv
  <2>2. CASE j \in Request
    <3>1. missed' \/ (missed' = missed /\ \A i \in DOMAIN rows : Generated(i) => i \in DOMAIN rows')
          OBVIOUS
    <3> QED
        BY <1>2, <1>3, <1>4, <2>2, <3>1, RequestPages DEF FilesInv
  <2> QED
      BY <2>1, <2>2 DEF Worker
<1> QED
    BY <1>4, <1>5 DEF FilesInv, KeysInv

\* It deletes its blob, or the old one.
LEMMA DropHolds ==
  ASSUME FilesInv, NEW j \in Worker, NEW k, blobs' = blobs \ {k},
         Goes(j, Rest(j)), UNCHANGED <<rows, used, served, run, due, crossed, lost>>,
         \/ Pending(job[j]) /\ k = job[j].key
         \/ Purging(job[j]) /\ k = job[j].old,
         missed' = missed \/ missed' = TRUE,
         j \in Projection => missed' \/ Purging(job[j])
  PROVE  FilesInv'
<1>1. Others(j) /\ job'[j] = Rest(j) /\ Rest(j).pc \in {"idle", "over"}
      BY WorkerGoes, RestShaped DEF FilesInv, KeysInv
<1>2. BlobsKept' /\ KeysApart' /\ OldKeys'
      BY <1>1, KeysDrop DEF FilesInv, Pending, Holding, Purging
<1> QED
    BY <1>2, RestHolds

LEMMA RefusedHolds ==
  ASSUME FilesInv, NEW j \in Worker, Refused(j), Pending(job[j]),
         UNCHANGED <<rows, served, run, due, crossed, lost>>,
         missed' = (missed \/ j \in Projection)
  PROVE  FilesInv'
<1>1. missed \in BOOLEAN
      BY DEF FilesInv, KeysInv, Shapes
<1>2. (missed' = missed \/ missed' = TRUE) /\ (j \in Projection => missed')
      BY <1>1
<1> QED
    BY <1>2, DropHolds DEF Refused

LEMMA InterruptedHolds ==
  ASSUME FilesInv, NEW j \in Worker, Interrupted(j)
  PROVE  FilesInv'
<1>1. /\ Goes(j, Rest(j)) /\ missed' = (missed \/ j \in Projection)
      /\ UNCHANGED <<served, rows, blobs, used, run, due, crossed, lost>>
      BY DEF Interrupted, execution
<1>2. Others(j) /\ job'[j] = Rest(j) /\ Rest(j).pc \in {"idle", "over"}
      BY <1>1, WorkerGoes, RestShaped DEF FilesInv, KeysInv
<1>3. BlobsKept' /\ KeysApart' /\ OldKeys'
      BY <1>1, <1>2, KeysMove DEF FilesInv, Pending, Holding, Purging
<1>4. missed \in BOOLEAN
      BY DEF FilesInv, KeysInv, Shapes
<1>5. (missed' = missed \/ missed' = TRUE) /\ (j \in Projection => missed')
      BY <1>1, <1>4
<1> QED
    BY <1>1, <1>3, <1>5, RestHolds

LEMMA SaveFailsHolds ==
  ASSUME FilesInv, NEW j \in Worker, SaveFails(j)
  PROVE  FilesInv'
  BY RefusedHolds DEF SaveFails, Pending, execution

LEMMA PurgesHolds ==
  ASSUME FilesInv, NEW j \in Worker, Purges(j)
  PROVE  FilesInv'
  BY DropHolds DEF Purges, Purging, execution

\* The row of j is committed, whether its refresh raises or not.
LEMMA SavesKeys ==
  ASSUME FilesInv, NEW j \in Worker, Pending(job[j]), NEW r, NEW next \in WorkRecord,
         Saves(j, r, next), UNCHANGED <<served, run, due, crossed>>,
         RowShaped(job[j].id, r), r.key = job[j].key,
         next.id = "none", ~Pending(next), ~Holding(next),
         Purging(next) => Holding(job[j]) /\ next.old = job[j].old,
         j \in Projection => next.pc \in {"idle", "purging"},
         j \in Request => next.pc \in {"over", "purging"}
  PROVE  /\ KeysInv' /\ Others(j)
         /\ job'[j].id = "none" /\ job'[j].pc \in {"idle", "over", "purging"}
         /\ j \in Projection => job'[j].pc \in {"idle", "purging"}
         /\ j \in Request => job'[j].pc \in {"over", "purging"}
         /\ DOMAIN rows' = DOMAIN rows \cup {job[j].id} /\ rows'[job[j].id] = r
         /\ \A i \in DOMAIN rows \ {job[j].id} : rows'[i] = rows[i]
         /\ missed' \/ missed' = missed
         /\ j \in Request => missed' = missed
<1>1. Shapes /\ (j \in Request => j \notin Projection) /\ missed \in BOOLEAN
      BY WorkspaceAssumption DEF FilesInv, KeysInv, Shapes
<1>2. /\ DOMAIN rows' = DOMAIN rows \cup {job[j].id} /\ rows'[job[j].id] = r
      /\ \A i \in DOMAIN rows \ {job[j].id} : rows'[i] = rows[i]
      BY DEF Saves, With
<1>3. \A i \in DOMAIN rows' :
        /\ RowShaped(i, rows'[i])
        /\ \/ i \in DOMAIN rows /\ rows'[i].key = rows[i].key /\ i # job[j].id
           \/ i = job[j].id /\ rows'[i].key = job[j].key
      BY <1>1, <1>2 DEF Shapes
<1>4. CASE Goes(j, next) /\ UNCHANGED <<blobs, used, missed, lost>>
  <2>1. job'[j] = next /\ Others(j)
        BY <1>1, <1>4, WorkerGoes
  <2>2. used' \in Nat /\ missed' \in BOOLEAN /\ crossed' \in BOOLEAN
        BY <1>1, <1>4 DEF Shapes
  <2>3. Shapes'
        BY <1>1, <1>3, <1>4, <2>2, ShapesMove DEF AtPc, RequestPc
  <2>4. BlobsKept' /\ KeysApart' /\ OldKeys'
        BY <1>3, <1>4, <2>1, KeysCommit DEF FilesInv
  <2> QED
      BY <1>1, <1>2, <1>4, <2>1, <2>3, <2>4 DEF KeysInv, Worker
<1>5. CASE Refused(j) /\ lost' = lost \cup {job[j].key} /\ missed' = (missed \/ j \in Projection)
  <2>1. /\ Rest(j) \in WorkRecord /\ Rest(j).pc \in {"idle", "over"} /\ Rest(j).id = "none"
        /\ j \in Projection => Rest(j).pc = "idle"
        /\ j \in Request => Rest(j).pc = "over"
        BY RestShaped
  <2>2. /\ Goes(j, Rest(j)) /\ blobs' = blobs \ {job[j].key} /\ used' = used
        /\ job'[j] = Rest(j) /\ Others(j)
        BY <1>1, <1>5, WorkerGoes DEF Refused
  <2>3. used' \in Nat /\ missed' \in BOOLEAN /\ crossed' \in BOOLEAN
        BY <1>1, <1>5, <2>2 DEF Shapes
  <2>4. Shapes'
        BY <1>1, <1>3, <2>1, <2>2, <2>3, ShapesMove DEF AtPc, RequestPc
  <2>5. ~Pending(job'[j]) /\ ~Holding(job'[j]) /\ ~Purging(job'[j])
        BY <2>1, <2>2 DEF Pending, Holding, Purging
  <2>6. BlobsKept' /\ KeysApart' /\ OldKeys'
        BY <1>3, <1>5, <2>2, <2>5, KeysLost DEF FilesInv
  <2>7. (missed' \/ missed' = missed) /\ (j \in Request => missed' = missed)
        BY <1>1, <1>5
  <2> QED
      BY <1>2, <2>1, <2>2, <2>4, <2>6, <2>7 DEF KeysInv
<1> QED
    BY <1>4, <1>5 DEF Saves

LEMMA CommitsHolds ==
  ASSUME FilesInv, NEW p \in Projection, SaveCommits(p)
  PROVE  FilesInv'
<1>1. UNCHANGED <<served, run, due, crossed>>
      BY DEF SaveCommits, execution
<1>2. /\ Shapes /\ p \in Worker /\ p \notin Request /\ job[p] \in WorkRecord
      /\ job[p].pc = "inserting" => job[p].id \in Id
      BY WorkspaceAssumption DEF FilesInv, KeysInv, Worker, Shapes
<1>3. ASSUME NEW next \in WorkRecord, NEW n \in Name, Saves(p, Projected(p, n), next),
             job[p].pc \in {"inserting", "updating"}, next.pc \in {"idle", "purging"},
             next.pc = "purging" => job[p].pc = "updating" /\ next.old = job[p].old,
             next.id = "none", job[p].id \in Id,
             crossed \/ \A i \in DOMAIN rows \ {job[p].id} : ~Generated(i)
      PROVE  FilesInv'
  <2> DEFINE r == Projected(p, n)
  <2>1. /\ r.key = job[p].key /\ r.source = "agent" /\ r.hash = job[p].page
        /\ RowShaped(job[p].id, r)
        BY <1>2, <1>3 DEF Projected, RowShaped, WorkRecord
  <2> HIDE DEF r
  <2>2. Pending(job[p]) /\ (Purging(next) => Holding(job[p]) /\ next.old = job[p].old)
        BY <1>3 DEF Pending, Purging, Holding
  <2>3. ~Pending(next) /\ ~Holding(next) /\ Saves(p, r, next)
        BY <1>3 DEF Pending, Holding, r
  <2>4. /\ KeysInv' /\ Others(p) /\ job'[p].id = "none" /\ job'[p].pc \in {"idle", "purging"}
        /\ DOMAIN rows' = DOMAIN rows \cup {job[p].id} /\ rows'[job[p].id] = r
        /\ \A i \in DOMAIN rows \ {job[p].id} : rows'[i] = rows[i]
        /\ missed' \/ missed' = missed
        BY <1>1, <1>2, <1>3, <2>1, <2>2, <2>3, SavesKeys
  <2>5. Shapes'
        BY <2>4 DEF KeysInv
  <2>6. PagesInv'
        BY <1>1, <1>3, <2>1, <2>4, <2>5, CommitPages DEF FilesInv
  <2> QED
      BY <2>4, <2>6 DEF FilesInv
<1>4. CASE /\ job[p].pc = "inserting" /\ job[p].id \notin DOMAIN rows
           /\ Saves(p, Projected(p, "own"), Idle)
  <2>1. crossed \/ \A i \in DOMAIN rows : ~Generated(i)
        BY <1>4 DEF FilesInv, PagesInv, Pages, Found
  <2> QED
      BY <1>2, <1>3, <1>4, <2>1, IdleShaped DEF Name
<1>5. ASSUME job[p].pc = "updating", job[p].id \in DOMAIN rows, NEW n \in Name,
             Saves(p, Projected(p, n), Purge(p))
      PROVE  FilesInv'
  <2>1. job[p].id \in Id
        BY <1>2, <1>5 DEF Shapes, RowShaped
  <2>2. crossed \/ \A i \in DOMAIN rows \ {job[p].id} : ~Generated(i)
        BY <1>5 DEF FilesInv, PagesInv, Pages, Found, OneFile
  <2> QED
      BY <1>2, <1>3, <1>5, <2>1, <2>2, PurgeShaped
<1>6. CASE job[p].pc \in {"inserting", "updating"} /\ Rejected(p)
      BY <1>1, <1>2, <1>6, RefusedHolds DEF Rejected, Pending
<1>7. job[p].id \in DOMAIN rows =>
        (IF job[p].name = "own" THEN rows[job[p].id].name ELSE "own") \in Name
      BY <1>2 DEF Shapes, RowShaped, Name
<1> QED
    BY <1>4, <1>5, <1>6, <1>7 DEF SaveCommits

-----------------------------------------------------------------------------
(* Requests of the learner                                                  *)

\* A request writes a new blob, for an identifier nobody has or for a row.
LEMMA StartHolds ==
  ASSUME FilesInv, NEW u \in Request, NEW r \in WorkRecord, Writes(u, r), job[u].pc = "idle",
         \/ r.pc = "adding" /\ r.id \in Unused
         \/ r.pc = "replacing" /\ r.id \in DOMAIN rows /\ r.old = rows[r.id].key,
         UNCHANGED <<served, rows, run, due, missed, crossed, lost>>
  PROVE  FilesInv'
<1> DEFINE n == [r EXCEPT !.key = used']
<1>1. used' = used + 1 /\ blobs' = blobs \cup {used'} /\ Goes(u, n)
      BY DEF Writes
<1>2. Shapes /\ u \in Worker /\ u \notin Projection
      BY WorkspaceAssumption DEF FilesInv, KeysInv, Worker
<1>3. /\ \A i \in DOMAIN rows' : RowShaped(i, rows'[i])
      /\ used' \in Nat /\ missed' \in BOOLEAN /\ crossed' \in BOOLEAN
      BY <1>1, <1>2 DEF Shapes
<1>4. /\ n \in WorkRecord /\ n.key = used' /\ n.pc = r.pc /\ n.id = r.id /\ n.old = r.old
      BY <1>3, WithKey
<1> HIDE DEF n
<1>5. job'[u] = n /\ Others(u)
      BY <1>1, <1>2, WorkerGoes
<1>6. Shapes'
      BY <1>1, <1>2, <1>3, <1>4, ShapesMove DEF RequestPc
<1>7. BlobsKept' /\ KeysApart' /\ OldKeys'
      BY <1>1, <1>2, <1>4, <1>5, KeysNew DEF FilesInv, Pending, Holding, Purging
<1>8. PagesInv'
      BY <1>4, <1>5, <1>6, RequestPages DEF FilesInv
<1> QED
    BY <1>6, <1>7, <1>8 DEF FilesInv, KeysInv

LEMMA CreateStartsHolds ==
  ASSUME FilesInv, NEW u \in Request, CreateStarts(u)
  PROVE  FilesInv'
<1>1. NewId \in Unused /\ Writes(u, [Idle EXCEPT !.pc = "adding", !.id = NewId])
      BY NewIdUnused DEF CreateStarts
<1> DEFINE r == [Idle EXCEPT !.pc = "adding", !.id = NewId]
<1>2. r \in WorkRecord /\ r.pc = "adding" /\ r.id = NewId
      BY <1>1, WorkspaceAssumption DEF Idle, WorkRecord, RequestPc, Unused, Name
<1>3. job[u].pc = "idle" /\ UNCHANGED <<served, rows, run, due, missed, crossed, lost>>
      BY IdleShaped DEF CreateStarts, execution
<1> HIDE DEF r
<1>4. Writes(u, r)
      BY <1>1 DEF r
<1> QED
    BY <1>1, <1>2, <1>3, <1>4, StartHolds

LEMMA ReplaceStartsHolds ==
  ASSUME FilesInv, NEW u \in Request, ReplaceStarts(u)
  PROVE  FilesInv'
<1>1. PICK id \in DOMAIN rows :
        Writes(u, [Idle EXCEPT !.pc = "replacing", !.id = id, !.old = rows[id].key])
      BY DEF ReplaceStarts
<1> DEFINE r == [Idle EXCEPT !.pc = "replacing", !.id = id, !.old = rows[id].key]
<1>2. r \in WorkRecord /\ r.pc = "replacing" /\ r.id = id /\ r.old = rows[id].key
  <2>1. RowShaped(id, rows[id])
        BY DEF FilesInv, KeysInv, Shapes
  <2> QED
      BY <2>1, WorkspaceAssumption DEF Idle, WorkRecord, RequestPc, RowShaped, Name
<1>3. job[u].pc = "idle" /\ UNCHANGED <<served, rows, run, due, missed, crossed, lost>>
      BY IdleShaped DEF ReplaceStarts, execution
<1> HIDE DEF r
<1>4. Writes(u, r)
      BY <1>1 DEF r
<1> QED
    BY <1>2, <1>3, <1>4, StartHolds

LEMMA CreateHolds ==
  ASSUME FilesInv, NEW u \in Request, Create(u)
  PROVE  FilesInv'
<1> DEFINE row == [key |-> job[u].key, source |-> "upload", hash |-> Nothing,
                   name |-> "own", edited |-> FALSE]
<1>1. /\ job[u].pc = "adding" /\ job[u].id \notin DOMAIN rows
      /\ Saves(u, row, Rest(u)) /\ UNCHANGED <<served, run, due, crossed>>
      BY DEF Create, execution
<1>2. Shapes /\ u \in Worker /\ u \notin Projection /\ job[u].id \in Id /\ job[u].key \in Nat
      BY <1>1, WorkspaceAssumption
      DEF FilesInv, KeysInv, PagesInv, Worker, Shapes, WorkRecord, Reserved
<1>3. /\ row.key = job[u].key /\ row.source = "upload" /\ row.hash = Nothing
      /\ RowShaped(job[u].id, row)
      BY <1>2 DEF RowShaped, Name
<1> HIDE DEF row
<1>4. Rest(u) \in WorkRecord /\ Rest(u).pc = "over" /\ Rest(u).id = "none"
      BY <1>2, RestShaped
<1>5. /\ Pending(job[u]) /\ ~Pending(Rest(u)) /\ ~Holding(Rest(u)) /\ ~Purging(Rest(u))
      BY <1>1, <1>4 DEF Pending, Holding, Purging
<1>6. /\ KeysInv' /\ Others(u) /\ job'[u].id = "none" /\ job'[u].pc \in {"over", "purging"}
      /\ DOMAIN rows' = DOMAIN rows \cup {job[u].id} /\ rows'[job[u].id] = row
      /\ \A i \in DOMAIN rows \ {job[u].id} : rows'[i] = rows[i]
      /\ missed' = missed
      BY <1>1, <1>2, <1>3, <1>4, <1>5, SavesKeys
<1>7. Shapes'
      BY <1>6 DEF KeysInv
<1>8. PagesInv'
      BY <1>1, <1>3, <1>6, <1>7, RequestPages DEF FilesInv
<1> QED
    BY <1>6, <1>8 DEF FilesInv

LEMMA RenameHolds ==
  ASSUME FilesInv, NEW u \in Request, Rename(u)
  PROVE  FilesInv'
<1>1. PICK id \in DOMAIN rows : rows' = With(id, [rows[id] EXCEPT !.name = "learners"])
      BY DEF Rename
<1>2. /\ job[u] = Idle /\ Goes(u, Rest(u))
      /\ UNCHANGED <<served, blobs, used, run, due, missed, crossed, lost>>
      BY DEF Rename, execution
<1>3. Shapes /\ u \in Worker /\ u \notin Projection /\ RowShaped(id, rows[id])
      BY WorkspaceAssumption DEF FilesInv, KeysInv, Worker, Shapes
<1> DEFINE new == [rows[id] EXCEPT !.name = "learners"]
<1>4. /\ new.key = rows[id].key /\ new.source = rows[id].source /\ new.hash = rows[id].hash
      /\ RowShaped(id, new)
      BY <1>3 DEF RowShaped, Name
<1>5. /\ DOMAIN rows' = DOMAIN rows /\ rows'[id] = new
      /\ \A i \in DOMAIN rows \ {id} : rows'[i] = rows[i]
      BY <1>1 DEF With
<1> HIDE DEF new
<1>6. /\ job'[u] = Rest(u) /\ Others(u)
      /\ Rest(u) \in WorkRecord /\ Rest(u).pc = "over" /\ Rest(u).id = "none"
      BY <1>2, <1>3, WorkerGoes, RestShaped
<1>7. Shapes'
  <2>1. /\ \A i \in DOMAIN rows' : RowShaped(i, rows'[i])
        /\ used' \in Nat /\ missed' \in BOOLEAN /\ crossed' \in BOOLEAN
        BY <1>2, <1>3, <1>4, <1>5 DEF Shapes
  <2> QED
      BY <1>2, <1>3, <1>6, <2>1, ShapesMove DEF RequestPc
<1>8. BlobsKept' /\ KeysApart' /\ OldKeys'
      BY <1>2, <1>3, <1>4, <1>5, <1>6, KeysMove DEF FilesInv, Pending, Holding, Purging
<1>9. PagesInv'
      BY <1>2, <1>4, <1>5, <1>6, <1>7, RequestPages DEF FilesInv
<1> QED
    BY <1>7, <1>8, <1>9 DEF FilesInv, KeysInv

LEMMA ReplaceHolds ==
  ASSUME FilesInv, NEW u \in Request, Replace(u)
  PROVE  FilesInv'
<1>1. job[u].pc = "replacing" /\ UNCHANGED <<served, run, due, crossed>>
      BY DEF Replace, execution
<1>2. Shapes /\ u \in Worker /\ u \notin Projection /\ job[u] \in WorkRecord
      BY WorkspaceAssumption DEF FilesInv, KeysInv, Worker, Shapes
<1>3. CASE job[u].id \in DOMAIN rows
  <2> DEFINE i0 == job[u].id
             new == [rows[i0] EXCEPT !.key = job[u].key, !.edited = TRUE]
  <2>1. RowShaped(i0, rows[i0]) /\ job[u].key \in Nat
        BY <1>2, <1>3 DEF Shapes, WorkRecord
  <2>2. /\ new.key = job[u].key /\ new.source = rows[i0].source /\ new.hash = rows[i0].hash
        /\ RowShaped(i0, new)
        BY <2>1 DEF RowShaped
  <2>3. Saves(u, new, Purge(u))
        BY <1>3 DEF Replace
  <2> HIDE DEF new
  <2>4. /\ Pending(job[u]) /\ ~Pending(Purge(u)) /\ ~Holding(Purge(u)) /\ Holding(job[u])
        /\ Purge(u) \in WorkRecord /\ Purge(u).pc = "purging"
        /\ Purge(u).old = job[u].old /\ Purge(u).id = "none"
        BY <1>1, <1>2, PurgeShaped DEF Pending, Holding
  <2>5. /\ KeysInv' /\ Others(u) /\ job'[u].id = "none" /\ job'[u].pc \in {"over", "purging"}
        /\ DOMAIN rows' = DOMAIN rows \cup {i0} /\ rows'[i0] = new
        /\ \A i \in DOMAIN rows \ {i0} : rows'[i] = rows[i]
        /\ missed' = missed
        BY <1>1, <1>2, <2>2, <2>3, <2>4, SavesKeys
  <2>6. Shapes'
        BY <2>5 DEF KeysInv
  <2>7. PagesInv'
        BY <1>1, <1>3, <2>2, <2>5, <2>6, RequestPages DEF FilesInv
  <2> QED
      BY <2>5, <2>7 DEF FilesInv
<1>4. CASE Rejected(u)
      BY <1>1, <1>2, <1>4, RefusedHolds DEF Rejected, Pending
<1> QED
    BY <1>3, <1>4 DEF Replace

LEMMA DeleteSelectsHolds ==
  ASSUME FilesInv, NEW u \in Request, DeleteSelects(u)
  PROVE  FilesInv'
<1>1. PICK id \in DOMAIN rows :
        Goes(u, [Idle EXCEPT !.pc = "deleting", !.id = id, !.old = rows[id].key])
      BY DEF DeleteSelects
<1> DEFINE r == [Idle EXCEPT !.pc = "deleting", !.id = id, !.old = rows[id].key]
<1>2. UNCHANGED <<served, rows, blobs, used, run, due, missed, crossed, lost>>
      BY DEF DeleteSelects, execution
<1>3. Shapes /\ u \in Worker /\ u \notin Projection /\ RowShaped(id, rows[id])
      BY WorkspaceAssumption DEF FilesInv, KeysInv, Worker, Shapes
<1>4. r \in WorkRecord /\ r.pc = "deleting" /\ r.id = id /\ r.old = rows[id].key
      BY <1>3, WorkspaceAssumption DEF Idle, WorkRecord, RequestPc, RowShaped, Name
<1> HIDE DEF r
<1>5. Goes(u, r) /\ job'[u] = r /\ Others(u)
      BY <1>1, <1>3, WorkerGoes DEF r
<1>6. Shapes'
  <2>1. /\ \A i \in DOMAIN rows' : RowShaped(i, rows'[i])
        /\ used' \in Nat /\ missed' \in BOOLEAN /\ crossed' \in BOOLEAN
        BY <1>2, <1>3 DEF Shapes
  <2> QED
      BY <1>2, <1>3, <1>4, <1>5, <2>1, ShapesMove DEF RequestPc
<1>7. BlobsKept' /\ KeysApart' /\ OldKeys'
      BY <1>2, <1>3, <1>4, <1>5, KeysMove DEF FilesInv, Pending, Holding, Purging
<1>8. PagesInv'
      BY <1>2, <1>4, <1>5, <1>6, RequestPages DEF FilesInv
<1> QED
    BY <1>6, <1>7, <1>8 DEF FilesInv, KeysInv

LEMMA DeleteHolds ==
  ASSUME FilesInv, NEW u \in Request, Delete(u)
  PROVE  FilesInv'
<1> DEFINE r == Purge(u)
<1>1. /\ job[u].pc = "deleting" /\ Goes(u, r) /\ rows' = Without(job[u].id)
      /\ UNCHANGED <<served, blobs, used, run, due, crossed, lost>>
      /\ missed' = (missed \/ Generated(job[u].id))
      BY DEF Delete, execution
<1>2. Shapes /\ u \in Worker /\ u \notin Projection /\ job[u] \in WorkRecord
      BY WorkspaceAssumption DEF FilesInv, KeysInv, Worker, Shapes
<1>3. r \in WorkRecord /\ r.pc = "purging" /\ r.old = job[u].old /\ r.id = "none"
      BY <1>2, PurgeShaped
<1> HIDE DEF r
<1>4. job'[u] = r /\ Others(u)
      BY <1>1, <1>2, WorkerGoes
<1>5. /\ DOMAIN rows' = DOMAIN rows \ {job[u].id}
      /\ \A i \in DOMAIN rows \ {job[u].id} : rows'[i] = rows[i]
      BY <1>1 DEF Without
<1>6. missed \in BOOLEAN /\ missed' \in BOOLEAN
      BY <1>1, <1>2 DEF Shapes
<1>7. Shapes'
  <2>1. /\ \A i \in DOMAIN rows' : RowShaped(i, rows'[i])
        /\ used' \in Nat /\ missed' \in BOOLEAN /\ crossed' \in BOOLEAN
        BY <1>1, <1>2, <1>5, <1>6 DEF Shapes
  <2> QED
      BY <1>1, <1>2, <1>3, <2>1, ShapesMove DEF RequestPc
<1>8. BlobsKept' /\ KeysApart' /\ OldKeys'
      BY <1>1, <1>2, <1>3, <1>4, <1>5, KeysCommit DEF FilesInv, Pending, Holding, Purging
<1>9. PagesInv'
  <2>1. \/ missed'
        \/ missed' = missed /\ \A i \in DOMAIN rows : Generated(i) => i \in DOMAIN rows'
        BY <1>1, <1>5, <1>6
  <2> QED
      BY <1>1, <1>3, <1>4, <1>5, <1>7, <2>1, RequestPages DEF FilesInv
<1> QED
    BY <1>7, <1>8, <1>9 DEF FilesInv, KeysInv

-----------------------------------------------------------------------------
(* Executions                                                               *)

\* The workspace is left alone.
LEMMA KeysSame ==
  ASSUME KeysInv, Shapes', UNCHANGED <<rows, blobs, used, job, lost>>
  PROVE  KeysInv'
  BY DEF KeysInv, BlobsKept, KeysApart, OldKeys, Pending, Holding, Purging

LEMMA PagesSame ==
  ASSUME PagesInv, Shapes', UNCHANGED <<rows, job, crossed>>, crossed \/ Current'
  PROVE  PagesInv'
<1>1. Reserved'
      BY DEF PagesInv, Reserved
<1>2. crossed \/ Pages'
      BY DEF PagesInv, Pages, Alone, Found, OneFile, Generated
<1> QED
    BY <1>1, <1>2 DEF PagesInv

LEMMA ExecutionStep ==
  ASSUME FilesInv, PageWritten \/ PageReady \/ ExecutionEnds \/ ExecutionBreaks \/ ExecutionBegins
  PROVE  FilesInv'
<1>1. Shapes' /\ UNCHANGED <<rows, blobs, used, job, lost, crossed>>
      BY DEF FilesInv, KeysInv, Shapes, PageWritten, PageReady, ExecutionEnds, ExecutionBreaks,
             ExecutionBegins
<1>2. \A x \in Process : x # "normal"
      BY WorkspaceAssumption DEF Ended
<1>3. CASE PageWritten \/ PageReady
  <2>1. run' = run /\ run \in Process
        BY <1>3 DEF PageWritten, PageReady, execution
  <2> QED
      BY <1>1, <1>2, <2>1, KeysSame, PagesSame DEF FilesInv, Current
<1>4. CASE ExecutionEnds
  <2>1. run \in due'
        BY <1>4 DEF ExecutionEnds
  <2>2. Current'
        BY <2>1 DEF Current
  <2> QED
      BY <1>1, <2>2, KeysSame, PagesSame DEF FilesInv
<1>5. CASE ExecutionBreaks \/ ExecutionBegins
  <2>1. run' # "normal"
        BY <1>2, <1>5 DEF ExecutionBreaks, ExecutionBegins
  <2> QED
      BY <1>1, <2>1, KeysSame, PagesSame DEF FilesInv, Current
<1> QED
    BY <1>3, <1>4, <1>5

LEMMA DiesHolds ==
  ASSUME FilesInv, NEW x \in Process, ProcessDies(x)
  PROVE  FilesInv'
<1> DEFINE Dead(j) == job[j].pc # "idle" /\ job[j].at = x
<1>1. /\ UNCHANGED <<served, rows, blobs, used, crossed, lost>>
      /\ run' = IF run = x THEN "broken" ELSE run
      /\ due' = due \ {x}
      /\ missed' = (missed \/ x \in due \/ \E p \in Projection : Dead(p))
      /\ job' = [j \in Worker |-> IF Dead(j) THEN Rest(j) ELSE job[j]]
      BY DEF ProcessDies, Worker
<1>2. \A j \in Worker :
        \/ job'[j] = job[j] /\ ~Dead(j)
        \/ job'[j] = Rest(j) /\ Dead(j)
      BY <1>1
<1>3. Shapes
      BY DEF FilesInv, KeysInv
<1>4. Shapes'
  <2>1. job' \in [Worker -> WorkRecord]
        BY <1>1, <1>3, RestShaped DEF Shapes
  <2>2. \A p \in Projection :
          job'[p].pc \in AtPc /\ (job'[p].pc \in {"saving", "inserting"} => job'[p].id \in Id)
        BY <1>2, <1>3, RestShaped DEF Shapes, Worker, AtPc
  <2>3. \A u \in Request : job'[u].pc \in RequestPc
        BY <1>2, <1>3, RestShaped DEF Shapes, Worker, RequestPc
  <2> QED
      BY <1>1, <1>3, <2>1, <2>2, <2>3 DEF Shapes
<1>5. \A j \in Worker : Pending(job'[j]) \/ Holding(job'[j]) \/ Purging(job'[j]) => job'[j] = job[j]
      BY <1>2, RestShaped DEF Pending, Holding, Purging
<1>6. BlobsKept' /\ KeysApart' /\ OldKeys'
      BY <1>1, <1>5 DEF FilesInv, KeysInv, BlobsKept, KeysApart, OldKeys
<1>7. Reserved'
  <2>1. \A j \in Worker : job'[j].id \in {job[j].id, "none"}
        BY <1>2, RestShaped
  <2>2. ASSUME NEW u \in Request, job'[u].pc = "adding"
        PROVE  /\ job'[u].id \in Id \ DOMAIN rows'
               /\ \A j \in Worker \ {u} : job'[j].id # job'[u].id
    <3>1. job'[u] = job[u]
          BY <1>2, <2>2, RestShaped DEF Worker
    <3>2. /\ job[u].id \in Id \ DOMAIN rows
          /\ \A j \in Worker \ {u} : job[j].id # job[u].id
          BY <2>2, <3>1 DEF FilesInv, PagesInv, Reserved
    <3>3. job[u].id # "none"
          BY <3>2 DEF Id
    <3> QED
        BY <1>1, <2>1, <3>1, <3>2, <3>3
  <2> QED
      BY <2>2 DEF Reserved
<1>8. ASSUME ~crossed
      PROVE  Alone' /\ Found' /\ Current'
  <2>1. \A p \in Projection : job'[p] = job[p] \/ job'[p].pc = "idle"
        BY <1>2, RestShaped DEF Worker
  <2>2. Alone /\ Found /\ Current
        BY <1>8 DEF FilesInv, PagesInv, Pages
  <2>3. Alone'
        BY <2>1, <2>2 DEF Alone, Doing
  <2>4. Found'
        BY <1>1, <2>1, <2>2 DEF Found, OneFile, Generated
  <2>5. Current'
    <3>1. ASSUME ~missed', run' = "normal"
          PROVE  ~missed /\ run = "normal" /\ due' = due /\ \A p \in Projection : job'[p] = job[p]
          BY <1>1, <1>2, <3>1 DEF Worker
    <3> QED
        BY <1>1, <2>2, <3>1 DEF Current, Shown, Generated
  <2> QED
      BY <2>3, <2>4, <2>5
<1> QED
    BY <1>1, <1>4, <1>6, <1>7, <1>8 DEF FilesInv, KeysInv, PagesInv, Pages

-----------------------------------------------------------------------------
(* Theorems about the workspace                                             *)

LEMMA FilesBegin ==
  ASSUME FilesInit
  PROVE  FilesInv
<1>1. rows = <<>> /\ DOMAIN rows = {}
      BY DEF FilesInit
<1>2. \A j \in Worker : job[j] = Idle
      BY DEF FilesInit, Worker
<1>3. Shapes
  <2>1. job \in [Worker -> WorkRecord]
        BY IdleShaped DEF FilesInit, Worker
  <2> QED
      BY <1>1, <1>2, <2>1, IdleShaped DEF Shapes, FilesInit, Worker, AtPc, RequestPc
<1>4. BlobsKept /\ KeysApart /\ OldKeys
      BY <1>1, <1>2, IdleShaped DEF BlobsKept, KeysApart, OldKeys, Pending, Holding, Purging
<1>5. Alone /\ Reserved /\ Found /\ Current
      BY <1>1, <1>2, IdleShaped
      DEF FilesInit, Alone, Doing, Reserved, Found, OneFile, Current, Worker
<1> QED
    BY <1>3, <1>4, <1>5 DEF FilesInv, KeysInv, PagesInv, Pages

LEMMA FilesStep ==
  ASSUME FilesInv, [FilesNext]_files
  PROVE  FilesInv'
<1>1. CASE UNCHANGED files
  <2>1. Shapes' /\ (crossed \/ Current')
        BY <1>1 DEF files, execution, FilesInv, KeysInv, PagesInv, Pages, Shapes, Current, Shown,
                    Generated
  <2> QED
      BY <1>1, <2>1, KeysSame, PagesSame DEF files, FilesInv
<1>2. ASSUME NEW p \in Projection,
             \/ ProjectionWaits(p) \/ ProjectionReads(p) \/ ProjectionFinds(p)
             \/ SaveSelects(p) \/ SaveCommits(p)
      PROVE  FilesInv'
      BY <1>2, WaitsHolds, ReadsHolds, FindsHolds, SelectsHolds, CommitsHolds
<1>3. ASSUME NEW u \in Request,
             \/ CreateStarts(u) \/ Create(u) \/ Rename(u) \/ ReplaceStarts(u)
             \/ Replace(u) \/ DeleteSelects(u) \/ Delete(u)
      PROVE  FilesInv'
      BY <1>3, CreateStartsHolds, CreateHolds, RenameHolds, ReplaceStartsHolds, ReplaceHolds,
         DeleteSelectsHolds, DeleteHolds
<1>4. ASSUME NEW j \in Worker, Purges(j) \/ SaveFails(j) \/ Interrupted(j)
      PROVE  FilesInv'
      BY <1>4, PurgesHolds, SaveFailsHolds, InterruptedHolds
<1>5. CASE ExecutionEnds \/ ExecutionBreaks \/ ExecutionBegins \/ PageWritten \/ PageReady
      BY <1>5, ExecutionStep
<1>6. ASSUME NEW x \in Process, ProcessDies(x)
      PROVE  FilesInv'
      BY <1>6, DiesHolds
<1> QED
    BY <1>1, <1>2, <1>3, <1>4, <1>5, <1>6 DEF FilesNext, Worker

LEMMA FilesInvHolds == FilesSpec => []FilesInv
<1> QED
    BY FilesBegin, FilesStep, PTL DEF FilesSpec

\* However uploads, replacements, deletions and projections of any number of
\* processes overlap, fail or die, the blob that a row names is in the storage,
\* unless the save that committed the row raised afterwards: no other step
\* deletes a key that a row names or will name (application/artifacts.py,
\* application/workspace_artifacts.py, store/repositories/artifacts.py).
THEOREM BlobsKeptHolds == FilesSpec => []BlobsKept
<1>1. FilesInv => BlobsKept
      BY DEF FilesInv, KeysInv
<1> QED
    BY <1>1, FilesInvHolds, PTL

\* Once an execution has ended normally and the projections are over, the
\* learner's files show what is served, unless one failed or overlapped another
\* process's, or the learner deleted the file (application/runtime_adapter.py,
\* application/artifacts.py).
THEOREM ShownHolds == FilesSpec => []ShownAtRest
<1>1. FilesInv => ShownAtRest
      BY IdleShaped DEF FilesInv, PagesInv, Pages, Current, Shown, ShownAtRest, Doing
<1> QED
    BY <1>1, FilesInvHolds, PTL

Unedited == ~crossed' => \A id \in DOMAIN rows \cap DOMAIN rows' :
              Overwritten(id) => rows'[id].hash # rows[id].hash

LEMMA EditsStep ==
  ASSUME FilesInv, [FilesNext]_files
  PROVE  Unedited
<1>1. CASE rows' = rows
  <2>1. \A id \in DOMAIN rows : ~Overwritten(id)
        BY <1>1 DEF Overwritten
  <2> QED
      BY <1>1, <2>1 DEF Unedited
<1>2. ASSUME NEW p \in Projection, SaveCommits(p)
      PROVE  Unedited
  <2>1. ASSUME NEW n, NEW next, Saves(p, Projected(p, n), next)
        PROVE  /\ DOMAIN rows' = DOMAIN rows \cup {job[p].id}
               /\ rows'[job[p].id].hash = job[p].page
               /\ \A i \in DOMAIN rows \ {job[p].id} : rows'[i] = rows[i] /\ ~Overwritten(i)
        BY <2>1 DEF Saves, With, Projected, Overwritten
  <2>2. CASE job[p].pc = "inserting" /\ job[p].id \notin DOMAIN rows
        BY <1>2, <2>1, <2>2 DEF SaveCommits, Unedited, Rejected
  <2>3. CASE job[p].pc = "updating" /\ job[p].id \in DOMAIN rows
    <3>1. crossed' = crossed
          BY <1>2 DEF SaveCommits
    <3>2. crossed \/ \A i \in DOMAIN rows : rows[i].hash # job[p].page
          BY <2>3 DEF FilesInv, PagesInv, Pages, Found
    <3> QED
        BY <1>2, <2>1, <2>3, <3>1, <3>2 DEF SaveCommits, Unedited, Rejected
  <2>4. CASE Rejected(p)
        BY <1>1, <2>4 DEF Rejected
  <2> QED
      BY <1>2, <2>2, <2>3, <2>4 DEF SaveCommits
<1>3. ASSUME NEW u \in Request, Create(u)
      PROVE  Unedited
  <2>1. \A i \in DOMAIN rows : rows'[i] = rows[i] /\ ~Overwritten(i)
        BY <1>3 DEF Create, Saves, With, Overwritten
  <2> QED
      BY <2>1 DEF Unedited
<1>4. ASSUME NEW u \in Request, Rename(u)
      PROVE  Unedited
  <2>1. PICK id \in DOMAIN rows : rows' = With(id, [rows[id] EXCEPT !.name = "learners"])
        BY <1>4 DEF Rename
  <2>2. RowShaped(id, rows[id])
        BY DEF FilesInv, KeysInv, Shapes
  <2> DEFINE new == [rows[id] EXCEPT !.name = "learners"]
  <2>3. new.name = "learners" /\ (new.edited <=> rows[id].edited)
        BY <2>2 DEF RowShaped
  <2>4. rows'[id] = new /\ \A i \in DOMAIN rows \ {id} : rows'[i] = rows[i]
        BY <2>1 DEF With
  <2> HIDE DEF new
  <2>5. \A i \in DOMAIN rows : ~Overwritten(i)
        BY <2>3, <2>4 DEF Overwritten
  <2> QED
      BY <2>5 DEF Unedited
<1>5. ASSUME NEW u \in Request, Replace(u)
      PROVE  Unedited
  <2>1. CASE job[u].id \in DOMAIN rows
    <3> DEFINE id == job[u].id
               new == [rows[id] EXCEPT !.key = job[u].key, !.edited = TRUE]
    <3>1. RowShaped(id, rows[id])
          BY <2>1 DEF FilesInv, KeysInv, Shapes
    <3>2. new.name = rows[id].name /\ new.edited = TRUE
          BY <3>1 DEF RowShaped
    <3>3. rows'[id] = new /\ \A i \in DOMAIN rows \ {id} : rows'[i] = rows[i]
          BY <1>5, <2>1 DEF Replace, Saves, With
    <3> HIDE DEF new, id
    <3>4. \A i \in DOMAIN rows : ~Overwritten(i)
          BY <3>2, <3>3 DEF Overwritten
    <3> QED
        BY <3>4 DEF Unedited
  <2>2. CASE job[u].id \notin DOMAIN rows
        BY <1>1, <1>5, <2>2 DEF Replace, Rejected
  <2> QED
      BY <2>1, <2>2
<1>6. ASSUME NEW u \in Request, Delete(u)
      PROVE  Unedited
  <2>1. \A i \in DOMAIN rows' : rows'[i] = rows[i]
        BY <1>6 DEF Delete, Without
  <2> QED
      BY <2>1 DEF Unedited, Overwritten
<1>7. CASE UNCHANGED files
      BY <1>1, <1>7 DEF files
<1>8. ASSUME NEW p \in Projection,
             ProjectionWaits(p) \/ ProjectionReads(p) \/ ProjectionFinds(p) \/ SaveSelects(p)
      PROVE  Unedited
      BY <1>1, <1>8 DEF ProjectionWaits, ProjectionReads, ProjectionFinds, SaveSelects
<1>9. ASSUME NEW u \in Request, CreateStarts(u) \/ ReplaceStarts(u) \/ DeleteSelects(u)
      PROVE  Unedited
      BY <1>1, <1>9 DEF CreateStarts, ReplaceStarts, DeleteSelects
<1>10. ASSUME NEW j \in Worker, Purges(j) \/ SaveFails(j) \/ Interrupted(j)
       PROVE  Unedited
       BY <1>1, <1>10 DEF Purges, SaveFails, Interrupted
<1>11. CASE \/ ExecutionEnds \/ ExecutionBreaks \/ ExecutionBegins \/ PageWritten \/ PageReady
            \/ \E x \in Process : ProcessDies(x)
       BY <1>1, <1>11 DEF ExecutionEnds, ExecutionBreaks, ExecutionBegins, PageWritten, PageReady,
                         ProcessDies
<1> QED
    BY <1>2, <1>3, <1>4, <1>5, <1>6, <1>7, <1>8, <1>9, <1>10, <1>11 DEF FilesNext, Worker

\* Unless projections of two processes have overlapped, a projection commits
\* another page than the row has: while a page does not change, what the learner
\* made of its file is not overwritten (application/artifacts.py).
THEOREM EditsStayHolds == FilesSpec => EditsStay
<1>1. FilesInv /\ [FilesNext]_files => [Unedited]_files
      BY EditsStep
<1>2. [][Unedited]_files <=> EditsStay
      BY PTL DEF EditsStay, Unedited
<1> QED
    BY <1>1, <1>2, FilesInvHolds, PTL DEF FilesSpec

-----------------------------------------------------------------------------
(* Attempts at a page                                                       *)

\* An attempt that no other has overlapped works alone.
Single ==
    \A a, b \in Attempt : Working(a) /\ att[a].alone /\ Working(b) => a = b

\* Its build has read what is published, and what it compiled is served.
Built ==
    kind = "lecture-deck" => \A a \in Attempt : att[a].alone =>
      /\ att[a].pc \in {"building", "built"} => att[a].source = root
      /\ writer = a /\ att[a].pc = "built" /\ att[a].verdict => file = root

\* Its validators have accepted what is served.
Accepted ==
    \A a \in Attempt :
      /\ writer = a
      /\ \/ att[a].pc = "checked" /\ att[a].verdict
         \/ att[a].pc \in {"returned", "persisted", "held"}
      /\ kind = "lecture-deck" => att[a].alone
      => file # NoDoc /\ file.ok

\* Whoever began was told what it is about.
Tasked == \A a \in Attempt : att[a].pc \notin {"new", "failed"} => att[a].of # None

ServedInv == TypeOK /\ Single /\ Built /\ Accepted /\ Tasked

\* a, which works, takes a step.
Steps(a) == /\ \A b \in Attempt \ {a} : att'[b] = att[b]
            /\ att'[a].alone = att[a].alone /\ att'[a].of = att[a].of
            /\ kind' = kind
            /\ writer' = a \/ (writer' = writer /\ file' = file)

LEMMA OneSteps ==
  ASSUME ServedInv, TypeOK', NEW a \in Attempt, Working(a), Steps(a),
         kind = "lecture-deck" /\ att'[a].alone =>
           /\ att'[a].pc \in {"building", "built"} => att'[a].source = root'
           /\ writer' = a /\ att'[a].pc = "built" /\ att'[a].verdict => file' = root',
         /\ writer' = a
         /\ \/ att'[a].pc = "checked" /\ att'[a].verdict
            \/ att'[a].pc \in {"returned", "persisted", "held"}
         /\ kind = "lecture-deck" => att'[a].alone
         => file' # NoDoc /\ file'.ok
  PROVE  ServedInv'
<1>1. Single'
  <2>1. \A b \in Attempt \ {a} : Working(b)' => Working(b)
        BY DEF Steps, Working
  <2>2. \A b \in Attempt : att'[b].alone = att[b].alone
        BY DEF Steps
  <2> QED
      BY <2>1, <2>2 DEF ServedInv, Single
<1>2. Built'
  <2>1. ASSUME NEW b \in Attempt \ {a}, att'[b].alone
        PROVE  att'[b].pc \notin {"building", "built"}
    <3>1. att[b].alone /\ att'[b] = att[b]
          BY <2>1 DEF Steps
    <3>2. ~Working(b)
          BY <3>1 DEF ServedInv, Single
    <3> QED
        BY <3>1, <3>2 DEF Working, Finished
  <2> QED
      BY <2>1 DEF Built, Steps
<1>3. Accepted'
  <2>1. ASSUME NEW b \in Attempt \ {a}, writer' = b
        PROVE  att'[b] = att[b] /\ writer = b /\ file' = file
        BY <2>1 DEF Steps
  <2> QED
      BY <2>1 DEF ServedInv, Accepted, Steps
<1>4. Tasked'
      BY DEF ServedInv, Tasked, Steps, Working, Finished
<1> QED
    BY <1>1, <1>2, <1>3, <1>4 DEF ServedInv

\* Nothing is written, and whoever moves is before or beyond all work.
LEMMA NobodySteps ==
  ASSUME ServedInv, TypeOK', UNCHANGED <<kind, root, file, writer>>,
         \A b \in Attempt :
           \/ att'[b].pc \in {"planned", "drafting", "failed"}
           \/ /\ att'[b].pc = att[b].pc /\ att'[b].verdict = att[b].verdict
              /\ att'[b].source = att[b].source /\ (att'[b].alone => att[b].alone),
         Single', Tasked'
  PROVE  ServedInv'
  BY DEF ServedInv, Built, Accepted

-----------------------------------------------------------------------------
(* Records of attempts                                                      *)

JobPc == {"new", "planned", "drafting", "written", "building", "built", "checked", "returned",
          "persisted", "held", "incomplete", "failed"}

\* The record of an attempt with another place, page, source and verdict.
LEMMA AttemptGoes ==
  ASSUME TypeOK, NEW a \in Attempt, NEW r \in Job, att' = [att EXCEPT ![a] = r],
         r.alone = att[a].alone /\ r.of = att[a].of
  PROVE  /\ att' \in [Attempt -> Job] /\ att'[a] = r
         /\ att'[a].alone = att[a].alone /\ att'[a].of = att[a].of
         /\ \A b \in Attempt \ {a} : att'[b] = att[b]
  BY DEF TypeOK

LEMMA MovesGoes ==
  ASSUME TypeOK, NEW a \in Attempt, NEW pc \in JobPc, Moves(a, pc)
  PROVE  /\ att' \in [Attempt -> Job] /\ att'[a].pc = pc
         /\ att'[a].alone = att[a].alone /\ att'[a].of = att[a].of /\ att'[a].verdict = att[a].verdict
         /\ \A b \in Attempt \ {a} : att'[b] = att[b]
<1> DEFINE r == [att[a] EXCEPT !.pc = pc]
<1>1. att[a] \in Job
      BY DEF TypeOK
<1>2. r \in Job /\ r.pc = pc /\ r.alone = att[a].alone /\ r.of = att[a].of /\ r.verdict = att[a].verdict
      BY <1>1 DEF Job, JobPc
<1>3. att' = [att EXCEPT ![a] = r]
      BY DEF Moves
<1> HIDE DEF r
<1> QED
    BY <1>2, <1>3, AttemptGoes

-----------------------------------------------------------------------------
(* Each step of an attempt                                                  *)

LEMMA StageHolds ==
  ASSUME ServedInv, NEW a \in Attempt, Stage(a)
  PROVE  ServedInv'
<1>1. PICK ok \in BOOLEAN : draft' = [draft EXCEPT !.page = [by |-> a, ok |-> ok]]
      BY DEF Stage
<1>2. /\ att[a].pc = "drafting" /\ att[a].staged < MaxStage
      /\ att' = [att EXCEPT ![a].staged = @ + 1]
      /\ UNCHANGED <<kind, root, file, round, holds, produced, verified, writer>>
      BY DEF Stage
<1> DEFINE r == [att[a] EXCEPT !.staged = att[a].staged + 1]
<1>3. TypeOK /\ att[a] \in Job /\ draft \in Draft
      BY DEF ServedInv, TypeOK
<1>4. r \in Job /\ r.pc = "drafting" /\ r.alone = att[a].alone /\ r.of = att[a].of
      BY <1>2, <1>3, MaterialsAssumption DEF Job
<1>5. att' = [att EXCEPT ![a] = r]
      BY <1>2
<1> HIDE DEF r
<1>6. /\ att' \in [Attempt -> Job] /\ att'[a] = r /\ att'[a].alone = att[a].alone /\ att'[a].of = att[a].of
      /\ \A b \in Attempt \ {a} : att'[b] = att[b]
      BY <1>3, <1>4, <1>5, AttemptGoes
<1>7. draft' \in Draft
      BY <1>1, <1>3 DEF Draft, Doc
<1>8. TypeOK'
      BY <1>2, <1>3, <1>6, <1>7 DEF TypeOK
<1>9. Working(a) /\ Steps(a)
      BY <1>2, <1>6 DEF Working, Finished, Steps
<1> QED
    BY <1>4, <1>6, <1>8, <1>9, OneSteps

\* What a publishes: the page is in its record.
LEMMA PublishHolds ==
  ASSUME ServedInv, NEW a \in Attempt, att[a].pc = "drafting", draft.page # NoDoc,
         Publishes(a, draft.page), draft' \in {draft, Empty},
         UNCHANGED <<kind, root, round, holds, produced, verified>>
  PROVE  ServedInv'
<1>1. TypeOK /\ att[a] \in Job /\ draft.page \in Doc \cup {NoDoc}
      BY DEF ServedInv, TypeOK, Draft
<1> DEFINE r == [att[a] EXCEPT !.pc = "written", !.page = draft.page]
<1>2. r \in Job /\ r.pc = "written" /\ r.alone = att[a].alone /\ r.of = att[a].of
      BY <1>1 DEF Job
<1>3. att' = [att EXCEPT ![a] = r] /\ file' = draft.page /\ writer' = a
      BY DEF Publishes
<1> HIDE DEF r
<1>4. /\ att' \in [Attempt -> Job] /\ att'[a] = r /\ att'[a].alone = att[a].alone /\ att'[a].of = att[a].of
      /\ \A b \in Attempt \ {a} : att'[b] = att[b]
      BY <1>1, <1>2, <1>3, AttemptGoes
<1>5. TypeOK'
  <2>1. Empty \in Draft
        BY DEF Empty, Draft
  <2> QED
      BY <1>1, <1>3, <1>4, <2>1 DEF TypeOK
<1>6. Working(a) /\ Steps(a)
      BY <1>3, <1>4 DEF Working, Finished, Steps
<1> QED
    BY <1>2, <1>4, <1>5, <1>6, OneSteps

LEMMA LessonReturnsHolds ==
  ASSUME ServedInv, NEW a \in Attempt, LessonReturns(a)
  PROVE  ServedInv'
  BY PublishHolds DEF LessonReturns

\* It gives up before anything was published.
LEMMA GivesUp ==
  ASSUME ServedInv, NEW a \in Attempt, att[a].pc = "drafting", Moves(a, "failed"),
         draft' \in {draft, Empty},
         UNCHANGED <<kind, root, file, round, holds, produced, verified, writer>>
  PROVE  ServedInv'
<1>1. TypeOK /\ Empty \in Draft
      BY DEF ServedInv, Empty, Draft
<1>2. /\ att' \in [Attempt -> Job] /\ att'[a].pc = "failed" /\ att'[a].alone = att[a].alone /\ att'[a].of = att[a].of
      /\ \A b \in Attempt \ {a} : att'[b] = att[b]
      BY <1>1, MovesGoes DEF JobPc
<1>3. TypeOK'
      BY <1>1, <1>2 DEF TypeOK
<1>4. Working(a) /\ Steps(a)
      BY <1>2 DEF Working, Finished, Steps
<1> QED
    BY <1>2, <1>3, <1>4, OneSteps

LEMMA ModelFailsHolds ==
  ASSUME ServedInv, NEW a \in Attempt, ModelFails(a)
  PROVE  ServedInv'
  BY GivesUp DEF ModelFails

LEMMA VisualReturnsHolds ==
  ASSUME ServedInv, NEW a \in Attempt, VisualReturns(a)
  PROVE  ServedInv'
  BY GivesUp, PublishHolds DEF VisualReturns

LEMMA DeckReturnsHolds ==
  ASSUME ServedInv, NEW a \in Attempt, DeckReturns(a)
  PROVE  ServedInv'
<1>1. CASE draft = Empty
      BY <1>1, GivesUp DEF DeckReturns
<1>2. CASE draft # Empty
  <2> DEFINE pc == IF draft.runtime /\ draft.page # NoDoc THEN "written" ELSE "failed"
             r  == [att[a] EXCEPT !.pc = pc, !.page = draft.page]
  <2>1. /\ att[a].pc = "drafting" /\ root' = draft.page /\ file' = draft.dist /\ writer' = a
        /\ att' = [att EXCEPT ![a] = r]
        /\ UNCHANGED <<kind, draft, round, holds, produced, verified>>
        BY <1>2 DEF DeckReturns
  <2>2. /\ TypeOK /\ att[a] \in Job
        /\ draft.page \in Doc \cup {NoDoc} /\ draft.dist \in Doc \cup {NoDoc}
        BY DEF ServedInv, TypeOK, Draft
  <2>3. pc \in {"written", "failed"}
        OBVIOUS
  <2> HIDE DEF pc
  <2>4. r \in Job /\ r.pc = pc /\ r.alone = att[a].alone /\ r.of = att[a].of
        BY <2>2, <2>3 DEF Job
  <2> HIDE DEF r
  <2>5. /\ att' \in [Attempt -> Job] /\ att'[a] = r /\ att'[a].alone = att[a].alone /\ att'[a].of = att[a].of
        /\ \A b \in Attempt \ {a} : att'[b] = att[b]
        BY <2>1, <2>2, <2>4, AttemptGoes
  <2>6. TypeOK'
        BY <2>1, <2>2, <2>5 DEF TypeOK
  <2>7. Working(a) /\ Steps(a)
        BY <2>1, <2>5 DEF Working, Finished, Steps
  <2> QED
      BY <2>3, <2>4, <2>5, <2>6, <2>7, OneSteps
<1> QED
    BY <1>1, <1>2

LEMMA BuildReadsHolds ==
  ASSUME ServedInv, NEW a \in Attempt, BuildReads(a)
  PROVE  ServedInv'
<1> DEFINE r == [att[a] EXCEPT !.pc = "building", !.source = root]
<1>1. /\ att[a].pc = "written" /\ kind = "lecture-deck" /\ att' = [att EXCEPT ![a] = r]
      /\ UNCHANGED <<kind, draft, root, file, round, holds, produced, verified, writer>>
      BY DEF BuildReads
<1>2. TypeOK /\ att[a] \in Job /\ root \in Doc \cup {NoDoc}
      BY DEF ServedInv, TypeOK
<1>3. r \in Job /\ r.pc = "building" /\ r.source = root /\ r.alone = att[a].alone /\ r.of = att[a].of
      BY <1>2 DEF Job
<1> HIDE DEF r
<1>4. /\ att' \in [Attempt -> Job] /\ att'[a] = r /\ att'[a].alone = att[a].alone /\ att'[a].of = att[a].of
      /\ \A b \in Attempt \ {a} : att'[b] = att[b]
      BY <1>1, <1>2, <1>3, AttemptGoes
<1>5. TypeOK'
      BY <1>1, <1>2, <1>4 DEF TypeOK
<1>6. Working(a) /\ Steps(a)
      BY <1>1, <1>4 DEF Working, Finished, Steps
<1> QED
    BY <1>1, <1>3, <1>4, <1>5, <1>6, OneSteps

LEMMA BuildWritesHolds ==
  ASSUME ServedInv, NEW a \in Attempt, BuildWrites(a)
  PROVE  ServedInv'
<1>1. PICK compiles \in BOOLEAN :
        /\ att[a].source = NoDoc => ~compiles
        /\ IF compiles THEN file' = att[a].source /\ writer' = a ELSE UNCHANGED <<file, writer>>
        /\ att' = [att EXCEPT ![a].pc = "built", ![a].verdict = compiles]
      BY DEF BuildWrites
<1> DEFINE r == [att[a] EXCEPT !.pc = "built", !.verdict = compiles]
<1>2. /\ att[a].pc = "building" /\ att' = [att EXCEPT ![a] = r]
      /\ UNCHANGED <<kind, draft, root, round, holds, produced, verified>>
      BY <1>1 DEF BuildWrites
<1>3. TypeOK /\ att[a] \in Job /\ att[a].source \in Doc \cup {NoDoc}
      BY DEF ServedInv, TypeOK, Job
<1>4. /\ r \in Job /\ r.pc = "built" /\ r.source = att[a].source
      /\ r.alone = att[a].alone /\ r.of = att[a].of /\ r.verdict = compiles
      BY <1>3 DEF Job
<1> HIDE DEF r
<1>5. /\ att' \in [Attempt -> Job] /\ att'[a] = r /\ att'[a].alone = att[a].alone /\ att'[a].of = att[a].of
      /\ \A b \in Attempt \ {a} : att'[b] = att[b]
      BY <1>2, <1>3, <1>4, AttemptGoes
<1>6. TypeOK'
      BY <1>1, <1>2, <1>3, <1>5 DEF TypeOK
<1>7. Working(a) /\ Steps(a)
      BY <1>1, <1>2, <1>5 DEF Working, Finished, Steps
<1>8. kind = "lecture-deck" /\ att'[a].alone =>
        /\ att'[a].source = root'
        /\ att'[a].verdict => file' = root'
      BY <1>1, <1>2, <1>4, <1>5 DEF ServedInv, Built
<1> QED
    BY <1>4, <1>5, <1>6, <1>7, <1>8, OneSteps

LEMMA ValidatesHolds ==
  ASSUME ServedInv, NEW a \in Attempt, Validates(a)
  PROVE  ServedInv'
<1> DEFINE page == IF kind = "lecture-deck" /\ file # NoDoc THEN root ELSE file
           good == page # NoDoc /\ page.ok /\ (kind = "lecture-deck" => att[a].verdict)
<1>1. PICK v \in {good, FALSE} : att' = [att EXCEPT ![a].pc = "checked", ![a].verdict = v]
      BY DEF Validates
<1> DEFINE r == [att[a] EXCEPT !.pc = "checked", !.verdict = v]
<1>2. /\ IF kind = "lecture-deck" THEN att[a].pc = "built" ELSE att[a].pc = "written"
      /\ att' = [att EXCEPT ![a] = r]
      /\ UNCHANGED <<kind, draft, root, file, round, holds, produced, verified, writer>>
      BY <1>1 DEF Validates
<1>3. TypeOK /\ att[a] \in Job
      BY DEF ServedInv, TypeOK
<1>4. v \in BOOLEAN /\ (v => good)
      BY <1>1
<1>5. v /\ writer = a /\ (kind = "lecture-deck" => att[a].alone) => file # NoDoc /\ file.ok
  <2>1. CASE kind = "lecture-deck"
        BY <1>2, <1>4, <2>1 DEF ServedInv, Built
  <2>2. CASE kind # "lecture-deck"
        BY <1>4, <2>2
  <2> QED
      BY <2>1, <2>2
<1> HIDE DEF good, page
<1>6. r \in Job /\ r.pc = "checked" /\ r.alone = att[a].alone /\ r.of = att[a].of /\ r.verdict = v
      BY <1>3, <1>4 DEF Job
<1> HIDE DEF r
<1>7. /\ att' \in [Attempt -> Job] /\ att'[a] = r /\ att'[a].alone = att[a].alone /\ att'[a].of = att[a].of
      /\ \A b \in Attempt \ {a} : att'[b] = att[b]
      BY <1>2, <1>3, <1>6, AttemptGoes
<1>8. TypeOK'
      BY <1>2, <1>3, <1>7 DEF TypeOK
<1>9. Working(a) /\ Steps(a)
      BY <1>2, <1>7 DEF Working, Finished, Steps
<1> QED
    BY <1>2, <1>5, <1>6, <1>7, <1>8, <1>9, OneSteps

\* With the verdict its place is all that changes of an attempt.
LEMMA AfterVerdict ==
  ASSUME ServedInv, NEW a \in Attempt, NEW pc \in JobPc, Moves(a, pc),
         att[a].pc \in {"checked", "returned", "persisted"},
         pc \in {"returned", "persisted", "held", "incomplete", "failed"},
         att[a].pc = "checked" /\ pc # "failed" => att[a].verdict,
         UNCHANGED <<kind, root, file, round, holds, writer>>,
         draft' \in {draft, Empty}, produced' \in BOOLEAN, verified' \in BOOLEAN
  PROVE  ServedInv'
<1>1. TypeOK /\ Empty \in Draft
      BY DEF ServedInv, Empty, Draft
<1>2. /\ att' \in [Attempt -> Job] /\ att'[a].pc = pc /\ att'[a].alone = att[a].alone /\ att'[a].of = att[a].of
      /\ \A b \in Attempt \ {a} : att'[b] = att[b]
      BY <1>1, MovesGoes
<1>3. TypeOK'
      BY <1>1, <1>2 DEF TypeOK
<1>4. Working(a) /\ Steps(a)
      BY <1>2 DEF Working, Finished, Steps
<1>5. /\ writer' = a
      /\ att'[a].pc \in {"returned", "persisted", "held"}
      /\ kind = "lecture-deck" => att'[a].alone
      => file' # NoDoc /\ file'.ok
      BY <1>2 DEF ServedInv, Accepted
<1> QED
    BY <1>2, <1>3, <1>4, <1>5, OneSteps

LEMMA SettlesHolds ==
  ASSUME ServedInv, NEW a \in Attempt, Settles(a)
  PROVE  ServedInv'
<1> DEFINE pc == IF att[a].verdict THEN "returned" ELSE "failed"
<1>1. /\ att[a].pc = "checked" /\ Moves(a, pc) /\ draft' \in {draft, Empty}
      /\ UNCHANGED <<kind, root, file, round, holds, produced, verified, writer>>
      BY DEF Settles
<1>2. pc \in {"returned", "failed"} /\ (pc # "failed" => att[a].verdict)
      OBVIOUS
<1> HIDE DEF pc
<1>3. produced' \in BOOLEAN /\ verified' \in BOOLEAN
      BY <1>1 DEF ServedInv, TypeOK
<1>4. pc \in JobPc
      BY <1>2 DEF JobPc
<1> QED
    BY <1>1, <1>2, <1>3, <1>4, AfterVerdict

LEMMA PersistsHolds ==
  ASSUME ServedInv, NEW a \in Attempt, Persists(a)
  PROVE  ServedInv'
  BY AfterVerdict DEF Persists, JobPc

LEMMA ChecksDoneHolds ==
  ASSUME ServedInv, NEW a \in Attempt, ChecksDone(a)
  PROVE  ServedInv'
<1> DEFINE pc == IF file # NoDoc /\ verified THEN "held" ELSE "incomplete"
<1>1. /\ att[a].pc = "persisted" /\ Moves(a, pc)
      /\ UNCHANGED <<kind, draft, root, file, round, holds, produced, verified, writer>>
      BY DEF ChecksDone
<1>2. pc \in {"held", "incomplete"}
      OBVIOUS
<1> HIDE DEF pc
<1>3. produced' \in BOOLEAN /\ verified' \in BOOLEAN
      BY <1>1 DEF ServedInv, TypeOK
<1>4. pc \in JobPc
      BY <1>2 DEF JobPc
<1> QED
    BY <1>1, <1>2, <1>3, <1>4, AfterVerdict

\* a begins: the others that work are no longer alone.
LEMMA BeginHolds ==
  ASSUME ServedInv, NEW a \in Attempt, att[a].pc = "planned",
         NEW pc \in {"drafting", "failed"}, Drafting(a, pc), draft' \in Draft,
         UNCHANGED <<kind, root, file, round, holds, produced, verified, writer>>
  PROVE  ServedInv'
<1> DEFINE others == {b \in Attempt \ {a} : Working(b)}
           mine   == [att[a] EXCEPT !.pc = pc, !.alone = others = {}]
           late(b) == [att[b] EXCEPT !.alone = FALSE]
<1>1. att' = [b \in Attempt |-> IF b = a THEN mine
                                ELSE IF b \in others THEN late(b) ELSE att[b]]
      BY DEF Drafting
<1>2. TypeOK /\ \A b \in Attempt : att[b] \in Job
      BY DEF ServedInv, TypeOK
<1>3. mine \in Job /\ mine.pc = pc /\ (mine.alone <=> others = {}) /\ mine.of = att[a].of
      BY <1>2 DEF Job
<1>4. \A b \in Attempt : /\ late(b) \in Job /\ late(b).pc = att[b].pc
                         /\ late(b).verdict = att[b].verdict /\ late(b).of = att[b].of
                         /\ late(b).source = att[b].source /\ ~late(b).alone
      BY <1>2 DEF Job
<1> HIDE DEF mine, late
<1>5. att'[a] = mine
      BY <1>1
<1>6. \A b \in Attempt \ {a} : att'[b] = IF b \in others THEN late(b) ELSE att[b]
      BY <1>1
<1>7. att' \in [Attempt -> Job]
      BY <1>1, <1>2, <1>3, <1>4
<1>8. TypeOK'
      BY <1>2, <1>7 DEF TypeOK
<1>9. Single'
  <2>1. \A b \in Attempt \ {a} : att'[b].pc = att[b].pc
        BY <1>4, <1>6
  <2>2. \A b \in Attempt \ {a} : Working(b)' <=> b \in others
        BY <2>1 DEF Working
  <2>3. \A b \in others : ~att'[b].alone
        BY <1>4, <1>6
  <2> QED
      BY <1>3, <1>5, <2>2, <2>3 DEF Single
<1>10. \A b \in Attempt \ {a} :
         /\ att'[b].pc = att[b].pc /\ att'[b].verdict = att[b].verdict
         /\ att'[b].source = att[b].source /\ (att'[b].alone => att[b].alone)
         /\ att'[b].of = att[b].of
       BY <1>4, <1>6
<1>11. Tasked'
       BY <1>3, <1>5, <1>10 DEF ServedInv, Tasked
<1> QED
    BY <1>3, <1>5, <1>8, <1>9, <1>10, <1>11, NobodySteps

LEMMA LessonBeginsHolds ==
  ASSUME ServedInv, NEW a \in Attempt, LessonBegins(a)
  PROVE  ServedInv'
<1> DEFINE pc == IF ~Fresh(a) /\ file = NoDoc THEN "failed" ELSE "drafting"
<1>1. draft' \in Draft
      BY DEF LessonBegins, OpensDraft, Draft, ServedInv, TypeOK
<1>2. pc \in {"drafting", "failed"} /\ Drafting(a, pc)
      BY DEF LessonBegins
<1> HIDE DEF pc
<1> QED
    BY <1>1, <1>2, BeginHolds DEF LessonBegins, Begins

LEMMA DeckBeginsHolds ==
  ASSUME ServedInv, NEW a \in Attempt, DeckBegins(a)
  PROVE  ServedInv'
<1>1. draft' \in Draft
  <2>1. root \in Doc \cup {NoDoc} /\ file \in Doc \cup {NoDoc}
        BY DEF ServedInv, TypeOK
  <2>2. \/ draft' = [page |-> NoDoc, runtime |-> TRUE, dist |-> NoDoc]
        \/ draft' = [page |-> root, runtime |-> TRUE, dist |-> file]
        BY DEF DeckBegins, OpensDraft
  <2>3. [page |-> root, runtime |-> TRUE, dist |-> file] \in Draft
        BY <2>1 DEF Draft
  <2>4. [page |-> NoDoc, runtime |-> TRUE, dist |-> NoDoc] \in Draft
        BY DEF Draft
  <2> QED
      BY <2>2, <2>3, <2>4
<1> QED
    BY <1>1, BeginHolds DEF DeckBegins, Begins

LEMMA VisualBeginsHolds ==
  ASSUME ServedInv, NEW a \in Attempt, VisualBegins(a)
  PROVE  ServedInv'
<1>1. draft' \in Draft
      BY DEF VisualBegins, OpensDraft, Draft, ServedInv, TypeOK
<1> QED
    BY <1>1, BeginHolds DEF VisualBegins, Begins

-----------------------------------------------------------------------------
(* Rounds                                                                   *)

\* Some attempts move to where nothing works.
LEMMA RoundHolds ==
  ASSUME ServedInv, TypeOK', UNCHANGED <<kind, root, file, writer>>,
         \A b \in Attempt : \/ att'[b] = att[b]
                            \/ att'[b].pc = "planned" /\ att'[b].of # None
                            \/ att'[b].pc = "failed"
  PROVE  ServedInv'
<1>1. \A b \in Attempt : Working(b)' => Working(b) /\ att'[b] = att[b]
      BY DEF Working, Finished
<1>2. Single'
      BY <1>1 DEF ServedInv, Single
<1>3. Tasked'
      BY DEF ServedInv, Tasked
<1> QED
    BY <1>2, <1>3, NobodySteps

LEMMA PlanHolds ==
  ASSUME ServedInv, NEW fresh \in SUBSET Attempt, NEW revisions \in SUBSET Attempt,
         Plan(fresh, revisions)
  PROVE  ServedInv'
<1>1. PICK of \in [revisions -> holds], stranger \in BOOLEAN :
        att' = [a \in Attempt |->
                  IF a \in fresh
                    THEN [att[a] EXCEPT !.pc = "planned", !.of = a, !.stranger = stranger]
                  ELSE IF a \in revisions
                    THEN [att[a] EXCEPT !.pc = "planned", !.of = of[a]]
                  ELSE att[a]]
      BY DEF Plan
<1> DEFINE new(a) == [att[a] EXCEPT !.pc = "planned", !.of = a, !.stranger = stranger]
           again(a) == [att[a] EXCEPT !.pc = "planned", !.of = of[a]]
<1>2. TypeOK /\ \A a \in Attempt : att[a] \in Job
      BY DEF ServedInv, TypeOK
<1>3. \A a \in Attempt : new(a) \in Job /\ new(a).pc = "planned" /\ new(a).of # None
  <2> TAKE a \in Attempt
  <2>1. new(a).pc = "planned" /\ new(a).of = a
        BY <1>2 DEF Job
  <2>2. new(a) \in Job
        BY <1>2 DEF Job
  <2> QED
      BY <2>1, <2>2, MaterialsAssumption
<1>4. \A a \in revisions :
        again(a) \in Job /\ again(a).pc = "planned" /\ again(a).of # None
  <2>1. \A a \in revisions : of[a] \in Attempt
        BY <1>2 DEF TypeOK
  <2> TAKE a \in revisions
  <2>2. a \in Attempt /\ of[a] \in Attempt
        BY <2>1
  <2>3. again(a).pc = "planned" /\ again(a).of = of[a]
        BY <1>2, <2>2 DEF Job
  <2>4. again(a) \in Job
    <3> DEFINE b == of[a]
    <3>1. att[a] \in Job /\ b \in Attempt
          BY <1>2, <2>2
    <3> HIDE DEF b
    <3>2. [att[a] EXCEPT !.pc = "planned", !.of = b] \in Job
          BY <3>1 DEF Job
    <3> QED
        BY <3>2 DEF b
  <2> QED
      BY <2>2, <2>3, <2>4, MaterialsAssumption
<1>5. att' = [a \in Attempt |-> IF a \in fresh THEN new(a)
                                ELSE IF a \in revisions THEN again(a) ELSE att[a]]
      BY <1>1
<1> HIDE DEF new, again
<1>6. att' \in [Attempt -> Job]
      BY <1>2, <1>3, <1>4, <1>5
<1>7. TypeOK'
      BY <1>2, <1>6 DEF TypeOK, Plan
<1>8. \A b \in Attempt :
        att'[b] = att[b] \/ (att'[b].pc = "planned" /\ att'[b].of # None)
      BY <1>3, <1>4, <1>5
<1> QED
    BY <1>7, <1>8, RoundHolds DEF Plan

LEMMA CrashHolds ==
  ASSUME ServedInv, Crash
  PROVE  ServedInv'
<1> DEFINE dead(a) == [att[a] EXCEPT !.pc = "failed"]
           down == {a \in round : att[a].pc \notin Finished}
<1>1. /\ att' = [a \in Attempt |-> IF a \in down THEN dead(a) ELSE att[a]]
      /\ round' = {} /\ produced' \in BOOLEAN /\ verified' \in BOOLEAN
      /\ UNCHANGED <<kind, draft, root, file, holds, writer>>
      BY DEF Crash, Restored
<1>2. TypeOK /\ \A a \in Attempt : att[a] \in Job
      BY DEF ServedInv, TypeOK
<1>3. \A a \in Attempt : dead(a) \in Job /\ dead(a).pc = "failed"
      BY <1>2 DEF Job
<1> HIDE DEF dead, down
<1>4. att' \in [Attempt -> Job]
      BY <1>1, <1>2, <1>3
<1>5. TypeOK'
      BY <1>1, <1>2, <1>4 DEF TypeOK
<1>6. \A b \in Attempt : att'[b] = att[b] \/ att'[b].pc = "failed"
      BY <1>1, <1>3
<1> QED
    BY <1>1, <1>5, <1>6, RoundHolds

\* A hold is closed, a round ends, an execution begins: no attempt moves.
LEMMA BetweenHolds ==
  ASSUME ServedInv,
         (\E a \in Attempt : CloseHold(a)) \/ EndRound \/ NextExecution \/ UNCHANGED materials
  PROVE  ServedInv'
<1>1. UNCHANGED <<kind, draft, root, file, att, writer>>
      BY DEF CloseHold, EndRound, NextExecution, materials
<1>2. TypeOK /\ \A a \in Attempt : att[a] \in Job
      BY DEF ServedInv, TypeOK
<1>3. \A a \in Attempt : att[a].pc = "held" => att[a].of \in Attempt
      BY <1>2 DEF ServedInv, Tasked, Job
<1>4. /\ holds' \subseteq Attempt /\ round' \subseteq Attempt
      /\ produced' \in BOOLEAN /\ verified' \in BOOLEAN
  <2>1. CASE EndRound
        BY <1>2, <1>3, <2>1 DEF EndRound, TypeOK
  <2>2. CASE NextExecution
        BY <1>2, <2>2 DEF NextExecution, Restored, TypeOK
  <2>3. CASE \E a \in Attempt : CloseHold(a)
        BY <1>2, <2>3 DEF CloseHold, TypeOK
  <2>4. CASE UNCHANGED materials
        BY <1>2, <2>4 DEF materials, TypeOK
  <2> QED
      BY <2>1, <2>2, <2>3, <2>4
<1>5. TypeOK'
      BY <1>1, <1>2, <1>4 DEF TypeOK
<1> QED
    BY <1>1, <1>5, RoundHolds

-----------------------------------------------------------------------------
(* Theorems about attempts                                                  *)

LEMMA ServedBegin ==
  ASSUME Init
  PROVE  ServedInv
<1> DEFINE job0 == [pc |-> "new", of |-> None, stranger |-> FALSE, staged |-> 0,
                    page |-> NoDoc, source |-> NoDoc, verdict |-> FALSE, alone |-> TRUE]
<1>1. att = [a \in Attempt |-> job0]
      BY DEF Init
<1>2. job0 \in Job /\ job0.pc = "new"
      BY MaterialsAssumption DEF Job
<1> HIDE DEF job0
<1>3. Empty \in Draft
      BY DEF Empty, Draft
<1>4. TypeOK
      BY <1>1, <1>2, <1>3 DEF TypeOK, Init
<1>5. \A a \in Attempt : att[a].pc = "new"
      BY <1>1, <1>2
<1> QED
    BY <1>4, <1>5 DEF ServedInv, Single, Working, Built, Accepted, Tasked

LEMMA ServedStep ==
  ASSUME ServedInv, [MaterialsNext]_materials
  PROVE  ServedInv'
<1>1. ASSUME NEW a \in Attempt, Attempts(a)
      PROVE  ServedInv'
      BY <1>1, LessonBeginsHolds, LessonReturnsHolds, ModelFailsHolds, DeckBeginsHolds,
         DeckReturnsHolds, BuildReadsHolds, BuildWritesHolds, VisualBeginsHolds,
         VisualReturnsHolds, StageHolds, ValidatesHolds, SettlesHolds, PersistsHolds,
         ChecksDoneHolds DEF Attempts
<1> QED
    BY <1>1, PlanHolds, CrashHolds, BetweenHolds DEF MaterialsNext

\* What attempts hold and what is served have the shapes of the code's records: a draft
\* is of pages that were staged, and a verdict of an attempt that builds.
THEOREM MaterialsTypeCorrect == MaterialsSpec => []TypeOK
<1>1. ServedInv => TypeOK
      BY DEF ServedInv
<1>2. Init => ServedInv
      BY ServedBegin
<1>3. ServedInv /\ [MaterialsNext]_materials => ServedInv'
      BY ServedStep
<1> QED
    BY <1>1, <1>2, <1>3, PTL DEF MaterialsSpec

\* A success is served: when the attempt that wrote the served file last has
\* reported success, the file is one its validators accept, whatever drafts,
\* builds and publications of other attempts came in between; for a deck, when
\* no other attempt has overlapped it (agents/artifact_store.py,
\* agents/providers/content.py).
THEOREM SuccessIsServedHolds == MaterialsSpec => []SuccessIsServed
<1>1. ServedInv => SuccessIsServed
      BY DEF ServedInv, Accepted, SuccessIsServed
<1>2. Init => ServedInv
      BY ServedBegin
<1>3. ServedInv /\ [MaterialsNext]_materials => ServedInv'
      BY ServedStep
<1> QED
    BY <1>1, <1>2, <1>3, PTL DEF MaterialsSpec

-----------------------------------------------------------------------------
(* Whose work is published                                                  *)

\* An attempt to generate that no other has overlapped finds nothing in its
\* draft but what it has staged, and has published nothing else.
Later == {"written", "building", "built", "checked", "returned", "persisted", "held"}
OwnDraft(a) == att[a].pc = "drafting" => draft.page = NoDoc \/ draft.page.by = a
OwnPage(a)  == att[a].pc \in Later => att[a].page # NoDoc /\ att[a].page.by = a
Own(a)      == att[a].alone /\ Fresh(a) => OwnDraft(a) /\ OwnPage(a)
OwnInv      == \A a \in Attempt : Own(a)

\* Only a, which works, moves: no other that is alone is drafting.
LEMMA OwnSteps ==
  ASSUME ServedInv, OwnInv, NEW a \in Attempt, Working(a),
         \A b \in Attempt \ {a} : att'[b] = att[b], Own(a)'
  PROVE  OwnInv'
<1>1. ASSUME NEW b \in Attempt \ {a}, att'[b].alone, Fresh(b)'
      PROVE  OwnDraft(b)' /\ OwnPage(b)'
  <2>1. att'[b] = att[b] /\ att[b].alone /\ Fresh(b)
        BY <1>1 DEF Fresh
  <2>2. ~Working(b)
        BY <2>1 DEF ServedInv, Single
  <2>3. OwnPage(b)
        BY <2>1 DEF OwnInv, Own
  <2> QED
      BY <2>1, <2>2, <2>3 DEF OwnDraft, OwnPage, Working, Finished
<1> QED
    BY <1>1 DEF OwnInv, Own

\* a moves from one place after publication to another, with the same page.
LEMMA OwnMoves ==
  ASSUME ServedInv, OwnInv, NEW a \in Attempt, Working(a),
         NEW r \in Job, att' = [att EXCEPT ![a] = r],
         r.alone = att[a].alone, r.of = att[a].of,
         r.pc \in {"failed", "incomplete"} \/
           (att[a].pc \in Later /\ r.pc \in Later /\ r.page = att[a].page)
  PROVE  OwnInv'
<1>1. att \in [Attempt -> Job]
      BY DEF ServedInv, TypeOK
<1>2. att'[a] = r /\ \A b \in Attempt \ {a} : att'[b] = att[b]
      BY <1>1
<1>3. Own(a)
      BY DEF OwnInv
<1>4. Own(a)'
      BY <1>2, <1>3 DEF Own, OwnDraft, OwnPage, Fresh, Later
<1> QED
    BY <1>2, <1>4, OwnSteps

\* The same, where nothing but the place is written.
LEMMA OwnGoes ==
  ASSUME ServedInv, OwnInv, NEW a \in Attempt, Working(a), NEW pc \in JobPc, Moves(a, pc),
         pc \in {"failed", "incomplete"} \/ (att[a].pc \in Later /\ pc \in Later)
  PROVE  OwnInv'
<1> DEFINE r == [att[a] EXCEPT !.pc = pc]
<1>1. att[a] \in Job
      BY DEF ServedInv, TypeOK
<1>2. /\ r \in Job /\ r.pc = pc /\ r.alone = att[a].alone /\ r.of = att[a].of
      /\ r.page = att[a].page
      BY <1>1 DEF Job, JobPc
<1>3. att' = [att EXCEPT ![a] = r]
      BY DEF Moves
<1> HIDE DEF r
<1> QED
    BY <1>2, <1>3, OwnMoves

LEMMA OwnStage ==
  ASSUME ServedInv, OwnInv, NEW a \in Attempt, Stage(a)
  PROVE  OwnInv'
<1>1. PICK ok \in BOOLEAN : draft' = [draft EXCEPT !.page = [by |-> a, ok |-> ok]]
      BY DEF Stage
<1>2. att[a].pc = "drafting" /\ att' = [att EXCEPT ![a].staged = @ + 1]
      BY DEF Stage
<1>3. att \in [Attempt -> Job] /\ att[a] \in Job /\ draft \in Draft
      BY DEF ServedInv, TypeOK
<1>4. \A b \in Attempt \ {a} : att'[b] = att[b]
      BY <1>2, <1>3
<1>5. att'[a].pc = "drafting"
      BY <1>2, <1>3 DEF Job
<1>6. draft'.page.by = a
      BY <1>1, <1>3 DEF Draft
<1>7. Own(a)'
      BY <1>5, <1>6 DEF Own, OwnDraft, OwnPage, Later
<1>8. Working(a)
      BY <1>2 DEF Working, Finished
<1> QED
    BY <1>4, <1>7, <1>8, OwnSteps

\* What is published is what is in the draft.
LEMMA OwnPublished ==
  ASSUME ServedInv, OwnInv, NEW a \in Attempt, att[a].pc = "drafting",
         NEW r \in Job, att' = [att EXCEPT ![a] = r],
         r.alone = att[a].alone, r.of = att[a].of, r.page = draft.page,
         r.pc = "failed" \/ (r.pc = "written" /\ draft.page # NoDoc)
  PROVE  OwnInv'
<1>1. att \in [Attempt -> Job]
      BY DEF ServedInv, TypeOK
<1>2. att'[a] = r /\ \A b \in Attempt \ {a} : att'[b] = att[b]
      BY <1>1
<1>3. Own(a)
      BY DEF OwnInv
<1>4. Own(a)'
      BY <1>2, <1>3 DEF Own, OwnDraft, OwnPage, Fresh, Later
<1>5. Working(a)
      BY DEF Working, Finished
<1> QED
    BY <1>2, <1>4, <1>5, OwnSteps

LEMMA OwnPublish ==
  ASSUME ServedInv, OwnInv, NEW a \in Attempt, att[a].pc = "drafting",
         draft.page # NoDoc, Publishes(a, draft.page)
  PROVE  OwnInv'
<1> DEFINE r == [att[a] EXCEPT !.pc = "written", !.page = draft.page]
<1>1. att[a] \in Job /\ draft.page \in Doc \cup {NoDoc}
      BY DEF ServedInv, TypeOK, Draft
<1>2. /\ r \in Job /\ r.pc = "written" /\ r.alone = att[a].alone /\ r.of = att[a].of
      /\ r.page = draft.page
      BY <1>1 DEF Job
<1>3. att' = [att EXCEPT ![a] = r]
      BY DEF Publishes
<1> HIDE DEF r
<1> QED
    BY <1>2, <1>3, OwnPublished

LEMMA OwnDeckReturns ==
  ASSUME ServedInv, OwnInv, NEW a \in Attempt, DeckReturns(a)
  PROVE  OwnInv'
<1>1. att[a].pc = "drafting" /\ Working(a)
      BY DEF DeckReturns, Working, Finished
<1>2. CASE draft = Empty
  <2>1. Moves(a, "failed") /\ "failed" \in JobPc
        BY <1>2 DEF DeckReturns, JobPc
  <2> QED
      BY <1>1, <2>1, OwnGoes
<1>3. CASE draft # Empty
  <2> DEFINE pc == IF draft.runtime /\ draft.page # NoDoc THEN "written" ELSE "failed"
             r  == [att[a] EXCEPT !.pc = pc, !.page = draft.page]
  <2>1. att[a] \in Job /\ draft.page \in Doc \cup {NoDoc}
        BY DEF ServedInv, TypeOK, Draft
  <2>2. pc = "failed" \/ (pc = "written" /\ draft.page # NoDoc)
        OBVIOUS
  <2>3. att' = [att EXCEPT ![a] = r]
        BY <1>3 DEF DeckReturns
  <2> HIDE DEF pc
  <2>4. /\ r \in Job /\ r.pc = pc /\ r.alone = att[a].alone /\ r.of = att[a].of
        /\ r.page = draft.page
        BY <2>1, <2>2 DEF Job
  <2> HIDE DEF r
  <2> QED
      BY <1>1, <2>2, <2>3, <2>4, OwnPublished
<1> QED
    BY <1>2, <1>3

LEMMA OwnVisualReturns ==
  ASSUME ServedInv, OwnInv, NEW a \in Attempt, VisualReturns(a)
  PROVE  OwnInv'
<1>1. att[a].pc = "drafting" /\ Working(a) /\ "failed" \in JobPc
      BY DEF VisualReturns, Working, Finished, JobPc
<1> QED
    BY <1>1, OwnGoes, OwnPublish DEF VisualReturns

LEMMA OwnBuilds ==
  ASSUME ServedInv, OwnInv, NEW a \in Attempt, BuildReads(a) \/ BuildWrites(a) \/ Validates(a)
  PROVE  OwnInv'
<1>1. att[a] \in Job /\ root \in Doc \cup {NoDoc}
      BY DEF ServedInv, TypeOK
<1>2. PICK r \in Job : /\ att' = [att EXCEPT ![a] = r]
                       /\ r.alone = att[a].alone /\ r.of = att[a].of /\ r.page = att[a].page
                       /\ r.pc \in {"building", "built", "checked"}
  <2>1. CASE BuildReads(a)
    <3> DEFINE r == [att[a] EXCEPT !.pc = "building", !.source = root]
    <3>1. /\ r \in Job /\ r.alone = att[a].alone /\ r.of = att[a].of /\ r.page = att[a].page
          /\ r.pc = "building"
          BY <1>1 DEF Job
    <3>2. att' = [att EXCEPT ![a] = r]
          BY <2>1 DEF BuildReads
    <3> HIDE DEF r
    <3> QED
        BY <3>1, <3>2
  <2>2. CASE BuildWrites(a)
    <3>1. PICK compiles \in BOOLEAN :
            att' = [att EXCEPT ![a].pc = "built", ![a].verdict = compiles]
          BY <2>2 DEF BuildWrites
    <3> DEFINE r == [att[a] EXCEPT !.pc = "built", !.verdict = compiles]
    <3>2. /\ r \in Job /\ r.alone = att[a].alone /\ r.of = att[a].of /\ r.page = att[a].page
          /\ r.pc = "built"
          BY <1>1 DEF Job
    <3>3. att' = [att EXCEPT ![a] = r]
          BY <3>1
    <3> HIDE DEF r
    <3> QED
        BY <3>2, <3>3
  <2>3. CASE Validates(a)
    <3>1. PICK v : att' = [att EXCEPT ![a].pc = "checked", ![a].verdict = v]
                   /\ v \in BOOLEAN
      <4>1. root \in Doc \cup {NoDoc} /\ file \in Doc \cup {NoDoc} /\ att[a].verdict \in BOOLEAN
            BY <1>1 DEF ServedInv, TypeOK, Job
      <4> DEFINE page == IF kind = "lecture-deck" /\ file # NoDoc THEN root ELSE file
                 good == page # NoDoc /\ page.ok /\ (kind = "lecture-deck" => att[a].verdict)
      <4>2. good \in BOOLEAN
            OBVIOUS
      <4>3. \E v \in {good, FALSE} : att' = [att EXCEPT ![a].pc = "checked", ![a].verdict = v]
            BY <2>3 DEF Validates
      <4> HIDE DEF good
      <4> QED
          BY <4>2, <4>3
    <3> DEFINE r == [att[a] EXCEPT !.pc = "checked", !.verdict = v]
    <3>2. /\ r \in Job /\ r.alone = att[a].alone /\ r.of = att[a].of /\ r.page = att[a].page
          /\ r.pc = "checked"
          BY <1>1, <3>1 DEF Job
    <3>3. att' = [att EXCEPT ![a] = r]
          BY <3>1
    <3> HIDE DEF r
    <3> QED
        BY <3>2, <3>3
  <2> QED
      BY <2>1, <2>2, <2>3
<1>3. att[a].pc \in {"written", "building", "built"}
      BY DEF BuildReads, BuildWrites, Validates
<1>4. Working(a)
      BY <1>3 DEF Working, Finished
<1> QED
    BY <1>2, <1>3, <1>4, OwnMoves DEF Later

LEMMA OwnEnds ==
  ASSUME ServedInv, OwnInv, NEW a \in Attempt,
         ModelFails(a) \/ Settles(a) \/ Persists(a) \/ ChecksDone(a)
  PROVE  OwnInv'
<1>1. att[a].pc \in {"drafting", "checked", "returned", "persisted"} /\ Working(a)
      BY DEF ModelFails, Settles, Persists, ChecksDone, Working, Finished
<1>2. PICK pc \in {"failed", "incomplete", "returned", "persisted", "held"} :
        Moves(a, pc) /\ (pc \notin {"failed", "incomplete"} => att[a].pc \in Later)
      BY DEF ModelFails, Settles, Persists, ChecksDone, Later
<1> QED
    BY <1>1, <1>2, OwnGoes DEF JobPc, Later

\* a begins with a draft of its own; whoever works is not alone any more.
LEMMA OwnBegins ==
  ASSUME ServedInv, OwnInv, NEW a \in Attempt, att[a].pc = "planned",
         NEW pc \in {"drafting", "failed"}, Drafting(a, pc),
         Fresh(a) => draft'.page = NoDoc
  PROVE  OwnInv'
<1> DEFINE others == {b \in Attempt \ {a} : Working(b)}
           mine   == [att[a] EXCEPT !.pc = pc, !.alone = others = {}]
           late(b) == [att[b] EXCEPT !.alone = FALSE]
<1>1. att' = [b \in Attempt |-> IF b = a THEN mine
                                ELSE IF b \in others THEN late(b) ELSE att[b]]
      BY DEF Drafting
<1>2. \A b \in Attempt : att[b] \in Job
      BY DEF ServedInv, TypeOK
<1>3. mine.pc = pc /\ mine.of = att[a].of
      BY <1>2 DEF Job
<1>4. \A b \in Attempt : ~late(b).alone
      BY <1>2 DEF Job
<1> HIDE DEF mine, late
<1>5. att'[a] = mine
      BY <1>1
<1>6. \A b \in Attempt \ {a} : att'[b] = IF b \in others THEN late(b) ELSE att[b]
      BY <1>1
<1>7. Own(a)'
      BY <1>3, <1>5 DEF Own, OwnDraft, OwnPage, Later, Fresh
<1>8. ASSUME NEW b \in Attempt \ {a}, att'[b].alone, Fresh(b)'
      PROVE  OwnDraft(b)' /\ OwnPage(b)'
  <2>1. b \notin others /\ att'[b] = att[b]
        BY <1>4, <1>6, <1>8
  <2>2. ~Working(b)
        BY <2>1
  <2>3. OwnPage(b)
        BY <1>8, <2>1 DEF OwnInv, Own, Fresh
  <2> QED
      BY <2>1, <2>2, <2>3 DEF OwnDraft, OwnPage, Working, Finished
<1> QED
    BY <1>7, <1>8 DEF OwnInv, Own

LEMMA OwnBegin ==
  ASSUME ServedInv, OwnInv, NEW a \in Attempt,
         LessonBegins(a) \/ DeckBegins(a) \/ VisualBegins(a)
  PROVE  OwnInv'
<1>1. att[a].pc = "planned"
      BY DEF LessonBegins, DeckBegins, VisualBegins, Begins
<1>2. \E pc \in {"drafting", "failed"} : Drafting(a, pc)
      BY DEF LessonBegins, DeckBegins, VisualBegins
<1>3. Fresh(a) => draft'.page = NoDoc
      BY DEF LessonBegins, DeckBegins, VisualBegins, OpensDraft
<1> QED
    BY <1>1, <1>2, <1>3, OwnBegins

\* Attempts that move are planned, or failed.
LEMMA OwnRound ==
  ASSUME ServedInv, OwnInv, UNCHANGED draft,
         \A b \in Attempt : att'[b] = att[b] \/ att'[b].pc \in {"planned", "failed"}
  PROVE  OwnInv'
  BY DEF OwnInv, Own, OwnDraft, OwnPage, Later, Fresh

LEMMA OwnStep ==
  ASSUME ServedInv, OwnInv, [MaterialsNext]_materials
  PROVE  OwnInv'
<1>1. \A a \in Attempt : att[a] \in Job
      BY DEF ServedInv, TypeOK
<1>2. ASSUME NEW a \in Attempt, Attempts(a)
      PROVE  OwnInv'
  <2>1. LessonReturns(a) => OwnInv'
        BY OwnPublish DEF LessonReturns
  <2> QED
      BY <1>2, <2>1, OwnBegin, OwnDeckReturns, OwnVisualReturns, OwnBuilds, OwnEnds, OwnStage
         DEF Attempts
<1>3. ASSUME NEW fresh \in SUBSET Attempt, NEW revisions \in SUBSET Attempt,
             Plan(fresh, revisions)
      PROVE  OwnInv'
  <2>1. PICK of \in [revisions -> holds], stranger \in BOOLEAN :
          att' = [a \in Attempt |->
                    IF a \in fresh
                      THEN [att[a] EXCEPT !.pc = "planned", !.of = a, !.stranger = stranger]
                    ELSE IF a \in revisions
                      THEN [att[a] EXCEPT !.pc = "planned", !.of = of[a]]
                    ELSE att[a]]
        BY <1>3 DEF Plan
  <2>2. \A b \in Attempt : att'[b] = att[b] \/ att'[b].pc = "planned"
        BY <1>1, <2>1 DEF Job
  <2>3. UNCHANGED draft
        BY <1>3 DEF Plan
  <2> QED
      BY <2>2, <2>3, OwnRound
<1>4. CASE Crash
  <2>1. \A b \in Attempt : att'[b] = att[b] \/ att'[b].pc = "failed"
        BY <1>1, <1>4 DEF Crash, Job
  <2> QED
      BY <1>4, <2>1, OwnRound DEF Crash
<1>5. CASE (\E a \in Attempt : CloseHold(a)) \/ EndRound \/ NextExecution \/ UNCHANGED materials
      BY <1>5, OwnRound DEF CloseHold, EndRound, NextExecution, materials
<1> QED
    BY <1>2, <1>3, <1>4, <1>5 DEF MaterialsNext

\* An attempt that no other overlapped and that succeeded in generating published
\* a page of its own, never one that an earlier attempt, failed or killed, had left
\* in the draft area they share (agents/skill_runtime.py, content.py).
THEOREM OwnWorkHolds == MaterialsSpec => []OwnWork
<1>1. OwnInv => OwnWork
      BY DEF OwnInv, Own, OwnPage, OwnWork, Later
<1>2. Init => ServedInv /\ OwnInv
  <2>1. Init => \A a \in Attempt : att[a].pc = "new"
        BY DEF Init
  <2> QED
      BY <2>1, ServedBegin DEF OwnInv, Own, OwnDraft, OwnPage, Later
<1>3. ServedInv /\ OwnInv /\ [MaterialsNext]_materials => (ServedInv /\ OwnInv)'
      BY ServedStep, OwnStep
<1> QED
    BY <1>1, <1>2, <1>3, PTL DEF MaterialsSpec

-----------------------------------------------------------------------------
(* The deck                                                                 *)

\* What an anchor of a page is, and a page with such anchors.
Box == [x : Int, y : Int, w : Int, h : Int]
MarkRecord == [rect : Box, style : Box, high : BOOLEAN, drawn : Box]

\* An anchor whose style gives its height is drawn as styled.
Plain(m) == m \in MarkRecord /\ (m.high = TRUE => m.drawn = m.style)

PageShaped(page) ==
    /\ DOMAIN page = {"id", "role", "clean", "anchors"}
    /\ \A a \in DOMAIN page.anchors : Plain(page.anchors[a])

\* Pages are in order, and every slide names a file of the deck.
PagesOK ==
    /\ DOMAIN pages = Number
    /\ \A n \in Number : PageShaped(pages[n])

Step == [id : Nat \X Nat, order : Nat, kind : {"overview", "zoom"}, mode : {"fit", "anchor"},
         anchor : Nat, panel : BOOLEAN, marks : SUBSET Nat]
Filed(s) ==
    /\ {"id", "file", "steps"} \subseteq DOMAIN s
    /\ s.file \in Number /\ s.id \in Nat /\ s.steps \in Seq(Step)
SlidesOK ==
    /\ Len(lecture) \in Nat /\ lecture = [n \in 1..Len(lecture) |-> lecture[n]]
    /\ \A n \in DOMAIN lecture : Filed(lecture[n])

ScriptOK ==
    /\ script.kind = "scaffold" => script.count \in Number
    /\ script.kind = "measure" => script.next \in Nat \ {0}

\* What was published has been accepted.
Presentable(s, page) ==
    /\ s.steps \in Seq(Step)
    /\ PageOk(s, page) /\ AnchorsOk(s, page) /\ StepsOk(s) /\ PageShaped(page)

PublishedOK ==
    published # <<>> =>
      /\ 1 \in DOMAIN Lecture
      /\ IdsOk(Lecture)
      /\ \A n \in DOMAIN Lecture :
           Presentable(Lecture[n], published.slides[Lecture[n].file])

\* The frame p has loaded, or the one it is loading, is of the slide it is at.
Framed(p) ==
    /\ DOMAIN p = DOMAIN NoPlayer
    /\ p.cursor \in Stops /\ p.current = Lecture[p.cursor[1]].id
    /\ \/ p.loading = <<>>
       \/ p.loading # <<>> /\ p.loading[1] \in Stops /\ p.loading[1][1] = p.cursor[1]
    /\ p.loading = <<>> =>
         /\ p.shown \in Stops /\ p.shown[1] = p.cursor[1]
         /\ p.frame = published.slides[Lecture[p.cursor[1]].file]

\* No correction that is due moves the camera away.
Steady(p) ==
    /\ p.camera = p.shown /\ p.run \in Nat
    /\ \A g \in p.due : g.run \in Nat /\ g.run <= p.run /\ (g.run = p.run => g.stop = p.shown)

PlayerOK == player # NoPlayer => published # <<>> /\ Framed(player) /\ Steady(player)

DeckInv == PagesOK /\ SlidesOK /\ ScriptOK /\ PublishedOK /\ PlayerOK

LEMMA PlayerFields ==
  DOMAIN NoPlayer = {"cursor", "current", "frame", "loading", "shown", "camera", "due", "run", "moves"}
  BY DEF NoPlayer

\* A page of the scaffold.
LEMMA ScaffoldShaped ==
  ASSUME NEW n, NEW count
  PROVE  PageShaped(ScaffoldPage(n, count))
<1>1. Plain(Mark(Home))
      BY DEF Plain, Mark, Home, MarkRecord, Box
<1> QED
    BY <1>1 DEF PageShaped, ScaffoldPage, SlidePage

LEMMA NoPageShaped == PageShaped(NoPage)
  BY DEF PageShaped, NoPage

\* Whatever the author makes of a page.
LEMMA EditShaped ==
  ASSUME NEW page, PageShaped(page), NEW new \in PageEdits(page)
  PROVE  PageShaped(new)
<1>1. CASE \E n \in Number : new = [page EXCEPT !.id = n]
      BY <1>1 DEF PageShaped
<1>2. CASE new = [page EXCEPT !.clean = FALSE]
      BY <1>2 DEF PageShaped
<1>3. CASE new = [page EXCEPT !.anchors = <<>>]
      BY <1>3 DEF PageShaped
<1>4. CASE \E a \in DOMAIN page.anchors : \E m :
             /\ \/ \E box \in Boxes : m = [page.anchors[a] EXCEPT !.high = FALSE, !.drawn = box]
                \/ \E box \in Boxes : m = Mark(box)
             /\ new = [page EXCEPT !.anchors[a] = m]
  <2>0. PICK a \in DOMAIN page.anchors : \E m :
             /\ \/ \E box \in Boxes : m = [page.anchors[a] EXCEPT !.high = FALSE, !.drawn = box]
                \/ \E box \in Boxes : m = Mark(box)
             /\ new = [page EXCEPT !.anchors[a] = m]
        BY <1>4
  <2>1. PICK m :
             /\ \/ \E box \in Boxes : m = [page.anchors[a] EXCEPT !.high = FALSE, !.drawn = box]
                \/ \E box \in Boxes : m = Mark(box)
             /\ new = [page EXCEPT !.anchors[a] = m]
        BY <2>0
  <2>2. \A box \in Boxes : Plain(Mark(box))
        BY DeckAssumption DEF Plain, Mark, MarkRecord, Box
  <2>3. page.anchors[a] \in MarkRecord
        BY DEF PageShaped, Plain
  <2>4. \A box \in Boxes : Plain([page.anchors[a] EXCEPT !.high = FALSE, !.drawn = box])
        BY <2>3, DeckAssumption DEF Plain, MarkRecord, Box
  <2>5. Plain(m)
        BY <2>1, <2>2, <2>4
  <2> QED
      BY <2>1, <2>5 DEF PageShaped
<1> DEFINE Anew(a) ==
             {[page.anchors[a] EXCEPT !.high = FALSE, !.drawn = box] :
                box \in {b \in Boxes : StyleOk([page.anchors[a] EXCEPT !.high = FALSE], b)}}
             \cup {Mark(box) : box \in Boxes}
<1>5. \A a : \A m \in Anew(a) :
        \/ \E box \in Boxes : m = [page.anchors[a] EXCEPT !.high = FALSE, !.drawn = box]
        \/ \E box \in Boxes : m = Mark(box)
      OBVIOUS
<1>6. \/ \E n \in Number : new = [page EXCEPT !.id = n]
      \/ new = [page EXCEPT !.clean = FALSE]
      \/ new = [page EXCEPT !.anchors = <<>>]
      \/ new \in UNION {{[page EXCEPT !.anchors[a] = m] : m \in Anew(a)} : a \in DOMAIN page.anchors}
      BY Zenon DEF PageEdits
<1>7. CASE new \in UNION {{[page EXCEPT !.anchors[a] = m] : m \in Anew(a)} : a \in DOMAIN page.anchors}
  <2> HIDE DEF Anew
  <2>1. PICK a \in DOMAIN page.anchors : new \in {[page EXCEPT !.anchors[a] = m] : m \in Anew(a)}
        BY <1>7
  <2>2. PICK m \in Anew(a) : new = [page EXCEPT !.anchors[a] = m]
        BY <2>1
  <2> QED
      BY <1>4, <1>5, <2>2
<1> QED
    BY <1>1, <1>2, <1>3, <1>6, <1>7

\* The step of a stop that is drawn.
LEMMA Drawing ==
  ASSUME NEW p, NEW stop \in Stops, DOMAIN p = DOMAIN NoPlayer, Steady(p),
         p.cursor \in Stops, p.current = Lecture[p.cursor[1]].id,
         stop[1] = p.cursor[1],
         \/ p.loading = <<>>
         \/ p.loading # <<>> /\ p.loading[1] \in Stops /\ p.loading[1][1] = p.cursor[1],
         p.loading = <<>> => p.frame = published.slides[Lecture[p.cursor[1]].file]
  PROVE  Framed(Draw(p, stop)) /\ Steady(Draw(p, stop))
<1> DEFINE q == Draw(p, stop)
<1>1. /\ DOMAIN q = DOMAIN NoPlayer
      /\ q.cursor = p.cursor /\ q.current = p.current /\ q.frame = p.frame
      /\ q.loading = p.loading /\ q.shown = stop /\ q.camera = stop /\ q.run = p.run + 1
      BY PlayerFields DEF Draw
<1>2. \A g \in q.due : g \in p.due \/ g = [run |-> p.run + 1, stop |-> stop]
      BY PlayerFields DEF Draw
<1>3. \A g \in q.due : g.run \in Nat /\ g.run <= q.run /\ (g.run = q.run => g.stop = q.shown)
  <2> TAKE g \in q.due
  <2>1. CASE g \in p.due
        BY <2>1, <1>1 DEF Steady
  <2>2. CASE g = [run |-> p.run + 1, stop |-> stop]
        BY <2>2, <1>1 DEF Steady
  <2> QED
      BY <1>2, <2>1, <2>2
<1>4. Steady(q)
  <2> HIDE DEF q
  <2> QED
      BY <1>1, <1>3 DEF Steady
<1>5. Framed(q)
  <2> HIDE DEF q
  <2> QED
      BY <1>1 DEF Framed
<1> QED
    BY <1>4, <1>5

\* A stop belongs to a slide of the lecture.
LEMMA StopSlides ==
  ASSUME NEW stop \in Stops
  PROVE  stop[1] \in DOMAIN Lecture
  BY DEF Stops

\* The player p moves to another stop, or stays at the same one.
LEMMA Rendering ==
  ASSUME published # <<>>, PublishedOK, NEW p, NEW stop \in Stops,
         NEW here, Framed(here), Steady(here),
         DOMAIN p = DOMAIN NoPlayer, p.cursor = stop,
         p.current = here.current, p.loading = here.loading, p.shown = here.shown,
         p.frame = here.frame, p.camera = here.camera, p.due = here.due, p.run = here.run
  PROVE  Framed(RenderStep(p)) /\ Steady(RenderStep(p))
<1> DEFINE s == Lecture[stop[1]]
<1>1. Steady(p)
      BY DEF Steady
<1>2. CASE p.current = s.id
  <2>1. stop[1] = here.cursor[1]
        BY <1>2, StopSlides DEF PublishedOK, IdsOk, Framed
  <2>2. RenderStep(p) = Draw(p, stop)
        BY <1>2 DEF RenderStep
  <2>3. \/ p.loading = <<>>
        \/ p.loading # <<>> /\ p.loading[1] \in Stops /\ p.loading[1][1] = p.cursor[1]
        BY <2>1 DEF Framed
  <2>4. p.loading = <<>> => p.frame = published.slides[Lecture[p.cursor[1]].file]
        BY <2>1 DEF Framed
  <2> QED
      BY <1>1, <1>2, <2>2, <2>3, <2>4, Drawing
<1>3. CASE p.current # s.id
  <2> DEFINE q == [p EXCEPT !.current = s.id, !.loading = <<stop>>]
  <2>1. RenderStep(p) = q
        BY <1>3 DEF RenderStep
  <2>2. /\ DOMAIN q = DOMAIN NoPlayer /\ q.cursor = stop /\ q.current = s.id
        /\ q.loading = <<stop>> /\ q.shown = p.shown /\ q.camera = p.camera
        /\ q.due = p.due /\ q.run = p.run
        BY PlayerFields
  <2>3. Steady(q)
    <3> HIDE DEF q
    <3> QED
        BY <1>1, <2>2 DEF Steady
  <2>4. Framed(q)
    <3> HIDE DEF q
    <3> QED
        BY <2>2 DEF Framed
  <2> QED
      BY <2>1, <2>3, <2>4
<1> QED
    BY <1>2, <1>3

\* Where the player is left alone, and what it plays.
LEMMA PlayerLeft ==
  ASSUME DeckInv, UNCHANGED <<published, player>>
  PROVE  PublishedOK' /\ PlayerOK'
  BY DEF DeckInv, PublishedOK, PlayerOK, Lecture, Stops, Framed, Steady

\* Where only the player moves.
LEMMA DeckLeft ==
  ASSUME DeckInv, UNCHANGED <<pages, lecture, published>>,
         UNCHANGED script,
         player' # NoPlayer => published # <<>> /\ Framed(player') /\ Steady(player')
  PROVE  DeckInv'
<1>1. PagesOK' /\ SlidesOK' /\ ScriptOK'
      BY DEF DeckInv, PagesOK, SlidesOK, ScriptOK
<1>2. PublishedOK'
      BY DEF DeckInv, PublishedOK, Lecture
<1>3. PlayerOK'
  <2>1. Stops' = Stops /\ Lecture' = Lecture
        BY DEF Stops, Lecture
  <2> QED
      BY <2>1 DEF PlayerOK, Framed, Steady
<1> QED
    BY <1>1, <1>2, <1>3 DEF DeckInv

LEMMA SlidesKept ==
  ASSUME DeckInv, UNCHANGED lecture
  PROVE  SlidesOK'
  BY DEF DeckInv, SlidesOK

LEMMA ScriptEnds ==
  ASSUME DeckInv, script' = NoScript \/ UNCHANGED script
  PROVE  ScriptOK'
  BY DEF DeckInv, ScriptOK, NoScript

LEMMA PagesKept ==
  ASSUME DeckInv, UNCHANGED pages
  PROVE  PagesOK'
  BY DEF DeckInv, PagesOK

LEMMA OnePage ==
  ASSUME DeckInv, NEW n, NEW page, PageShaped(page), pages' = [pages EXCEPT ![n] = page]
  PROVE  PagesOK'
  BY DEF DeckInv, PagesOK

\* A sequence by its form.
LEMMA LengthOf ==
  ASSUME NEW f, NEW N \in Nat, f = [n \in 1..N |-> f[n]]
  PROVE  Len(f) = N
<1>1. f \in [1..N -> {f[n] : n \in 1..N}]
      OBVIOUS
<1>2. f \in Seq({f[n] : n \in 1..N})
      BY <1>1, SeqDef
<1> QED
    BY <1>1, <1>2, LenProperties

LEMMA ScaffoldSlides ==
  ASSUME NEW count \in Number, lecture' = ScaffoldLecture(count)
  PROVE  SlidesOK'
<1>1. count \in Nat /\ \A n \in 1..count : n \in Number
      BY DeckAssumption DEF Number
<1>2. DOMAIN lecture' = 1..count
      BY DEF ScaffoldLecture
<1>5. ASSUME NEW n \in 1..count PROVE Filed(lecture'[n])
  <2> DEFINE steps == IF n \in {1, count} THEN <<Overview(n, 1)>>
                      ELSE <<Overview(n, 1), Zoom(n, 2, n), Zoom(n, 3, n)>>
  <2>1. Overview(n, 1) \in Step /\ Zoom(n, 2, n) \in Step /\ Zoom(n, 3, n) \in Step
        BY <1>1 DEF Overview, Zoom, Step
  <2>2. steps \in Seq(Step)
        BY <2>1
  <2> HIDE DEF steps
  <2>3. lecture'[n] = [id |-> n, index |-> n, role |-> RoleOf(n, count), file |-> n,
           anchors |-> IF n \in {1, count} THEN <<>> ELSE <<[id |-> n, rect |-> Home]>>,
           steps |-> steps]
        BY DEF ScaffoldLecture, steps
  <2> QED
      BY <1>1, <2>2, <2>3 DEF Filed
<1>3. lecture' = [n \in 1..count |-> lecture'[n]]
      BY DEF ScaffoldLecture
<1>4. Len(lecture') = count
      BY <1>1, <1>3, LengthOf
<1> QED
    BY <1>1, <1>2, <1>3, <1>4, <1>5 DEF SlidesOK

\* The slides are changed one by one.
LEMMA SlidesChanged ==
  ASSUME DeckInv, DOMAIN lecture' = DOMAIN lecture,
         lecture' = [n \in DOMAIN lecture |-> lecture'[n]],
         \A n \in DOMAIN lecture : Filed(lecture'[n])
  PROVE  SlidesOK'
<1>1. DOMAIN lecture = 1..Len(lecture) /\ Len(lecture) \in Nat
      BY DEF DeckInv, SlidesOK
<1>2. lecture' = [n \in 1..Len(lecture) |-> lecture'[n]]
      BY <1>1
<1>3. Len(lecture') = Len(lecture)
      BY <1>1, <1>2, LengthOf
<1> QED
    BY <1>1, <1>2, <1>3 DEF SlidesOK

\* A slide the author has changed still names a file of the deck.
LEMMA SlideFiled ==
  ASSUME NEW s, Filed(s), NEW new \in SlideEdits(s)
  PROVE  Filed(new)
<1>1. Number \subseteq Nat
      BY DeckAssumption DEF Number
<1>2. \A steps \in Seq(Step) : Filed([s EXCEPT !.steps = steps])
      BY DEF Filed
<1>3. \A k \in Nat, a \in Number : Zoom(s.id, k, a) \in Step
      BY <1>1 DEF Zoom, Step, Filed
<1>4. s.steps \in Seq(Step) /\ Len(s.steps) \in Nat
      BY DEF Filed
<1> DEFINE Renamed  == {[s EXCEPT !.id = n] : n \in Number}
           Refiled  == {[s EXCEPT !.file = n] : n \in Number}
           Shorter  == {[s EXCEPT !.anchors = <<>>], [s EXCEPT !.steps = SubSeq(@, 2, Len(@))]}
           Moved    == {[s EXCEPT !.anchors[i] = [id |-> a, rect |-> box]] :
                          i \in DOMAIN s.anchors, a \in Number, box \in Boxes}
           Restepped == {[s EXCEPT !.steps[k] = step] : k \in DOMAIN s.steps,
                           step \in {Zoom(s.id, Len(s.steps), a) : a \in Number}}
           Longer   == {[s EXCEPT !.steps = Append(@, Zoom(s.id, Len(s.steps) + 1, a))] : a \in Number}
<1>5. \A x \in Renamed \cup Refiled : Filed(x)
      BY <1>1 DEF Filed
<1>6. \A x \in Shorter : Filed(x)
  <2>1. SubSeq(s.steps, 2, Len(s.steps)) \in Seq(Step)
        BY <1>4
  <2>2. Filed([s EXCEPT !.anchors = <<>>])
        BY DEF Filed
  <2>3. Filed([s EXCEPT !.steps = SubSeq(s.steps, 2, Len(s.steps))])
        BY <1>2, <2>1
  <2> QED
      BY <2>2, <2>3
<1>7. \A x \in Moved : Filed(x)
      BY DEF Filed
<1>8. \A x \in Restepped : Filed(x)
  <2>1. \A k \in DOMAIN s.steps, step \in Step : [s.steps EXCEPT ![k] = step] \in Seq(Step)
        BY <1>4
  <2>2. \A k \in DOMAIN s.steps, step \in Step : Filed([s EXCEPT !.steps = [s.steps EXCEPT ![k] = step]])
        BY <1>2, <2>1
  <2> QED
      BY <1>3, <1>4, <2>2
<1>9. \A x \in Longer : Filed(x)
  <2>1. \A a \in Number : Append(s.steps, Zoom(s.id, Len(s.steps) + 1, a)) \in Seq(Step)
        BY <1>3, <1>4
  <2> QED
      BY <1>2, <2>1
<1>10. SlideEdits(s) = Renamed \cup Refiled \cup Shorter \cup Moved \cup Restepped \cup Longer
       BY DEF SlideEdits
<1> HIDE DEF Renamed, Refiled, Shorter, Moved, Restepped, Longer
<1> QED
    BY <1>5, <1>6, <1>7, <1>8, <1>9, <1>10

LEMMA DeckStep ==
  ASSUME DeckInv, DeckNext
  PROVE  DeckInv'
<1>1. ASSUME NEW count \in 3..MaxPages, Scaffold(count) PROVE DeckInv'
  <2>1. count \in Number
        BY <1>1, DeckAssumption DEF Number
  <2>2. ScriptOK'
        BY <1>1, <2>1 DEF Scaffold, ScriptOK, NoScript
  <2> QED
      BY <1>1, <2>2, PlayerLeft, SlidesKept, PagesKept DEF Scaffold, DeckInv
<1>2. CASE ScaffoldStep
  <2> DEFINE n == script.next
             count == script.count
  <2>1. PagesOK'
    <3>1. CASE pages' = pages
          BY <3>1, PagesKept
    <3>2. CASE pages' = [pages EXCEPT ![n] = ScaffoldPage(n, count)]
          BY <3>2, ScaffoldShaped, OnePage
    <3> QED
        BY <1>2, <3>1, <3>2 DEF ScaffoldStep
  <2>2. SlidesOK'
    <3>1. count \in Number
          BY <1>2 DEF DeckInv, ScriptOK, ScaffoldStep
    <3> QED
        BY <1>2, <3>1, ScaffoldSlides, SlidesKept DEF ScaffoldStep
  <2>3. ScriptOK'
        BY <1>2 DEF ScaffoldStep, DeckInv, ScriptOK, NoScript
  <2> QED
      BY <1>2, <2>1, <2>2, <2>3, PlayerLeft DEF ScaffoldStep, DeckInv
<1>3. CASE Measure
  <2>1. ScriptOK'
        BY <1>3 DEF Measure, ScriptOK, NoScript
  <2> QED
      BY <1>3, <2>1, PlayerLeft, SlidesKept, PagesKept DEF Measure, DeckInv
<1>4. CASE MeasurePage
  <2> DEFINE f == lecture[script.next].file
             page == pages[f]
             new == [page EXCEPT !.anchors = [a \in DOMAIN page.anchors |->
                            [page.anchors[a] EXCEPT !.rect = page.anchors[a].drawn]]]
  <2>1. script.next \in DOMAIN lecture /\ script.next \in Nat
    <3>1. script.next \in Nat \ {0} /\ script.next <= Len(lecture)
          BY <1>4 DEF MeasurePage, DeckInv, ScriptOK
    <3>2. Len(lecture) \in Nat /\ DOMAIN lecture = 1..Len(lecture)
          BY DEF DeckInv, SlidesOK
    <3> QED
        BY <3>1, <3>2
  <2>2. PageShaped(page)
        BY <2>1 DEF DeckInv, SlidesOK, Filed, PagesOK
  <2>3. PageShaped(new)
    <3>1. \A a \in DOMAIN page.anchors :
            Plain([page.anchors[a] EXCEPT !.rect = page.anchors[a].drawn])
          BY <2>2 DEF PageShaped, Plain, MarkRecord
    <3> QED
        BY <2>2, <3>1 DEF PageShaped
  <2>4. pages' = [pages EXCEPT ![f] = new]
        BY <1>4 DEF MeasurePage
  <2>5. PagesOK'
        BY <2>3, <2>4, OnePage
  <2>6. ScriptOK'
        BY <1>4, <2>1 DEF MeasurePage, ScriptOK
  <2> QED
      BY <1>4, <2>5, <2>6, PlayerLeft, SlidesKept DEF MeasurePage, DeckInv
<1>5. CASE MeasureEnd
  <2>1. SlidesOK'
    <3>1. /\ DOMAIN lecture' = DOMAIN lecture
          /\ lecture' = [n \in DOMAIN lecture |-> lecture'[n]]
          BY <1>5 DEF MeasureEnd
    <3>2. \A n \in DOMAIN lecture : Filed(lecture'[n])
          BY <1>5 DEF MeasureEnd, DeckInv, SlidesOK, Filed
    <3> QED
        BY <3>1, <3>2, SlidesChanged
  <2> QED
      BY <1>5, <2>1, PlayerLeft, PagesKept, ScriptEnds DEF MeasureEnd, DeckInv
<1>6. CASE ScriptDies
      BY <1>6, PlayerLeft, SlidesKept, PagesKept, ScriptEnds DEF ScriptDies, DeckInv
<1>7. CASE Edit
  <2>1. CASE \E n \in DOMAIN lecture : \E page \in PageEdits(pages[n]) :
               pages' = [pages EXCEPT ![n] = page] /\ UNCHANGED lecture
    <3>1. PICK n \in DOMAIN lecture : \E page \in PageEdits(pages[n]) :
               pages' = [pages EXCEPT ![n] = page] /\ UNCHANGED lecture
          BY <2>1
    <3>2. PICK page \in PageEdits(pages[n]) : pages' = [pages EXCEPT ![n] = page]
          BY <3>1
    <3>3. CASE n \in Number
      <4>1. PageShaped(page)
            BY <3>2, <3>3, EditShaped DEF DeckInv, PagesOK
      <4> QED
          BY <1>7, <2>1, <3>2, <4>1, OnePage, PlayerLeft, SlidesKept, ScriptEnds DEF Edit, DeckInv
    <3>4. CASE n \notin Number
      <4>1. PagesOK'
            BY <3>2, <3>4 DEF DeckInv, PagesOK
      <4> QED
          BY <1>7, <2>1, <4>1, PlayerLeft, SlidesKept, ScriptEnds DEF Edit, DeckInv
    <3> QED
        BY <3>3, <3>4
  <2>2. CASE \E n \in DOMAIN lecture : \E s \in SlideEdits(lecture[n]) :
               lecture' = [lecture EXCEPT ![n] = s] /\ UNCHANGED pages
    <3>1. SlidesOK'
      <4>1. PICK n \in DOMAIN lecture : \E s \in SlideEdits(lecture[n]) :
                   lecture' = [lecture EXCEPT ![n] = s] /\ UNCHANGED pages
            BY <2>2
      <4>2. PICK s \in SlideEdits(lecture[n]) : lecture' = [lecture EXCEPT ![n] = s]
            BY <4>1
      <4>3. Filed(s)
            BY <4>2, SlideFiled DEF DeckInv, SlidesOK
      <4>4. /\ DOMAIN lecture' = DOMAIN lecture
            /\ lecture' = [m \in DOMAIN lecture |-> lecture'[m]]
            BY <4>2
      <4>5. \A m \in DOMAIN lecture : Filed(lecture'[m])
            BY <4>2, <4>3 DEF DeckInv, SlidesOK
      <4> QED
          BY <4>4, <4>5, SlidesChanged
    <3> QED
        BY <1>7, <2>2, <3>1, PlayerLeft, PagesKept, ScriptEnds DEF Edit, DeckInv
  <2> QED
      BY <1>7, <2>1, <2>2 DEF Edit
<1>8. CASE BuildAndValidate
  <2>1. PublishedOK'
    <3>1. CASE published' = <<>>
          BY <3>1 DEF PublishedOK
    <3>2. CASE published' # <<>>
      <4>1. /\ published' = Bundle
            /\ RolesOk(lecture) /\ IdsOk(lecture)
            /\ \A n \in DOMAIN lecture :
                 /\ PageOk(lecture[n], pages[lecture[n].file])
                 /\ AnchorsOk(lecture[n], pages[lecture[n].file])
                 /\ StepsOk(lecture[n])
            BY <1>8, <3>2 DEF BuildAndValidate, Accepts
      <4>2. Lecture' = lecture
            BY <4>1 DEF Lecture, Bundle
      <4>3. \A n \in DOMAIN lecture : published'.slides[lecture[n].file] = pages[lecture[n].file]
            BY <4>1 DEF Bundle
      <4>4. \A n \in DOMAIN lecture : PageShaped(pages[lecture[n].file])
            BY DEF DeckInv, SlidesOK, Filed, PagesOK
      <4>6. \A n \in DOMAIN lecture : lecture[n].steps \in Seq(Step)
            BY DEF DeckInv, SlidesOK, Filed
      <4>5. 1 \in DOMAIN lecture
            BY <4>1 DEF RolesOk, DeckInv, SlidesOK
      <4> QED
          BY <4>1, <4>2, <4>3, <4>4, <4>5, <4>6 DEF PublishedOK, Presentable
    <3> QED
        BY <3>1, <3>2
  <2>2. PlayerOK'
        BY <1>8 DEF BuildAndValidate, PlayerOK
  <2> QED
      BY <1>8, <2>1, <2>2, SlidesKept, PagesKept, ScriptEnds DEF BuildAndValidate, DeckInv
<1>9. CASE Boot
  <2> DEFINE p == [NoPlayer EXCEPT !.cursor = <<1, 1>>]
             s == Lecture[1]
             q == [p EXCEPT !.current = s.id, !.loading = <<p.cursor>>]
  <2>1. published # <<>> /\ PublishedOK /\ player' = RenderStep(p)
        BY <1>9 DEF Boot, DeckInv
  <2>2. p.cursor = <<1, 1>> /\ p.current = 0 /\ DOMAIN p = DOMAIN NoPlayer
        BY DEF NoPlayer
  <2>3. 1 \in DOMAIN Lecture /\ s.id > 0 /\ <<1, 1>> \in Stops
    <3>1. 1 \in DOMAIN Lecture /\ s.id > 0 /\ StepsOk(s) /\ s.steps \in Seq(Step)
          BY <2>1 DEF PublishedOK, IdsOk, Presentable
    <3>2. 1 \in DOMAIN s.steps
          BY <3>1 DEF StepsOk
    <3> QED
        BY <3>1, <3>2 DEF Stops
  <2>4. player' = q
        BY <2>1, <2>2, <2>3 DEF RenderStep
  <2>5. /\ DOMAIN q = DOMAIN NoPlayer /\ q.cursor = <<1, 1>> /\ q.current = s.id
        /\ q.loading = <<<<1, 1>>>> /\ q.shown = q.camera /\ q.due = {} /\ q.run = 0
        BY DEF NoPlayer
  <2>6. Framed(q) /\ Steady(q)
    <3> HIDE DEF q
    <3> QED
        BY <2>3, <2>5 DEF Framed, Steady
  <2> QED
      BY <1>9, <2>1, <2>4, <2>6, DeckLeft DEF Boot
<1>10. CASE Move
  <2>1. PICK stop \in Reach(player.cursor) \cup {player.cursor} :
          player' = RenderStep([player EXCEPT !.cursor = stop, !.moves = @ + 1])
        BY <1>10 DEF Move
  <2> DEFINE p == [player EXCEPT !.cursor = stop, !.moves = @ + 1]
  <2>2. published # <<>> /\ PublishedOK /\ Framed(player) /\ Steady(player)
        BY <1>10 DEF Move, DeckInv, PlayerOK
  <2>3. stop \in Stops
        BY <2>2 DEF Reach, Ahead, Behind, Framed
  <2>4. /\ DOMAIN p = DOMAIN NoPlayer /\ p.cursor = stop /\ p.current = player.current
        /\ p.loading = player.loading /\ p.shown = player.shown /\ p.frame = player.frame
        /\ p.camera = player.camera /\ p.due = player.due /\ p.run = player.run
        BY <2>2, PlayerFields DEF Framed
  <2>5. Framed(RenderStep(p)) /\ Steady(RenderStep(p))
    <3> HIDE DEF p
    <3> QED
        BY <2>2, <2>3, <2>4, Rendering
  <2> QED
      BY <1>10, <2>1, <2>2, <2>5, DeckLeft DEF Move
<1>11. CASE FrameLoads
  <2> DEFINE stop == player.loading[1]
             p == [player EXCEPT !.frame = published.slides[Lecture[stop[1]].file], !.loading = <<>>]
  <2>1. player # NoPlayer /\ player' = Draw(p, stop)
        BY <1>11 DEF FrameLoads, NoPlayer
  <2>2. published # <<>> /\ Framed(player) /\ Steady(player) /\ player.loading # <<>>
        BY <1>11, <2>1 DEF FrameLoads, DeckInv, PlayerOK
  <2>3. /\ DOMAIN p = DOMAIN NoPlayer /\ p.cursor = player.cursor /\ p.current = player.current
        /\ p.loading = <<>> /\ p.frame = published.slides[Lecture[stop[1]].file]
        /\ p.shown = player.shown /\ p.camera = player.camera /\ p.due = player.due
        /\ p.run = player.run
        BY <2>2, PlayerFields DEF Framed
  <2>4. stop \in Stops /\ stop[1] = player.cursor[1]
        BY <2>2 DEF Framed
  <2>5. Framed(Draw(p, stop)) /\ Steady(Draw(p, stop))
    <3> HIDE DEF p, stop
    <3>1. Steady(p)
          BY <2>2, <2>3 DEF Steady
    <3> QED
        BY <2>2, <2>3, <2>4, <3>1, Drawing DEF Framed
  <2> QED
      BY <1>11, <2>1, <2>2, <2>5, DeckLeft DEF FrameLoads
<1>12. CASE GuardFires
  <2>1. PICK g \in player.due :
          player' = [player EXCEPT !.due = @ \ {g},
                       !.camera = IF g.run = player.run THEN g.stop ELSE @]
        BY <1>12 DEF GuardFires
  <2>2. player # NoPlayer
        BY <2>1 DEF NoPlayer
  <2>3. published # <<>> /\ Framed(player) /\ Steady(player)
        BY <2>2 DEF DeckInv, PlayerOK
  <2>4. /\ DOMAIN player' = DOMAIN NoPlayer /\ player'.cursor = player.cursor
        /\ player'.current = player.current /\ player'.loading = player.loading
        /\ player'.frame = player.frame /\ player'.shown = player.shown
        /\ player'.due = player.due \ {g} /\ player'.run = player.run
        /\ player'.camera = IF g.run = player.run THEN g.stop ELSE player.camera
        BY <2>1, <2>3, PlayerFields DEF Framed
  <2>5. Framed(player') /\ Steady(player')
        BY <2>3, <2>4 DEF Framed, Steady
  <2> QED
      BY <1>12, <2>3, <2>5, DeckLeft DEF GuardFires
<1> QED
    BY <1>1, <1>2, <1>3, <1>4, <1>5, <1>6, <1>7, <1>8, <1>9, <1>10, <1>11, <1>12 DEF DeckNext

LEMMA DeckStarts ==
  ASSUME DeckInit
  PROVE  DeckInv
<1>1. PagesOK
      BY NoPageShaped DEF DeckInit, PagesOK
<1>2. SlidesOK
      BY DEF DeckInit, SlidesOK
<1> QED
    BY <1>1, <1>2 DEF DeckInit, DeckInv, ScriptOK, NoScript, PublishedOK, PlayerOK

\* What is published is shown as its lecture says.
LEMMA DeckShows ==
  ASSUME DeckInv
  PROVE  ShowsItsSlide
<1> SUFFICES ASSUME player # NoPlayer
             PROVE  /\ player.camera = player.shown
                    /\ player.loading = <<>> =>
                         LET s == Lecture[player.cursor[1]]
                             step == StepAt(player.shown)
                         IN /\ player.frame.id = s.id /\ player.shown[1] = player.cursor[1]
                            /\ step.kind = "zoom" =>
                                 /\ step.anchor \in DOMAIN player.frame.anchors
                                 /\ LET mark == player.frame.anchors[step.anchor]
                                    IN /\ InCanvas(mark.rect)
                                       /\ mark.high =>
                                            \A i \in DOMAIN s.anchors :
                                              s.anchors[i].id = step.anchor => s.anchors[i].rect = mark.drawn
    BY DEF ShowsItsSlide
<1>1. published # <<>> /\ PublishedOK /\ Framed(player) /\ Steady(player)
      BY DEF DeckInv, PlayerOK
<1>2. player.camera = player.shown
      BY <1>1 DEF Steady
<1> DEFINE s == Lecture[player.cursor[1]]
           step == StepAt(player.shown)
           page == player.frame
<1>3. ASSUME player.loading = <<>>
      PROVE  /\ page.id = s.id /\ player.shown[1] = player.cursor[1]
             /\ step.kind = "zoom" =>
                  /\ step.anchor \in DOMAIN page.anchors
                  /\ InCanvas(page.anchors[step.anchor].rect)
                  /\ page.anchors[step.anchor].high =>
                       \A i \in DOMAIN s.anchors :
                         s.anchors[i].id = step.anchor => s.anchors[i].rect = page.anchors[step.anchor].drawn
  <2>1. /\ player.shown \in Stops /\ player.shown[1] = player.cursor[1]
        /\ player.cursor[1] \in DOMAIN Lecture
        /\ page = published.slides[s.file]
        BY <1>1, <1>3, StopSlides DEF Framed
  <2>2. Presentable(s, page)
        BY <1>1, <2>1 DEF PublishedOK
  <2>3. step = s.steps[player.shown[2]] /\ player.shown[2] \in DOMAIN s.steps
        BY <2>1 DEF StepAt, Stops
  <2>4. ASSUME step.kind = "zoom" PROVE step.anchor \in Ids(s.anchors)
        BY <2>2, <2>3, <2>4 DEF Presentable, StepsOk, StepOk
  <2>5. ASSUME NEW i \in DOMAIN s.anchors
        PROVE  LET a == s.anchors[i].id
                   mark == page.anchors[a]
               IN /\ a \in DOMAIN page.anchors
                  /\ InCanvas(mark.rect) /\ mark.rect = s.anchors[i].rect
                  /\ mark.high => mark.drawn = s.anchors[i].rect
    <3> DEFINE a == s.anchors[i].id
               box == s.anchors[i].rect
               mark == page.anchors[a]
    <3>1. /\ a \in DOMAIN page.anchors /\ InCanvas(box) /\ mark.rect = box
          /\ StyleOk(mark, box)
          BY <2>2 DEF Presentable, AnchorsOk
    <3>2. mark \in MarkRecord /\ (mark.high = TRUE => mark.drawn = mark.style)
          BY <2>2, <3>1 DEF Presentable, PageShaped, Plain
    <3>3. mark.high \in BOOLEAN /\ mark.style \in Box /\ box \in Box
          BY <3>1, <3>2 DEF MarkRecord
    <3>4. ASSUME mark.high PROVE mark.drawn = box
      <4>1. mark.high = TRUE
            BY <3>3, <3>4, Zenon
      <4>2. /\ mark.style.x = box.x /\ mark.style.y = box.y /\ mark.style.w = box.w
            /\ mark.style.h = box.h
            BY <3>1, <3>4, Zenon DEF StyleOk
      <4> HIDE DEF mark, box
      <4>3. mark.style = box
            BY <3>3, <4>2 DEF Box
      <4> QED
          BY <3>2, <4>1, <4>3
    <3> QED
        BY <3>1, <3>4
  <2>6. ASSUME step.kind = "zoom"
        PROVE  /\ step.anchor \in DOMAIN page.anchors
               /\ InCanvas(page.anchors[step.anchor].rect)
               /\ page.anchors[step.anchor].high =>
                    \A i \in DOMAIN s.anchors :
                      s.anchors[i].id = step.anchor => s.anchors[i].rect = page.anchors[step.anchor].drawn
    <3>1. PICK k \in DOMAIN s.anchors : s.anchors[k].id = step.anchor
          BY <2>4, <2>6 DEF Ids
    <3> HIDE DEF s, step, page
    <3> QED
        BY <2>5, <3>1, Zenon
  <2>7. page.id = s.id
        BY <2>2 DEF Presentable, PageOk
  <2> QED
      BY <2>1, <2>6, <2>7
<1> QED
    BY <1>2, <1>3

\* Whatever the scaffold, the author and the browser do to a deck, and however slides
\* load late and corrections of the camera come late, the player of an accepted deck shows the page
\* of the slide the viewer is at, and the camera is where its lecture says.
THEOREM ShowsItsSlideHolds == DeckSpec => []ShowsItsSlide
<1>1. DeckInit => DeckInv
      BY DeckStarts
<1>2. DeckInv /\ [DeckNext]_deck => DeckInv'
  <2>1. CASE UNCHANGED deck
    <3>1. ASSUME DeckInv, UNCHANGED deck PROVE DeckInv'
          BY <3>1, PlayerLeft, SlidesKept, PagesKept, ScriptEnds DEF deck, DeckInv
    <3> QED
        BY <2>1, <3>1
  <2> QED
      BY <2>1, DeckStep
<1>3. DeckInv => ShowsItsSlide
      BY DeckShows
<1> QED
    BY <1>1, <1>2, <1>3, PTL DEF DeckSpec

-----------------------------------------------------------------------------
(* The scaffold as it stands                                                *)

\* Where a browser draws the anchors of a page of the scaffold.
Homes(n, c) == [a \in DOMAIN ScaffoldPage(n, c).anchors |-> Home]

\* Every file that is there is the scaffold's, and lecture.json came last.
FilesStand(c) ==
    /\ pages = [n \in Number |-> pages[n]]
    /\ \A n \in Number : pages[n] = NoPage \/ pages[n] = ScaffoldPage(n, c)
    /\ lecture # <<>> =>
         /\ lecture = ScaffoldLecture(c) /\ runtime = TRUE
         /\ \A n \in 1..c : pages[n] = ScaffoldPage(n, c)

\* A script has the files it is past, or has found what the scaffold wrote.
ScriptStands(c) ==
    /\ DOMAIN script = {"kind", "count", "next", "found"}
    /\ script.kind = "scaffold" =>
         /\ script.count = c /\ script.next \in 1..(c + 2)
         /\ \A n \in 1..c : n < script.next => pages[n] = ScaffoldPage(n, c)
         /\ script.next = c + 2 => runtime = TRUE
    /\ script.kind = "measure" =>
         /\ lecture # <<>>
         /\ script.found \in Seq({Homes(n, c) : n \in 1..c})
         /\ script.next = Len(script.found) + 1
         /\ \A n \in 1..Len(script.found) : script.found[n] = Homes(n, c)

StandInv ==
    /\ edits \in Nat /\ counts \subseteq 3..MaxPages
    /\ \A c \in 3..MaxPages :
         edits = 0 /\ counts \subseteq {c} => FilesStand(c) /\ ScriptStands(c)

\* The slides of the scaffold, and its pages.
LEMMA ScaffoldForm ==
  ASSUME NEW c \in 3..MaxPages
  PROVE  /\ Len(ScaffoldLecture(c)) = c /\ DOMAIN ScaffoldLecture(c) = 1..c
         /\ ScaffoldLecture(c) # <<>>
         /\ 1..c \subseteq Number
         /\ c \in Nat /\ c >= 3
<1>1. c \in Nat /\ c >= 3 /\ 1..c \subseteq Number
      BY DeckAssumption DEF Number
<1>2. /\ DOMAIN ScaffoldLecture(c) = 1..c
      /\ ScaffoldLecture(c) = [n \in 1..c |-> ScaffoldLecture(c)[n]]
      BY DEF ScaffoldLecture
<1>3. Len(ScaffoldLecture(c)) = c
      BY <1>1, <1>2, LengthOf
<1> QED
    BY <1>1, <1>2, <1>3

\* A slide of the scaffold, whatever its anchors and steps.
SlideWith(n, c, anchors, steps) ==
    [id |-> n, index |-> n, role |-> RoleOf(n, c), file |-> n, anchors |-> anchors, steps |-> steps]

LEMMA SlideFields ==
  ASSUME NEW n, NEW c, NEW anchors, NEW steps
  PROVE  LET s == SlideWith(n, c, anchors, steps)
         IN /\ s.id = n /\ s.index = n /\ s.role = RoleOf(n, c) /\ s.file = n
            /\ s.anchors = anchors /\ s.steps = steps
            /\ [s EXCEPT !.anchors = anchors] = s
  BY DEF SlideWith

LEMMA PageFields ==
  ASSUME NEW n, NEW role, NEW anchors
  PROVE  /\ SlidePage(n, role, anchors).id = n /\ SlidePage(n, role, anchors).role = role
         /\ SlidePage(n, role, anchors).anchors = anchors
  BY DEF SlidePage

LEMMA ScaffoldEnds ==
  ASSUME NEW c \in 3..MaxPages, NEW n \in 1..c, n \in {1, c}
  PROVE  /\ RoleOf(n, c) \in {"opening", "closing"}
         /\ ScaffoldLecture(c)[n] = SlideWith(n, c, <<>>, <<Overview(n, 1)>>)
         /\ ScaffoldPage(n, c) = SlidePage(n, RoleOf(n, c), <<>>)
<1>1. RoleOf(n, c) \in {"opening", "closing"}
      BY DEF RoleOf
<1>2. ScaffoldLecture(c)[n] = SlideWith(n, c, <<>>, <<Overview(n, 1)>>)
      BY DEF ScaffoldLecture, SlideWith
<1>3. ScaffoldPage(n, c) = SlidePage(n, RoleOf(n, c), <<>>)
      BY DEF ScaffoldPage
<1> QED
    BY <1>1, <1>2, <1>3

LEMMA ScaffoldMiddle ==
  ASSUME NEW c \in 3..MaxPages, NEW n \in 1..c, n \notin {1, c}
  PROVE  /\ RoleOf(n, c) = "content"
         /\ ScaffoldLecture(c)[n] = SlideWith(n, c, <<[id |-> n, rect |-> Home]>>, <<Overview(n, 1), Zoom(n, 2, n), Zoom(n, 3, n)>>)
         /\ ScaffoldPage(n, c) = SlidePage(n, RoleOf(n, c), [a \in {n} |-> Mark(Home)])
<1>1. RoleOf(n, c) = "content"
      BY DEF RoleOf
<1>2. ScaffoldLecture(c)[n] = SlideWith(n, c, <<[id |-> n, rect |-> Home]>>, <<Overview(n, 1), Zoom(n, 2, n), Zoom(n, 3, n)>>)
      BY DEF ScaffoldLecture, SlideWith
<1>3. ScaffoldPage(n, c) = SlidePage(n, RoleOf(n, c), [a \in {n} |-> Mark(Home)])
      BY DEF ScaffoldPage
<1> QED
    BY <1>1, <1>2, <1>3

LEMMA ScaffoldForms ==
  ASSUME NEW c \in 3..MaxPages, NEW n \in 1..c
  PROVE  /\ \E anchors, steps : ScaffoldLecture(c)[n] = SlideWith(n, c, anchors, steps)
         /\ \E anchors : ScaffoldPage(n, c) = SlidePage(n, RoleOf(n, c), anchors)
<1>1. CASE n \in {1, c}
      BY <1>1, ScaffoldEnds
<1>2. CASE n \notin {1, c}
      BY <1>2, ScaffoldMiddle
<1> QED
    BY <1>1, <1>2

LEMMA ScaffoldFields ==
  ASSUME NEW c \in 3..MaxPages, NEW n \in 1..c
  PROVE  /\ ScaffoldLecture(c)[n].id = n /\ ScaffoldLecture(c)[n].index = n
         /\ ScaffoldLecture(c)[n].file = n
         /\ ScaffoldLecture(c)[n].role = RoleOf(n, c)
         /\ ScaffoldPage(n, c).id = n /\ ScaffoldPage(n, c).role = RoleOf(n, c)
         /\ ScaffoldPage(n, c).clean
         /\ ScaffoldPage(n, c) # NoPage
<1>1. PICK anchors, steps : ScaffoldLecture(c)[n] = SlideWith(n, c, anchors, steps)
      BY ScaffoldForms
<1>2. PICK marks : ScaffoldPage(n, c) = SlidePage(n, RoleOf(n, c), marks)
      BY ScaffoldForms
<1>3. /\ ScaffoldLecture(c)[n].id = n /\ ScaffoldLecture(c)[n].index = n
      /\ ScaffoldLecture(c)[n].file = n /\ ScaffoldLecture(c)[n].role = RoleOf(n, c)
      BY <1>1, SlideFields
<1>4. ScaffoldPage(n, c).id = n /\ ScaffoldPage(n, c).role = RoleOf(n, c)
      BY <1>2, PageFields
<1>5. ScaffoldPage(n, c).clean
  <2>1. \A r, x : SlidePage(n, r, x).clean
        BY Zenon DEF SlidePage
  <2> QED
      BY <1>2, <2>1, Zenon
<1>6. NoPage.id = 0 /\ n # 0
      BY DEF NoPage
<1> QED
    BY <1>3, <1>4, <1>5, <1>6, Zenon

\* The anchors of its slides and pages, and its steps.
LEMMA ScaffoldBare ==
  ASSUME NEW c \in 3..MaxPages, NEW n \in 1..c, n \in {1, c}
  PROVE  /\ ScaffoldLecture(c)[n].role \in {"opening", "closing"}
         /\ ScaffoldLecture(c)[n].anchors = <<>>
         /\ ScaffoldLecture(c)[n].steps = <<Overview(n, 1)>>
         /\ ScaffoldPage(n, c).anchors = <<>>
<1> DEFINE anchors == <<>>
           steps == <<Overview(n, 1)>>
           marks == <<>>
<1>1. /\ ScaffoldLecture(c)[n] = SlideWith(n, c, anchors, steps)
      /\ ScaffoldPage(n, c) = SlidePage(n, RoleOf(n, c), marks)
      /\ RoleOf(n, c) \in {"opening", "closing"}
      BY ScaffoldEnds
<1> HIDE DEF anchors, steps, marks
<1> QED
    BY <1>1, SlideFields, PageFields DEF anchors, steps, marks

LEMMA ScaffoldFull ==
  ASSUME NEW c \in 3..MaxPages, NEW n \in 1..c, n \notin {1, c}
  PROVE  /\ ScaffoldLecture(c)[n].role = "content"
         /\ ScaffoldLecture(c)[n].anchors = <<[id |-> n, rect |-> Home]>>
         /\ ScaffoldLecture(c)[n].steps = <<Overview(n, 1), Zoom(n, 2, n), Zoom(n, 3, n)>>
         /\ ScaffoldPage(n, c).anchors = [a \in {n} |-> Mark(Home)]
<1> DEFINE anchors == <<[id |-> n, rect |-> Home]>>
           steps == <<Overview(n, 1), Zoom(n, 2, n), Zoom(n, 3, n)>>
           marks == [a \in {n} |-> Mark(Home)]
<1>1. /\ ScaffoldLecture(c)[n] = SlideWith(n, c, anchors, steps)
      /\ ScaffoldPage(n, c) = SlidePage(n, RoleOf(n, c), marks)
      /\ RoleOf(n, c) = "content"
      BY ScaffoldMiddle
<1> HIDE DEF anchors, steps, marks
<1> QED
    BY <1>1, SlideFields, PageFields DEF anchors, steps, marks

\* Each slide passes the validator with its page.
LEMMA ScaffoldSlideOk ==
  ASSUME NEW c \in 3..MaxPages, NEW n \in 1..c
  PROVE  /\ AnchorsOk(ScaffoldLecture(c)[n], ScaffoldPage(n, c))
         /\ StepsOk(ScaffoldLecture(c)[n])
         /\ Ids(ScaffoldLecture(c)[n].anchors) \subseteq {n}
         /\ \A j, k \in DOMAIN ScaffoldLecture(c)[n].steps :
              j # k => ScaffoldLecture(c)[n].steps[j].id # ScaffoldLecture(c)[n].steps[k].id
<1> DEFINE s == ScaffoldLecture(c)[n]
           page == ScaffoldPage(n, c)
<1>1. CASE n \in {1, c}
  <2>1. /\ s.id = n /\ s.role \in {"opening", "closing"} /\ s.anchors = <<>>
        /\ s.steps = <<Overview(n, 1)>>
        BY <1>1, ScaffoldBare, ScaffoldFields
  <2> HIDE DEF s, page
  <2>2. Ids(s.anchors) = {} /\ DOMAIN s.anchors = {} /\ Len(s.anchors) = 0
        BY <2>1 DEF Ids
  <2>3. AnchorsOk(s, page)
        BY <2>2, FS_EmptySet DEF AnchorsOk
  <2>4. /\ DOMAIN s.steps = {1} /\ s.steps[1] = Overview(n, 1) /\ Len(s.steps) = 1
        BY <2>1
  <2>5. Zooms(s) = {}
        BY <2>4 DEF Zooms, Overview
  <2>6. StepOk(s, 1)
        BY <2>1, <2>4 DEF StepOk, Overview
  <2>7. StepsOk(s)
        BY <2>1, <2>4, <2>5, <2>6, FS_EmptySet DEF StepsOk, Overview
  <2> QED
      BY <2>2, <2>3, <2>4, <2>7 DEF s, page
<1>2. CASE n \notin {1, c}
  <2>1. /\ s.id = n /\ s.role = "content" /\ s.anchors = <<[id |-> n, rect |-> Home]>>
        /\ s.steps = <<Overview(n, 1), Zoom(n, 2, n), Zoom(n, 3, n)>>
        /\ page.anchors = [a \in {n} |-> Mark(Home)]
        BY <1>2, ScaffoldFull, ScaffoldFields
  <2> HIDE DEF s, page
  <2>2. /\ DOMAIN s.anchors = {1} /\ Len(s.anchors) = 1
        /\ s.anchors[1].id = n /\ s.anchors[1].rect = Home
        BY <2>1
  <2>3. Ids(s.anchors) = {n}
        BY <2>2 DEF Ids
  <2>4. /\ n \in DOMAIN page.anchors /\ page.anchors[n].rect = Home
        /\ StyleOk(page.anchors[n], Home) /\ InCanvas(Home)
        BY <2>1 DEF StyleOk, InCanvas, Home, Mark, CanvasW, CanvasH
  <2>5. AnchorsOk(s, page)
        BY <2>2, <2>3, <2>4, FS_Singleton DEF AnchorsOk
  <2>6. /\ DOMAIN s.steps = 1..3 /\ Len(s.steps) = 3 /\ s.steps[1] = Overview(n, 1)
        /\ s.steps[2] = Zoom(n, 2, n) /\ s.steps[3] = Zoom(n, 3, n)
        BY <2>1
  <2>7. Zooms(s) = 2..3
        BY <2>6 DEF Zooms, Overview, Zoom
  <2>8. Cardinality(Zooms(s)) = 2
    <3> DEFINE first == 2
               last == 3
    <3>1. first \in Int /\ last \in Int /\ first <= last /\ last - first + 1 = 2
          OBVIOUS
    <3> HIDE DEF first, last
    <3>2. Cardinality(first..last) = 2
          BY <3>1, FS_Interval
    <3> QED
        BY <2>7, <3>2 DEF first, last
  <2>9. StepOk(s, 1)
        BY <2>1, <2>6 DEF StepOk, Overview
  <2>10. StepOk(s, 2)
        BY <2>1, <2>3, <2>6 DEF StepOk, Zoom
  <2>11. StepOk(s, 3)
        BY <2>1, <2>3, <2>6 DEF StepOk, Zoom
  <2>12. StepsOk(s)
    <3>1. \A k \in DOMAIN s.steps : StepOk(s, k)
          BY <2>6, <2>9, <2>10, <2>11
    <3>2. s.steps # <<>> /\ s.steps[1].kind = "overview"
          BY <2>6 DEF Overview
    <3> QED
        BY <2>1, <2>8, <3>1, <3>2 DEF StepsOk
  <2>13. \A j, k \in DOMAIN s.steps : j # k => s.steps[j].id # s.steps[k].id
        BY <2>6 DEF Overview, Zoom
  <2> QED
      BY <2>3, <2>5, <2>12, <2>13 DEF s, page
<1> QED
    BY <1>1, <1>2

\* A browser draws an anchor of the scaffold where it is styled: what it finds is
\* what is written already.
LEMMA ScaffoldDrawn ==
  ASSUME NEW c \in 3..MaxPages, NEW n \in 1..c
  PROVE  /\ Drawn(ScaffoldPage(n, c)) = Homes(n, c)
         /\ [a \in DOMAIN ScaffoldPage(n, c).anchors |->
               [ScaffoldPage(n, c).anchors[a] EXCEPT !.rect = ScaffoldPage(n, c).anchors[a].drawn]]
            = ScaffoldPage(n, c).anchors
<1> DEFINE marks == ScaffoldPage(n, c).anchors
<1>1. CASE n \in {1, c}
  <2>1. marks = <<>>
        BY <1>1, ScaffoldBare
  <2> QED
      BY <2>1 DEF Drawn, Homes
<1>2. CASE n \notin {1, c}
  <2>1. marks = [a \in {n} |-> Mark(Home)]
        BY <1>2, ScaffoldFull
  <2>2. Mark(Home).drawn = Home /\ [Mark(Home) EXCEPT !.rect = Home] = Mark(Home)
    <3>1. \A home, high : LET m == [rect |-> home, style |-> home, high |-> high, drawn |-> home]
                         IN m.drawn = home /\ [m EXCEPT !.rect = home] = m
          OBVIOUS
    <3> QED
        BY <3>1, Zenon DEF Mark
  <2> QED
      BY <2>1, <2>2 DEF Drawn, Homes
<1> QED
    BY <1>1, <1>2

\* A page written again as it is.
LEMMA PageRewritten ==
  ASSUME NEW n, pages = [m \in Number |-> pages[m]], pages' = [pages EXCEPT ![n] = pages[n]]
  PROVE  pages' = pages
  OBVIOUS

LEMMA ScaffoldMeasured ==
  ASSUME NEW c \in 3..MaxPages, NEW n \in 1..c
  PROVE  [ScaffoldLecture(c)[n] EXCEPT !.anchors =
            [i \in DOMAIN ScaffoldLecture(c)[n].anchors |->
               IF ScaffoldLecture(c)[n].anchors[i].id \in DOMAIN Homes(n, c)
                 THEN [ScaffoldLecture(c)[n].anchors[i] EXCEPT
                         !.rect = Homes(n, c)[ScaffoldLecture(c)[n].anchors[i].id]]
                 ELSE ScaffoldLecture(c)[n].anchors[i]]] = ScaffoldLecture(c)[n]
<1> DEFINE s == ScaffoldLecture(c)[n]
           new == [i \in DOMAIN s.anchors |->
                     IF s.anchors[i].id \in DOMAIN Homes(n, c)
                       THEN [s.anchors[i] EXCEPT !.rect = Homes(n, c)[s.anchors[i].id]]
                       ELSE s.anchors[i]]
<1>1. new = s.anchors
  <2>1. CASE n \in {1, c}
    <3>1. s.anchors = <<>>
          BY <2>1, ScaffoldBare
    <3> HIDE DEF s
    <3> QED
        BY <3>1
  <2>2. CASE n \notin {1, c}
    <3>1. s.anchors = <<[id |-> n, rect |-> Home]>>
          BY <2>2, ScaffoldFull
    <3>2. Homes(n, c) = [a \in {n} |-> Home]
      <4>1. ScaffoldPage(n, c).anchors = [a \in {n} |-> Mark(Home)]
            BY <2>2, ScaffoldFull
      <4> QED
          BY <4>1 DEF Homes
    <3> HIDE DEF s
    <3>3. DOMAIN s.anchors = {1} /\ s.anchors[1] = [id |-> n, rect |-> Home]
          BY <3>1
    <3>4. [[id |-> n, rect |-> Home] EXCEPT !.rect = Home] = [id |-> n, rect |-> Home]
          OBVIOUS
    <3>5. \A i \in DOMAIN s.anchors : new[i] = s.anchors[i]
          BY <3>2, <3>3, <3>4
    <3>6. s.anchors = [i \in DOMAIN s.anchors |-> s.anchors[i]]
          BY <3>1
    <3> QED
        BY <3>5, <3>6
  <2> QED
      BY <2>1, <2>2
<1>2. s = [x \in DOMAIN s |-> s[x]] /\ "anchors" \in DOMAIN s
  <2>1. PICK anchors, steps : s = SlideWith(n, c, anchors, steps)
        BY ScaffoldForms
  <2> HIDE DEF s
  <2> QED
      BY <2>1 DEF SlideWith
<1> HIDE DEF s, new
<1>3. [s EXCEPT !.anchors = new] = s
      BY <1>1, <1>2
<1> QED
    BY <1>3 DEF s, new

\* What stands and has its lecture.json builds and is accepted.
LEMMA StandingAccepted ==
  ASSUME NEW c \in 3..MaxPages, FilesStand(c), lecture # <<>>
  PROVE  Compiles /\ Accepts(lecture, pages, runtime, Bundle)
<1>1. /\ lecture = ScaffoldLecture(c) /\ runtime = TRUE
      /\ \A n \in 1..c : pages[n] = ScaffoldPage(n, c)
      BY DEF FilesStand
<1>2. DOMAIN lecture = 1..c /\ Len(lecture) = c /\ c >= 3 /\ c \in Nat
      BY <1>1, ScaffoldForm
<1>3. \A n \in 1..c :
        /\ lecture[n].id = n /\ lecture[n].index = n /\ lecture[n].file = n
        /\ lecture[n].role = RoleOf(n, c)
        /\ pages[n].id = n /\ pages[n].role = RoleOf(n, c) /\ pages[n].clean
        /\ pages[n] # NoPage
      BY <1>1, ScaffoldFields
<1>4. \A n \in 1..c :
        /\ AnchorsOk(lecture[n], pages[n]) /\ StepsOk(lecture[n])
        /\ Ids(lecture[n].anchors) \subseteq {n}
        /\ \A j, k \in DOMAIN lecture[n].steps :
             j # k => lecture[n].steps[j].id # lecture[n].steps[k].id
      BY <1>1, ScaffoldSlideOk
<1>5. Compiles
      BY <1>1, <1>2, <1>3 DEF Compiles
<1>6. RolesOk(lecture)
      BY <1>2, <1>3 DEF RolesOk
<1>7. IdsOk(lecture)
  <2>1. \A m, n \in 1..c : m # n => lecture[m].id # lecture[n].id
        BY <1>3
  <2>2. \A m, n \in 1..c : m # n => Ids(lecture[m].anchors) \cap Ids(lecture[n].anchors) = {}
    <3>1. TAKE m, n \in 1..c
    <3>2. Ids(lecture[m].anchors) \subseteq {m} /\ Ids(lecture[n].anchors) \subseteq {n}
          BY <1>4
    <3> QED
        BY <3>2
  <2>3. \A n \in 1..c : lecture[n].id > 0
        BY <1>2, <1>3
  <2> QED
      BY <1>2, <1>4, <2>1, <2>2, <2>3 DEF IdsOk
<1>8. Bundle # <<>>
  <2>1. DOMAIN Bundle = {"lecture", "slides"}
        BY DEF Bundle
  <2>2. DOMAIN <<>> = {}
        OBVIOUS
  <2> QED
      BY <2>1, <2>2, Zenon
<1>9. \A n \in DOMAIN lecture :
        /\ pages[lecture[n].file] # NoPage
        /\ PageOk(lecture[n], pages[lecture[n].file])
        /\ AnchorsOk(lecture[n], pages[lecture[n].file]) /\ StepsOk(lecture[n])
      BY <1>2, <1>3, <1>4 DEF PageOk
<1> QED
    BY <1>1, <1>5, <1>6, <1>7, <1>8, <1>9 DEF Accepts

\* A deck that was asked for as c slides only, and not edited.
LEMMA StandStep ==
  ASSUME DeckInv, NEW c \in 3..MaxPages, FilesStand(c), ScriptStands(c),
         DeckNext, edits' = 0, edits \in Nat, counts' \subseteq {c}
  PROVE  FilesStand(c)' /\ ScriptStands(c)'
<1> USE DeckAssumption
<1>0. /\ c \in Nat /\ c >= 3 /\ 1..c \subseteq Number /\ ScaffoldLecture(c) # <<>>
      /\ DOMAIN ScaffoldLecture(c) = 1..c /\ Len(ScaffoldLecture(c)) = c
      BY ScaffoldForm
<1>01. ASSUME UNCHANGED <<pages, lecture, runtime>>
       PROVE  FilesStand(c)'
       BY <1>01 DEF FilesStand
<1>02. ASSUME UNCHANGED <<pages, lecture, runtime>>, UNCHANGED script \/ script' = NoScript
       PROVE  FilesStand(c)' /\ ScriptStands(c)'
       BY <1>01, <1>02 DEF ScriptStands, NoScript
<1>1. ASSUME NEW count \in 3..MaxPages, Scaffold(count)
      PROVE FilesStand(c)' /\ ScriptStands(c)'
  <2>1. count = c
        BY <1>1 DEF Scaffold
  <2>2. script' = [NoScript EXCEPT !.kind = "scaffold", !.count = c, !.next = 1]
        BY <1>1, <2>1 DEF Scaffold
  <2>3. script'.kind = "scaffold" /\ script'.count = c /\ script'.next = 1
        BY <2>2 DEF NoScript
  <2> QED
      BY <1>0, <1>1, <1>01, <2>3 DEF Scaffold, ScriptStands
<1>2. CASE ScaffoldStep
  <2> DEFINE n == script.next
  <2>1. /\ script.kind = "scaffold" /\ script.count = c /\ n \in 1..(c + 2)
        /\ \A m \in 1..c : m < n => pages[m] = ScaffoldPage(m, c)
        /\ n = c + 2 => runtime = TRUE
        BY <1>2 DEF ScaffoldStep, ScriptStands
  <2>2. pages' = IF n <= c /\ pages[n] = NoPage
                   THEN [pages EXCEPT ![n] = ScaffoldPage(n, c)] ELSE pages
        BY <1>2, <2>1 DEF ScaffoldStep
  <2>3. runtime = TRUE => runtime' = TRUE
        BY <1>2 DEF ScaffoldStep
  <2>4. n = c + 1 => runtime' = TRUE
        BY <1>2, <2>1 DEF ScaffoldStep
  <2>5. lecture' = IF n = c + 2 /\ lecture = <<>> THEN ScaffoldLecture(c) ELSE lecture
        BY <1>2, <2>1 DEF ScaffoldStep
  <2>6. script' = IF n = c + 2 THEN NoScript ELSE [script EXCEPT !.next = n + 1]
        BY <1>2, <2>1 DEF ScaffoldStep
  <2>7. DOMAIN pages = Number
        BY DEF DeckInv, PagesOK
  <2> HIDE DEF n
  <2>8. \A m \in Number : pages'[m] = pages[m] \/ (m = n /\ pages'[m] = ScaffoldPage(m, c))
        BY <2>2, <2>7
  <2>9. \A m \in 1..c : pages[m] = ScaffoldPage(m, c) => pages'[m] = ScaffoldPage(m, c)
        BY <1>0, <2>8
  <2>10. n <= c => pages'[n] = ScaffoldPage(n, c)
        BY <1>0, <2>1, <2>2, <2>7 DEF FilesStand
  <2>11. FilesStand(c)'
    <3>1. /\ pages' = [m \in Number |-> pages'[m]]
          /\ \A m \in Number : pages'[m] = NoPage \/ pages'[m] = ScaffoldPage(m, c)
      <4>1. pages' = [m \in Number |-> pages'[m]]
            BY <2>2 DEF FilesStand
      <4> QED
          BY <2>8, <4>1 DEF FilesStand
    <3>2. CASE lecture # <<>>
          BY <2>3, <2>5, <2>9, <3>1, <3>2 DEF FilesStand
    <3>3. CASE lecture = <<>> /\ n = c + 2
      <4>1. \A m \in 1..c : m < n
            BY <1>0, <3>3
      <4> QED
          BY <2>1, <2>3, <2>5, <2>9, <3>1, <3>3, <4>1 DEF FilesStand
    <3>4. CASE lecture = <<>> /\ n # c + 2
          BY <2>5, <3>1, <3>4 DEF FilesStand
    <3> QED
        BY <3>2, <3>3, <3>4
  <2>12. ScriptStands(c)'
    <3>1. CASE n = c + 2
          BY <2>6, <3>1 DEF ScriptStands, NoScript
    <3>2. CASE n # c + 2
      <4>1. /\ script'.kind = "scaffold" /\ script'.count = c
        <5>1. script' = [script EXCEPT !.next = n + 1]
              BY <2>6, <3>2
        <5> QED
            BY <2>1, <5>1
      <4>2. script'.next = n + 1
        <5>1. script' = [script EXCEPT !.next = n + 1]
              BY <2>6, <3>2
        <5>2. "next" \in DOMAIN script
              BY DEF ScriptStands
        <5> QED
            BY <5>1, <5>2
      <4>3. n + 1 \in 1..(c + 2)
            BY <1>0, <2>1, <3>2
      <4>4. \A m \in 1..c : m < n + 1 => pages'[m] = ScaffoldPage(m, c)
            BY <1>0, <2>1, <2>9, <2>10
      <4>5. n + 1 = c + 2 => runtime' = TRUE
            BY <1>0, <2>1, <2>4
      <4> QED
        <5>1. DOMAIN script' = {"kind", "count", "next", "found"}
          <6>1. script' = [script EXCEPT !.next = n + 1]
                BY <2>6, <3>2
          <6> QED
              BY <6>1 DEF ScriptStands
        <5> QED
            BY <4>1, <4>2, <4>3, <4>4, <4>5, <5>1 DEF ScriptStands
    <3> QED
        BY <3>1, <3>2
  <2> QED
      BY <2>11, <2>12
<1>3. CASE Measure
  <2>1. script' = [NoScript EXCEPT !.kind = "measure", !.next = 1]
        BY <1>3 DEF Measure
  <2>2. /\ DOMAIN script' = {"kind", "count", "next", "found"}
        /\ script'.kind = "measure" /\ script'.next = 1 /\ script'.found = <<>>
        BY <2>1 DEF NoScript
  <2>3. lecture' # <<>>
        BY <1>3 DEF Measure
  <2>4. script'.found \in Seq({Homes(n, c) : n \in 1..c}) /\ Len(script'.found) = 0
        BY <2>2
  <2> QED
      BY <1>3, <1>01, <2>2, <2>3, <2>4 DEF Measure, ScriptStands
<1>4. CASE MeasurePage
  <2> DEFINE n == script.next
             page == pages[n]
             All == {Homes(m, c) : m \in 1..c}
             found == script.found
  <2>1. /\ script.kind = "measure" /\ lecture # <<>> /\ found \in Seq(All)
        /\ n = Len(found) + 1 /\ \A m \in 1..Len(found) : found[m] = Homes(m, c)
        BY <1>4 DEF MeasurePage, ScriptStands
  <2>2. /\ lecture = ScaffoldLecture(c) /\ \A m \in 1..c : pages[m] = ScaffoldPage(m, c)
        BY <2>1 DEF FilesStand
  <2>3. Len(found) \in Nat
        BY <2>1
  <2>4. n \in 1..c
    <3>1. n <= Len(lecture) /\ Len(lecture) = c
          BY <1>0, <1>4, <2>2 DEF MeasurePage
    <3>2. n \in Nat /\ n >= 1
          BY <2>1, <2>3
    <3> QED
        BY <1>0, <3>1, <3>2
  <2>5. lecture[n].file = n /\ page = ScaffoldPage(n, c)
        BY <2>2, <2>4, ScaffoldFields
  <2>6. Drawn(page) = Homes(n, c)
        BY <2>4, <2>5, ScaffoldDrawn
  <2>7. pages' = pages
    <3>1. pages' = [pages EXCEPT ![n].anchors =
                         [a \in DOMAIN page.anchors |->
                            [page.anchors[a] EXCEPT !.rect = page.anchors[a].drawn]]]
          BY <1>4, <2>5 DEF MeasurePage
    <3>2. [a \in DOMAIN page.anchors |->
              [page.anchors[a] EXCEPT !.rect = page.anchors[a].drawn]] = page.anchors
          BY <2>4, <2>5, ScaffoldDrawn
    <3>3. "anchors" \in DOMAIN page /\ page = [x \in DOMAIN page |-> page[x]]
          BY <2>5 DEF ScaffoldPage, SlidePage
    <3> HIDE DEF page
    <3>5. pages' = [pages EXCEPT ![n].anchors = page.anchors]
          BY <3>1, <3>2
    <3>6. [page EXCEPT !.anchors = page.anchors] = page
          BY <3>3
    <3>4. pages' = [pages EXCEPT ![n] = page]
          BY <3>5, <3>6 DEF page
    <3> QED
        BY <3>4, PageRewritten DEF page, FilesStand
  <2>8. script' = [script EXCEPT !.next = n + 1, !.found = Append(found, Homes(n, c))]
        BY <1>4, <2>5, <2>6 DEF MeasurePage
  <2>9. /\ DOMAIN script' = {"kind", "count", "next", "found"}
        /\ script'.kind = "measure" /\ script'.next = n + 1
        /\ script'.found = Append(found, Homes(n, c))
        BY <2>1, <2>8 DEF ScriptStands
  <2>10. Homes(n, c) \in All
         BY <2>4
  <2> HIDE DEF All, found, n
  <2>11. /\ script'.found \in Seq(All) /\ Len(script'.found) = Len(found) + 1
         /\ \A m \in 1..Len(script'.found) : script'.found[m] = Homes(m, c)
         BY <2>1, <2>3, <2>9, <2>10
  <2>12. UNCHANGED <<lecture, runtime>>
         BY <1>4 DEF MeasurePage
  <2>13. ScriptStands(c)'
         BY <2>1, <2>3, <2>9, <2>11, <2>12 DEF ScriptStands, All
  <2> QED
      BY <1>01, <2>7, <2>12, <2>13
<1>5. CASE MeasureEnd
  <2> DEFINE found == script.found
  <2>1. /\ script.kind = "measure" /\ lecture # <<>> /\ script.next = Len(found) + 1
        /\ Len(found) \in Nat /\ \A m \in 1..Len(found) : found[m] = Homes(m, c)
        BY <1>5 DEF MeasureEnd, ScriptStands
  <2>2. lecture = ScaffoldLecture(c)
        BY <2>1 DEF FilesStand
  <2>3. \A n \in 1..c : found[n] = Homes(n, c)
        BY <1>0, <1>5, <2>1, <2>2 DEF MeasureEnd
  <2>4. \A n \in 1..c :
          [lecture[n] EXCEPT !.anchors =
             [i \in DOMAIN lecture[n].anchors |->
                IF lecture[n].anchors[i].id \in DOMAIN found[n]
                  THEN [lecture[n].anchors[i] EXCEPT !.rect = found[n][lecture[n].anchors[i].id]]
                  ELSE lecture[n].anchors[i]]] = lecture[n]
        BY <2>2, <2>3, ScaffoldMeasured
  <2>5. lecture' = [n \in 1..c |->
          [lecture[n] EXCEPT !.anchors =
             [i \in DOMAIN lecture[n].anchors |->
                IF lecture[n].anchors[i].id \in DOMAIN found[n]
                  THEN [lecture[n].anchors[i] EXCEPT !.rect = found[n][lecture[n].anchors[i].id]]
                  ELSE lecture[n].anchors[i]]]]
        BY <1>0, <1>5, <2>2 DEF MeasureEnd
  <2>6. lecture' = [n \in 1..c |-> lecture[n]]
        BY <2>4, <2>5, Zenon
  <2>7. lecture' = lecture
        BY <2>2, <2>6 DEF ScaffoldLecture
  <2> QED
      BY <1>02, <1>5, <2>7 DEF MeasureEnd
<1>6. CASE ScriptDies
      BY <1>02, <1>6 DEF ScriptDies
<1>7. CASE Edit
      BY <1>7 DEF Edit
<1>8. CASE BuildAndValidate
      BY <1>02, <1>8 DEF BuildAndValidate
<1>9. CASE Boot \/ Move \/ FrameLoads \/ GuardFires
      BY <1>02, <1>9 DEF Boot, Move, FrameLoads, GuardFires
<1> QED
    BY <1>1, <1>2, <1>3, <1>4, <1>5, <1>6, <1>7, <1>8, <1>9 DEF DeckNext

LEMMA StandKept ==
  ASSUME DeckInv, StandInv, DeckNext
  PROVE  StandInv'
<1>0. edits' = edits \/ edits' = edits + 1
      BY DEF StandInv, DeckNext, Scaffold, ScaffoldStep, Measure, MeasurePage, MeasureEnd,
             ScriptDies, Edit, BuildAndValidate, Boot, Move, FrameLoads, GuardFires
<1>1. edits' \in Nat /\ (edits' = 0 => edits = 0)
      BY <1>0 DEF StandInv
<1>2. counts \subseteq counts' /\ counts' \subseteq 3..MaxPages
      BY DEF StandInv, DeckNext, Scaffold, ScaffoldStep, Measure, MeasurePage, MeasureEnd,
             ScriptDies, Edit, BuildAndValidate, Boot, Move, FrameLoads, GuardFires
<1>3. ASSUME NEW c \in 3..MaxPages, edits' = 0, counts' \subseteq {c}
      PROVE  FilesStand(c)' /\ ScriptStands(c)'
  <2>1. FilesStand(c) /\ ScriptStands(c)
        BY <1>1, <1>2, <1>3 DEF StandInv
  <2>2. edits \in Nat
        BY DEF StandInv
  <2> QED
      BY <1>3, <2>1, <2>2, StandStep
<1> QED
    BY <1>1, <1>2, <1>3 DEF StandInv

\* A scaffold that was finished, in as many attempts as it took, and measured in a
\* browser or not, builds and is accepted as it stands, if it was always asked for
\* as many slides: no file of an earlier attempt is in the way of a later one.
THEOREM ScaffoldStandsHolds == DeckSpec => []ScaffoldStands
<1>1. DeckInit => DeckInv /\ StandInv
  <2>1. DeckInit => StandInv
        BY DEF DeckInit, StandInv, FilesStand, ScriptStands, NoScript
  <2> QED
      BY <2>1, DeckStarts
<1>2. DeckInv /\ StandInv /\ [DeckNext]_deck => DeckInv' /\ StandInv'
  <2>1. ASSUME DeckInv, StandInv, UNCHANGED deck PROVE DeckInv' /\ StandInv'
    <3>1. DeckInv'
          BY <2>1, PlayerLeft, SlidesKept, PagesKept, ScriptEnds DEF deck, DeckInv
    <3>2. StandInv'
          BY <2>1 DEF deck, StandInv, FilesStand, ScriptStands
    <3> QED
        BY <3>1, <3>2
  <2> QED
      BY <2>1, DeckStep, StandKept
<1>3. StandInv => ScaffoldStands
  <2> SUFFICES ASSUME StandInv, lecture # <<>>, edits = 0, Cardinality(counts) = 1
               PROVE  Compiles /\ Accepts(lecture, pages, runtime, Bundle)
      BY DEF ScaffoldStands
  <2>1. counts \subseteq 3..MaxPages
        BY DEF StandInv
  <2>2. PICK c : counts = {c}
    <3>1. IsFiniteSet(counts)
      <4>1. IsFiniteSet(3..MaxPages)
            BY DeckAssumption, FS_Interval
      <4> QED
          BY <2>1, <4>1, FS_Subset
    <3> QED
        BY <3>1, FS_Singleton
  <2>3. FilesStand(c)
        BY <2>1, <2>2 DEF StandInv
  <2> QED
      BY <2>1, <2>2, <2>3, StandingAccepted
<1> QED
    BY <1>1, <1>2, <1>3, PTL DEF DeckSpec
=============================================================================
