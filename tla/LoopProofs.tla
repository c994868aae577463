----------------------------- MODULE LoopProofs -----------------------------
(***************************************************************************)
(* The evidence ledger and the learning loop: every observation is folded  *)
(* once, the phase of a node is the one the database confirmed, every      *)
(* round is closed and the budget holds, for every learner's tasks,        *)
(* processes and knowledge points, and plans and budgets of every size.    *)
(***************************************************************************)
EXTENDS RuntimeLoop, FiniteSetTheorems, SequenceTheorems, TLAPS, WellFoundedInduction

(***************************************************************************)
(* Every observation is folded once                                        *)
(***************************************************************************)

Pcs == {"idle", "read", "commit"} \cup FoldPcs \cup EndPcs

\* The number of a row is its place: no two writers share one, none is skipped.
Numbered == \A i \in DOMAIN ledger : ledger[i].seq = i

\* What an append is about to count from is not ahead of the ledger.
Based == \A t \in Task : job[t].pc = "commit" => job[t].base <= Len(ledger)

OneFold == \A t, v \in Task : Folding(t) /\ Folding(v) => t = v

OwnIn(L, p, s) == s \in 1..Len(L) /\ L[s].point = p

\* What has been learnt from ledger L if P is the profile and c its cursor: of
\* each point its rows up to its mark, once, and those are all up to the cursor.
LearntOf(L, P, c) ==
  /\ c <= Len(L)
  /\ \A p \in Point :
       /\ P[p].mark <= Len(L)
       /\ \A s \in Seqs :
            P[p].times[s] = IF OwnIn(L, p, s) /\ s <= P[p].mark THEN 1 ELSE 0
       /\ \A s \in 1..c : OwnIn(L, p, s) => s <= P[p].mark

\* What a fold remembers of them.
MemoryOf(j, L, P, c) ==
  /\ j.pc \in FoldPcs \ {"cursor"} => j.lo = c
  /\ j.pc \in {"seen", "rows", "write", "position", "advance"} => j.hi <= Len(L)
  /\ j.pc \in {"rows", "write"} => j.seen = P
  /\ j.pc = "write" => j.rows = P
  /\ j.pc \in {"position", "advance"} =>
       \A p \in Point : \A s \in 1..j.hi : OwnIn(L, p, s) => s <= P[p].mark
  /\ j.pc = "advance" => j.base = c

Alone == /\ OneFold
         /\ LearntOf(ledger, profile, cursor)
         /\ \A t \in Task : MemoryOf(job[t], ledger, profile, cursor)

EvInv == EvTypeOK /\ Numbered /\ Based /\ (~overlapped => Alone)

-----------------------------------------------------------------------------
(* Numbers *)

\* A bounded set of numbers has a largest member.
LEMMA BoundedMax ==
  ASSUME NEW S, S \subseteq Nat, S # {}, NEW b \in Nat, \A k \in S : k <= b
  PROVE  \E n \in S : \A k \in S : k <= n
<1> DEFINE R == OpToRel(<, Nat)
           T == {b - k : k \in S}
<1>1. T \subseteq Nat /\ T # {}
  <2>1. \A k \in S : b - k \in Nat
        OBVIOUS
  <2> QED
      BY <2>1
<1>2. \E m \in T : \A n \in T : ~(<<n, m>> \in R)
  <2> HIDE DEF T, R
  <2>1. IsWellFoundedOn(R, Nat)
        BY NatLessThanWellFounded DEF R
  <2> QED
      BY <1>1, <2>1, WFMin
<1>3. PICK m \in T : \A n \in T : ~(n < m)
  <2>1. \A m, n \in Nat : n < m => <<n, m>> \in R
        BY DEF OpToRel
  <2> QED
      BY <1>1, <1>2, <2>1
<1>4. PICK n \in S : m = b - n
      BY <1>3
<1>5. \A k \in S : k <= n
      BY <1>3, <1>4
<1> QED
    BY <1>5

LEMMA LedgerNumbers ==
  ASSUME ledger \in Seq(Row), Numbered
  PROVE  /\ Used = 1..Len(ledger)
         /\ Highest = Len(ledger)
<1>1. Len(ledger) \in Nat /\ DOMAIN ledger = 1..Len(ledger)
      OBVIOUS
<1>2. Used = 1..Len(ledger)
      BY <1>1 DEF Used, Numbered
<1>3. /\ Len(ledger) \in Used \cup {0}
      /\ \A k \in Used : k <= Len(ledger)
      BY <1>1, <1>2
<1>4. ASSUME NEW n \in Used \cup {0}, \A k \in Used : k <= n
      PROVE  n = Len(ledger)
  <2>1. n \in Nat /\ n <= Len(ledger)
        BY <1>1, <1>2
  <2>2. Len(ledger) # 0 => Len(ledger) \in Used
        BY <1>1, <1>2
  <2>3. Len(ledger) # 0 => Len(ledger) <= n
        BY <1>4, <2>2
  <2>4. n <= Len(ledger) /\ Len(ledger) <= n
        BY <1>1, <2>1, <2>3
  <2>5. \A a, b \in Nat : a <= b /\ b <= a => a = b
        OBVIOUS
  <2> QED
      BY <1>1, <2>1, <2>4, <2>5, Zenon
<1> QED
    BY <1>2, <1>3, <1>4 DEF Highest

\* A row of the ledger is where its number says.
LEMMA OwnRow ==
  ASSUME ledger \in Seq(Row), Numbered, NEW p, NEW s
  PROVE  (\E i \in DOMAIN ledger : ledger[i].seq = s /\ ledger[i].point = p)
           <=> OwnIn(ledger, p, s)
  BY DEF Numbered, OwnIn

LEMMA FreshRows ==
  ASSUME ledger \in Seq(Row), Numbered, NEW j \in Job, NEW p \in Point
  PROVE  /\ Fresh(j, p) \subseteq Nat
         /\ \A s : s \in Fresh(j, p) <=>
              /\ s \in j.lo + 1 .. j.hi
              /\ s > j.seen[p].mark
              /\ OwnIn(ledger, p, s)
<1>1. j.lo \in Nat /\ j.hi \in Nat
      BY DEF Job
<1> QED
    BY <1>1, OwnRow DEF Fresh

LEMMA NewestRow ==
  ASSUME ledger \in Seq(Row), Numbered, NEW j \in Job, NEW p \in Point, Fresh(j, p) # {}
  PROVE  /\ Newest(j, p) \in Fresh(j, p)
         /\ \A k \in Fresh(j, p) : k <= Newest(j, p)
<1>1. j.hi \in Nat /\ j.lo \in Nat
      BY DEF Job
<1>2. Fresh(j, p) \subseteq Nat /\ \A k \in Fresh(j, p) : k <= j.hi
      BY <1>1, FreshRows
<1>3. \E n \in Fresh(j, p) : \A k \in Fresh(j, p) : k <= n
      BY <1>1, <1>2, BoundedMax
<1> QED
    BY <1>3 DEF Newest

-----------------------------------------------------------------------------
(* Types *)

LEMMA NoRowTyped == NoRow \in ProfileRow
  BY DEF NoRow, ProfileRow

LEMMA NoJobTyped == NoJob \in Job /\ NoJob.pc = "idle"
<1>1. NoProfile \in [Point -> ProfileRow]
      BY NoRowTyped DEF NoProfile
<1> QED
    BY <1>1 DEF NoJob, Job

\* A job with a new pc.
LEMMA Moved ==
  ASSUME NEW j \in Job, NEW pc \in Pcs
  PROVE  /\ [j EXCEPT !.pc = pc] \in Job
         /\ [j EXCEPT !.pc = pc].pc = pc
         /\ [j EXCEPT !.pc = pc].lo = j.lo
         /\ [j EXCEPT !.pc = pc].hi = j.hi
         /\ [j EXCEPT !.pc = pc].base = j.base
         /\ [j EXCEPT !.pc = pc].seen = j.seen
         /\ [j EXCEPT !.pc = pc].rows = j.rows
  BY DEF Job, Pcs

\* What is not a fold remembers nothing.
LEMMA Forgotten ==
  ASSUME NEW j, j.pc \notin FoldPcs, NEW L, NEW P, NEW c
  PROVE  MemoryOf(j, L, P, c)
  BY DEF MemoryOf, FoldPcs

-----------------------------------------------------------------------------
(* Steps in the memory of one execution *)

\* A step of t leaves the tables alone and remembers them correctly.
LEMMA MemoryStep ==
  ASSUME EvInv, NEW t \in Task, NEW k \in Job,
         job' = [job EXCEPT ![t] = k],
         UNCHANGED <<ledger, profile, cursor, overlapped>>,
         at' \in [Task -> Process \cup {NoP}], begun' \in Nat,
         k.pc \in FoldPcs => Folding(t),
         k.pc = "commit" => k.base <= Len(ledger),
         Alone => MemoryOf(k, ledger, profile, cursor)
  PROVE  EvInv'
<1>1. EvTypeOK'
      BY DEF EvInv, EvTypeOK
<1>2. \A v \in Task : job'[v] = IF v = t THEN k ELSE job[v]
      BY DEF EvInv, EvTypeOK
<1>3. Numbered'
      BY DEF EvInv, Numbered
<1>4. Based'
      BY <1>2 DEF EvInv, Based
<1>5. ASSUME Alone
      PROVE  Alone'
  <2>1. \A v \in Task : Folding(v)' => Folding(v)
        BY <1>2 DEF Folding
  <2>2. OneFold'
        BY <1>5, <2>1 DEF Alone, OneFold
  <2>3. \A v \in Task : MemoryOf(job'[v], ledger, profile, cursor)
        BY <1>2, <1>5 DEF Alone
  <2> QED
      BY <1>5, <2>2, <2>3 DEF Alone
<1> QED
    BY <1>1, <1>3, <1>4, <1>5 DEF EvInv

\* The same with the memory of a fold, or none.
LEMMA FoldKeeps ==
  ASSUME EvInv, NEW t \in Task, NEW pc \in Pcs \ {"commit"}, NEW j \in Job,
         Folding(t), FoldStep(t, pc, j), UNCHANGED <<profile, cursor>>,
         Alone => MemoryOf([j EXCEPT !.pc = pc], ledger, profile, cursor)
  PROVE  EvInv'
<1> DEFINE k == [j EXCEPT !.pc = pc]
<1>1. k \in Job /\ k.pc = pc
      BY Moved
<1>2. /\ job' = [job EXCEPT ![t] = k]
      /\ UNCHANGED <<ledger, at, begun, overlapped>>
      BY DEF FoldStep
<1>3. at' \in [Task -> Process \cup {NoP}] /\ begun' \in Nat
      BY <1>2 DEF EvInv, EvTypeOK
<1>4. Alone => MemoryOf(k, ledger, profile, cursor)
      OBVIOUS
<1> HIDE DEF k
<1> QED
    BY <1>1, <1>2, <1>3, <1>4, MemoryStep

LEMMA ReadCursorKeeps ==
  ASSUME EvInv, NEW t \in Task, ReadCursor(t)
  PROVE  EvInv'
<1> DEFINE j == [job[t] EXCEPT !.lo = cursor]
<1>1. job[t] \in Job /\ cursor \in Nat
      BY DEF EvInv, EvTypeOK
<1>2. j \in Job /\ j.lo = cursor
      BY <1>1 DEF Job
<1>3. Folding(t) /\ FoldStep(t, "page", j) /\ UNCHANGED <<profile, cursor>>
      BY DEF ReadCursor, Folding, FoldPcs
<1>4. "page" \in Pcs \ {"commit"}
      BY DEF Pcs, FoldPcs
<1> HIDE DEF j
<1>5. MemoryOf([j EXCEPT !.pc = "page"], ledger, profile, cursor)
      BY <1>2, <1>4, Moved DEF MemoryOf
<1> QED
    BY <1>2, <1>3, <1>4, <1>5, FoldKeeps

LEMMA ReadPageKeeps ==
  ASSUME EvInv, NEW t \in Task, ReadPage(t)
  PROVE  EvInv'
<1>1. /\ job[t] \in Job /\ cursor \in Nat /\ ledger \in Seq(Row) /\ Numbered
      /\ Page \in Nat /\ Len(ledger) \in Nat /\ Highest = Len(ledger)
      BY EvidenceAssumption, LedgerNumbers DEF EvInv, EvTypeOK
<1>2. Folding(t) /\ UNCHANGED <<profile, cursor>>
      BY DEF ReadPage, Folding, FoldPcs
<1>3. CASE job[t].lo < Highest
  <2> DEFINE j == [job[t] EXCEPT !.hi = Smaller(Highest, job[t].lo + Page)]
  <2>1. job[t].lo \in Nat
        BY <1>1 DEF Job
  <2>2. /\ Smaller(Highest, job[t].lo + Page) \in Nat
        /\ Smaller(Highest, job[t].lo + Page) <= Len(ledger)
        BY <1>1, <2>1 DEF Smaller
  <2>3. j \in Job /\ j.hi <= Len(ledger) /\ j.lo = job[t].lo
        BY <1>1, <2>2 DEF Job
  <2>4. FoldStep(t, "seen", j)
        BY <1>3 DEF ReadPage
  <2>5. Alone => job[t].lo = cursor
        BY DEF Alone, MemoryOf, FoldPcs, ReadPage
  <2>6. "seen" \in Pcs \ {"commit"}
        BY DEF Pcs, FoldPcs
  <2> HIDE DEF j
  <2>7. Alone => MemoryOf([j EXCEPT !.pc = "seen"], ledger, profile, cursor)
        BY <2>3, <2>5, <2>6, Moved DEF MemoryOf
  <2> QED
      BY <1>2, <2>3, <2>4, <2>6, <2>7, FoldKeeps
<1>4. CASE ~(job[t].lo < Highest)
  <2>1. FoldStep(t, "folded", NoJob)
        BY <1>4 DEF ReadPage
  <2>2. "folded" \in Pcs \ {"commit"} /\ "folded" \notin FoldPcs
        BY DEF Pcs, FoldPcs, EndPcs
  <2>3. MemoryOf([NoJob EXCEPT !.pc = "folded"], ledger, profile, cursor)
        BY <2>2, NoJobTyped, Moved, Forgotten
  <2> QED
      BY <1>2, <2>1, <2>2, <2>3, NoJobTyped, FoldKeeps
<1> QED
    BY <1>3, <1>4

LEMMA ReadProfileKeeps ==
  ASSUME EvInv, NEW t \in Task, ReadProfile(t)
  PROVE  EvInv'
<1> DEFINE j == [job[t] EXCEPT !.seen = profile]
<1>1. /\ job[t] \in Job /\ cursor \in Nat /\ ledger \in Seq(Row) /\ Numbered
      /\ profile \in [Point -> ProfileRow]
      BY DEF EvInv, EvTypeOK
<1>2. j \in Job /\ j.seen = profile /\ j.lo = job[t].lo /\ j.hi = job[t].hi
      BY <1>1 DEF Job
<1>3. /\ Folding(t) /\ UNCHANGED <<profile, cursor>>
      /\ FoldStep(t, IF Changed(j) = {} THEN "position" ELSE "rows", j)
      BY DEF ReadProfile, Folding, FoldPcs
<1>4. Alone => j.lo = cursor /\ j.hi <= Len(ledger)
      BY <1>2 DEF Alone, MemoryOf, FoldPcs, ReadProfile
<1>5. {"position", "rows"} \subseteq Pcs \ {"commit"}
      BY DEF Pcs, FoldPcs
<1> HIDE DEF j
<1>6. CASE Changed(j) = {}
  <2>1. ASSUME Alone, NEW p \in Point, NEW s \in 1..j.hi, OwnIn(ledger, p, s)
        PROVE  s <= profile[p].mark
    <3>1. s \notin Fresh(j, p)
          BY <1>6 DEF Changed
    <3>2. ~(s \in j.lo + 1 .. j.hi /\ s > profile[p].mark)
          BY <1>1, <1>2, <2>1, <3>1, FreshRows
    <3>3. /\ profile[p].mark \in Nat /\ s \in Nat /\ j.lo \in Nat /\ j.hi \in Nat
          BY <1>1, <1>2 DEF ProfileRow, Job
    <3>4. s \in 1..cursor => s <= profile[p].mark
          BY <2>1 DEF Alone, LearntOf
    <3> QED
        BY <1>1, <1>4, <2>1, <3>2, <3>3, <3>4
  <2>2. Alone => MemoryOf([j EXCEPT !.pc = "position"], ledger, profile, cursor)
        BY <1>2, <1>4, <1>5, <2>1, Moved DEF MemoryOf
  <2> QED
      BY <1>2, <1>3, <1>5, <1>6, <2>2, FoldKeeps
<1>7. CASE Changed(j) # {}
  <2>1. Alone => MemoryOf([j EXCEPT !.pc = "rows"], ledger, profile, cursor)
        BY <1>2, <1>4, <1>5, Moved DEF MemoryOf
  <2> QED
      BY <1>2, <1>3, <1>5, <1>7, <2>1, FoldKeeps
<1> QED
    BY <1>6, <1>7

LEMMA ReadRowsKeeps ==
  ASSUME EvInv, NEW t \in Task, ReadRows(t)
  PROVE  EvInv'
<1> DEFINE j == [job[t] EXCEPT !.rows = profile]
<1>1. job[t] \in Job /\ profile \in [Point -> ProfileRow]
      BY DEF EvInv, EvTypeOK
<1>2. /\ j \in Job /\ j.rows = profile /\ j.seen = job[t].seen
      /\ j.lo = job[t].lo /\ j.hi = job[t].hi
      BY <1>1 DEF Job
<1>3. Folding(t) /\ FoldStep(t, "write", j) /\ UNCHANGED <<profile, cursor>>
      BY DEF ReadRows, Folding, FoldPcs
<1>4. Alone => j.lo = cursor /\ j.hi <= Len(ledger) /\ j.seen = profile
      BY <1>2 DEF Alone, MemoryOf, FoldPcs, ReadRows
<1>5. "write" \in Pcs \ {"commit"}
      BY DEF Pcs, FoldPcs
<1> HIDE DEF j
<1>6. Alone => MemoryOf([j EXCEPT !.pc = "write"], ledger, profile, cursor)
      BY <1>2, <1>4, <1>5, Moved DEF MemoryOf
<1> QED
    BY <1>2, <1>3, <1>5, <1>6, FoldKeeps

LEMMA ReadPositionKeeps ==
  ASSUME EvInv, NEW t \in Task, ReadPosition(t)
  PROVE  EvInv'
<1> DEFINE j == [job[t] EXCEPT !.base = cursor]
<1>1. job[t] \in Job /\ cursor \in Nat
      BY DEF EvInv, EvTypeOK
<1>2. j \in Job /\ j.base = cursor /\ j.lo = job[t].lo /\ j.hi = job[t].hi
      BY <1>1 DEF Job
<1>3. Folding(t) /\ FoldStep(t, "advance", j) /\ UNCHANGED <<profile, cursor>>
      BY DEF ReadPosition, Folding, FoldPcs
<1>4. Alone => /\ j.lo = cursor /\ j.hi <= Len(ledger)
               /\ \A p \in Point : \A s \in 1..j.hi : OwnIn(ledger, p, s) => s <= profile[p].mark
      BY <1>2 DEF Alone, MemoryOf, FoldPcs, ReadPosition
<1>5. "advance" \in Pcs \ {"commit"}
      BY DEF Pcs, FoldPcs
<1> HIDE DEF j
<1>6. Alone => MemoryOf([j EXCEPT !.pc = "advance"], ledger, profile, cursor)
      BY <1>2, <1>4, <1>5, Moved DEF MemoryOf
<1> QED
    BY <1>2, <1>3, <1>5, <1>6, FoldKeeps

LEMMA FailureKeeps ==
  ASSUME EvInv, NEW t \in Task, WriteFails(t) \/ AdvanceFails(t)
  PROVE  EvInv'
<1>1. Folding(t) /\ FoldStep(t, "failed", NoJob) /\ UNCHANGED <<profile, cursor>>
      BY DEF WriteFails, AdvanceFails, Folding, FoldPcs
<1>2. "failed" \in Pcs \ {"commit"} /\ "failed" \notin FoldPcs
      BY DEF Pcs, FoldPcs, EndPcs
<1>3. MemoryOf([NoJob EXCEPT !.pc = "failed"], ledger, profile, cursor)
      BY <1>2, NoJobTyped, Moved, Forgotten
<1> QED
    BY <1>1, <1>2, <1>3, NoJobTyped, FoldKeeps

-----------------------------------------------------------------------------
(* Appends *)

LEMMA BeginAppendKeeps ==
  ASSUME EvInv, NEW t \in Task, NEW batch \in SUBSET Obs, BeginAppend(t, batch)
  PROVE  EvInv'
<1> DEFINE k == [NoJob EXCEPT !.pc = "read", !.batch = batch]
<1>1. k \in Job /\ k.pc = "read"
      BY NoJobTyped DEF Job
<1>2. "read" \notin FoldPcs
      BY DEF FoldPcs
<1>3. job' = [job EXCEPT ![t] = k] /\ UNCHANGED <<ledger, profile, cursor, overlapped>>
      BY DEF BeginAppend
<1>4. /\ at' \in [Task -> Process \cup {NoP}] /\ begun' \in Nat
      BY DEF BeginAppend, EvInv, EvTypeOK
<1> HIDE DEF k
<1>5. MemoryOf(k, ledger, profile, cursor)
      BY <1>1, <1>2, Forgotten
<1> QED
    BY <1>1, <1>2, <1>3, <1>4, <1>5, MemoryStep

LEMMA AppendReadKeeps ==
  ASSUME EvInv, NEW t \in Task, AppendRead(t)
  PROVE  EvInv'
<1> DEFINE k == [job[t] EXCEPT !.pc = "commit", !.base = Highest,
                               !.batch = {o \in job[t].batch : ~Known(t, o)}]
<1>1. job[t] \in Job /\ Highest \in Nat /\ Highest <= Len(ledger)
      BY LedgerNumbers DEF EvInv, EvTypeOK
<1>2. {o \in job[t].batch : ~Known(t, o)} \subseteq Obs
      BY <1>1 DEF Job
<1>3. k \in Job /\ k.pc = "commit" /\ k.base <= Len(ledger)
      BY <1>1, <1>2 DEF Job
<1>4. "commit" \notin FoldPcs
      BY DEF FoldPcs
<1>5. job' = [job EXCEPT ![t] = k] /\ UNCHANGED <<ledger, profile, cursor, overlapped>>
      BY DEF AppendRead
<1>6. /\ at' \in [Task -> Process \cup {NoP}] /\ begun' \in Nat
      BY DEF AppendRead, EvInv, EvTypeOK
<1> HIDE DEF k
<1>7. MemoryOf(k, ledger, profile, cursor)
      BY <1>3, <1>4, Forgotten
<1> QED
    BY <1>3, <1>4, <1>5, <1>6, <1>7, MemoryStep

LEMMA AppendCollidesKeeps ==
  ASSUME EvInv, NEW t \in Task, AppendCollides(t)
  PROVE  EvInv'
<1> DEFINE pc == IF job[t].tries + 1 < MaxTries THEN "read" ELSE "refused"
           k  == [job[t] EXCEPT !.tries = job[t].tries + 1, !.pc = pc]
<1>1. pc \in Pcs /\ pc \notin FoldPcs /\ pc # "commit"
      BY DEF Pcs, FoldPcs, EndPcs
<1>2. job[t] \in Job /\ job[t].tries + 1 \in Nat
      BY DEF EvInv, EvTypeOK, Job
<1> HIDE DEF pc
<1>3. k \in Job /\ k.pc = pc
      BY <1>1, <1>2 DEF Job, Pcs
<1>4. job' = [job EXCEPT ![t] = k] /\ UNCHANGED <<ledger, profile, cursor, overlapped>>
      BY DEF AppendCollides, pc
<1>5. /\ at' \in [Task -> Process \cup {NoP}] /\ begun' \in Nat
      BY DEF AppendCollides, EvInv, EvTypeOK
<1> HIDE DEF k
<1>6. MemoryOf(k, ledger, profile, cursor)
      BY <1>1, <1>3, Forgotten
<1> QED
    BY <1>1, <1>3, <1>4, <1>5, <1>6, MemoryStep

\* More rows at the end change nothing of what has been learnt or remembered.
LEMMA MoreRows ==
  ASSUME NEW L \in Seq(Row), NEW R \in Seq(Row), NEW P \in [Point -> ProfileRow],
         NEW c \in Nat
  PROVE  /\ LearntOf(L, P, c) => LearntOf(L \o R, P, c)
         /\ \A j \in Job : MemoryOf(j, L, P, c) => MemoryOf(j, L \o R, P, c)
<1>1. /\ Len(L) \in Nat /\ Len(R) \in Nat /\ Len(L \o R) = Len(L) + Len(R)
      /\ \A s \in 1..Len(L) : (L \o R)[s] = L[s]
      OBVIOUS
<1>2. ASSUME NEW p \in Point, NEW s \in Nat, s <= Len(L)
      PROVE  OwnIn(L \o R, p, s) <=> OwnIn(L, p, s)
      BY <1>1, <1>2 DEF OwnIn
<1>3. ASSUME NEW p \in Point
      PROVE  P[p].mark \in Nat
      BY DEF ProfileRow
<1>4. ASSUME LearntOf(L, P, c)
      PROVE  LearntOf(L \o R, P, c)
  <2>1. c <= Len(L \o R)
        BY <1>1, <1>4 DEF LearntOf
  <2>2. ASSUME NEW p \in Point
        PROVE  /\ P[p].mark <= Len(L \o R)
               /\ \A s \in 1..c : OwnIn(L \o R, p, s) => s <= P[p].mark
    <3>1. c <= Len(L)
          BY <1>4 DEF LearntOf
    <3>2. \A s \in 1..c : s \in Nat /\ s <= Len(L)
          BY <1>1, <3>1
    <3>3. \A s \in 1..c : OwnIn(L, p, s) => s <= P[p].mark
          BY <1>4 DEF LearntOf
    <3>4. P[p].mark <= Len(L)
          BY <1>4 DEF LearntOf
    <3> QED
        BY <1>1, <1>2, <1>3, <3>2, <3>3, <3>4
  <2>3. ASSUME NEW p \in Point, NEW s \in Seqs
        PROVE  P[p].times[s] = IF OwnIn(L \o R, p, s) /\ s <= P[p].mark THEN 1 ELSE 0
    <3>1. P[p].times[s] = IF OwnIn(L, p, s) /\ s <= P[p].mark THEN 1 ELSE 0
          BY <1>4 DEF LearntOf
    <3>2. s \in Nat /\ P[p].mark <= Len(L)
          BY <1>4 DEF LearntOf, Seqs
    <3>3. s <= P[p].mark => s <= Len(L)
          BY <1>1, <1>3, <3>2
    <3>4. (OwnIn(L \o R, p, s) /\ s <= P[p].mark) <=> (OwnIn(L, p, s) /\ s <= P[p].mark)
          BY <1>2, <3>2, <3>3
    <3> QED
        BY <3>1, <3>4
  <2> QED
      BY <2>1, <2>2, <2>3 DEF LearntOf
<1>5. ASSUME NEW j \in Job, MemoryOf(j, L, P, c)
      PROVE  MemoryOf(j, L \o R, P, c)
  <2>1. j.hi \in Nat
        BY DEF Job
  <2>2. j.hi <= Len(L) => j.hi <= Len(L \o R)
        BY <1>1, <2>1
  <2>3. ASSUME NEW p \in Point, NEW s \in 1..j.hi, j.hi <= Len(L), OwnIn(L \o R, p, s)
        PROVE  OwnIn(L, p, s)
        BY <1>1, <1>2, <2>1, <2>3
  <2> QED
      BY <1>5, <2>2, <2>3 DEF MemoryOf
<1> QED
    BY <1>4, <1>5

LEMMA AppendCommitKeeps ==
  ASSUME EvInv, NEW t \in Task, AppendCommit(t)
  PROVE  EvInv'
<1> DEFINE k == [NoJob EXCEPT !.pc = "stored"]
<1>1. PICK f \in Listings(job[t].batch) :
        ~Taken(NewRows(t, f)) /\ ledger' = ledger \o NewRows(t, f)
      BY DEF AppendCommit
<1>2. /\ job[t] \in Job /\ ledger \in Seq(Row) /\ Numbered /\ cursor \in Nat
      /\ profile \in [Point -> ProfileRow] /\ job \in [Task -> Job]
      /\ job[t].base \in Nat /\ job[t].base <= Len(ledger) /\ Len(ledger) \in Nat
      BY DEF EvInv, EvTypeOK, Based, AppendCommit, Job
<1>3. PICK n \in Nat : f \in [1..n -> Obs]
      BY <1>2 DEF Listings, Job
<1> DEFINE R == NewRows(t, f)
<1>4. R = [i \in 1..n |-> [seq |-> job[t].base + i, task |-> t,
                           point |-> f[i].point, n |-> f[i].n]]
      BY <1>3 DEF NewRows
<1>5. \A i \in 1..n : f[i].point \in Point /\ f[i].n \in 1..MaxObs
      BY <1>3 DEF Obs
<1>6. /\ R \in [1..n -> Row]
      /\ \A i \in 1..n : R[i].seq = job[t].base + i
      BY <1>2, <1>4, <1>5 DEF Row
<1>7. R \in Seq(Row) /\ Len(R) = n /\ DOMAIN R = 1..n
      BY <1>3, <1>6
<1>8. n = 0 \/ job[t].base = Len(ledger)
  <2> SUFFICES ASSUME n # 0, job[t].base < Len(ledger) PROVE FALSE
      BY <1>2
  <2>1. 1 \in 1..n /\ job[t].base + 1 \in 1..Len(ledger)
        BY <1>2, <1>3
  <2>2. R[1].seq \in Used
        BY <1>2, <1>6, <2>1, LedgerNumbers
  <2> QED
      BY <1>1, <1>7, <2>1, <2>2 DEF Taken
<1>9. k \in Job /\ k.pc = "stored" /\ "stored" \notin FoldPcs
      BY NoJobTyped, Moved DEF Pcs, EndPcs, FoldPcs
<1> HIDE DEF k, R
<1>10. /\ job' = [job EXCEPT ![t] = k]
       /\ ledger' = ledger \o R
       /\ UNCHANGED <<profile, cursor, at, begun, overlapped>>
       BY <1>1 DEF AppendCommit, k, R
<1>11. \A v \in Task : job'[v] = IF v = t THEN k ELSE job[v]
       BY <1>2, <1>10
<1>12. EvTypeOK'
  <2>1. ledger' \in Seq(Row)
        BY <1>2, <1>7, <1>10
  <2>2. job' \in [Task -> Job]
        BY <1>2, <1>9, <1>10
  <2> QED
      BY <1>10, <2>1, <2>2 DEF EvInv, EvTypeOK
<1>13. Len(ledger') = Len(ledger) + n
  <2>1. Len(ledger \o R) = Len(ledger) + Len(R)
        BY <1>2, <1>7
  <2> QED
      BY <1>7, <1>10, <2>1
<1>14. Numbered'
  <2> SUFFICES ASSUME NEW i \in 1..Len(ledger) + n
               PROVE  (ledger \o R)[i].seq = i
      BY <1>2, <1>7, <1>10, <1>13 DEF Numbered
  <2>1. CASE i <= Len(ledger)
    <3>1. (ledger \o R)[i] = ledger[i]
          BY <1>2, <1>3, <1>7, <2>1
    <3>2. ledger[i].seq = i
          BY <1>2, <1>3, <2>1 DEF Numbered
    <3> QED
        BY <3>1, <3>2
  <2>2. CASE i > Len(ledger)
    <3>1. i - Len(ledger) \in 1..n /\ job[t].base = Len(ledger)
          BY <1>2, <1>3, <1>8, <2>2
    <3>2. (ledger \o R)[i] = R[i - Len(ledger)]
          BY <1>2, <1>3, <1>7, <2>2, <3>1
    <3>3. R[i - Len(ledger)].seq = Len(ledger) + (i - Len(ledger))
          BY <1>6, <3>1
    <3> QED
        BY <1>2, <1>3, <3>2, <3>3
  <2>3. i \in Nat /\ Len(ledger) \in Nat
        BY <1>2, <1>3
  <2>4. i <= Len(ledger) \/ i > Len(ledger)
        BY <2>3
  <2> QED
      BY <2>1, <2>2, <2>4
<1>15. Based'
  <2>1. ASSUME NEW v \in Task, job'[v].pc = "commit"
        PROVE  job'[v].base <= Len(ledger')
    <3>1. job'[v] = job[v] /\ job[v].pc = "commit"
          BY <1>9, <1>11, <2>1
    <3>2. job[v].base <= Len(ledger) /\ job[v].base \in Nat
          BY <1>2, <3>1 DEF EvInv, Based, Job
    <3> QED
        BY <1>2, <1>3, <1>13, <3>1, <3>2
  <2> QED
      BY <2>1 DEF Based
<1>16. ASSUME Alone
       PROVE  Alone'
  <2>1. OneFold'
        BY <1>9, <1>11, <1>16 DEF Alone, OneFold, Folding
  <2>2. LearntOf(ledger', profile', cursor')
        BY <1>2, <1>7, <1>10, <1>16, MoreRows DEF Alone
  <2>3. ASSUME NEW v \in Task
        PROVE  MemoryOf(job'[v], ledger', profile', cursor')
    <3>1. CASE v = t
          BY <1>9, <1>11, <3>1, Forgotten
    <3>2. CASE v # t
      <4>1. job'[v] = job[v] /\ job[v] \in Job /\ MemoryOf(job[v], ledger, profile, cursor)
            BY <1>2, <1>11, <1>16, <3>2 DEF Alone
      <4> QED
          BY <1>2, <1>7, <1>10, <4>1, MoreRows
    <3> QED
        BY <3>1, <3>2
  <2> QED
      BY <2>1, <2>2, <2>3 DEF Alone
<1> QED
    BY <1>10, <1>12, <1>14, <1>15, <1>16 DEF EvInv

-----------------------------------------------------------------------------
(* Executions *)

LEMMA BeginFoldKeeps ==
  ASSUME EvInv, NEW t \in Task, BeginFold(t)
  PROVE  EvInv'
<1> DEFINE k == [NoJob EXCEPT !.pc = "cursor"]
<1>1. k \in Job /\ k.pc = "cursor"
      BY NoJobTyped, Moved DEF Pcs, FoldPcs
<1> HIDE DEF k
<1>2. /\ job' = [job EXCEPT ![t] = k] /\ UNCHANGED <<ledger, profile, cursor, at, begun>>
      /\ overlapped' = (overlapped \/ \E v \in Task : Folding(v))
      BY DEF BeginFold, k
<1>3. \A v \in Task : job'[v] = IF v = t THEN k ELSE job[v]
      BY <1>2 DEF EvInv, EvTypeOK
<1>4. EvTypeOK'
  <2>1. overlapped' \in BOOLEAN
        BY <1>2, Zenon
  <2>2. job' \in [Task -> Job]
        BY <1>1, <1>2 DEF EvInv, EvTypeOK
  <2> QED
      BY <1>2, <2>1, <2>2 DEF EvInv, EvTypeOK
<1>5. Numbered' /\ Based'
      BY <1>1, <1>2, <1>3 DEF EvInv, Numbered, Based
<1>6. ASSUME ~overlapped'
      PROVE  Alone'
  <2>1. Alone /\ \A v \in Task : ~Folding(v)
        BY <1>2, <1>6 DEF EvInv
  <2>2. OneFold'
        BY <1>3, <2>1 DEF OneFold, Folding
  <2>3. \A v \in Task : MemoryOf(job'[v], ledger, profile, cursor)
        BY <1>1, <1>3, <2>1 DEF Alone, MemoryOf
  <2> QED
      BY <1>2, <2>1, <2>2, <2>3 DEF Alone
<1> QED
    BY <1>4, <1>5, <1>6 DEF EvInv

LEMMA ArriveKeeps ==
  ASSUME EvInv, NEW t \in Task, NEW p \in Process, Arrive(t, p)
  PROVE  EvInv'
<1>1. at' \in [Task -> Process \cup {NoP}]
      BY DEF Arrive, EvInv, EvTypeOK
<1>2. UNCHANGED <<ledger, profile, cursor, job, begun, overlapped>>
      BY DEF Arrive
<1>3. EvTypeOK' /\ Numbered' /\ Based'
      BY <1>1, <1>2 DEF EvInv, EvTypeOK, Numbered, Based
<1>4. Alone => Alone'
      BY <1>2 DEF Alone, OneFold, Folding
<1> QED
    BY <1>2, <1>3, <1>4 DEF EvInv

LEMMA ReleaseKeeps ==
  ASSUME EvInv, NEW t \in Task, Release(t) \/ Leave(t)
  PROVE  EvInv'
<1>1. job' = [job EXCEPT ![t] = NoJob] /\ UNCHANGED <<ledger, profile, cursor, begun, overlapped>>
      BY DEF Release, Leave
<1>2. /\ at' \in [Task -> Process \cup {NoP}] /\ begun' \in Nat
      BY DEF Release, Leave, EvInv, EvTypeOK
<1>3. "idle" \notin FoldPcs
      BY DEF FoldPcs
<1>4. MemoryOf(NoJob, ledger, profile, cursor)
      BY <1>3, NoJobTyped, Forgotten
<1> QED
    BY <1>1, <1>2, <1>3, <1>4, NoJobTyped, MemoryStep

LEMMA DiesKeeps ==
  ASSUME EvInv, NEW p \in Process, Dies(p)
  PROVE  EvInv'
<1>1. /\ at' = [t \in Task |-> IF at[t] = p THEN NoP ELSE at[t]]
      /\ job' = [t \in Task |-> IF at[t] = p THEN NoJob ELSE job[t]]
      /\ UNCHANGED <<ledger, profile, cursor, begun, overlapped>>
      BY DEF Dies
<1>2. EvTypeOK'
  <2>1. at' \in [Task -> Process \cup {NoP}]
        BY <1>1 DEF EvInv, EvTypeOK
  <2>2. job' \in [Task -> Job]
        BY <1>1, NoJobTyped DEF EvInv, EvTypeOK
  <2> QED
      BY <1>1, <2>1, <2>2 DEF EvInv, EvTypeOK
<1>3. \A t \in Task : job'[t] \in {NoJob, job[t]}
      BY <1>1
<1>4. "idle" \notin FoldPcs
      BY DEF FoldPcs
<1>5. Numbered' /\ Based'
      BY <1>1, <1>3, NoJobTyped DEF EvInv, Numbered, Based
<1>6. ASSUME Alone
      PROVE  Alone'
  <2>1. \A t \in Task : Folding(t)' => Folding(t)
        BY <1>3, <1>4, NoJobTyped DEF Folding
  <2>2. OneFold'
        BY <1>6, <2>1 DEF Alone, OneFold
  <2>3. \A t \in Task : MemoryOf(job'[t], ledger, profile, cursor)
        BY <1>3, <1>4, <1>6, NoJobTyped, Forgotten DEF Alone
  <2> QED
      BY <1>1, <1>6, <2>2, <2>3 DEF Alone
<1> QED
    BY <1>1, <1>2, <1>5, <1>6 DEF EvInv

-----------------------------------------------------------------------------
(* The two writes of a fold *)

\* The frame of both: t is the only fold, it wrote and moves on.
LEMMA WriteStep ==
  ASSUME EvInv, NEW t \in Task, NEW k \in Job, Folding(t), k.pc # "commit",
         job' = [job EXCEPT ![t] = k],
         UNCHANGED <<ledger, at, begun, overlapped>>,
         profile' \in [Point -> ProfileRow], cursor' \in Nat,
         Alone => /\ LearntOf(ledger, profile', cursor')
                  /\ MemoryOf(k, ledger, profile', cursor')
  PROVE  EvInv'
<1>1. \A v \in Task : job'[v] = IF v = t THEN k ELSE job[v]
      BY DEF EvInv, EvTypeOK
<1>2. EvTypeOK'
      BY DEF EvInv, EvTypeOK
<1>3. Numbered' /\ Based'
      BY <1>1 DEF EvInv, Numbered, Based
<1>4. ASSUME Alone
      PROVE  Alone'
  <2>1. \A v \in Task : v # t => ~Folding(v)
        BY <1>4 DEF Alone, OneFold
  <2>2. OneFold'
        BY <1>1, <2>1 DEF OneFold, Folding
  <2>3. ASSUME NEW v \in Task
        PROVE  MemoryOf(job'[v], ledger, profile', cursor')
    <3>1. CASE v = t
          BY <1>1, <1>4, <3>1
    <3>2. CASE v # t
      <4>1. job'[v] = job[v] /\ job[v].pc \notin FoldPcs
            BY <1>1, <2>1, <3>2 DEF Folding
      <4> QED
          BY <4>1, Forgotten
    <3> QED
        BY <3>1, <3>2
  <2> QED
      BY <1>4, <2>2, <2>3 DEF Alone
<1> QED
    BY <1>2, <1>3, <1>4 DEF EvInv

LEMMA AdvanceKeeps ==
  ASSUME EvInv, NEW t \in Task, Advance(t)
  PROVE  EvInv'
<1> DEFINE k == [NoJob EXCEPT !.pc = "folded"]
<1>1. k \in Job /\ k.pc = "folded" /\ "folded" \notin FoldPcs
      BY NoJobTyped, Moved DEF Pcs, EndPcs, FoldPcs
<1>2. /\ job' = [job EXCEPT ![t] = k]
      /\ UNCHANGED <<ledger, at, begun, overlapped, profile>>
      /\ cursor' = IF job[t].base < job[t].hi THEN job[t].hi ELSE cursor
      /\ Folding(t) /\ job[t].pc = "advance"
      BY DEF Advance, FoldStep, Folding, FoldPcs
<1>3. /\ job[t].hi \in Nat /\ job[t].base \in Nat /\ cursor \in Nat
      /\ profile \in [Point -> ProfileRow]
      BY DEF EvInv, EvTypeOK, Job
<1> HIDE DEF k
<1>4. cursor' \in Nat
      BY <1>2, <1>3
<1>5. ASSUME Alone
      PROVE  LearntOf(ledger, profile, cursor')
  <2>1. /\ job[t].hi <= Len(ledger)
        /\ \A p \in Point : \A s \in 1..job[t].hi : OwnIn(ledger, p, s) => s <= profile[p].mark
        BY <1>2, <1>5 DEF Alone, MemoryOf
  <2>2. LearntOf(ledger, profile, cursor)
        BY <1>5 DEF Alone
  <2>3. cursor' = job[t].hi \/ cursor' = cursor
        BY <1>2
  <2>4. cursor' <= Len(ledger)
        BY <2>1, <2>2, <2>3 DEF LearntOf
  <2>5. \A p \in Point : \A s \in 1..cursor' : OwnIn(ledger, p, s) => s <= profile[p].mark
        BY <2>1, <2>2, <2>3 DEF LearntOf
  <2> QED
      BY <2>2, <2>4, <2>5 DEF LearntOf
<1>6. MemoryOf(k, ledger, profile', cursor')
      BY <1>1, Forgotten
<1> QED
    BY <1>1, <1>2, <1>3, <1>4, <1>5, <1>6, WriteStep

\* What WriteRows makes of a profile row that it writes.
LEMMA WrittenRow ==
  ASSUME EvTypeOK, Numbered, NEW j \in Job, NEW p \in Point, Fresh(j, p) # {}
  PROVE  /\ Written(j, p) \in ProfileRow
         /\ j.seen = profile /\ j.rows = profile =>
              /\ Written(j, p).mark = Newest(j, p)
              /\ \A s \in Seqs : Written(j, p).times[s] =
                   profile[p].times[s] + IF s \in Fresh(j, p) THEN 1 ELSE 0
<1>1. /\ ledger \in Seq(Row) /\ profile[p] \in ProfileRow
      /\ j.seen[p] \in ProfileRow /\ j.rows[p] \in ProfileRow
      BY DEF EvTypeOK, Job
<1>2. Newest(j, p) \in Fresh(j, p) /\ Newest(j, p) \in Nat
      BY <1>1, NewestRow, FreshRows
<1>3. /\ Times(j, p) \in [Seqs -> Nat]
      /\ \A s \in Seqs : Times(j, p)[s] =
           j.seen[p].times[s] + IF s \in Fresh(j, p) THEN 1 ELSE 0
      BY <1>1 DEF Times, ProfileRow
<1> DEFINE m == IF j.rows[p].mark < Newest(j, p) THEN Newest(j, p) ELSE profile[p].mark
           n == IF Times(j, p) = j.rows[p].times THEN profile[p].times ELSE Times(j, p)
<1>4. m \in Nat /\ n \in [Seqs -> Nat]
      BY <1>1, <1>2, <1>3 DEF ProfileRow
<1>5. Written(j, p) = [here |-> TRUE, mark |-> m, times |-> n]
      BY DEF Written
<1>6. ASSUME j.seen = profile, j.rows = profile
      PROVE  m = Newest(j, p) /\ n = Times(j, p)
  <2>1. Newest(j, p) > profile[p].mark
        BY <1>1, <1>2, <1>6, FreshRows
  <2>2. profile[p].mark \in Nat
        BY <1>1 DEF ProfileRow
  <2> QED
      BY <1>2, <1>6, <2>1, <2>2
<1> HIDE DEF m, n
<1>7. Written(j, p) \in ProfileRow
      BY <1>4, <1>5 DEF ProfileRow
<1>8. Written(j, p).mark = m /\ Written(j, p).times = n
      BY <1>5
<1> QED
    BY <1>3, <1>6, <1>7, <1>8

\* What WriteRows makes of the marks, for the only fold there is.
LEMMA RowsLearnt ==
  ASSUME EvInv, Alone, NEW t \in Task, WriteRows(t)
  PROVE  \A p \in Point :
           /\ profile'[p].mark <= Len(ledger)
           /\ profile[p].mark <= profile'[p].mark
           /\ \A s \in 1..job[t].hi : OwnIn(ledger, p, s) => s <= profile'[p].mark
           /\ \A s \in Seqs : profile'[p].times[s] =
                IF OwnIn(ledger, p, s) /\ s <= profile'[p].mark THEN 1 ELSE 0
<1> DEFINE j == job[t]
<1>1. /\ EvTypeOK /\ Numbered /\ ledger \in Seq(Row)
      /\ profile \in [Point -> ProfileRow] /\ cursor \in Nat
      /\ j \in Job /\ j.lo \in Nat /\ j.hi \in Nat /\ j.pc = "write"
      BY DEF EvInv, EvTypeOK, Job, WriteRows
<1>2. profile' = [p \in Point |-> IF p \in Changed(j) THEN Written(j, p) ELSE profile[p]]
      BY DEF WriteRows
<1> HIDE DEF j
<1>3. \A p \in Point : p \in Changed(j) <=> Fresh(j, p) # {}
      BY DEF Changed
<1>4. /\ j.lo = cursor /\ j.hi <= Len(ledger) /\ j.seen = profile /\ j.rows = profile
      BY <1>1 DEF Alone, MemoryOf, FoldPcs, j
<1>5. LearntOf(ledger, profile, cursor)
      BY DEF Alone
<1>6. ASSUME NEW p \in Point
      PROVE  /\ profile'[p].mark <= Len(ledger)
             /\ profile[p].mark <= profile'[p].mark
             /\ \A s \in 1..j.hi : OwnIn(ledger, p, s) => s <= profile'[p].mark
             /\ \A s \in Seqs : profile'[p].times[s] =
                  IF OwnIn(ledger, p, s) /\ s <= profile'[p].mark THEN 1 ELSE 0
  <2>1. /\ profile[p].mark \in Nat /\ profile[p].mark <= Len(ledger)
        /\ \A s \in 1..cursor : OwnIn(ledger, p, s) => s <= profile[p].mark
        /\ \A s \in Seqs : profile[p].times[s] =
             IF OwnIn(ledger, p, s) /\ s <= profile[p].mark THEN 1 ELSE 0
        BY <1>1, <1>5 DEF LearntOf, ProfileRow
  <2>2. \A s \in Nat : s \in Fresh(j, p) <=>
          /\ s \in cursor + 1 .. j.hi
          /\ s > profile[p].mark
          /\ OwnIn(ledger, p, s)
        BY <1>1, <1>4, FreshRows
  <2>3. \A s \in Nat : OwnIn(ledger, p, s) => s >= 1
        BY DEF OwnIn
  <2>4. \A s \in 1..j.hi : OwnIn(ledger, p, s) /\ s > profile[p].mark => s \in Fresh(j, p)
        BY <1>1, <2>1, <2>2
  <2>5. CASE Fresh(j, p) = {}
    <3>1. profile'[p] = profile[p]
          BY <1>2, <1>3, <2>5
    <3>2. \A s \in 1..j.hi : OwnIn(ledger, p, s) => s <= profile[p].mark
          BY <1>1, <2>1, <2>4, <2>5
    <3> QED
        BY <2>1, <3>1, <3>2
  <2>6. CASE Fresh(j, p) # {}
    <3> DEFINE n == Newest(j, p)
    <3>1. /\ profile'[p].mark = n
          /\ \A s \in Seqs : profile'[p].times[s] =
               profile[p].times[s] + IF s \in Fresh(j, p) THEN 1 ELSE 0
          BY <1>1, <1>2, <1>3, <1>4, <2>6, WrittenRow
    <3>2. n \in Fresh(j, p) /\ \A s \in Fresh(j, p) : s <= n
          BY <1>1, <2>6, NewestRow
    <3> HIDE DEF n
    <3>3. n \in Nat /\ n <= j.hi /\ n > profile[p].mark /\ n <= Len(ledger)
          BY <1>1, <1>4, <2>2, <3>2, FreshRows
    <3>4. \A s \in 1..j.hi : OwnIn(ledger, p, s) => s <= n
          BY <1>1, <2>1, <2>4, <3>2, <3>3
    <3>5. ASSUME NEW s \in Seqs
          PROVE  profile'[p].times[s] = IF OwnIn(ledger, p, s) /\ s <= n THEN 1 ELSE 0
      <4>1. s \in Nat /\ 0 \in Nat
            BY DEF Seqs
      <4>2. CASE s \in Fresh(j, p)
            BY <2>1, <2>2, <3>1, <3>2, <3>3, <4>1, <4>2
      <4>3. CASE s \notin Fresh(j, p)
        <5>1. OwnIn(ledger, p, s) /\ s <= n => s <= profile[p].mark
              BY <1>1, <2>1, <2>3, <2>4, <3>3, <4>1, <4>3
        <5>2. s <= profile[p].mark => s <= n
              BY <2>1, <3>3, <4>1
        <5>3. profile'[p].times[s] = profile[p].times[s] + 0
              BY <3>1, <4>3
        <5>4. profile[p].times[s] = IF OwnIn(ledger, p, s) /\ s <= profile[p].mark THEN 1 ELSE 0
              BY <2>1
        <5> QED
            BY <5>1, <5>2, <5>3, <5>4
      <4> QED
          BY <4>2, <4>3
    <3> QED
        BY <2>1, <3>1, <3>3, <3>4, <3>5
  <2> QED
      BY <2>5, <2>6
<1> QED
    BY <1>6 DEF j

LEMMA WriteRowsKeeps ==
  ASSUME EvInv, NEW t \in Task, WriteRows(t)
  PROVE  EvInv'
<1> DEFINE j == job[t]
           k == [j EXCEPT !.pc = "position"]
<1>1. /\ EvTypeOK /\ Numbered /\ ledger \in Seq(Row)
      /\ profile \in [Point -> ProfileRow] /\ cursor \in Nat
      /\ j \in Job /\ j.lo \in Nat /\ j.hi \in Nat /\ j.pc = "write"
      BY DEF EvInv, EvTypeOK, Job, WriteRows
<1>2. /\ k \in Job /\ k.pc = "position" /\ k.lo = j.lo /\ k.hi = j.hi
      BY <1>1, Moved DEF Pcs, FoldPcs
<1>3. /\ job' = [job EXCEPT ![t] = k]
      /\ UNCHANGED <<ledger, at, begun, overlapped, cursor>>
      /\ profile' = [p \in Point |-> IF p \in Changed(j) THEN Written(j, p) ELSE profile[p]]
      /\ Folding(t)
      BY DEF WriteRows, FoldStep, Folding, FoldPcs
<1> HIDE DEF j, k
<1>4. \A p \in Point : p \in Changed(j) <=> Fresh(j, p) # {}
      BY DEF Changed
<1>5. profile' \in [Point -> ProfileRow]
      BY <1>1, <1>3, <1>4, WrittenRow
<1>6. ASSUME Alone
      PROVE  /\ LearntOf(ledger, profile', cursor)
             /\ MemoryOf(k, ledger, profile', cursor)
  <2>1. /\ j.lo = cursor /\ j.hi <= Len(ledger) /\ j.seen = profile /\ j.rows = profile
        BY <1>1, <1>6 DEF Alone, MemoryOf, FoldPcs, j
  <2>2. LearntOf(ledger, profile, cursor)
        BY <1>6 DEF Alone
  <2>3. \A p \in Point :
          /\ profile'[p].mark <= Len(ledger)
          /\ profile[p].mark <= profile'[p].mark
          /\ \A s \in 1..j.hi : OwnIn(ledger, p, s) => s <= profile'[p].mark
          /\ \A s \in Seqs : profile'[p].times[s] =
               IF OwnIn(ledger, p, s) /\ s <= profile'[p].mark THEN 1 ELSE 0
        BY <1>6, RowsLearnt DEF j
  <2>4. ASSUME NEW p \in Point, NEW s \in 1..cursor, OwnIn(ledger, p, s)
        PROVE  s <= profile'[p].mark
    <3>1. s <= profile[p].mark /\ profile[p].mark <= profile'[p].mark
          BY <2>2, <2>3, <2>4 DEF LearntOf
    <3>2. s \in Nat /\ profile[p].mark \in Nat /\ profile'[p].mark \in Nat
          BY <1>1, <1>5 DEF ProfileRow
    <3> QED
        BY <3>1, <3>2
  <2>5. LearntOf(ledger, profile', cursor)
        BY <2>2, <2>3, <2>4 DEF LearntOf
  <2>6. MemoryOf(k, ledger, profile', cursor)
        BY <1>2, <2>1, <2>3 DEF MemoryOf
  <2> QED
      BY <2>5, <2>6
<1> QED
    BY <1>1, <1>2, <1>3, <1>5, <1>6, WriteStep

-----------------------------------------------------------------------------
(* The specification *)

LEMMA InitEvInv == EvInit => EvInv
<1> SUFFICES ASSUME EvInit PROVE EvInv
    OBVIOUS
<1>1. /\ ledger = <<>> /\ profile = NoProfile /\ cursor = 0 /\ begun = 0
      /\ at = [t \in Task |-> NoP] /\ job = [t \in Task |-> NoJob] /\ overlapped = FALSE
      BY DEF EvInit
<1>2. NoProfile \in [Point -> ProfileRow]
      BY NoRowTyped DEF NoProfile
<1>3. EvTypeOK
  <2>1. ledger \in Seq(Row) /\ cursor \in Nat /\ begun \in Nat
        BY <1>1
  <2>2. at \in [Task -> Process \cup {NoP}] /\ job \in [Task -> Job]
        BY <1>1, NoJobTyped
  <2>3. overlapped \in BOOLEAN
        BY <1>1, Zenon
  <2> QED
      BY <1>1, <1>2, <2>1, <2>2, <2>3 DEF EvTypeOK
<1>4. Numbered /\ Based
      BY <1>1, NoJobTyped DEF Numbered, Based
<1>5. OneFold
      BY <1>1, NoJobTyped DEF OneFold, Folding, FoldPcs
<1>6. LearntOf(<<>>, NoProfile, 0)
  <2>1. \A p \in Point : NoProfile[p].mark = 0 /\ \A s \in Seqs : NoProfile[p].times[s] = 0
        BY DEF NoProfile, NoRow
  <2>2. \A p \in Point : \A s : ~OwnIn(<<>>, p, s)
        BY DEF OwnIn
  <2> QED
      BY <2>1, <2>2 DEF LearntOf
<1>7. \A t \in Task : MemoryOf(job[t], <<>>, NoProfile, 0)
      BY <1>1, NoJobTyped, Forgotten DEF FoldPcs
<1> QED
    BY <1>1, <1>3, <1>4, <1>5, <1>6, <1>7 DEF EvInv, Alone

LEMMA TaskKeeps ==
  ASSUME EvInv, NEW t \in Task, EvTask(t)
  PROVE  EvInv'
<1>1. CASE EvStep(t)
      BY <1>1, AppendReadKeeps, AppendCommitKeeps, AppendCollidesKeeps, ReadCursorKeeps,
         ReadPageKeeps, ReadProfileKeeps, ReadRowsKeeps, WriteRowsKeeps, FailureKeeps,
         ReadPositionKeeps, AdvanceKeeps DEF EvStep
<1>2. CASE BeginFold(t)
      BY <1>2, BeginFoldKeeps
<1>3. CASE Release(t) \/ Leave(t)
      BY <1>3, ReleaseKeeps
<1>4. CASE \E batch \in SUBSET Obs : BeginAppend(t, batch)
      BY <1>4, BeginAppendKeeps
<1>5. CASE \E p \in Process : Arrive(t, p)
      BY <1>5, ArriveKeeps
<1> QED
    BY <1>1, <1>2, <1>3, <1>4, <1>5 DEF EvTask

LEMMA EvStutter ==
  ASSUME EvInv, UNCHANGED evVars
  PROVE  EvInv'
<1>1. UNCHANGED <<ledger, profile, cursor, at, job, begun, overlapped>>
      BY DEF evVars
<1>2. EvTypeOK' /\ Numbered' /\ Based'
      BY <1>1 DEF EvInv, EvTypeOK, Numbered, Based
<1>3. Alone => Alone'
      BY <1>1 DEF Alone, OneFold, Folding
<1> QED
    BY <1>1, <1>2, <1>3 DEF EvInv

LEMMA NextKeeps ==
  ASSUME EvInv, [EvNext]_evVars
  PROVE  EvInv'
  BY TaskKeeps, DiesKeeps, EvStutter DEF EvNext

LEMMA InvHolds == EvSpec => []EvInv
<1>1. EvInv /\ [EvNext]_evVars => EvInv'
      BY NextKeeps
<1> QED
    BY InitEvInv, <1>1, PTL DEF EvSpec

\* The types of the ledger, the profile and the memory of the folds, for every
\* set of tasks, processes and points.
THEOREM EvidenceTypeCorrect == EvSpec => []EvTypeOK
<1>1. EvInv => EvTypeOK
      BY DEF EvInv
<1> QED
    BY <1>1, InvHolds, PTL

LEMMA InvFoldsOnce == EvInv => FoldedOnce
<1> SUFFICES ASSUME EvInv, ~overlapped, NEW p \in Point, NEW s \in Seqs
             PROVE  LET own == \E i \in DOMAIN ledger :
                                 ledger[i].seq = s /\ ledger[i].point = p
                    IN  /\ profile[p].times[s] <= IF own THEN 1 ELSE 0
                        /\ own /\ s <= cursor => profile[p].times[s] = 1
    BY DEF FoldedOnce
<1> DEFINE own == \E i \in DOMAIN ledger : ledger[i].seq = s /\ ledger[i].point = p
<1>1. own <=> OwnIn(ledger, p, s)
      BY OwnRow DEF EvInv, EvTypeOK
<1>2. /\ profile[p].times[s] = IF OwnIn(ledger, p, s) /\ s <= profile[p].mark THEN 1 ELSE 0
      /\ \A i \in 1..cursor : OwnIn(ledger, p, i) => i <= profile[p].mark
      BY DEF EvInv, Alone, LearntOf
<1>3. s \in Nat /\ s >= 1 /\ cursor \in Nat
      BY DEF EvInv, EvTypeOK, Seqs
<1> HIDE DEF own
<1>4. profile[p].times[s] <= IF own THEN 1 ELSE 0
      BY <1>1, <1>2
<1>5. own /\ s <= cursor => profile[p].times[s] = 1
      BY <1>1, <1>2, <1>3
<1> QED
    BY <1>4, <1>5 DEF own

\* No observation is lost or counted twice, whatever collides or dies, as long
\* as the folds of two processes do not overlap.
THEOREM FoldedOnceHolds == EvSpec => []FoldedOnce
  BY InvHolds, InvFoldsOnce, PTL

-----------------------------------------------------------------------------
(* What a task has observed and learnt *)

\* One page holds the ledger and no two processes fold at the same time.
Clean == ~overlapped /\ Len(ledger) <= Page

Owned(t, i) == i \in 1..Len(ledger) /\ ledger[i].task = t

\* All the task's observations are in the profile.
Learnt(t) == \A i : Owned(t, i) => i <= profile[ledger[i].point].mark

\* Its fold, once it has a page, has all of them in the page.
Covered(t) ==
  /\ job[t].pc \in {"seen", "rows", "write", "position", "advance"} =>
       \A i : Owned(t, i) => i <= job[t].hi
  /\ job[t].pc = "folded" => Learnt(t)

\* A step of the ledger is an append, by the one who commits, or leaves it alone.
LEMMA LedgerStep ==
  ASSUME EvInv, [EvNext]_evVars
  PROVE  \/ ledger' = ledger
         \/ \E t \in Task : AppendCommit(t)
<1>1. ASSUME NEW t \in Task, EvTask(t)
      PROVE  ledger' = ledger \/ AppendCommit(t)
  <2>1. CASE EvStep(t)
        BY <2>1 DEF EvStep, AppendRead, AppendCollides, ReadCursor, ReadPage, ReadProfile,
           ReadRows, WriteRows, WriteFails, ReadPosition, Advance, AdvanceFails, FoldStep
  <2>2. CASE ~EvStep(t)
        BY <1>1, <2>2 DEF EvTask, BeginFold, Release, Leave, BeginAppend, Arrive
  <2> QED
      BY <2>1, <2>2
<1>2. ASSUME NEW p \in Process, Dies(p)
      PROVE  ledger' = ledger
      BY <1>2 DEF Dies
<1>3. CASE UNCHANGED evVars
      BY <1>3 DEF evVars
<1> QED
    BY <1>1, <1>2, <1>3 DEF EvNext

\* The rows an append adds are the task's own, after those on record.
LEMMA CommitAdds ==
  ASSUME EvInv, NEW t \in Task, AppendCommit(t)
  PROVE  /\ Len(ledger) <= Len(ledger')
         /\ \A i \in 1..Len(ledger) : ledger'[i] = ledger[i]
         /\ \A i \in 1..Len(ledger') : i > Len(ledger) => ledger'[i].task = t
<1>1. PICK f \in Listings(job[t].batch) : ledger' = ledger \o NewRows(t, f)
      BY DEF AppendCommit
<1>2. job[t] \in Job /\ ledger \in Seq(Row) /\ Len(ledger) \in Nat
      BY DEF EvInv, EvTypeOK
<1>3. PICK n \in Nat : f \in [1..n -> job[t].batch]
      BY DEF Listings
<1> DEFINE R == NewRows(t, f)
<1>4. R = [i \in 1..n |-> [seq |-> job[t].base + i, task |-> t,
                           point |-> f[i].point, n |-> f[i].n]]
      BY <1>3 DEF NewRows
<1>5. R \in Seq({R[i] : i \in 1..n}) /\ Len(R) = n /\ \A i \in 1..n : R[i].task = t
      BY <1>3, <1>4
<1>6. ledger' = ledger \o R
      BY <1>1
<1> HIDE DEF R
<1>7. /\ Len(ledger \o R) = Len(ledger) + n
      /\ \A i \in 1..Len(ledger) : (ledger \o R)[i] = ledger[i]
      /\ \A i \in 1..Len(ledger) + n : i > Len(ledger) => (ledger \o R)[i] = R[i - Len(ledger)]
  <2>1. \A i \in 1..Len(ledger) + n :
          (ledger \o R)[i] = IF i <= Len(ledger) THEN ledger[i] ELSE R[i - Len(ledger)]
        BY <1>2, <1>3, <1>5
  <2>2. Len(ledger \o R) = Len(ledger) + n
    <3> DEFINE S == {R[i] : i \in 1..n}
    <3>1. ledger \in Seq(Row \cup S) /\ R \in Seq(Row \cup S) /\ Len(R) = n
          BY <1>2, <1>5
    <3> HIDE DEF S
    <3> QED
        BY <3>1
  <2>3. \A i \in 1..Len(ledger) : i \in 1..Len(ledger) + n
        BY <1>2, <1>3
  <2> QED
      BY <1>2, <1>3, <2>1, <2>2, <2>3
<1>8. ASSUME NEW i \in 1..Len(ledger) + n, i > Len(ledger)
      PROVE  (ledger \o R)[i].task = t
  <2>1. i - Len(ledger) \in 1..n
        BY <1>2, <1>3, <1>8
  <2> QED
      BY <1>5, <1>7, <1>8, <2>1
<1> QED
    BY <1>2, <1>3, <1>6, <1>7, <1>8

\* Rows stay, and those of a task grow only by its own commit.
LEMMA RowsStay ==
  ASSUME EvInv, [EvNext]_evVars
  PROVE  /\ Len(ledger) <= Len(ledger')
         /\ \A i \in 1..Len(ledger) : ledger'[i] = ledger[i]
         /\ \A t \in Task : ~AppendCommit(t) =>
              \A i : Owned(t, i)' => Owned(t, i)
<1>1. Len(ledger) \in Nat /\ Len(ledger') \in Nat
  <2>1. EvInv'
        BY NextKeeps
  <2> QED
      BY <2>1 DEF EvInv, EvTypeOK
<1>2. CASE ledger' = ledger
      BY <1>1, <1>2 DEF Owned
<1>3. ASSUME NEW v \in Task, AppendCommit(v), ledger' # ledger
      PROVE  /\ Len(ledger) <= Len(ledger')
             /\ \A i \in 1..Len(ledger) : ledger'[i] = ledger[i]
             /\ \A t \in Task : ~AppendCommit(t) => \A i : Owned(t, i)' => Owned(t, i)
  <2>1. /\ Len(ledger) <= Len(ledger')
        /\ \A i \in 1..Len(ledger) : ledger'[i] = ledger[i]
        /\ \A i \in 1..Len(ledger') : i > Len(ledger) => ledger'[i].task = v
        BY <1>3, CommitAdds
  <2>2. ASSUME NEW t \in Task, ~AppendCommit(t), NEW i, Owned(t, i)'
        PROVE  Owned(t, i)
    <3>1. t # v
          BY <1>3, <2>2
    <3>2. i \in 1..Len(ledger') /\ ledger'[i].task = t
          BY <2>2 DEF Owned
    <3>3. i \in 1..Len(ledger)
          BY <1>1, <2>1, <3>1, <3>2
    <3> QED
        BY <2>1, <3>2, <3>3 DEF Owned
  <2> QED
      BY <2>1, <2>2
<1> QED
    BY <1>2, <1>3, LedgerStep

\* Without an overlap what has been learnt stays learnt.
LEMMA MarksGrow ==
  ASSUME EvInv, [EvNext]_evVars, ~overlapped
  PROVE  \A p \in Point : profile[p].mark <= profile'[p].mark
<1>1. profile \in [Point -> ProfileRow] /\ Alone
      BY DEF EvInv, EvTypeOK
<1>2. \A p \in Point : profile[p].mark \in Nat
      BY <1>1 DEF ProfileRow
<1>3. ASSUME NEW t \in Task, EvTask(t), profile' # profile
      PROVE  WriteRows(t)
  <2>1. CASE EvStep(t)
        BY <1>3, <2>1 DEF EvStep, AppendRead, AppendCommit, AppendCollides, ReadCursor, ReadPage,
           ReadProfile, ReadRows, WriteFails, ReadPosition, Advance, AdvanceFails
  <2>2. CASE ~EvStep(t)
        BY <1>3, <2>2 DEF EvTask, BeginFold, Release, Leave, BeginAppend, Arrive
  <2> QED
      BY <2>1, <2>2
<1>4. profile' = profile \/ \E t \in Task : WriteRows(t)
      BY <1>3 DEF EvNext, Dies, evVars
<1>5. CASE profile' = profile
      BY <1>2, <1>5
<1>6. ASSUME NEW t \in Task, WriteRows(t)
      PROVE  \A p \in Point : profile[p].mark <= profile'[p].mark
      BY <1>1, <1>6, RowsLearnt
<1> QED
    BY <1>4, <1>5, <1>6

LEMMA CleanBefore ==
  ASSUME EvInv, [EvNext]_evVars, Clean'
  PROVE  Clean
<1>1. Len(ledger) <= Len(ledger') /\ Len(ledger) \in Nat /\ Len(ledger') \in Nat /\ Page \in Nat
  <2>1. EvInv'
        BY NextKeeps
  <2> QED
      BY <2>1, RowsStay, EvidenceAssumption DEF EvInv, EvTypeOK
<1>2. overlapped => overlapped'
  <2>1. ASSUME NEW t \in Task, EvTask(t), overlapped
        PROVE  overlapped'
    <3>1. CASE EvStep(t)
          BY <2>1, <3>1 DEF EvStep, AppendRead, AppendCommit, AppendCollides, ReadCursor, ReadPage,
             ReadProfile, ReadRows, WriteRows, WriteFails, ReadPosition, Advance, AdvanceFails,
             FoldStep
    <3>2. CASE ~EvStep(t)
          BY <2>1, <3>2 DEF EvTask, BeginFold, Release, Leave, BeginAppend, Arrive
    <3> QED
        BY <3>1, <3>2
  <2> QED
      BY <2>1 DEF EvNext, Dies, evVars
<1> QED
    BY <1>1, <1>2 DEF Clean

\* Unless it reports more, what a task has observed stays learnt.
LEMMA LearntStays ==
  ASSUME EvInv, [EvNext]_evVars, ~overlapped, NEW t \in Task, Learnt(t), ~AppendCommit(t)
  PROVE  Learnt(t)'
<1> SUFFICES ASSUME NEW i, Owned(t, i)'
             PROVE  i <= profile'[ledger'[i].point].mark
    BY DEF Learnt
<1>1. Owned(t, i) /\ i \in 1..Len(ledger) /\ ledger'[i] = ledger[i]
      BY RowsStay DEF Owned
<1>2. ledger \in Seq(Row) /\ profile \in [Point -> ProfileRow] /\ profile' \in [Point -> ProfileRow]
  <2>1. EvInv'
        BY NextKeeps
  <2> QED
      BY <2>1 DEF EvInv, EvTypeOK
<1>3. ledger[i].point \in Point
  <2>1. ledger[i] \in Row
        BY <1>1, <1>2
  <2> QED
      BY <2>1 DEF Row
<1>4. /\ i <= profile[ledger[i].point].mark
      /\ profile[ledger[i].point].mark <= profile'[ledger[i].point].mark
      BY <1>1, <1>3, MarksGrow DEF Learnt
<1>5. i \in Nat /\ profile[ledger[i].point].mark \in Nat /\ profile'[ledger[i].point].mark \in Nat
      BY <1>1, <1>2, <1>3 DEF ProfileRow
<1> QED
    BY <1>1, <1>4, <1>5

\* One page reaches to the end of the ledger; what it leads to is learnt.
LEMMA OwnFold ==
  ASSUME EvInv, NEW t \in Task, EvStep(t), Clean', Clean, Covered(t)
  PROVE  Covered(t)'
<1>1. /\ EvTypeOK /\ Alone /\ ledger \in Seq(Row) /\ Len(ledger) \in Nat
      /\ job[t] \in Job /\ job \in [Task -> Job] /\ cursor \in Nat /\ Page \in Nat
      /\ Len(ledger) <= Page /\ Highest = Len(ledger)
      BY EvidenceAssumption, LedgerNumbers DEF EvInv, EvTypeOK, Clean
<1>2. [EvNext]_evVars
      BY DEF EvNext, EvTask
<1>3. ASSUME NEW i, Owned(t, i)
      PROVE  i \in 1..Len(ledger) /\ ledger[i].point \in Point /\ OwnIn(ledger, ledger[i].point, i)
  <2>1. ledger[i] \in Row /\ i \in 1..Len(ledger)
        BY <1>1, <1>3 DEF Owned
  <2> QED
      BY <2>1 DEF Row, OwnIn
<1>4. CASE \/ AppendRead(t) \/ AppendCommit(t) \/ AppendCollides(t)
           \/ ReadCursor(t) \/ WriteFails(t) \/ AdvanceFails(t)
  <2>1. job'[t].pc \in {"commit", "stored", "read", "refused", "page", "failed"}
    <3>1. CASE AppendRead(t)
      <4> DEFINE k == [job[t] EXCEPT !.pc = "commit", !.base = Highest,
                                     !.batch = {o \in job[t].batch : ~Known(t, o)}]
      <4>1. k.pc = "commit"
            BY <1>1 DEF Job
      <4>2. job' = [job EXCEPT ![t] = k]
            BY <3>1 DEF AppendRead
      <4> HIDE DEF k
      <4> QED
          BY <1>1, <4>1, <4>2
    <3>2. CASE AppendCollides(t)
      <4> DEFINE pc == IF job[t].tries + 1 < MaxTries THEN "read" ELSE "refused"
                 k  == [job[t] EXCEPT !.tries = job[t].tries + 1, !.pc = pc]
      <4>1. pc \in {"read", "refused"}
            OBVIOUS
      <4>2. k.pc = pc
            BY <1>1 DEF Job
      <4>3. job' = [job EXCEPT ![t] = k]
            BY <3>2 DEF AppendCollides
      <4> HIDE DEF k, pc
      <4> QED
          BY <1>1, <4>1, <4>2, <4>3
    <3>3. CASE AppendCommit(t) \/ WriteFails(t) \/ AdvanceFails(t)
          BY <1>1, <3>3, NoJobTyped DEF AppendCommit, WriteFails, AdvanceFails, FoldStep, Job
    <3>4. CASE ReadCursor(t)
          BY <1>1, <3>4 DEF ReadCursor, FoldStep, Job
    <3> QED
        BY <1>4, <3>1, <3>2, <3>3, <3>4
  <2> QED
      BY <2>1 DEF Covered
<1>5. CASE ReadPage(t)
  <2>1. /\ ledger' = ledger /\ profile' = profile
        /\ job[t].lo = cursor /\ job[t].lo \in Nat
        BY <1>1, <1>5 DEF ReadPage, FoldStep, Alone, MemoryOf, FoldPcs
  <2>2. CASE job[t].lo < Highest
    <3>1. Smaller(Highest, job[t].lo + Page) = Len(ledger)
          BY <1>1, <2>1 DEF Smaller
    <3>2. job'[t].pc = "seen" /\ job'[t].hi = Len(ledger)
      <4> DEFINE j == [job[t] EXCEPT !.hi = Len(ledger)]
      <4>1. j \in Job /\ j.hi = Len(ledger)
            BY <1>1 DEF Job
      <4>2. job' = [job EXCEPT ![t] = [j EXCEPT !.pc = "seen"]]
            BY <1>5, <2>2, <3>1 DEF ReadPage, FoldStep
      <4>3. "seen" \in Pcs
            BY DEF Pcs, FoldPcs
      <4> HIDE DEF j
      <4> QED
          BY <1>1, <4>1, <4>2, <4>3, Moved
    <3>3. \A i : Owned(t, i)' => i <= Len(ledger)
          BY <1>1, <1>3, <2>1 DEF Owned
    <3> QED
        BY <3>2, <3>3 DEF Covered
  <2>3. CASE ~(job[t].lo < Highest)
    <3>1. job'[t].pc = "folded"
          BY <1>1, <1>5, <2>3, NoJobTyped DEF ReadPage, FoldStep, Job
    <3>2. cursor = Len(ledger)
          BY <1>1, <2>1, <2>3 DEF Alone, LearntOf
    <3>3. ASSUME NEW i, Owned(t, i)
          PROVE  i <= profile[ledger[i].point].mark
          BY <1>1, <1>3, <3>2, <3>3 DEF Alone, LearntOf
    <3>4. Learnt(t)'
          BY <2>1, <3>3 DEF Learnt, Owned
    <3> QED
        BY <3>1, <3>4 DEF Covered
  <2> QED
      BY <2>2, <2>3
<1>6. CASE ReadProfile(t) \/ ReadRows(t) \/ WriteRows(t) \/ ReadPosition(t)
  <2>1. /\ job[t].pc \in {"seen", "rows", "write", "position", "advance"}
        /\ job'[t].hi = job[t].hi /\ job'[t].pc # "folded"
        /\ ledger' = ledger
    <3>1. ASSUME NEW j \in Job, NEW pc \in Pcs \ {"folded"}, FoldStep(t, pc, j), j.hi = job[t].hi
          PROVE  job'[t].hi = job[t].hi /\ job'[t].pc # "folded" /\ ledger' = ledger
      <4>1. job' = [job EXCEPT ![t] = [j EXCEPT !.pc = pc]] /\ ledger' = ledger
            BY <3>1 DEF FoldStep
      <4> QED
          BY <1>1, <3>1, <4>1, Moved
    <3>2. CASE ReadProfile(t)
      <4> DEFINE j == [job[t] EXCEPT !.seen = profile]
                 pc == IF Changed(j) = {} THEN "position" ELSE "rows"
      <4>1. j \in Job /\ j.hi = job[t].hi
            BY <1>1 DEF EvTypeOK, Job
      <4>2. FoldStep(t, pc, j) /\ job[t].pc = "seen"
            BY <3>2 DEF ReadProfile
      <4>3. pc \in Pcs \ {"folded"}
            BY DEF Pcs, FoldPcs
      <4> HIDE DEF j, pc
      <4> QED
          BY <3>1, <4>1, <4>2, <4>3
    <3>3. CASE ReadRows(t)
      <4> DEFINE j == [job[t] EXCEPT !.rows = profile]
      <4>1. j \in Job /\ j.hi = job[t].hi
            BY <1>1 DEF EvTypeOK, Job
      <4>2. FoldStep(t, "write", j) /\ job[t].pc = "rows" /\ "write" \in Pcs \ {"folded"}
            BY <3>3 DEF ReadRows, Pcs, FoldPcs
      <4> HIDE DEF j
      <4> QED
          BY <3>1, <4>1, <4>2
    <3>4. CASE WriteRows(t)
      <4>1. FoldStep(t, "position", job[t]) /\ job[t].pc = "write" /\ "position" \in Pcs \ {"folded"}
            BY <3>4 DEF WriteRows, Pcs, FoldPcs
      <4> QED
          BY <1>1, <3>1, <4>1
    <3>5. CASE ReadPosition(t)
      <4> DEFINE j == [job[t] EXCEPT !.base = cursor]
      <4>1. j \in Job /\ j.hi = job[t].hi
            BY <1>1 DEF Job
      <4>2. FoldStep(t, "advance", j) /\ job[t].pc = "position" /\ "advance" \in Pcs \ {"folded"}
            BY <3>5 DEF ReadPosition, Pcs, FoldPcs
      <4> HIDE DEF j
      <4> QED
          BY <3>1, <4>1, <4>2
    <3> QED
        BY <1>6, <3>2, <3>3, <3>4, <3>5
  <2> QED
      BY <2>1 DEF Covered, Owned
<1>7. CASE Advance(t)
  <2>1. job[t].pc = "advance" /\ job'[t].pc = "folded" /\ ledger' = ledger /\ profile' = profile
        BY <1>1, <1>7, NoJobTyped DEF Advance, FoldStep, Job
  <2>2. \A p \in Point : \A s \in 1..job[t].hi : OwnIn(ledger, p, s) => s <= profile[p].mark
        BY <1>1, <2>1 DEF Alone, MemoryOf
  <2>3. job[t].hi \in Nat
        BY <1>1 DEF Job
  <2>4. ASSUME NEW i, Owned(t, i)
        PROVE  i <= profile[ledger[i].point].mark
    <3>1. i <= job[t].hi
          BY <2>1, <2>4 DEF Covered
    <3>2. i \in 1..job[t].hi
          BY <1>1, <1>3, <2>3, <2>4, <3>1
    <3> QED
        BY <1>3, <2>2, <2>4, <3>2
  <2>5. Learnt(t)'
        BY <2>1, <2>4 DEF Learnt, Owned
  <2> QED
      BY <2>1, <2>5 DEF Covered
<1> QED
    BY <1>4, <1>5, <1>6, <1>7 DEF EvStep

LEMMA CoveredKeeps ==
  ASSUME EvInv, [EvNext]_evVars, Clean', \A u \in Task : Covered(u), NEW t \in Task
  PROVE  Covered(t)'
<1>1. Clean /\ ~overlapped /\ job \in [Task -> Job]
      BY CleanBefore DEF Clean, EvInv, EvTypeOK
<1>2. CASE job'[t] = job[t] /\ ~AppendCommit(t)
  <2>1. \A i : Owned(t, i)' => Owned(t, i)
        BY <1>2, RowsStay
  <2>2. Learnt(t) => Learnt(t)'
        BY <1>1, <1>2, LearntStays
  <2> QED
      BY <1>2, <2>1, <2>2 DEF Covered
<1>3. CASE job'[t].pc \in {"idle", "cursor", "read"}
      BY <1>3 DEF Covered
<1>4. CASE EvStep(t)
      BY <1>1, <1>4, OwnFold
<1>5. ASSUME NEW v \in Task, EvTask(v), ~EvStep(t)
      PROVE  \/ job'[t] = job[t] /\ ~AppendCommit(t)
             \/ job'[t].pc \in {"idle", "cursor", "read"}
  <2>1. ~AppendCommit(t)
        BY <1>5 DEF EvStep
  <2>2. CASE v # t
        BY <1>1, <1>5, <2>1, <2>2 DEF EvTask, EvStep, AppendRead, AppendCommit, AppendCollides,
           ReadCursor, ReadPage, ReadProfile, ReadRows, WriteRows, WriteFails, ReadPosition,
           Advance, AdvanceFails, FoldStep, BeginFold, Release, Leave, BeginAppend, Arrive
  <2>3. CASE v = t
    <3>1. CASE BeginFold(t) \/ Release(t) \/ Leave(t)
          BY <1>1, <3>1, NoJobTyped DEF BeginFold, Release, Leave, Job
    <3>2. CASE \E batch \in SUBSET Obs : BeginAppend(t, batch)
          BY <1>1, <3>2, NoJobTyped DEF BeginAppend, Job
    <3>3. CASE \E p \in Process : Arrive(t, p)
          BY <2>1, <3>3 DEF Arrive
    <3> QED
        BY <1>5, <2>3, <3>1, <3>2, <3>3 DEF EvTask
  <2> QED
      BY <2>2, <2>3
<1>6. ASSUME NEW p \in Process, Dies(p), ~EvStep(t)
      PROVE  \/ job'[t] = job[t] /\ ~AppendCommit(t)
             \/ job'[t].pc \in {"idle", "cursor", "read"}
      BY <1>6, NoJobTyped DEF Dies, EvStep
<1>7. CASE UNCHANGED evVars /\ ~EvStep(t)
      BY <1>2, <1>7 DEF evVars, EvStep
<1> QED
    BY <1>2, <1>3, <1>4, <1>5, <1>6, <1>7 DEF EvNext

\* A step of an append stays in the append, and one of a fold in the fold.
LEMMA StaysAtWork ==
  ASSUME EvInv, NEW t \in Task, EvStep(t)
  PROVE  \/ /\ job[t].pc \in {"read", "commit"}
            /\ job'[t].pc \in {"read", "commit", "stored", "refused"}
         \/ /\ Folding(t)
            /\ job'[t].pc \in FoldPcs \cup {"folded", "failed"}
<1>1. job \in [Task -> Job] /\ job[t] \in Job
      BY DEF EvInv, EvTypeOK
<1>2. CASE AppendRead(t) \/ AppendCommit(t)
  <2>1. CASE AppendRead(t)
        BY <1>1, <2>1 DEF AppendRead, Job
  <2>2. CASE AppendCommit(t)
        BY <1>1, <2>2, NoJobTyped DEF AppendCommit, Job
  <2> QED
      BY <1>2, <2>1, <2>2
<1>3. CASE AppendCollides(t)
  <2> DEFINE pc == IF job[t].tries + 1 < MaxTries THEN "read" ELSE "refused"
             k  == [job[t] EXCEPT !.tries = job[t].tries + 1, !.pc = pc]
  <2>1. pc \in {"read", "refused"}
        OBVIOUS
  <2>2. k.pc = pc
        BY <1>1 DEF Job
  <2>3. job' = [job EXCEPT ![t] = k] /\ job[t].pc = "commit"
        BY <1>3 DEF AppendCollides
  <2> HIDE DEF k, pc
  <2> QED
      BY <1>1, <2>1, <2>2, <2>3
<1>4. ASSUME NEW pc, NEW j \in Job, FoldStep(t, pc, j)
      PROVE  job'[t].pc = pc
  <2>1. [j EXCEPT !.pc = pc].pc = pc
        BY DEF Job
  <2> QED
      BY <1>1, <1>4, <2>1 DEF FoldStep
<1>5. CASE ReadCursor(t)
      BY <1>1, <1>4, <1>5 DEF ReadCursor, EvInv, EvTypeOK, Folding, FoldPcs, Job
<1>6. CASE ReadPage(t)
  <2>1. CASE job[t].lo < Highest
    <3>1. /\ job[t].pc = "page"
          /\ FoldStep(t, "seen", [job[t] EXCEPT !.hi = Smaller(Highest, job[t].lo + Page)])
          BY <1>6, <2>1 DEF ReadPage
    <3>2. job'[t].pc = "seen"
          BY <1>1, <3>1 DEF FoldStep, Job
    <3> QED
        BY <3>1, <3>2 DEF Folding, FoldPcs
  <2>2. CASE ~(job[t].lo < Highest)
        BY <1>4, <1>6, <2>2, NoJobTyped DEF ReadPage, Folding, FoldPcs
  <2> QED
      BY <2>1, <2>2
<1>7. CASE ReadProfile(t)
  <2> DEFINE j == [job[t] EXCEPT !.seen = profile]
             pc == IF Changed(j) = {} THEN "position" ELSE "rows"
  <2>1. j \in Job
        BY <1>1 DEF EvInv, EvTypeOK, Job
  <2>2. FoldStep(t, pc, j) /\ job[t].pc = "seen"
        BY <1>7 DEF ReadProfile
  <2>3. pc \in {"position", "rows"}
        OBVIOUS
  <2> HIDE DEF j, pc
  <2>4. job'[t].pc = pc
        BY <1>4, <2>1, <2>2
  <2> QED
      BY <2>2, <2>3, <2>4 DEF Folding, FoldPcs
<1>8. CASE ReadRows(t)
  <2>1. [job[t] EXCEPT !.rows = profile] \in Job
        BY <1>1 DEF EvInv, EvTypeOK, Job
  <2> QED
      BY <1>4, <1>8, <2>1 DEF ReadRows, Folding, FoldPcs
<1>9. CASE WriteRows(t) \/ WriteFails(t) \/ Advance(t) \/ AdvanceFails(t)
      BY <1>1, <1>4, <1>9, NoJobTyped DEF WriteRows, WriteFails, Advance, AdvanceFails,
         Folding, FoldPcs
<1>10. CASE ReadPosition(t)
  <2>1. [job[t] EXCEPT !.base = cursor] \in Job
        BY <1>1 DEF EvInv, EvTypeOK, Job
  <2> QED
      BY <1>4, <1>10, <2>1 DEF ReadPosition, Folding, FoldPcs
<1> QED
    BY <1>2, <1>3, <1>5, <1>6, <1>7, <1>8, <1>9, <1>10 DEF EvStep

(***************************************************************************)
(* The learning loop                                                       *)
(***************************************************************************)

\* The phases a node works in; in any other it returns at once.
ActiveAt ==
  [interpret   |-> {"PLANNING"},
   orchestrate |-> {"PLANNING", "REPLANNING"},
   dispatch    |-> {"EXECUTING"},
   observe     |-> {"OBSERVING"},
   update      |-> {"UPDATING"},
   evaluate    |-> {"UPDATING"},
   await       |-> {"WAITING"},
   end         |-> {}]

PassedAt ==
  [interpret   |-> {},
   orchestrate |-> Terminal,
   dispatch    |-> Terminal \cup {"WAITING"},
   observe     |-> Terminal \cup {"WAITING"},
   update      |-> Terminal \cup {"WAITING"},
   evaluate    |-> Terminal \cup {"WAITING"},
   await       |-> {},
   end         |-> Terminal]

\* The points inside each node.
PcsAt ==
  [interpret   |-> {"planning"},
   orchestrate |-> {"planning", "blocked", "decided", "saved"},
   dispatch    |-> {"work", "spent", "saved"},
   observe     |-> {},
   update      |-> {"fold"},
   evaluate    |-> {"popped"},
   await       |-> {},
   end         |-> {}]

\* A checkpoint ck beside the phase ph in the database, whoever died: the
\* phase has moved on at most from a node that works in the checkpoint's.
Kept(ck, ph) ==
  /\ ck.status \in ActiveAt[ck.node] \cup PassedAt[ck.node]
  /\ ck.status \notin ActiveAt[ck.node] \/ ck.node = "update" => ck.status = ph
  /\ ck.node = "await" /\ ck.ask => ph \in {"WAITING", "PLANNING"}

\* An execution e in a node it has entered with the checkpoint ck.
Entered(e, ck, ph) ==
  /\ e.pc # "off" => e.mem.node = ck.node
  /\ e.pc = "node" => e.mem = ck
  /\ e.pc \notin {"off", "node", "done"} => e.pc \in PcsAt[ck.node]
  /\ e.pc \notin {"off", "node"} => ck.status \in ActiveAt[ck.node]
  /\ e.pc \in {"decided", "saved"} /\ ck.node = "orchestrate" =>
       e.mem.status \in {"EXECUTING", "WAITING", "FAILED"}
  /\ e.pc \in {"planning", "blocked", "work", "spent", "fold", "popped"} =>
       e.mem.status = ck.status
  /\ e.pc = "saved" /\ ck.node = "dispatch" => e.mem.status = ck.status
  /\ e.pc = "done" =>
       /\ ck.node # "end"
       /\ e.mem.status = ph
       /\ LET next == Successor(e.mem)
          IN  e.mem.status \in ActiveAt[next] \cup PassedAt[next]
  /\ e.answer => e.pc = "node" /\ ck.node = "await"

\* What holds in addition of a task without a crash since its last node.
Confirmed(e, ck, ph, cmd, re) ==
  IF re
    THEN e.pc = "node" /\ ck.node = "await" => e.answer
    ELSE /\ e.pc = "node" /\ ck.node # "interpret" => ck.status = ph
         /\ e.pc = "off" /\ ck.node = "await" /\ ck.ask => ck.status = ph
         /\ e.pc = "off" /\ cmd = "answer" => ck.node = "await" /\ ck.ask

\* No round is open.
Quiet(e) ==
  \/ e.pc = "off"
  \/ e.mem.node \in {"interpret", "await", "end"}
  \/ e.mem.node = "orchestrate" /\ e.pc \in {"node", "planning"}
  \/ e.mem.node = "evaluate" /\ e.pc = "done"

\* The round that may be open, d the last decision on record.
Rounds(e, d) ==
  e.open \subseteq IF Quiet(e) THEN {} ELSE IF e.pc = "blocked" THEN {d + 1} ELSE {e.mem.step}

Affordable(spent) ==
  /\ spent.replans <= MaxReplans
  /\ \/ spent.steps < MaxSteps
     \/ \E plan \in Plans : \E i \in DOMAIN plan : spent.steps < MaxSteps + plan[i]

\* A round is about to be opened.
Opening(e) ==
  \/ e.pc # "off" /\ e.mem.node = "interpret"
  \/ e.answer
  \/ e.mem.node = "await" /\ e.pc = "done"
  \/ e.mem.node = "orchestrate" /\ e.pc \in {"node", "planning"} /\ e.mem.status \notin Terminal
  \/ e.mem.node = "evaluate" /\ e.pc = "done" /\ e.mem.status \notin Terminal \cup {"WAITING"}

\* A round costs a replan, but for the first and the one that is refused.
Budgeted(e, ck, b) ==
  /\ Affordable(b) /\ Affordable(ck.spent) /\ Affordable(e.mem.spent)
  /\ IF e.pc = "work" THEN e.tier \in 1..Len(e.mem.plan) /\ e.mem.spent.steps < MaxSteps
                      ELSE e.tier = 0
  /\ Opening(e) => e.rounds = 0 \/ e.mem.replanning
  /\ \/ e.rounds <= e.mem.spent.replans + 1
     \/ (e.mem.status = "FAILED" \/ e.pc = "blocked") /\ e.rounds <= MaxReplans + 2

Sound(t) ==
  /\ at[t] = NoP => exec[t].pc = "off"
  /\ exec[t].pc = "off" => exec[t] = Off
  /\ Kept(ckpt[t], phase[t])
  /\ Entered(exec[t], ckpt[t], phase[t])
  /\ Confirmed(exec[t], ckpt[t], phase[t], command[t], t \in reentered)
  /\ Rounds(exec[t], decisions[t])
  /\ Budgeted(exec[t], ckpt[t], budget[t])

LoopInv ==
  /\ EvInv
  /\ TypeOK
  /\ \A t \in Looping : Len(stack[t]) <= MaxGoals /\ Sound(t)

-----------------------------------------------------------------------------
(* The ledger below the loop *)

\* Whatever a node does, the ledger sees a step of its own or none.
LEMMA NodeOverLedger ==
  ASSUME NEW t \in Looping, NodeStep(t)
  PROVE  EvTask(t) \/ UNCHANGED evVars
<1> USE LoopAssumption
<1>1. ASSUME Ends(t) PROVE EvTask(t) \/ UNCHANGED evVars
      BY <1>1 DEF Ends, EvTask
<1>2. ASSUME NEW target, NEW e, Move(t, target, e) PROVE EvTask(t) \/ UNCHANGED evVars
      BY <1>1, <1>2 DEF Move
<1>3. ASSUME NEW target, NEW e, Return(t, target, e) PROVE EvTask(t) \/ UNCHANGED evVars
      BY <1>2, <1>3 DEF Return
<1>4. CASE Save(t) \/ Pass(t)
      BY <1>4 DEF Save, Pass, Checkpoints
<1>5. CASE Interpret(t) \/ Interpreted(t) \/ InterpretFails(t) \/ InterpretNothing(t)
      BY <1>3, <1>5 DEF Interpret, Interpreted, InterpretFails, InterpretNothing
<1>6. CASE Orchestrate(t) \/ ReplanRefused(t) \/ Blocked(t) \/ PlanRaises(t) \/ PlanExceeds(t)
      BY <1>1, <1>2, <1>3, <1>6 DEF Orchestrate, ReplanRefused, Blocked, PlanRaises, PlanExceeds
<1>7. CASE PlanFatal(t) \/ PlanRuns(t) \/ PlanWaits(t) \/ SavePlan(t) \/ Decided(t)
      BY <1>3, <1>7 DEF PlanFatal, PlanRuns, PlanWaits, Decide, SavePlan, Decided
<1>8. CASE NextTier(t) \/ TaskEnds(t) \/ SaveBudget(t) \/ Dispatched(t) \/ Observe(t)
      BY <1>3, <1>8 DEF NextTier, TaskEnds, SaveBudget, Dispatched, Observe
<1>9. CASE TaskReports(t) \/ TaskStored(t) \/ TaskRefused(t) \/ Update(t) \/ Updated(t)
      BY <1>1, <1>9 DEF TaskReports, TaskStored, TaskRefused, Update, Updated, EvTask
<1>10. CASE Achieved(t) \/ Popped(t) \/ TurnComplete(t) \/ NoProgress(t) \/ Replan(t)
      BY <1>3, <1>10 DEF Achieved, Popped, TurnComplete, NoProgress, Replan
<1>11. CASE AwaitRaises(t) \/ Park(t) \/ Resume(t) \/ Finish(t)
      BY <1>1, <1>3, <1>11 DEF AwaitRaises, Park, Resume, Finish
<1>12. CASE EvStep(t) /\ UNCHANGED loopVars
      BY <1>12 DEF EvTask
<1> QED
    BY <1>4, <1>5, <1>6, <1>7, <1>8, <1>9, <1>10, <1>11, <1>12 DEF NodeStep

LEMMA NextOverLedger == [Next]_vars => [EvNext]_evVars
<1> SUFFICES ASSUME [Next]_vars PROVE [EvNext]_evVars
    OBVIOUS
<1> USE LoopAssumption
<1>1. ASSUME NEW t \in Looping, Message(t) \/ Answer(t) PROVE [EvNext]_evVars
      BY <1>1 DEF Message, Answer
<1>2. ASSUME NEW t \in Looping, NEW p \in Process, Start(t, p) PROVE [EvNext]_evVars
      BY <1>2 DEF Start, EvNext, EvTask
<1>3. ASSUME NEW t \in Task, EvTask(t) PROVE [EvNext]_evVars
      BY <1>3 DEF EvNext
<1>4. ASSUME NEW p \in Process, Crash(p) PROVE [EvNext]_evVars
      BY <1>4 DEF Crash, EvNext
<1>5. ASSUME UNCHANGED vars PROVE [EvNext]_evVars
      BY <1>5 DEF vars
<1> QED
    BY <1>1, <1>2, <1>3, <1>4, <1>5, NodeOverLedger DEF Next, EvNext

\* The loop does with the ledger what EvidenceLedger allows: the detailed
\* specification implements the one every execution shares.
THEOREM LedgerShared == Spec => EvSpec
<1>1. Init => EvInit
      BY DEF Init
<1> QED
    BY <1>1, NextOverLedger, PTL DEF Spec, EvSpec

-----------------------------------------------------------------------------
(* Types of what the steps are built from *)

Pc == {"off", "node", "planning", "blocked", "decided", "saved", "work", "spent",
       "fold", "popped", "done"}

LEMMA NewGraphTyped ==
  ASSUME NEW b \in Spent
  PROVE  NewGraph(b) \in Graph
<1>1. <<>> \in Plans \cup {<<>>} /\ {} \in SUBSET Outcome
      OBVIOUS
<1>2. "interpret" \in Node /\ "PLANNING" \in Phase
      BY DEF Node, Phase
<1> QED
    BY <1>1, <1>2 DEF NewGraph, Graph

LEMMA OffTyped == Off \in Exec
<1>1. [steps |-> 0, replans |-> 0] \in Spent
      BY DEF Spent
<1> QED
    BY <1>1, NewGraphTyped DEF Off, Exec

\* An execution with new values.
LEMMA ExecTyped ==
  ASSUME NEW e \in Exec, NEW pc \in Pc, NEW m \in Graph, NEW answer \in BOOLEAN,
         NEW open \in SUBSET Nat, NEW tier \in Nat, NEW left \in Nat, NEW rounds \in Nat
  PROVE  [e EXCEPT !.pc = pc, !.mem = m, !.answer = answer, !.open = open, !.tier = tier,
                   !.left = left, !.rounds = rounds] \in Exec
  BY DEF Exec, Pc

LEMMA PlanTyped ==
  ASSUME NEW plan \in Plans \cup {<<>>}
  PROVE  /\ plan \in Seq(Nat)
         /\ plan # <<>> => plan \in Plans
         /\ \A i \in 1..Len(plan) : plan \in Plans /\ i \in DOMAIN plan /\ plan[i] \in Nat
<1>1. plan \in Seq(Nat \ {0})
  <2>1. Plans \subseteq Seq(Nat \ {0})
        BY LoopAssumption
  <2>2. <<>> \in Seq(Nat \ {0})
        OBVIOUS
  <2> QED
      BY <2>1, <2>2, Zenon
<1>2. plan \in Seq(Nat)
      BY <1>1, SeqMonotonic
<1> QED
    BY <1>2

LEMMA SuccessorIs ==
  ASSUME NEW g \in Graph, g.node # "end"
  PROVE  /\ Successor(g) \in Node \ {"interpret"}
         /\ g.node \in {"interpret", "await"} => Successor(g) = "orchestrate"
         /\ g.node = "orchestrate" => Successor(g) = "dispatch"
         /\ g.node = "dispatch" => Successor(g) = "observe"
         /\ g.node = "observe" => Successor(g) = "update"
         /\ g.node = "update" => Successor(g) = "evaluate"
         /\ g.node = "evaluate" => Successor(g) =
              IF g.status \in Terminal THEN "end"
              ELSE IF g.status = "WAITING" THEN "await" ELSE "orchestrate"
<1>1. g.node \in Node
      BY DEF Graph
<1> QED
    BY <1>1 DEF Successor, Node

-----------------------------------------------------------------------------
(* The goals *)

\* There is a number for a new goal.
LEMMA NewGoalTyped ==
  ASSUME NEW t \in Looping, stack[t] \in Seq(Nat), Len(stack[t]) <= MaxGoals
  PROVE  NewGoal(t) \in Nat
<1> DEFINE n == Len(stack[t])
           G == 1..MaxGoals + 1
           f == [g \in G |-> CHOOSE i \in 1..n : stack[t][i] = g]
<1>1. MaxGoals \in Nat /\ n \in Nat /\ DOMAIN stack[t] = 1..n
      BY LoopAssumption
<1>2. \E g \in G : \A i \in 1..n : stack[t][i] # g
  <2> SUFFICES ASSUME \A g \in G : \E i \in 1..n : stack[t][i] = g
               PROVE  FALSE
      OBVIOUS
  <2>1. \A g \in G : f[g] \in 1..n /\ stack[t][f[g]] = g
        OBVIOUS
  <2>2. f \in [G -> 1..n]
        BY <2>1
  <2>3. IsFiniteSet(G) /\ Cardinality(G) = MaxGoals + 1
        BY <1>1, FS_Interval
  <2>4. IsFiniteSet(1..n) /\ Cardinality(1..n) = n
    <3>1. \A k \in Nat : IsFiniteSet(1..k) /\ Cardinality(1..k) = k
          BY FS_Interval
    <3> QED
        BY <1>1, <3>1
  <2>5. Cardinality(1..n) < Cardinality(G)
        BY <1>1, <2>3, <2>4
  <2> HIDE DEF f, G
  <2>6. \E x, y \in G : x # y /\ f[x] = f[y]
        BY <2>2, <2>3, <2>4, <2>5, FS_PigeonHole
  <2> QED
      BY <2>1, <2>6
<1>3. NewGoal(t) \in G
      BY <1>1, <1>2 DEF NewGoal
<1> QED
    BY <1>1, <1>3

LEMMA GoalsTyped ==
  ASSUME NEW s \in Seq(Nat), s # <<>>
  PROVE  /\ Current(s) \in Nat
         /\ Under(s) \in Seq(Nat)
         /\ Len(Under(s)) = Len(s) - 1
<1>1. Len(s) \in Nat \ {0}
      OBVIOUS
<1>2. \A i \in 1..Len(s) - 1 : s[i] \in Nat
      BY <1>1
<1>3. /\ SubSeq(s, 1, Len(s) - 1) \in Seq(Nat)
      /\ Len(SubSeq(s, 1, Len(s) - 1)) = IF 1 <= Len(s) - 1 THEN Len(s) - 1 - 1 + 1 ELSE 0
      BY <1>1, <1>2, SubSeqProperties
<1>4. \A n \in Nat \ {0} : (IF 1 <= n - 1 THEN n - 1 - 1 + 1 ELSE 0) = n - 1
      OBVIOUS
<1>5. Len(Under(s)) = Len(s) - 1 /\ Under(s) \in Seq(Nat)
      BY <1>1, <1>3, <1>4, Zenon DEF Under
<1>6. Current(s) \in Nat
      BY <1>1 DEF Current
<1> QED
    BY <1>5, <1>6

LEMMA WithoutTyped ==
  ASSUME NEW s \in Seq(Nat), NEW g
  PROVE  Without(s, g) \in Seq(Nat) /\ Len(Without(s, g)) <= Len(s)
<1> DEFINE i == CHOOSE k \in DOMAIN s : s[k] = g
<1>1. CASE \E k \in DOMAIN s : s[k] = g
  <2>1. i \in 1..Len(s)
        BY <1>1
  <2>2. Without(s, g) = SubSeq(s, 1, i - 1) \o SubSeq(s, i + 1, Len(s))
        BY <1>1 DEF Without
  <2> HIDE DEF i
  <2> DEFINE front == SubSeq(s, 1, i - 1)
             back == SubSeq(s, i + 1, Len(s))
  <2>3. front \in Seq(Nat) /\ Len(front) = IF 1 <= i - 1 THEN i - 1 - 1 + 1 ELSE 0
    <3>1. \A k \in 1..i - 1 : s[k] \in Nat
          BY <2>1
    <3> QED
        BY <2>1, <3>1, SubSeqProperties
  <2>4. back \in Seq(Nat) /\ Len(back) = IF i + 1 <= Len(s) THEN Len(s) - (i + 1) + 1 ELSE 0
    <3>1. \A k \in i + 1..Len(s) : s[k] \in Nat
          BY <2>1
    <3>2. Len(s) \in Int /\ i + 1 \in Int
          BY <2>1
    <3> QED
        BY <3>1, <3>2, SubSeqProperties
  <2> HIDE DEF front, back
  <2>5. front \o back \in Seq(Nat) /\ Len(front \o back) = Len(front) + Len(back)
        BY <2>3, <2>4
  <2>6. Len(front) + Len(back) <= Len(s)
    <3>1. Len(s) \in Nat /\ i \in Nat /\ 1 <= i /\ i <= Len(s)
          BY <2>1
    <3>2. Len(front) = i - 1 /\ Len(back) = Len(s) - i
          BY <2>3, <2>4, <3>1
    <3> QED
        BY <3>1, <3>2
  <2> QED
      BY <2>2, <2>5, <2>6 DEF front, back
<1>2. CASE ~\E k \in DOMAIN s : s[k] = g
      BY <1>2 DEF Without
<1> QED
    BY <1>1, <1>2

-----------------------------------------------------------------------------
(* The frames of the steps *)

\* A step of t leaves the other tasks as they are.
LEMMA TaskStep ==
  ASSUME LoopInv, NEW t \in Looping, EvInv',
         phase' \in [Looping -> Phase], budget' \in [Looping -> Spent],
         stack' \in [Looping -> Seq(Nat)], decisions' \in [Looping -> Nat],
         command' \in [Looping -> {"none", "message", "answer"}],
         ckpt' \in [Looping -> Graph], exec' \in [Looping -> Exec],
         reentered' \subseteq Looping, turns' \in Nat, crashes' \in Nat,
         \A v \in Looping : v # t =>
           /\ phase'[v] = phase[v] /\ budget'[v] = budget[v] /\ stack'[v] = stack[v]
           /\ decisions'[v] = decisions[v] /\ command'[v] = command[v]
           /\ ckpt'[v] = ckpt[v] /\ exec'[v] = exec[v]
           /\ v \in reentered' <=> v \in reentered
           /\ at'[v] = NoP => at[v] = NoP,
         Len(stack'[t]) <= MaxGoals, Sound(t)'
  PROVE  LoopInv'
<1>1. TypeOK'
      BY DEF TypeOK, EvInv
<1>2. ASSUME NEW v \in Looping, v # t
      PROVE  Len(stack'[v]) <= MaxGoals /\ Sound(v)'
  <2>1. Sound(v) /\ Len(stack[v]) <= MaxGoals
        BY DEF LoopInv
  <2>2. Confirmed(exec[v], ckpt[v], phase[v], command[v], v \in reentered)
          => Confirmed(exec[v], ckpt[v], phase[v], command[v], v \in reentered')
        BY <1>2 DEF Confirmed
  <2> QED
      BY <1>2, <2>1, <2>2 DEF Sound
<1> QED
    BY <1>1, <1>2 DEF LoopInv

\* A step within a node.
LEMMA WorksKeeps ==
  ASSUME LoopInv, NEW t \in Looping, NEW e, e \in Exec, Works(t, e), EvInv', UNCHANGED at,
         exec[t].pc # "off", e.pc \notin {"off", "node"},
         budget' \in [Looping -> Spent], stack' \in [Looping -> Seq(Nat)],
         decisions' \in [Looping -> Nat],
         \A v \in Looping : v # t =>
           budget'[v] = budget[v] /\ stack'[v] = stack[v] /\ decisions'[v] = decisions[v],
         Len(stack'[t]) <= MaxGoals,
         Entered(e, ckpt[t], phase[t]), Rounds(e, decisions'[t]),
         Budgeted(e, ckpt[t], budget'[t])
  PROVE  LoopInv'
<1>1. /\ exec' = [exec EXCEPT ![t] = e] /\ exec'[t] = e
      /\ UNCHANGED <<phase, command, ckpt, reentered, turns, crashes>>
      BY DEF Works, history, LoopInv, TypeOK
<1>2. Sound(t) /\ Kept(ckpt[t], phase[t]) /\ at[t] # NoP
      BY DEF LoopInv, Sound
<1>3. Confirmed(e, ckpt[t], phase[t], command[t], t \in reentered)
      BY DEF Confirmed
<1>4. Sound(t)'
      BY <1>1, <1>2, <1>3 DEF Sound
<1>5. \A v \in Looping : v # t => exec'[v] = exec[v]
      BY <1>1 DEF LoopInv, TypeOK
<1>6. exec' \in [Looping -> Exec]
      BY <1>1 DEF LoopInv, TypeOK
<1> QED
    BY <1>1, <1>4, <1>5, <1>6, TaskStep DEF LoopInv, TypeOK

\* What holds of an execution that is over.
LEMMA OffSound ==
  ASSUME NEW ck, NEW ph, NEW d, NEW b, Affordable(b), Affordable(ck.spent)
  PROVE  /\ Off.pc = "off"
         /\ Entered(Off, ck, ph)
         /\ Rounds(Off, d)
         /\ Budgeted(Off, ck, b)
<1>1. /\ Off.pc = "off" /\ Off.answer = FALSE /\ Off.open = {} /\ Off.tier = 0 /\ Off.rounds = 0
      /\ Off.mem.spent.steps = 0 /\ Off.mem.spent.replans = 0
      BY DEF Off, NewGraph
<1>2. Entered(Off, ck, ph) /\ Rounds(Off, d)
      BY <1>1 DEF Entered, Rounds, Quiet
<1>3. Affordable(Off.mem.spent)
      BY <1>1, LoopAssumption DEF Affordable
<1>4. Budgeted(Off, ck, b)
      BY <1>1, <1>3 DEF Budgeted
<1> QED
    BY <1>1, <1>2, <1>4

\* The end of an execution, which never leaves a question behind that the
\* database does not wait for.
LEMMA EndsKeeps ==
  ASSUME LoopInv, NEW t \in Looping, Ends(t), EvInv',
         ckpt[t].node = "await" /\ ckpt[t].ask => exec[t].pc = "node" /\ ~exec[t].answer
  PROVE  LoopInv'
<1>1. /\ exec' = [exec EXCEPT ![t] = Off] /\ exec'[t] = Off
      /\ command' = [command EXCEPT ![t] = "none"] /\ command'[t] = "none"
      /\ reentered' = reentered \ {t}
      /\ at' = [at EXCEPT ![t] = NoP]
      /\ UNCHANGED <<phase, budget, stack, decisions, ckpt, turns, crashes>>
      BY DEF Ends, Leave, LoopInv, TypeOK
<1>2. /\ Sound(t) /\ Kept(ckpt[t], phase[t]) /\ Budgeted(exec[t], ckpt[t], budget[t])
      /\ Confirmed(exec[t], ckpt[t], phase[t], command[t], t \in reentered)
      /\ Entered(exec[t], ckpt[t], phase[t])
      /\ Len(stack[t]) <= MaxGoals
      BY DEF LoopInv, Sound
<1>3. /\ Off.pc = "off" /\ Entered(Off, ckpt[t], phase[t])
      /\ Rounds(Off, decisions[t]) /\ Budgeted(Off, ckpt[t], budget[t])
      BY <1>2, OffSound DEF Budgeted
<1>4. Confirmed(Off, ckpt[t], phase[t], "none", FALSE)
  <2>1. ckpt[t].node = "await" /\ ckpt[t].ask => ckpt[t].status = phase[t]
        BY <1>2 DEF Confirmed
  <2> QED
      BY <1>3, <2>1 DEF Confirmed
<1>5. Sound(t)'
  <2>1. Confirmed(Off, ckpt[t], phase[t], "none", t \in reentered')
        BY <1>1, <1>4 DEF Confirmed
  <2> QED
      BY <1>1, <1>2, <1>3, <2>1 DEF Sound
<1>6. \A v \in Looping : v # t =>
        /\ exec'[v] = exec[v] /\ command'[v] = command[v]
        /\ v \in reentered' <=> v \in reentered
        /\ at'[v] = NoP => at[v] = NoP
      BY <1>1, LoopAssumption DEF LoopInv, TypeOK, EvTypeOK
<1>7. /\ exec' \in [Looping -> Exec] /\ command' \in [Looping -> {"none", "message", "answer"}]
      /\ reentered' \subseteq Looping
      BY <1>1, OffTyped DEF LoopInv, TypeOK
<1> QED
    BY <1>1, <1>2, <1>5, <1>6, <1>7, TaskStep DEF LoopInv, TypeOK

\* A transition, refused or confirmed.
LEMMA MoveKeeps ==
  ASSUME LoopInv, NEW t \in Looping, NEW target \in Phase, NEW e, e \in Exec,
         Move(t, target, e), EvInv', exec[t].pc # "off", e.pc \notin {"off", "node"},
         ckpt[t].node = "await" /\ ckpt[t].ask => Legal(phase[t], target),
         Kept(ckpt[t], target), Entered(e, ckpt[t], target), Rounds(e, decisions[t]),
         Budgeted(e, ckpt[t], budget[t])
  PROVE  LoopInv'
<1>1. CASE ~Legal(phase[t], target)
      BY <1>1, EndsKeeps DEF Move
<1>2. CASE Legal(phase[t], target)
  <2>1. /\ phase' = [phase EXCEPT ![t] = target] /\ phase'[t] = target
        /\ exec' = [exec EXCEPT ![t] = e] /\ exec'[t] = e
        /\ UNCHANGED <<evVars, budget, stack, decisions, command, ckpt, reentered, turns, crashes>>
        BY <1>2 DEF Move, history, LoopInv, TypeOK
  <2>2. Sound(t) /\ at[t] # NoP /\ at' = at /\ Len(stack[t]) <= MaxGoals
        BY <2>1 DEF LoopInv, Sound, evVars
  <2>3. Confirmed(e, ckpt[t], target, command[t], t \in reentered)
        BY DEF Confirmed
  <2>4. Sound(t)'
        BY <2>1, <2>2, <2>3 DEF Sound
  <2>5. \A v \in Looping : v # t => phase'[v] = phase[v] /\ exec'[v] = exec[v]
        BY <2>1 DEF LoopInv, TypeOK
  <2>6. phase' \in [Looping -> Phase] /\ exec' \in [Looping -> Exec]
        BY <2>1 DEF LoopInv, TypeOK
  <2> QED
      BY <2>1, <2>2, <2>4, <2>5, <2>6, TaskStep DEF LoopInv, TypeOK
<1> QED
    BY <1>1, <1>2

\* The graph checkpoints what a node returned, in the phase of the database.
LEMMA CheckpointsKeeps ==
  ASSUME LoopInv, NEW t \in Looping, NEW e, e \in Exec, Checkpoints(t, e), EvInv',
         exec[t].pc # "off", e.mem.node # "end", e.mem.status = phase[t], ~e.answer,
         e.mem.status \in ActiveAt[Successor(e.mem)] \cup PassedAt[Successor(e.mem)],
         e.open \subseteq IF Successor(e.mem) \in {"orchestrate", "await", "end"}
                            THEN {} ELSE {e.mem.step},
         Affordable(e.mem.spent), e.tier = 0,
         Successor(e.mem) = "orchestrate" /\ e.mem.status \notin Terminal =>
           e.rounds = 0 \/ e.mem.replanning,
         \/ e.rounds <= e.mem.spent.replans + 1
         \/ e.mem.status = "FAILED" /\ e.rounds <= MaxReplans + 2
  PROVE  LoopInv'
<1> DEFINE g == [e.mem EXCEPT !.node = Successor(e.mem)]
           x == [e EXCEPT !.pc = "node", !.mem = g]
<1>1. e.mem \in Graph /\ Successor(e.mem) \in Node \ {"interpret"}
      BY SuccessorIs DEF Exec
<1>2. /\ g \in Graph /\ g.node = Successor(e.mem) /\ g.status = e.mem.status
      /\ g.spent = e.mem.spent /\ g.step = e.mem.step /\ g.replanning = e.mem.replanning
      /\ g.plan = e.mem.plan
      BY <1>1 DEF Graph
<1>3. /\ x \in Exec /\ x.pc = "node" /\ x.mem = g /\ x.answer = e.answer /\ x.open = e.open
      /\ x.tier = e.tier /\ x.rounds = e.rounds
      BY <1>2 DEF Exec
<1>4. /\ exec' = [exec EXCEPT ![t] = x] /\ exec'[t] = x
      /\ ckpt' = [ckpt EXCEPT ![t] = g] /\ ckpt'[t] = g
      /\ reentered' = reentered \ {t}
      /\ UNCHANGED <<evVars, phase, budget, stack, decisions, command, turns, crashes>>
      BY DEF Checkpoints, LoopInv, TypeOK
<1> HIDE DEF x, g
<1>5. Sound(t) /\ at[t] # NoP /\ at' = at /\ Len(stack[t]) <= MaxGoals
      /\ Affordable(budget[t])
      BY <1>4 DEF LoopInv, Sound, evVars, Budgeted
<1>6. Kept(g, phase[t])
  <2>1. g.node = "await" => g.status = "WAITING"
        BY <1>2 DEF ActiveAt, PassedAt
  <2> QED
      BY <1>2, <2>1 DEF Kept
<1>7. Entered(x, g, phase[t])
      BY <1>3 DEF Entered
<1>8. Confirmed(x, g, phase[t], command[t], t \in reentered')
      BY <1>2, <1>3, <1>4 DEF Confirmed
<1>9. Rounds(x, decisions[t])
  <2>1. g.node \in Node \ {"interpret"}
        BY <1>1, <1>2
  <2>2. Quiet(x) => g.node \in {"orchestrate", "await", "end"}
        BY <1>3, <2>1 DEF Quiet
  <2> QED
      BY <1>2, <1>3, <2>2 DEF Rounds
<1>10. Budgeted(x, g, budget[t])
  <2>1. Opening(x) => g.node = "orchestrate" /\ g.status \notin Terminal
        BY <1>1, <1>2, <1>3 DEF Opening
  <2> QED
      BY <1>2, <1>3, <1>5, <2>1 DEF Budgeted
<1>11. Sound(t)'
      BY <1>3, <1>4, <1>5, <1>6, <1>7, <1>8, <1>9, <1>10 DEF Sound
<1>12. \A v \in Looping : v # t =>
         /\ exec'[v] = exec[v] /\ ckpt'[v] = ckpt[v] /\ v \in reentered' <=> v \in reentered
      BY <1>4 DEF LoopInv, TypeOK
<1>13. exec' \in [Looping -> Exec] /\ ckpt' \in [Looping -> Graph] /\ reentered' \subseteq Looping
      BY <1>2, <1>3, <1>4 DEF LoopInv, TypeOK
<1> QED
    BY <1>4, <1>5, <1>11, <1>12, <1>13, TaskStep DEF LoopInv, TypeOK

\* Steps that leave the loop alone and free no task.
LEMMA LedgerStepKeeps ==
  ASSUME LoopInv, EvInv', UNCHANGED loopVars,
         \A v \in Looping : at'[v] = NoP => at[v] = NoP
  PROVE  LoopInv'
<1>1. UNCHANGED <<phase, budget, stack, decisions, command, ckpt, exec, reentered, turns, crashes>>
      BY DEF loopVars, dbVars, history
<1>2. TypeOK'
      BY <1>1 DEF LoopInv, TypeOK, EvInv
<1>3. ASSUME NEW v \in Looping PROVE Len(stack'[v]) <= MaxGoals /\ Sound(v)'
      BY <1>1, <1>3 DEF LoopInv, Sound
<1> QED
    BY <1>2, <1>3 DEF LoopInv

\* The learner writes.
LEMMA LearnerKeeps ==
  ASSUME LoopInv, NEW t \in Looping, Message(t) \/ Answer(t), EvInv'
  PROVE  LoopInv'
<1> DEFINE c == command'[t]
<1>1. /\ UNCHANGED <<evVars, phase, budget, stack, decisions, ckpt, exec, reentered, crashes>>
      /\ turns' = turns + 1
      /\ command' = [command EXCEPT ![t] = "message"] \/ command' = [command EXCEPT ![t] = "answer"]
      BY DEF Message, Answer
<1> at' = at
    BY <1>1 DEF evVars
<1> turns' \in Nat
    BY <1>1 DEF LoopInv, TypeOK
<1> /\ command' \in [Looping -> {"none", "message", "answer"}]
    /\ \A v \in Looping : v # t => command'[v] = command[v]
  <2>1. command \in [Looping -> {"none", "message", "answer"}]
        BY DEF LoopInv, TypeOK
  <2> QED
      BY <1>1, <2>1
<1>2. Sound(t) /\ Len(stack[t]) <= MaxGoals
      BY DEF LoopInv
<1>3. c = "answer" => ckpt[t].node = "await" /\ ckpt[t].ask
  <2>1. CASE Message(t)
        BY <2>1 DEF Message, LoopInv, TypeOK
  <2>2. CASE Answer(t)
        BY <2>2 DEF Answer
  <2> QED
      BY <2>1, <2>2
<1>4. Confirmed(exec[t], ckpt[t], phase[t], c, t \in reentered)
      BY <1>2, <1>3 DEF Sound, Confirmed
<1>5. Sound(t)'
      BY <1>1, <1>2, <1>4 DEF Sound
<1> QED
    BY <1>1, <1>2, <1>5, TaskStep DEF LoopInv, TypeOK

LEMMA StartKeeps ==
  ASSUME LoopInv, NEW t \in Looping, NEW p \in Process, Start(t, p), EvInv'
  PROVE  LoopInv'
<1> DEFINE g == IF command[t] = "message" THEN NewGraph(budget[t]) ELSE ckpt[t]
           x == [Off EXCEPT !.pc = "node", !.mem = g, !.answer = g.node = "await"]
<1>1. Sound(t) /\ Len(stack[t]) <= MaxGoals /\ t \in Task /\ exec[t].pc = "off"
      BY LoopAssumption DEF LoopInv, Sound, Start, Arrive
<1>2. /\ Kept(ckpt[t], phase[t]) /\ Budgeted(exec[t], ckpt[t], budget[t])
      /\ Confirmed(exec[t], ckpt[t], phase[t], command[t], t \in reentered)
      BY <1>1 DEF Sound
<1>3. /\ ckpt[t] \in Graph /\ budget[t] \in Spent /\ ckpt[t].ask \in BOOLEAN
      /\ command[t] \in {"message", "answer"}
      BY DEF LoopInv, TypeOK, Graph, Start
<1>4. NewGraph(budget[t]) \in Graph /\ g \in Graph
      BY <1>3, NewGraphTyped
<1>5. /\ command[t] = "message" =>
           g.node = "interpret" /\ g.status = "PLANNING" /\ g.spent = budget[t]
      /\ command[t] # "message" => g = ckpt[t]
      BY DEF NewGraph
<1>6. /\ x \in Exec /\ x.pc = "node" /\ x.mem = g /\ x.open = {} /\ x.tier = 0 /\ x.rounds = 0
      /\ x.answer = (g.node = "await")
  <2>1. (g.node = "await") \in BOOLEAN
        OBVIOUS
  <2> HIDE DEF g
  <2> QED
      BY <1>4, <2>1, OffTyped DEF Exec, Off
<1>7. /\ exec' = [exec EXCEPT ![t] = x] /\ exec'[t] = x
      /\ ckpt' = [ckpt EXCEPT ![t] = g] /\ ckpt'[t] = g
      /\ at' = [at EXCEPT ![t] = p]
      /\ UNCHANGED <<phase, budget, stack, decisions, command, reentered, turns, crashes>>
      BY DEF Start, Arrive, history, LoopInv, TypeOK
<1> HIDE DEF x, g
<1>8. Kept(g, phase[t])
      BY <1>2, <1>3, <1>5 DEF Kept, ActiveAt, PassedAt
<1>9. Entered(x, g, phase[t])
      BY <1>6 DEF Entered
<1>10. Confirmed(x, g, phase[t], command[t], t \in reentered)
      BY <1>1, <1>2, <1>3, <1>5, <1>6 DEF Confirmed
<1>11. Rounds(x, decisions[t])
      BY <1>6 DEF Rounds
<1>12. Budgeted(x, g, budget[t])
  <2>1. Affordable(budget[t]) /\ Affordable(g.spent)
        BY <1>2, <1>5 DEF Budgeted
  <2>2. x.rounds <= x.mem.spent.replans + 1
        BY <1>4, <1>6 DEF Graph, Spent
  <2> QED
      BY <1>6, <2>1, <2>2 DEF Budgeted
<1>13. Sound(t)'
  <2>1. at'[t] = p /\ p # NoP
        BY <1>1, <1>7, EvidenceAssumption DEF LoopInv, TypeOK, EvTypeOK
  <2> QED
      BY <1>6, <1>7, <1>8, <1>9, <1>10, <1>11, <1>12, <2>1 DEF Sound
<1>14. \A v \in Looping : v # t =>
         exec'[v] = exec[v] /\ ckpt'[v] = ckpt[v] /\ at'[v] = at[v]
      BY <1>7, LoopAssumption DEF LoopInv, TypeOK, EvTypeOK
<1>15. exec' \in [Looping -> Exec] /\ ckpt' \in [Looping -> Graph]
      BY <1>4, <1>6, <1>7 DEF LoopInv, TypeOK
<1> QED
    BY <1>1, <1>7, <1>13, <1>14, <1>15, TaskStep DEF LoopInv, TypeOK

LEMMA CrashKeeps ==
  ASSUME LoopInv, NEW p \in Process, Crash(p), EvInv'
  PROVE  LoopInv'
<1>1. /\ exec' = [t \in Looping |-> IF at[t] = p THEN Off ELSE exec[t]]
      /\ reentered' = reentered \cup {t \in Looping : at[t] = p}
      /\ at' = [t \in Task |-> IF at[t] = p THEN NoP ELSE at[t]]
      /\ UNCHANGED <<phase, budget, stack, decisions, command, ckpt, turns>>
      /\ crashes' \in Nat
      BY DEF Crash, Dies, dbVars, LoopInv, TypeOK
<1>2. TypeOK'
  <2>1. exec' \in [Looping -> Exec] /\ reentered' \subseteq Looping
        BY <1>1, OffTyped DEF LoopInv, TypeOK
  <2> QED
      BY <1>1, <2>1 DEF LoopInv, TypeOK, EvInv
<1>3. ASSUME NEW t \in Looping
      PROVE  Len(stack'[t]) <= MaxGoals /\ Sound(t)'
  <2>1. Sound(t) /\ Len(stack[t]) <= MaxGoals /\ t \in Task
        BY LoopAssumption DEF LoopInv
  <2>2. CASE at[t] # p
    <3>1. exec'[t] = exec[t] /\ at'[t] = at[t] /\ (t \in reentered' <=> t \in reentered)
          BY <1>1, <2>1, <2>2
    <3>2. Confirmed(exec[t], ckpt[t], phase[t], command[t], t \in reentered)
            => Confirmed(exec[t], ckpt[t], phase[t], command[t], t \in reentered')
          BY <3>1 DEF Confirmed
    <3> QED
        BY <1>1, <2>1, <3>1, <3>2 DEF Sound
  <2>3. CASE at[t] = p
    <3>1. exec'[t] = Off /\ t \in reentered'
          BY <1>1, <2>3
    <3>2. /\ Off.pc = "off" /\ Entered(Off, ckpt[t], phase[t])
          /\ Rounds(Off, decisions[t]) /\ Budgeted(Off, ckpt[t], budget[t])
          BY <2>1, OffSound DEF Sound, Budgeted
    <3>3. Confirmed(Off, ckpt[t], phase[t], command[t], t \in reentered')
          BY <3>1, <3>2 DEF Confirmed
    <3> QED
        BY <1>1, <2>1, <3>1, <3>2, <3>3 DEF Sound
  <2> QED
      BY <2>2, <2>3
<1> QED
    BY <1>2, <1>3 DEF LoopInv

\* A node that was at work returns after a transition.
LEMMA ReturnKeeps ==
  ASSUME LoopInv, NEW t \in Looping, NEW target \in Phase, NEW e, e \in Exec,
         Return(t, target, e), EvInv', exec[t].pc # "off", ~e.answer,
         e.mem.node = ckpt[t].node, ckpt[t].node \notin {"end", "update"},
         ckpt[t].status \in ActiveAt[ckpt[t].node],
         ckpt[t].node = "await" => target = "PLANNING",
         ckpt[t].node \in {"interpret", "await"} => target \in ActiveAt.orchestrate \cup Terminal,
         ckpt[t].node = "orchestrate" => target \in {"EXECUTING", "WAITING", "FAILED"},
         ckpt[t].node = "dispatch" => target = "OBSERVING",
         ckpt[t].node = "observe" => target = "UPDATING",
         ckpt[t].node = "evaluate" => target \in Terminal \cup {"WAITING", "REPLANNING"},
         e.open \subseteq IF ckpt[t].node \in {"interpret", "await", "evaluate"}
                            THEN {} ELSE {e.mem.step},
         Affordable(e.mem.spent), e.tier = 0,
         ckpt[t].node \in {"interpret", "await"} => e.rounds = 0 \/ e.mem.replanning,
         ckpt[t].node = "evaluate" /\ target = "REPLANNING" =>
           e.rounds = 0 \/ e.mem.replanning,
         \/ e.rounds <= e.mem.spent.replans + 1
         \/ target = "FAILED" /\ e.rounds <= MaxReplans + 2
  PROVE  LoopInv'
<1> DEFINE x == [e EXCEPT !.pc = "done", !.mem.status = target]
<1>1. e.mem \in Graph /\ ckpt[t].node \in Node
      BY DEF Exec, LoopInv, TypeOK, Graph
<1>2. /\ x \in Exec /\ x.pc = "done" /\ x.answer = e.answer /\ x.open = e.open
      /\ x.tier = e.tier /\ x.rounds = e.rounds
      /\ x.mem \in Graph /\ x.mem.node = e.mem.node /\ x.mem.status = target
      /\ x.mem.spent = e.mem.spent /\ x.mem.step = e.mem.step
      /\ x.mem.replanning = e.mem.replanning
      BY <1>1 DEF Exec, Graph
<1>3. Move(t, target, x)
      BY DEF Return
<1> HIDE DEF x
<1>4. Kept(ckpt[t], phase[t]) /\ Affordable(budget[t]) /\ Affordable(ckpt[t].spent)
      BY DEF LoopInv, Sound, Budgeted
<1>5. ckpt[t].node = "await" /\ ckpt[t].ask => Legal(phase[t], target)
      BY <1>4 DEF Kept, Legal, Follows
<1>6. Kept(ckpt[t], target)
      BY <1>4 DEF Kept
<1>7. Entered(x, ckpt[t], target)
  <2>1. target \in ActiveAt[Successor(x.mem)] \cup PassedAt[Successor(x.mem)]
    <3>1. CASE ckpt[t].node \in {"interpret", "await"}
      <4>1. Successor(x.mem) = "orchestrate"
            BY <1>2, <3>1, SuccessorIs
      <4> QED
          BY <3>1, <4>1 DEF ActiveAt, PassedAt
    <3>2. CASE ckpt[t].node = "orchestrate"
      <4>1. Successor(x.mem) = "dispatch"
            BY <1>2, <3>2, SuccessorIs
      <4> QED
          BY <3>2, <4>1 DEF ActiveAt, PassedAt, Terminal
    <3>3. CASE ckpt[t].node = "dispatch"
      <4>1. Successor(x.mem) = "observe"
            BY <1>2, <3>3, SuccessorIs
      <4> QED
          BY <3>3, <4>1 DEF ActiveAt, PassedAt
    <3>4. CASE ckpt[t].node = "observe"
      <4>1. Successor(x.mem) = "update"
            BY <1>2, <3>4, SuccessorIs
      <4> QED
          BY <3>4, <4>1 DEF ActiveAt, PassedAt
    <3>5. CASE ckpt[t].node = "evaluate"
      <4>1. Successor(x.mem) = IF target \in Terminal THEN "end"
                               ELSE IF target = "WAITING" THEN "await" ELSE "orchestrate"
            BY <1>2, <3>5, SuccessorIs
      <4> QED
          BY <3>5, <4>1 DEF ActiveAt, PassedAt, Terminal
    <3> QED
        BY <1>1, <3>1, <3>2, <3>3, <3>4, <3>5 DEF Node
  <2> QED
      BY <1>2, <2>1 DEF Entered
<1>8. Rounds(x, decisions[t])
      BY <1>1, <1>2 DEF Rounds, Quiet, Node
<1>9. Budgeted(x, ckpt[t], budget[t])
  <2>1. Opening(x) =>
          \/ ckpt[t].node \in {"interpret", "await"}
          \/ ckpt[t].node = "evaluate" /\ target = "REPLANNING"
        BY <1>2 DEF Opening
  <2>2. x.rounds = e.rounds /\ x.mem.replanning = e.mem.replanning
        BY <1>2
  <2>3. Opening(x) => e.rounds = 0 \/ e.mem.replanning
        BY <2>1
  <2>4. Opening(x) => x.rounds = 0 \/ x.mem.replanning
        BY <2>2, <2>3, Zenon
  <2>5. \/ x.rounds <= x.mem.spent.replans + 1
        \/ x.mem.status = "FAILED" /\ x.rounds <= MaxReplans + 2
        BY <1>2
  <2> QED
      BY <1>2, <1>4, <2>4, <2>5 DEF Budgeted
<1> QED
    BY <1>2, <1>3, <1>5, <1>6, <1>7, <1>8, <1>9, MoveKeeps

-----------------------------------------------------------------------------
(* The nodes *)

LEMMA Here ==
  ASSUME LoopInv, NEW t \in Looping
  PROVE  /\ exec[t] \in Exec /\ exec[t].mem \in Graph /\ ckpt[t] \in Graph
         /\ exec[t].mem.spent \in Spent /\ budget[t] \in Spent
         /\ exec[t].mem.node \in Node /\ ckpt[t].node \in Node
         /\ exec[t].open \subseteq Nat /\ exec[t].tier \in Nat /\ exec[t].left \in Nat
         /\ exec[t].rounds \in Nat /\ exec[t].mem.step \in Nat
         /\ exec[t].mem.spent.steps \in Nat /\ exec[t].mem.spent.replans \in Nat
         /\ stack[t] \in Seq(Nat) /\ Len(stack[t]) <= MaxGoals /\ decisions[t] \in Nat
         /\ Kept(ckpt[t], phase[t])
         /\ Entered(exec[t], ckpt[t], phase[t])
         /\ Rounds(exec[t], decisions[t])
         /\ Budgeted(exec[t], ckpt[t], budget[t])
         /\ exec[t].pc = "off" => exec[t] = Off
  BY DEF LoopInv, TypeOK, Sound, Exec, Graph, Spent

LEMMA SaveKeeps ==
  ASSUME LoopInv, NEW t \in Looping, Save(t), EvInv'
  PROVE  LoopInv'
<1> DEFINE e == exec[t]
<1>1. Checkpoints(t, e) /\ e.pc = "done"
      BY DEF Save
<1>2. /\ e \in Exec /\ e.mem \in Graph /\ e.mem.node \in Node /\ e.mem.node = ckpt[t].node
      /\ e.mem.node # "end" /\ e.mem.status = phase[t] /\ ~e.answer
      /\ e.mem.status \in ActiveAt[Successor(e.mem)] \cup PassedAt[Successor(e.mem)]
      BY <1>1, Here DEF Entered
<1>3. /\ Affordable(e.mem.spent) /\ e.tier = 0
      /\ \/ e.rounds <= e.mem.spent.replans + 1
         \/ e.mem.status = "FAILED" /\ e.rounds <= MaxReplans + 2
      BY <1>1, Here DEF Budgeted
<1>4. e.open \subseteq IF e.mem.node \in {"interpret", "await", "evaluate"} THEN {} ELSE {e.mem.step}
      BY <1>1, <1>2, Here DEF Rounds, Quiet
<1>5. e.open \subseteq IF Successor(e.mem) \in {"orchestrate", "await", "end"} THEN {} ELSE {e.mem.step}
      BY <1>2, <1>4, SuccessorIs DEF Node
<1>6. ASSUME Successor(e.mem) = "orchestrate", e.mem.status \notin Terminal
      PROVE  e.rounds = 0 \/ e.mem.replanning
  <2>1. Opening(e)
        BY <1>1, <1>2, <1>6, SuccessorIs DEF Opening, Node
  <2> QED
      BY <2>1, Here DEF Budgeted
<1> HIDE DEF e
<1> QED
    BY <1>1, <1>2, <1>3, <1>5, <1>6, CheckpointsKeeps DEF e

LEMMA PassKeeps ==
  ASSUME LoopInv, NEW t \in Looping, Pass(t), EvInv'
  PROVE  LoopInv'
<1> DEFINE x == exec[t]
           e == Passed(t)
           s == x.mem.status
<1>1. /\ Checkpoints(t, e) /\ x.pc = "node"
      /\ \/ x.mem.node = "orchestrate" /\ s \in Terminal
         \/ x.mem.node = "dispatch" /\ s # "EXECUTING"
         \/ x.mem.node = "observe" /\ s \notin {"OBSERVING", "EXECUTING"}
         \/ x.mem.node = "update" /\ s # "UPDATING"
         \/ x.mem.node = "evaluate" /\ s \in Terminal \cup {"WAITING"}
      BY DEF Pass, At
<1>2. /\ e \in Exec /\ e.mem = x.mem /\ e.answer = x.answer /\ e.tier = x.tier
      /\ e.rounds = x.rounds
      /\ e.open = IF x.mem.node = "evaluate" THEN x.open \ {x.mem.step} ELSE x.open
      BY Here DEF Passed, Closed, Exec
<1>3. /\ x \in Exec /\ x.mem = ckpt[t] /\ x.mem \in Graph /\ Kept(x.mem, phase[t])
      /\ ~x.answer
      BY <1>1, Here DEF Entered
<1>4. s \notin ActiveAt[x.mem.node] /\ s \in PassedAt[x.mem.node] /\ s = phase[t]
  <2>1. s \notin ActiveAt[x.mem.node]
        BY <1>1 DEF ActiveAt, Terminal
  <2> QED
      BY <1>3, <2>1 DEF Kept
<1>5. s \in ActiveAt[Successor(x.mem)] \cup PassedAt[Successor(x.mem)]
  <2>1. CASE x.mem.node = "orchestrate"
        BY <1>3, <1>4, <2>1, SuccessorIs DEF PassedAt
  <2>2. CASE x.mem.node = "dispatch"
        BY <1>3, <1>4, <2>2, SuccessorIs DEF PassedAt
  <2>3. CASE x.mem.node = "observe"
        BY <1>3, <1>4, <2>3, SuccessorIs DEF PassedAt
  <2>4. CASE x.mem.node = "update"
        BY <1>3, <1>4, <2>4, SuccessorIs DEF PassedAt
  <2>5. CASE x.mem.node = "evaluate"
    <3>1. Successor(x.mem) = IF s \in Terminal THEN "end" ELSE "await"
          BY <1>1, <1>3, <2>5, SuccessorIs
    <3> QED
        BY <1>1, <2>5, <3>1 DEF ActiveAt, PassedAt
  <2> QED
      BY <1>1, <2>1, <2>2, <2>3, <2>4, <2>5
<1>6. x.open \subseteq IF x.mem.node = "orchestrate" THEN {} ELSE {x.mem.step}
      BY <1>1, Here DEF Rounds, Quiet
<1>7. e.open \subseteq IF Successor(e.mem) \in {"orchestrate", "await", "end"} THEN {} ELSE {e.mem.step}
      BY <1>1, <1>2, <1>3, <1>6, SuccessorIs
<1>8. Successor(e.mem) = "orchestrate" => s \in Terminal
      BY <1>1, <1>2, <1>3, SuccessorIs
<1>9. /\ Affordable(x.mem.spent) /\ x.tier = 0
      /\ \/ x.rounds <= x.mem.spent.replans + 1
         \/ x.mem.status = "FAILED" /\ x.rounds <= MaxReplans + 2
      BY <1>1, Here DEF Budgeted
<1>10. e.mem.node # "end" /\ x.pc # "off"
      BY <1>1, <1>2
<1> HIDE DEF e
<1> QED
    BY <1>1, <1>2, <1>3, <1>4, <1>5, <1>7, <1>8, <1>9, <1>10, CheckpointsKeeps

LEMMA InterpretKeeps ==
  ASSUME LoopInv, NEW t \in Looping, Interpret(t), EvInv'
  PROVE  LoopInv'
<1> DEFINE x == exec[t]
           e == [x EXCEPT !.pc = "planning", !.mem.goal = NewGoal(t)]
<1>1. /\ x.pc = "node" /\ x.mem.node = "interpret" /\ Works(t, e)
      /\ UNCHANGED <<evVars, budget, decisions>> /\ at' = at
      BY DEF Interpret, At, evVars
<1>2. /\ x \in Exec /\ x.mem = ckpt[t] /\ ~x.answer /\ x.open = {} /\ x.tier = 0
      /\ ckpt[t].status \in ActiveAt.interpret
      BY <1>1, Here DEF Entered, Rounds, Quiet, Budgeted, Kept, ActiveAt, PassedAt
<1>3. NewGoal(t) \in Nat
      BY Here, NewGoalTyped
<1>4. /\ e \in Exec /\ e.pc = "planning" /\ e.mem.node = "interpret"
      /\ e.mem.status = x.mem.status /\ e.mem.spent = x.mem.spent /\ e.open = {} /\ e.tier = 0
      /\ e.answer = x.answer /\ e.rounds = x.rounds /\ e.mem.replanning = x.mem.replanning
      BY <1>1, <1>2, <1>3 DEF Exec, Graph
<1> HIDE DEF e
<1>5. Entered(e, ckpt[t], phase[t])
      BY <1>1, <1>2, <1>4 DEF Entered, PcsAt
<1>6. Rounds(e, decisions[t])
      BY <1>4 DEF Rounds
<1>7. Budgeted(e, ckpt[t], budget[t])
  <2>1. Opening(x)
        BY <1>1 DEF Opening
  <2>2. x.rounds = 0 \/ x.mem.replanning
        BY <2>1, Here DEF Budgeted
  <2>3. e.rounds = 0 \/ e.mem.replanning
        BY <1>4, <2>2, Zenon
  <2> QED
      BY <1>1, <1>4, <2>3, Here DEF Budgeted
<1>8. /\ stack' \in [Looping -> Seq(Nat)] /\ Len(stack'[t]) <= MaxGoals
      /\ \A v \in Looping : v # t => stack'[v] = stack[v]
  <2> DEFINE front == IF stack[t] = <<>> THEN <<>> ELSE Under(stack[t])
             s == stack'[t]
  <2>1. stack \in [Looping -> Seq(Nat)] /\ MaxGoals \in Nat \ {0}
        BY LoopAssumption DEF LoopInv, TypeOK
  <2>2. stack[t] \in Seq(Nat) /\ Len(stack[t]) \in Nat /\ Len(stack[t]) <= MaxGoals
        BY Here
  <2>3. front \in Seq(Nat) /\ Len(front) + 1 <= MaxGoals
    <3>1. CASE stack[t] = <<>>
          BY <2>1, <3>1
    <3>2. CASE stack[t] # <<>>
      <4>1. Under(stack[t]) \in Seq(Nat) /\ Len(Under(stack[t])) = Len(stack[t]) - 1
            BY <2>2, <3>2, GoalsTyped
      <4> QED
          BY <2>1, <2>2, <3>2, <4>1
    <3> QED
        BY <3>1, <3>2
  <2>4. \E f \in Seq(Nat) : /\ Len(f) + 1 <= MaxGoals
                            /\ stack' = [stack EXCEPT ![t] = Append(f, NewGoal(t))]
    <3>1. CASE stack' = [stack EXCEPT ![t] = Append(front, NewGoal(t))]
          BY <2>3, <3>1
    <3>2. CASE Len(stack[t]) < MaxGoals /\ stack' = [stack EXCEPT ![t] = Append(stack[t], NewGoal(t))]
      <4>1. Len(stack[t]) + 1 <= MaxGoals
            BY <2>1, <2>2, <3>2
      <4> QED
          BY <2>2, <3>2, <4>1
    <3> QED
        BY <3>1, <3>2 DEF Interpret
  <2>5. PICK f \in Seq(Nat) : /\ Len(f) + 1 <= MaxGoals
                              /\ stack' = [stack EXCEPT ![t] = Append(f, NewGoal(t))]
        BY <2>4
  <2>6. Append(f, NewGoal(t)) \in Seq(Nat) /\ Len(Append(f, NewGoal(t))) = Len(f) + 1
        BY <1>3, AppendProperties
  <2>7. stack'[t] = Append(f, NewGoal(t))
        BY <2>1, <2>5
  <2> QED
      BY <2>1, <2>5, <2>6, <2>7
<1> QED
    BY <1>1, <1>4, <1>5, <1>6, <1>7, <1>8, WorksKeeps DEF LoopInv, TypeOK

LEMMA InterpretReturns ==
  ASSUME LoopInv, NEW t \in Looping, EvInv',
         Interpreted(t) \/ InterpretFails(t) \/ InterpretNothing(t)
  PROVE  LoopInv'
<1> DEFINE x == exec[t]
<1>1. \E target \in {"PLANNING", "COMPLETED", "FAILED"}, goal \in Nat :
        Return(t, target, [x EXCEPT !.mem.goal = goal])
  <2>1. x.mem.goal \in Nat /\ x = [x EXCEPT !.mem.goal = x.mem.goal]
        BY Here DEF Graph, Exec
  <2>2. CASE Interpreted(t)
        BY <2>1, <2>2 DEF Interpreted
  <2>3. CASE InterpretFails(t)
        BY <2>1, <2>3 DEF InterpretFails
  <2>4. CASE InterpretNothing(t)
    <3>1. CASE stack[t] = <<>>
          BY <2>1, <2>4, <3>1 DEF InterpretNothing
    <3>2. CASE stack[t] # <<>>
      <4>1. Current(stack[t]) \in Nat
            BY <3>2, Here, GoalsTyped
      <4> QED
          BY <2>4, <3>2, <4>1 DEF InterpretNothing
    <3> QED
        BY <3>1, <3>2
  <2> QED
      BY <2>2, <2>3, <2>4
<1>2. PICK target \in {"PLANNING", "COMPLETED", "FAILED"}, goal \in Nat :
        Return(t, target, [x EXCEPT !.mem.goal = goal])
      BY <1>1
<1> DEFINE e == [x EXCEPT !.mem.goal = goal]
<1>3. x.pc \in {"node", "planning"} /\ x.mem.node = "interpret"
      BY DEF Interpreted, InterpretFails, InterpretNothing, At
<1>4. /\ x \in Exec /\ ckpt[t].node = "interpret" /\ ~x.answer /\ x.open = {} /\ x.tier = 0
      /\ ckpt[t].status \in ActiveAt.interpret
      BY <1>3, Here DEF Entered, Rounds, Quiet, Budgeted, Kept, ActiveAt, PassedAt
<1>5. /\ e \in Exec /\ e.mem.node = "interpret" /\ e.mem.spent = x.mem.spent /\ e.open = {}
      /\ e.tier = 0 /\ e.answer = x.answer /\ e.rounds = x.rounds
      /\ e.mem.replanning = x.mem.replanning
      BY <1>3, <1>4 DEF Exec, Graph
<1>6. /\ Affordable(x.mem.spent) /\ Opening(x) /\ (x.rounds = 0 \/ x.mem.replanning)
      BY <1>3, Here DEF Budgeted, Opening
<1>7. /\ e.rounds = 0 \/ e.mem.replanning
      BY <1>5, <1>6, Zenon
<1>8. \/ e.rounds <= e.mem.spent.replans + 1
      \/ target = "FAILED" /\ e.rounds <= MaxReplans + 2
  <2>1. x.mem.status # "FAILED"
        BY <1>3, <1>4, Here DEF Entered, ActiveAt
  <2> QED
      BY <1>3, <1>5, <2>1, Here DEF Budgeted
<1>9. target \in Phase /\ target \in ActiveAt.orchestrate \cup Terminal
      BY DEF Phase, ActiveAt, Terminal
<1> HIDE DEF e
<1> QED
    BY <1>2, <1>3, <1>4, <1>5, <1>6, <1>7, <1>8, <1>9, ReturnKeeps DEF e

-----------------------------------------------------------------------------
(* orchestrate *)

LEMMA OrchestrateKeeps ==
  ASSUME LoopInv, NEW t \in Looping, Orchestrate(t), EvInv'
  PROVE  LoopInv'
<1> DEFINE x == exec[t]
           e == [x EXCEPT !.pc = "planning"]
<1>1. /\ x.pc = "node" /\ x.mem.node = "orchestrate" /\ x.mem.status \notin Terminal
      /\ Move(t, "PLANNING", e)
      BY DEF Orchestrate, At
<1>2. /\ x \in Exec /\ x.mem = ckpt[t] /\ ~x.answer /\ x.open = {} /\ x.tier = 0
      /\ ckpt[t].status \in ActiveAt.orchestrate
      BY <1>1, Here DEF Entered, Rounds, Quiet, Budgeted, Kept, PassedAt
<1>3. /\ e \in Exec /\ e.pc = "planning" /\ e.mem = x.mem /\ e.open = {} /\ e.tier = 0
      /\ e.answer = x.answer /\ e.rounds = x.rounds
      BY <1>2 DEF Exec
<1> HIDE DEF e
<1>4. Kept(ckpt[t], "PLANNING")
      BY <1>1, <1>2 DEF Kept, ActiveAt
<1>5. Entered(e, ckpt[t], "PLANNING")
      BY <1>1, <1>2, <1>3 DEF Entered, PcsAt
<1>6. Rounds(e, decisions[t])
      BY <1>3 DEF Rounds
<1>7. Budgeted(e, ckpt[t], budget[t])
  <2>1. Opening(x) /\ (x.rounds = 0 \/ x.mem.replanning)
        BY <1>1, Here DEF Opening, Budgeted
  <2>2. e.rounds = 0 \/ e.mem.replanning
        BY <1>3, <2>1
  <2> QED
      BY <1>1, <1>3, <2>2, Here DEF Budgeted
<1>8. "PLANNING" \in Phase
      BY DEF Phase
<1> QED
    BY <1>1, <1>2, <1>3, <1>4, <1>5, <1>6, <1>7, <1>8, MoveKeeps

LEMMA AtPlanning ==
  ASSUME LoopInv, NEW t \in Looping, At(t, "orchestrate", "planning")
  PROVE  /\ exec[t].pc = "planning" /\ exec[t].mem.node = "orchestrate"
         /\ ckpt[t].node = "orchestrate" /\ ckpt[t].status \in ActiveAt.orchestrate
         /\ exec[t].mem.status = ckpt[t].status
         /\ ~exec[t].answer /\ exec[t].open = {} /\ exec[t].tier = 0
         /\ Affordable(exec[t].mem.spent)
         /\ exec[t].rounds = 0 \/ exec[t].mem.replanning
         /\ exec[t].rounds <= exec[t].mem.spent.replans + 1
<1> DEFINE x == exec[t]
<1>1. x.pc = "planning" /\ x.mem.node = "orchestrate"
      BY DEF At
<1>2. /\ ckpt[t].node = "orchestrate" /\ ckpt[t].status \in ActiveAt.orchestrate
      /\ x.mem.status = ckpt[t].status /\ ~x.answer
      BY <1>1, Here DEF Entered
<1>3. x.mem.status \notin Terminal
      BY <1>2 DEF ActiveAt, Terminal
<1>4. x.open = {}
      BY <1>1, Here DEF Rounds, Quiet
<1>5. /\ Affordable(x.mem.spent) /\ x.tier = 0 /\ (x.rounds = 0 \/ x.mem.replanning)
      /\ x.rounds <= x.mem.spent.replans + 1
      BY <1>1, <1>3, Here DEF Budgeted, Opening, Terminal
<1> QED
    BY <1>1, <1>2, <1>4, <1>5

LEMMA OpenedIs ==
  ASSUME LoopInv, NEW t \in Looping, At(t, "orchestrate", "planning")
  PROVE  /\ Opened(t) \in Exec /\ Step(t) = decisions[t] + 1 /\ Step(t) \in Nat
         /\ Opened(t).pc = "planning" /\ Opened(t).mem = exec[t].mem
         /\ Opened(t).answer = exec[t].answer /\ Opened(t).tier = exec[t].tier
         /\ Opened(t).open = {Step(t)} /\ Opened(t).rounds = exec[t].rounds + 1
<1> DEFINE x == exec[t]
<1>1. x \in Exec /\ x.open = {} /\ x.rounds \in Nat /\ x.pc = "planning" /\ decisions[t] \in Nat
      BY AtPlanning, Here
<1>2. Step(t) = decisions[t] + 1 /\ Step(t) \in Nat
      BY <1>1 DEF Step
<1>3. Opened(t) = [x EXCEPT !.open = {Step(t)}, !.rounds = x.rounds + 1]
      BY <1>1 DEF Opened
<1>4. x.rounds + 1 \in Nat /\ {Step(t)} \in SUBSET Nat
      BY <1>1, <1>2
<1> HIDE DEF x
<1>5. /\ Opened(t) \in Exec
      /\ Opened(t).pc = x.pc /\ Opened(t).mem = x.mem /\ Opened(t).answer = x.answer
      /\ Opened(t).tier = x.tier /\ Opened(t).open = {Step(t)} /\ Opened(t).rounds = x.rounds + 1
      BY <1>1, <1>3, <1>4 DEF Exec
<1> QED
    BY <1>1, <1>2, <1>5 DEF x

\* A replan is paid for when there is one left.
LEMMA ReplannedIs ==
  ASSUME LoopInv, NEW t \in Looping, At(t, "orchestrate", "planning"), ~NoReplanLeft(t)
  PROVE  /\ Replanned(t) \in Spent /\ Affordable(Replanned(t))
         /\ exec[t].rounds + 1 <= Replanned(t).replans + 1
<1> DEFINE g == exec[t].mem
           n == IF g.replanning THEN g.spent.replans + 1 ELSE g.spent.replans
<1>1. /\ g \in Graph /\ g.spent \in Spent /\ g.spent.replans \in Nat /\ g.spent.steps \in Nat
      /\ exec[t].rounds \in Nat /\ MaxReplans \in Nat
      BY Here, LoopAssumption
<1>2. /\ Replanned(t) \in Spent /\ Replanned(t).steps = g.spent.steps
      /\ Replanned(t).replans = n
      BY <1>1 DEF Replanned, Spent
<1>3. n <= MaxReplans
      BY <1>1, AtPlanning DEF NoReplanLeft, Affordable
<1>4. exec[t].rounds + 1 <= n + 1
      BY <1>1, AtPlanning
<1> HIDE DEF n
<1>5. Affordable(Replanned(t))
      BY <1>2, <1>3, AtPlanning DEF Affordable
<1> QED
    BY <1>2, <1>4, <1>5

LEMMA ReplanRefusedKeeps ==
  ASSUME LoopInv, NEW t \in Looping, ReplanRefused(t), EvInv'
  PROVE  LoopInv'
<1> DEFINE x == exec[t]
           o == Opened(t)
           e == [o EXCEPT !.pc = "blocked"]
<1>1. /\ At(t, "orchestrate", "planning") /\ Works(t, e)
      /\ budget' = [budget EXCEPT ![t] = x.mem.spent]
      /\ UNCHANGED <<evVars, stack, decisions>> /\ at' = at
      BY DEF ReplanRefused, evVars
<1>2. /\ o \in Exec /\ o.mem = x.mem /\ o.answer = x.answer /\ o.tier = x.tier
      /\ o.open = {decisions[t] + 1} /\ o.rounds = x.rounds + 1
      BY <1>1, OpenedIs
<1> HIDE DEF o
<1>3. /\ e \in Exec /\ e.pc = "blocked" /\ e.mem = x.mem /\ e.answer = x.answer
      /\ e.tier = x.tier /\ e.open = {decisions[t] + 1} /\ e.rounds = x.rounds + 1
      BY <1>2 DEF Exec
<1> HIDE DEF e
<1>4. Entered(e, ckpt[t], phase[t])
      BY <1>1, <1>3, AtPlanning DEF Entered, PcsAt
<1>5. Rounds(e, decisions[t])
      BY <1>1, <1>3, AtPlanning DEF Rounds, Quiet
<1>6. Budgeted(e, ckpt[t], x.mem.spent)
  <2>1. e.rounds <= MaxReplans + 2
    <3>1. x.rounds <= x.mem.spent.replans + 1 /\ x.mem.spent.replans <= MaxReplans
          BY <1>1, AtPlanning DEF Affordable
    <3> QED
        BY <1>3, <3>1, Here, LoopAssumption
  <2>2. ~Opening(e)
        BY <1>1, <1>3, AtPlanning DEF Opening
  <2> QED
      BY <1>1, <1>3, <2>1, <2>2, AtPlanning, Here DEF Budgeted
<1>7. /\ budget' \in [Looping -> Spent] /\ budget'[t] = x.mem.spent
      /\ \A v \in Looping : v # t => budget'[v] = budget[v]
      BY <1>1, Here DEF LoopInv, TypeOK
<1>8. x.pc # "off" /\ Len(stack[t]) <= MaxGoals
      BY <1>1, AtPlanning, Here
<1> QED
    BY <1>1, <1>3, <1>4, <1>5, <1>6, <1>7, <1>8, WorksKeeps DEF LoopInv, TypeOK

LEMMA BlockedKeeps ==
  ASSUME LoopInv, NEW t \in Looping, Blocked(t), EvInv'
  PROVE  LoopInv'
<1> DEFINE x == exec[t]
           e == Closed(x, Step(t))
<1>1. x.pc = "blocked" /\ x.mem.node = "orchestrate" /\ Return(t, "FAILED", e)
      BY DEF Blocked, At
<1>2. /\ x \in Exec /\ ckpt[t].node = "orchestrate" /\ ckpt[t].status \in ActiveAt.orchestrate
      /\ ~x.answer
      BY <1>1, Here DEF Entered
<1>3. x.open \subseteq {Step(t)}
      BY <1>1, Here DEF Rounds, Quiet, Step
<1>4. /\ Affordable(x.mem.spent) /\ x.tier = 0 /\ x.rounds <= MaxReplans + 2
  <2>1. Affordable(x.mem.spent) /\ x.tier = 0
        /\ (x.rounds <= x.mem.spent.replans + 1 \/ x.rounds <= MaxReplans + 2)
        BY <1>1, Here DEF Budgeted
  <2> QED
      BY <2>1, Here, LoopAssumption DEF Affordable
<1>5. /\ e \in Exec /\ e.mem = x.mem /\ e.answer = x.answer /\ e.tier = x.tier
      /\ e.rounds = x.rounds /\ e.open = {}
      BY <1>2, <1>3 DEF Closed, Exec
<1> HIDE DEF e
<1>6. "FAILED" \in Phase
      BY DEF Phase
<1> QED
    BY <1>1, <1>2, <1>4, <1>5, <1>6, ReturnKeeps

LEMMA PlanRaisesKeeps ==
  ASSUME LoopInv, NEW t \in Looping, PlanRaises(t), EvInv'
  PROVE  LoopInv'
  BY AtPlanning, EndsKeeps DEF PlanRaises

LEMMA PlanExceedsKeeps ==
  ASSUME LoopInv, NEW t \in Looping, PlanExceeds(t), EvInv'
  PROVE  LoopInv'
<1> DEFINE x == exec[t]
           o == Opened(t)
           y == [o EXCEPT !.mem.spent = Replanned(t), !.mem.step = Step(t)]
           e == Closed(y, Step(t))
<1>1. /\ At(t, "orchestrate", "planning") /\ ~NoReplanLeft(t) /\ Return(t, "FAILED", e)
      BY DEF PlanExceeds
<1>2. /\ o \in Exec /\ o.mem = x.mem /\ o.answer = x.answer /\ o.tier = x.tier
      /\ o.open = {Step(t)} /\ o.rounds = x.rounds + 1 /\ Step(t) \in Nat
      BY <1>1, OpenedIs
<1>3. /\ Replanned(t) \in Spent /\ Affordable(Replanned(t))
      /\ x.rounds + 1 <= Replanned(t).replans + 1
      BY <1>1, ReplannedIs
<1> HIDE DEF o
<1>4. /\ y \in Exec /\ y.mem.node = x.mem.node /\ y.mem.spent = Replanned(t)
      /\ y.answer = x.answer /\ y.tier = x.tier /\ y.open = {Step(t)} /\ y.rounds = x.rounds + 1
      BY <1>2, <1>3 DEF Exec, Graph
<1> HIDE DEF y
<1>5. /\ e \in Exec /\ e.mem = y.mem /\ e.answer = x.answer /\ e.tier = x.tier
      /\ e.rounds = x.rounds + 1 /\ e.open = {}
      BY <1>4 DEF Closed, Exec
<1> HIDE DEF e
<1>6. "FAILED" \in Phase
      BY DEF Phase
<1> QED
    BY <1>1, <1>3, <1>4, <1>5, <1>6, AtPlanning, ReturnKeeps

LEMMA DecideKeeps ==
  ASSUME LoopInv, NEW t \in Looping, NEW e, e \in Exec, NEW m \in Graph,
         NEW target \in {"EXECUTING", "WAITING", "FAILED"}, Decide(t, e, target, m), EvInv',
         e.answer = exec[t].answer, e.tier = exec[t].tier, e.rounds = exec[t].rounds + 1,
         e.open \subseteq {Step(t)}, m.node = "orchestrate"
  PROVE  LoopInv'
<1> DEFINE g == [m EXCEPT !.status = target, !.spent = Replanned(t), !.step = Step(t)]
           y == [e EXCEPT !.pc = "decided", !.mem = g]
<1>1. /\ At(t, "orchestrate", "planning") /\ ~NoReplanLeft(t) /\ Works(t, y)
      /\ decisions' = [decisions EXCEPT ![t] = Step(t)]
      /\ UNCHANGED <<evVars, budget, stack>> /\ at' = at
      BY DEF Decide, evVars
<1>2. /\ Replanned(t) \in Spent /\ Affordable(Replanned(t))
      /\ exec[t].rounds + 1 <= Replanned(t).replans + 1
      BY <1>1, ReplannedIs
<1>3. Step(t) \in Nat
      BY <1>1, OpenedIs
<1>4. /\ g \in Graph /\ g.node = "orchestrate" /\ g.status = target /\ g.spent = Replanned(t)
      /\ g.step = Step(t)
      BY <1>2, <1>3 DEF Graph, Phase
<1> HIDE DEF g
<1>5. /\ y \in Exec /\ y.pc = "decided" /\ y.mem = g /\ y.answer = e.answer
      /\ y.tier = e.tier /\ y.rounds = e.rounds /\ y.open = e.open
      BY <1>4 DEF Exec
<1> HIDE DEF y
<1>6. Entered(y, ckpt[t], phase[t])
      BY <1>1, <1>4, <1>5, AtPlanning DEF Entered, PcsAt
<1>7. Rounds(y, Step(t))
      BY <1>4, <1>5 DEF Rounds, Quiet
<1>8. Budgeted(y, ckpt[t], budget[t])
  <2>1. ~Opening(y)
        BY <1>1, <1>4, <1>5, AtPlanning DEF Opening
  <2>2. y.rounds <= y.mem.spent.replans + 1
        BY <1>2, <1>4, <1>5
  <2> QED
      BY <1>1, <1>2, <1>4, <1>5, <2>1, <2>2, AtPlanning, Here DEF Budgeted
<1>9. /\ decisions' \in [Looping -> Nat] /\ decisions'[t] = Step(t)
      /\ \A v \in Looping : v # t => decisions'[v] = decisions[v]
      BY <1>1, <1>3 DEF LoopInv, TypeOK
<1>10. exec[t].pc # "off" /\ Len(stack[t]) <= MaxGoals
      BY <1>1, AtPlanning, Here
<1> QED
    BY <1>1, <1>5, <1>6, <1>7, <1>8, <1>9, <1>10, WorksKeeps DEF LoopInv, TypeOK

LEMMA PlanKeeps ==
  ASSUME LoopInv, NEW t \in Looping, PlanFatal(t) \/ PlanRuns(t) \/ PlanWaits(t), EvInv'
  PROVE  LoopInv'
<1> DEFINE o == Opened(t)
           c == Closed(o, Step(t))
           g == exec[t].mem
<1>1. At(t, "orchestrate", "planning")
      BY DEF PlanFatal, PlanRuns, PlanWaits, Decide
<1>2. g \in Graph /\ g.node = "orchestrate"
      BY <1>1, AtPlanning, Here
<1>3. /\ o \in Exec /\ o.answer = exec[t].answer /\ o.tier = exec[t].tier
      /\ o.rounds = exec[t].rounds + 1 /\ o.open = {Step(t)}
      BY <1>1, OpenedIs
<1> HIDE DEF o
<1>4. /\ c \in Exec /\ c.answer = o.answer /\ c.tier = o.tier
      /\ c.rounds = o.rounds /\ c.open \subseteq {Step(t)}
      BY <1>3 DEF Closed, Exec
<1> HIDE DEF c
<1>5. CASE PlanFatal(t)
      BY <1>2, <1>3, <1>5, DecideKeeps DEF PlanFatal, o
<1>6. CASE PlanRuns(t)
  <2>1. PICK plan \in Plans :
          Decide(t, o, "EXECUTING", [g EXCEPT !.plan = plan, !.replanning = FALSE, !.ask = FALSE])
        BY <1>6 DEF PlanRuns, o
  <2> DEFINE m == [g EXCEPT !.plan = plan, !.replanning = FALSE, !.ask = FALSE]
  <2>2. m \in Graph /\ m.node = "orchestrate"
        BY <1>2 DEF Graph
  <2> HIDE DEF m
  <2> QED
      BY <1>3, <2>1, <2>2, DecideKeeps DEF m
<1>7. CASE PlanWaits(t)
  <2>1. PICK awaiting \in BOOLEAN, ask \in BOOLEAN :
          Decide(t, IF awaiting THEN c ELSE o, "WAITING",
                 [g EXCEPT !.plan = <<>>, !.replanning = FALSE, !.ask = ask])
        BY <1>7 DEF PlanWaits, o, c
  <2> DEFINE m == [g EXCEPT !.plan = <<>>, !.replanning = FALSE, !.ask = ask]
             e == IF awaiting THEN c ELSE o
  <2>2. m \in Graph /\ m.node = "orchestrate"
        BY <1>2 DEF Graph
  <2>3. /\ e \in Exec /\ e.answer = exec[t].answer /\ e.tier = exec[t].tier
        /\ e.rounds = exec[t].rounds + 1 /\ e.open \subseteq {Step(t)}
        BY <1>3, <1>4
  <2> HIDE DEF m, e
  <2> QED
      BY <2>1, <2>2, <2>3, DecideKeeps DEF m, e
<1> QED
    BY <1>5, <1>6, <1>7

LEMMA SavePlanKeeps ==
  ASSUME LoopInv, NEW t \in Looping, SavePlan(t), EvInv'
  PROVE  LoopInv'
<1> DEFINE x == exec[t]
           e == [x EXCEPT !.pc = "saved"]
<1>1. /\ x.pc = "decided" /\ x.mem.node = "orchestrate" /\ Works(t, e)
      /\ budget' = [budget EXCEPT ![t] = x.mem.spent]
      /\ UNCHANGED <<evVars, stack, decisions>> /\ at' = at
      BY DEF SavePlan, At, evVars
<1>2. /\ e \in Exec /\ e.pc = "saved" /\ e.mem = x.mem /\ e.answer = x.answer
      /\ e.tier = x.tier /\ e.open = x.open /\ e.rounds = x.rounds
      BY Here DEF Exec
<1> HIDE DEF e
<1>3. Entered(e, ckpt[t], phase[t])
      BY <1>1, <1>2, Here DEF Entered, PcsAt
<1>4. Rounds(e, decisions[t])
      BY <1>1, <1>2, Here DEF Rounds, Quiet
<1>5. Budgeted(e, ckpt[t], x.mem.spent)
  <2>1. ~e.answer
        BY <1>1, <1>2, Here DEF Entered
  <2>2. ~Opening(e)
        BY <1>1, <1>2, <2>1 DEF Opening
  <2> QED
      BY <1>1, <1>2, <2>2, Here DEF Budgeted
<1>6. /\ budget' \in [Looping -> Spent] /\ budget'[t] = x.mem.spent
      /\ \A v \in Looping : v # t => budget'[v] = budget[v]
      BY <1>1, Here DEF LoopInv, TypeOK
<1>7. x.pc # "off" /\ Len(stack[t]) <= MaxGoals
      BY <1>1, Here
<1> QED
    BY <1>1, <1>2, <1>3, <1>4, <1>5, <1>6, <1>7, WorksKeeps DEF LoopInv, TypeOK

LEMMA DecidedKeeps ==
  ASSUME LoopInv, NEW t \in Looping, Decided(t), EvInv'
  PROVE  LoopInv'
<1> DEFINE x == exec[t]
           c == Closed(x, x.mem.step)
           target == x.mem.status
           e == IF target = "FAILED" THEN c ELSE x
<1>1. x.pc = "saved" /\ x.mem.node = "orchestrate" /\ Return(t, target, e)
      BY DEF Decided, At
<1>2. /\ x \in Exec /\ ckpt[t].node = "orchestrate" /\ ckpt[t].status \in ActiveAt.orchestrate
      /\ ~x.answer /\ target \in {"EXECUTING", "WAITING", "FAILED"}
      BY <1>1, Here DEF Entered
<1>3. x.open \subseteq {x.mem.step}
      BY <1>1, Here DEF Rounds, Quiet
<1>4. /\ Affordable(x.mem.spent) /\ x.tier = 0
      /\ \/ x.rounds <= x.mem.spent.replans + 1
         \/ target = "FAILED" /\ x.rounds <= MaxReplans + 2
      BY <1>1, Here DEF Budgeted
<1>5. /\ c \in Exec /\ c.mem = x.mem /\ c.answer = x.answer /\ c.tier = x.tier
      /\ c.rounds = x.rounds /\ c.open \subseteq {x.mem.step}
      BY <1>2, <1>3 DEF Closed, Exec
<1> HIDE DEF c
<1>6. /\ e \in Exec /\ e.mem = x.mem /\ ~e.answer /\ e.tier = x.tier
      /\ e.rounds = x.rounds /\ e.open \subseteq {x.mem.step}
      BY <1>2, <1>3, <1>5
<1>7. target \in Phase
      BY <1>2 DEF Phase
<1> HIDE DEF e
<1> QED
    BY <1>1, <1>2, <1>4, <1>6, <1>7, ReturnKeeps

-----------------------------------------------------------------------------
(* dispatch *)

\* A tier is paid for when it is through, and no tier starts beyond the budget.
LEMMA TierSpentIs ==
  ASSUME LoopInv, NEW t \in Looping
  PROVE  /\ TierSpent(exec[t]) \in Spent
         /\ TierSpent(exec[t]).replans = exec[t].mem.spent.replans
         /\ Affordable(TierSpent(exec[t]))
<1> DEFINE x == exec[t]
           plan == x.mem.plan
           n == IF x.tier = 0 THEN 0 ELSE plan[x.tier]
<1>1. /\ x.mem.spent \in Spent /\ x.mem.spent.steps \in Nat /\ plan \in Plans \cup {<<>>}
      /\ x.tier \in Nat /\ MaxSteps \in Nat
      BY Here, LoopAssumption DEF Graph
<1>2. Affordable(x.mem.spent) /\ (x.tier # 0 => x.tier \in 1..Len(plan) /\ x.mem.spent.steps < MaxSteps)
      BY Here DEF Budgeted
<1>3. x.tier # 0 => plan \in Plans /\ x.tier \in DOMAIN plan /\ plan[x.tier] \in Nat
      BY <1>1, <1>2, PlanTyped
<1>4. n \in Nat
      BY <1>3
<1>5. /\ TierSpent(x) \in Spent /\ TierSpent(x).steps = x.mem.spent.steps + n
      /\ TierSpent(x).replans = x.mem.spent.replans
      BY <1>1, <1>4 DEF TierSpent, Spent
<1>6. CASE x.tier = 0
  <2>1. TierSpent(x).steps = x.mem.spent.steps
        BY <1>1, <1>5, <1>6
  <2> QED
      BY <1>2, <1>5, <2>1 DEF Affordable
<1>7. CASE x.tier # 0
  <2>1. n = plan[x.tier] /\ x.mem.spent.steps < MaxSteps
        BY <1>2, <1>7
  <2> HIDE DEF n
  <2>2. TierSpent(x).steps < MaxSteps + n
    <3>1. \A i, j, k \in Nat : i < j => i + k < j + k
          OBVIOUS
    <3>2. x.mem.spent.steps + n < MaxSteps + n
          BY <1>1, <1>4, <2>1, <3>1
    <3> QED
        BY <1>5, <3>2
  <2> QED
      BY <1>2, <1>3, <1>5, <1>7, <2>1, <2>2 DEF Affordable
<1> QED
    BY <1>5, <1>6, <1>7

\* A step within dispatch, at most with another budget.
LEMMA DispatchKeeps ==
  ASSUME LoopInv, NEW t \in Looping, NEW e, e \in Exec, Works(t, e), EvInv', UNCHANGED at,
         exec[t].pc # "off", ckpt[t].node = "dispatch", ckpt[t].status = "EXECUTING",
         ~exec[t].answer, exec[t].mem.status = "EXECUTING",
         e.pc \in {"work", "spent", "saved"}, e.mem.node = "dispatch",
         e.mem.status = "EXECUTING", e.answer = exec[t].answer,
         e.open = exec[t].open, e.mem.step = exec[t].mem.step,
         e.rounds = exec[t].rounds, e.mem.spent.replans = exec[t].mem.spent.replans,
         Affordable(e.mem.spent),
         IF e.pc = "work" THEN e.tier \in 1..Len(e.mem.plan) /\ e.mem.spent.steps < MaxSteps
                          ELSE e.tier = 0,
         budget' \in [Looping -> Spent], Affordable(budget'[t]),
         \A v \in Looping : v # t => budget'[v] = budget[v],
         UNCHANGED <<stack, decisions>>
  PROVE  LoopInv'
<1> DEFINE x == exec[t]
<1>1. x.pc # "off" /\ x.mem.node = "dispatch" /\ x.pc \in {"node", "work", "spent", "saved", "done"}
      BY Here DEF Entered, PcsAt
<1>2. Entered(e, ckpt[t], phase[t])
      BY DEF Entered, PcsAt, ActiveAt
<1>3. Rounds(e, decisions[t])
  <2>1. x.open \subseteq {x.mem.step}
        BY <1>1, Here DEF Rounds, Quiet
  <2> QED
      BY <2>1 DEF Rounds, Quiet
<1>4. Budgeted(e, ckpt[t], budget'[t])
  <2>1. x.rounds <= x.mem.spent.replans + 1 /\ Affordable(ckpt[t].spent)
        BY <1>1, Here DEF Budgeted
  <2>2. ~Opening(e)
        BY DEF Opening
  <2>3. e.rounds <= e.mem.spent.replans + 1
        BY <2>1
  <2> QED
      BY <2>1, <2>2, <2>3 DEF Budgeted
<1> QED
    BY <1>2, <1>3, <1>4, Here, WorksKeeps DEF LoopInv, TypeOK

LEMMA AtDispatch ==
  ASSUME LoopInv, NEW t \in Looping, exec[t].mem.node = "dispatch",
         \/ exec[t].pc = "node" /\ exec[t].mem.status = "EXECUTING"
         \/ exec[t].pc \in {"work", "spent"}
  PROVE  /\ ckpt[t].node = "dispatch" /\ ckpt[t].status = "EXECUTING"
         /\ exec[t].mem.status = "EXECUTING" /\ ~exec[t].answer
         /\ exec[t].pc \in {"node", "work", "spent"}
         /\ exec[t].pc # "work" => exec[t].tier = 0
  BY Here DEF Entered, ActiveAt, Budgeted

LEMMA NextTierKeeps ==
  ASSUME LoopInv, NEW t \in Looping, NextTier(t), EvInv'
  PROVE  LoopInv'
<1> DEFINE x == exec[t]
           spent == TierSpent(x)
           out == IF x.pc = "node" THEN {} ELSE x.mem.out
           y == [x EXCEPT !.mem.spent = spent, !.mem.out = out]
           plan == x.mem.plan
           work == [y EXCEPT !.pc = "work", !.tier = x.tier + 1, !.left = plan[x.tier + 1]]
           over == [y EXCEPT !.pc = "spent", !.tier = 0, !.left = 0]
<1>1. /\ x.mem.node = "dispatch" /\ x.pc \in {"node", "work"}
      /\ \/ x.pc = "node" /\ x.mem.status = "EXECUTING"
         \/ x.pc = "work"
      /\ UNCHANGED <<evVars, budget, stack, decisions>> /\ at' = at
      BY DEF NextTier, At, evVars
<1>2. /\ ckpt[t].node = "dispatch" /\ ckpt[t].status = "EXECUTING"
      /\ x.mem.status = "EXECUTING" /\ ~x.answer
      /\ x \in Exec /\ x.mem \in Graph /\ plan \in Plans \cup {<<>>} /\ x.tier \in Nat
      /\ x.mem.out \in SUBSET Outcome /\ Affordable(budget[t])
      BY <1>1, AtDispatch, Here DEF Graph, Budgeted
<1>3. spent \in Spent /\ spent.replans = x.mem.spent.replans /\ Affordable(spent)
      BY TierSpentIs
<1>4. y = [x EXCEPT !.mem.spent = spent, !.mem.out = IF x.pc = "node" THEN {} ELSE x.mem.out]
      OBVIOUS
<1>5. /\ y \in Exec /\ y.mem.node = x.mem.node /\ y.mem.status = x.mem.status
      /\ y.mem.spent = spent /\ y.mem.step = x.mem.step /\ y.mem.plan = plan
      /\ y.answer = x.answer /\ y.open = x.open /\ y.rounds = x.rounds
      /\ y.tier = x.tier /\ y.pc = x.pc
  <2>1. out \in SUBSET Outcome
        BY <1>2
  <2> HIDE DEF spent, out
  <2> QED
      BY <1>2, <1>3, <2>1 DEF Exec, Graph
<1>6. IF x.tier < Len(plan) /\ ~Exhausted(spent) THEN Works(t, work) ELSE Works(t, over)
  <2>1. x \in Exec /\ x.mem \in Graph
        BY <1>2
  <2> QED
      BY <1>5 DEF NextTier
<1>7. CASE x.tier < Len(plan) /\ ~Exhausted(spent)
  <2>1. x.tier + 1 \in 1..Len(plan) /\ plan[x.tier + 1] \in Nat
    <3>1. Len(plan) \in Nat
          BY <1>2, PlanTyped
    <3>2. x.tier + 1 \in 1..Len(plan)
          BY <1>2, <1>7, <3>1
    <3> QED
        BY <1>2, <3>2, PlanTyped
  <2>2. spent.steps < MaxSteps
        BY <1>3, <1>7, LoopAssumption DEF Exhausted, Spent
  <2> DEFINE i == x.tier + 1
             size == plan[i]
  <2>4. i \in Nat /\ size \in Nat /\ i \in 1..Len(plan)
        BY <1>2, <2>1
  <2> HIDE DEF spent, y, plan, i, size
  <2>3. /\ work \in Exec /\ work.pc = "work" /\ work.mem = y.mem /\ work.answer = y.answer
        /\ work.open = y.open /\ work.rounds = y.rounds /\ work.tier = i
    <3>1. work = [y EXCEPT !.pc = "work", !.tier = i, !.left = size]
          BY DEF i, size
    <3> HIDE DEF work
    <3> QED
        BY <1>5, <2>4, <3>1 DEF Exec
  <2> HIDE DEF work
  <2> QED
      BY <1>1, <1>2, <1>3, <1>5, <1>6, <1>7, <2>2, <2>3, <2>4, DispatchKeeps DEF LoopInv, TypeOK
<1>8. CASE ~(x.tier < Len(plan) /\ ~Exhausted(spent))
  <2> HIDE DEF spent, y, plan
  <2>1. /\ over \in Exec /\ over.pc = "spent" /\ over.mem = y.mem /\ over.answer = y.answer
        /\ over.open = y.open /\ over.rounds = y.rounds /\ over.tier = 0
        BY <1>5 DEF Exec
  <2> HIDE DEF over
  <2> QED
      BY <1>1, <1>2, <1>3, <1>5, <1>6, <1>8, <2>1, DispatchKeeps DEF LoopInv, TypeOK
<1> QED
    BY <1>7, <1>8

LEMMA SettlesKeeps ==
  ASSUME LoopInv, NEW t \in Looping, NEW o \in Outcome, Running(t), Settles(t, o),
         EvInv', UNCHANGED <<at, budget, stack, decisions>>
  PROVE  LoopInv'
<1> DEFINE x == exec[t]
           left == x.left - 1
           out == x.mem.out \cup {o}
           e == [x EXCEPT !.left = left, !.mem.out = out]
<1>1. /\ x.pc = "work" /\ x.mem.node = "dispatch" /\ x.left > 0 /\ Works(t, e)
      BY DEF Running, Settles, At
<1>2. /\ ckpt[t].node = "dispatch" /\ ckpt[t].status = "EXECUTING"
      /\ x.mem.status = "EXECUTING" /\ ~x.answer
      /\ x \in Exec /\ x.mem \in Graph /\ x.left \in Nat /\ x.mem.out \in SUBSET Outcome
      /\ Affordable(x.mem.spent) /\ Affordable(budget[t])
      /\ x.tier \in 1..Len(x.mem.plan) /\ x.mem.spent.steps < MaxSteps
      BY <1>1, AtDispatch, Here DEF Graph, Budgeted
<1>3. left \in Nat /\ out \in SUBSET Outcome
      BY <1>1, <1>2
<1> HIDE DEF left, out
<1>4. /\ e \in Exec /\ e.pc = x.pc /\ e.mem.node = x.mem.node /\ e.mem.status = x.mem.status
      /\ e.mem.spent = x.mem.spent /\ e.mem.step = x.mem.step /\ e.mem.plan = x.mem.plan
      /\ e.answer = x.answer /\ e.open = x.open /\ e.rounds = x.rounds /\ e.tier = x.tier
      BY <1>2, <1>3 DEF Exec, Graph
<1> HIDE DEF e
<1> QED
    BY <1>1, <1>2, <1>4, DispatchKeeps DEF LoopInv, TypeOK

LEMMA TaskEndsKeeps ==
  ASSUME LoopInv, NEW t \in Looping, TaskEnds(t) \/ TaskStored(t), EvInv'
  PROVE  LoopInv'
<1>1. Running(t) /\ UNCHANGED <<at, budget, stack, decisions>>
      BY DEF TaskEnds, TaskStored, Release, evVars
<1>2. \E o \in Outcome : Settles(t, o)
      BY DEF TaskEnds, TaskStored
<1> QED
    BY <1>1, <1>2, SettlesKeeps

LEMMA TaskRefusedKeeps ==
  ASSUME LoopInv, NEW t \in Looping, TaskRefused(t), EvInv'
  PROVE  LoopInv'
<1>1. Running(t) /\ ckpt[t].node = "dispatch"
      BY AtDispatch DEF TaskRefused, Running, At
<1>2. CASE Release(t) /\ Settles(t, "failed") /\ UNCHANGED <<budget, stack, decisions>>
  <2>1. "failed" \in Outcome /\ at' = at
        BY <1>2 DEF Outcome, Release
  <2> QED
      BY <1>1, <1>2, <2>1, SettlesKeeps
<1>3. CASE Ends(t)
      BY <1>1, <1>3, EndsKeeps
<1> QED
    BY <1>2, <1>3 DEF TaskRefused

LEMMA SaveBudgetKeeps ==
  ASSUME LoopInv, NEW t \in Looping, SaveBudget(t), EvInv'
  PROVE  LoopInv'
<1> DEFINE x == exec[t]
           e == [x EXCEPT !.pc = "saved"]
<1>1. /\ x.pc = "spent" /\ x.mem.node = "dispatch" /\ Works(t, e)
      /\ budget' = [budget EXCEPT ![t] = x.mem.spent]
      /\ UNCHANGED <<evVars, stack, decisions>> /\ at' = at
      BY DEF SaveBudget, At, evVars
<1>2. /\ ckpt[t].node = "dispatch" /\ ckpt[t].status = "EXECUTING"
      /\ x.mem.status = "EXECUTING" /\ ~x.answer /\ x.tier = 0
      /\ x \in Exec /\ x.mem.spent \in Spent /\ Affordable(x.mem.spent)
      BY <1>1, AtDispatch, Here DEF Budgeted
<1>3. /\ e \in Exec /\ e.pc = "saved" /\ e.mem = x.mem /\ e.answer = x.answer
      /\ e.open = x.open /\ e.rounds = x.rounds /\ e.tier = x.tier
      BY <1>2 DEF Exec
<1> HIDE DEF e
<1>4. /\ budget' \in [Looping -> Spent] /\ budget'[t] = x.mem.spent
      /\ \A v \in Looping : v # t => budget'[v] = budget[v]
      BY <1>1, <1>2 DEF LoopInv, TypeOK
<1> QED
    BY <1>1, <1>2, <1>3, <1>4, DispatchKeeps

LEMMA DispatchedKeeps ==
  ASSUME LoopInv, NEW t \in Looping, Dispatched(t) \/ Observe(t), EvInv'
  PROVE  LoopInv'
<1> DEFINE x == exec[t]
<1>1. CASE Dispatched(t)
  <2>1. x.pc = "saved" /\ x.mem.node = "dispatch" /\ Return(t, "OBSERVING", x)
        BY <1>1 DEF Dispatched, At
  <2>2. /\ x \in Exec /\ ckpt[t].node = "dispatch" /\ ckpt[t].status \in ActiveAt.dispatch
        /\ ~x.answer
        BY <2>1, Here DEF Entered
  <2>3. x.open \subseteq {x.mem.step}
        BY <2>1, Here DEF Rounds, Quiet
  <2>4. x.mem.status = "EXECUTING"
        BY <2>1, <2>2, Here DEF Entered, ActiveAt
  <2>5. Affordable(x.mem.spent) /\ x.tier = 0 /\ x.rounds <= x.mem.spent.replans + 1
        BY <2>1, <2>4, Here DEF Budgeted
  <2>6. "OBSERVING" \in Phase
        BY DEF Phase
  <2> QED
      BY <2>1, <2>2, <2>3, <2>5, <2>6, ReturnKeeps
<1>2. CASE Observe(t)
  <2>1. /\ x.pc = "node" /\ x.mem.node = "observe" /\ Return(t, "UPDATING", x)
        /\ x.mem.status \in {"OBSERVING", "EXECUTING"}
        BY <1>2 DEF Observe, At
  <2>2. /\ x \in Exec /\ ckpt[t] = x.mem /\ ckpt[t].status \in ActiveAt.observe /\ ~x.answer
    <3>1. x \in Exec /\ ckpt[t] = x.mem /\ ~x.answer
          BY <2>1, Here DEF Entered
    <3>2. ckpt[t].status \in ActiveAt.observe \cup PassedAt.observe
          BY <2>1, <3>1, Here DEF Kept, ActiveAt, PassedAt
    <3> QED
        BY <2>1, <3>1, <3>2 DEF ActiveAt, PassedAt, Terminal
  <2>3. x.open \subseteq {x.mem.step}
        BY <2>1, Here DEF Rounds, Quiet
  <2>4. Affordable(x.mem.spent) /\ x.tier = 0 /\ x.rounds <= x.mem.spent.replans + 1
        BY <2>1, Here DEF Budgeted
  <2>5. "UPDATING" \in Phase
        BY DEF Phase
  <2> QED
      BY <2>1, <2>2, <2>3, <2>4, <2>5, ReturnKeeps
<1> QED
    BY <1>1, <1>2

-----------------------------------------------------------------------------
(* update_state *)

LEMMA UpdateKeeps ==
  ASSUME LoopInv, NEW t \in Looping, Update(t), EvInv'
  PROVE  LoopInv'
<1> DEFINE x == exec[t]
           e == [x EXCEPT !.pc = "fold"]
<1>1. /\ x.pc = "node" /\ x.mem.node = "update" /\ x.mem.status = "UPDATING" /\ Works(t, e)
      /\ UNCHANGED <<at, budget, stack, decisions>>
      BY DEF Update, At, BeginFold
<1>2. /\ x \in Exec /\ ckpt[t] = x.mem /\ ~x.answer /\ x.open \subseteq {x.mem.step} /\ x.tier = 0
      BY <1>1, Here DEF Entered, Rounds, Quiet, Budgeted
<1>3. /\ e \in Exec /\ e.pc = "fold" /\ e.mem = x.mem /\ e.answer = x.answer
      /\ e.open = x.open /\ e.rounds = x.rounds /\ e.tier = x.tier
      BY <1>2 DEF Exec
<1> HIDE DEF e
<1>4. Entered(e, ckpt[t], phase[t])
      BY <1>1, <1>2, <1>3 DEF Entered, PcsAt, ActiveAt
<1>5. Rounds(e, decisions[t])
      BY <1>1, <1>2, <1>3 DEF Rounds, Quiet
<1>6. Budgeted(e, ckpt[t], budget[t])
  <2>1. ~Opening(e)
        BY <1>1, <1>2, <1>3 DEF Opening
  <2> QED
      BY <1>1, <1>2, <1>3, <2>1, Here DEF Budgeted
<1> QED
    BY <1>1, <1>3, <1>4, <1>5, <1>6, Here, WorksKeeps DEF LoopInv, TypeOK

LEMMA UpdatedKeeps ==
  ASSUME LoopInv, NEW t \in Looping, Updated(t), EvInv'
  PROVE  LoopInv'
<1> DEFINE x == exec[t]
           e == [x EXCEPT !.pc = "done"]
<1>1. x.pc = "fold" /\ x.mem.node = "update"
      BY DEF Updated, At
<1>2. /\ x \in Exec /\ x.mem \in Graph /\ ckpt[t].node = "update" /\ ckpt[t].status = "UPDATING"
      /\ x.mem.status = "UPDATING" /\ phase[t] = "UPDATING" /\ ~x.answer
      BY <1>1, Here DEF Entered, Kept, ActiveAt
<1>3. CASE Ends(t)
      BY <1>2, <1>3, EndsKeeps
<1>4. CASE Release(t) /\ Works(t, e) /\ UNCHANGED <<budget, stack, decisions>>
  <2>1. x.open \subseteq {x.mem.step} /\ x.tier = 0
        BY <1>1, Here DEF Rounds, Quiet, Budgeted
  <2>2. /\ e \in Exec /\ e.pc = "done" /\ e.mem = x.mem /\ e.answer = x.answer
        /\ e.open = x.open /\ e.rounds = x.rounds /\ e.tier = x.tier
        BY <1>2 DEF Exec
  <2> HIDE DEF e
  <2>3. Entered(e, ckpt[t], phase[t])
    <3>1. Successor(e.mem) = "evaluate"
          BY <1>1, <1>2, <2>2, SuccessorIs
    <3> QED
        BY <1>1, <1>2, <2>2, <3>1 DEF Entered, ActiveAt
  <2>4. Rounds(e, decisions[t])
        BY <1>1, <2>1, <2>2 DEF Rounds, Quiet
  <2>5. Budgeted(e, ckpt[t], budget[t])
    <3>1. ~Opening(e)
          BY <1>1, <1>2, <2>2 DEF Opening
    <3> QED
        BY <1>1, <2>1, <2>2, <3>1, Here DEF Budgeted
  <2>6. at' = at
        BY <1>4 DEF Release
  <2> QED
      BY <1>1, <1>4, <2>2, <2>3, <2>4, <2>5, <2>6, Here, WorksKeeps DEF LoopInv, TypeOK
<1> QED
    BY <1>3, <1>4 DEF Updated

-----------------------------------------------------------------------------
(* evaluate_goal, await_user *)

LEMMA AtEvaluate ==
  ASSUME LoopInv, NEW t \in Looping, exec[t].mem.node = "evaluate",
         \/ exec[t].pc = "node" /\ exec[t].mem.status = "UPDATING"
         \/ exec[t].pc = "popped"
  PROVE  /\ ckpt[t].node = "evaluate" /\ ckpt[t].status = "UPDATING"
         /\ exec[t].mem.status = "UPDATING" /\ ~exec[t].answer
         /\ exec[t].open \subseteq {exec[t].mem.step} /\ exec[t].tier = 0
         /\ Affordable(exec[t].mem.spent)
         /\ exec[t].rounds <= exec[t].mem.spent.replans + 1
<1> DEFINE x == exec[t]
<1>1. /\ ckpt[t].node = "evaluate" /\ ckpt[t].status = "UPDATING" /\ x.mem.status = "UPDATING"
      /\ ~x.answer
      BY Here DEF Entered, ActiveAt
<1>2. x.open \subseteq {x.mem.step}
      BY Here DEF Rounds, Quiet
<1>3. x.tier = 0 /\ Affordable(x.mem.spent) /\ x.rounds <= x.mem.spent.replans + 1
      BY <1>1, Here DEF Budgeted
<1> QED
    BY <1>1, <1>2, <1>3

LEMMA RoundClosedIs ==
  ASSUME LoopInv, NEW t \in Looping, exec[t].open \subseteq {exec[t].mem.step}
  PROVE  /\ RoundClosed(t) \in Exec /\ RoundClosed(t).mem = exec[t].mem
         /\ RoundClosed(t).answer = exec[t].answer /\ RoundClosed(t).tier = exec[t].tier
         /\ RoundClosed(t).rounds = exec[t].rounds /\ RoundClosed(t).open = {}
         /\ RoundClosed(t).pc = exec[t].pc
  BY Here DEF RoundClosed, Closed, Exec

LEMMA AchievedKeeps ==
  ASSUME LoopInv, NEW t \in Looping, Achieved(t), EvInv'
  PROVE  LoopInv'
<1> DEFINE x == exec[t]
           e == [x EXCEPT !.pc = "popped"]
           s == Without(stack[t], x.mem.goal)
<1>1. /\ x.pc = "node" /\ x.mem.node = "evaluate" /\ x.mem.status = "UPDATING" /\ Works(t, e)
      /\ UNCHANGED <<evVars, budget, decisions>> /\ at' = at
      /\ stack' = [stack EXCEPT ![t] = s]
      BY DEF Achieved, Evaluating, At, evVars
<1>2. /\ x \in Exec /\ ckpt[t] = x.mem /\ ~x.answer /\ x.open \subseteq {x.mem.step} /\ x.tier = 0
      BY <1>1, AtEvaluate, Here DEF Entered
<1>3. s \in Seq(Nat) /\ Len(s) <= MaxGoals
  <2>1. s \in Seq(Nat) /\ Len(s) <= Len(stack[t]) /\ stack[t] \in Seq(Nat)
        BY Here, WithoutTyped
  <2>2. Len(s) \in Nat /\ Len(stack[t]) \in Nat /\ Len(stack[t]) <= MaxGoals /\ MaxGoals \in Nat
        BY <2>1, Here, LoopAssumption
  <2> HIDE DEF s
  <2> QED
      BY <2>1, <2>2
<1> HIDE DEF s
<1>4. /\ stack' \in [Looping -> Seq(Nat)] /\ Len(stack'[t]) <= MaxGoals
      /\ \A v \in Looping : v # t => stack'[v] = stack[v]
      BY <1>1, <1>3 DEF LoopInv, TypeOK
<1>5. /\ e \in Exec /\ e.pc = "popped" /\ e.mem = x.mem /\ e.answer = x.answer
      /\ e.open = x.open /\ e.rounds = x.rounds /\ e.tier = x.tier
      BY <1>2 DEF Exec
<1> HIDE DEF e
<1>6. Entered(e, ckpt[t], phase[t])
      BY <1>1, <1>2, <1>5 DEF Entered, PcsAt, ActiveAt
<1>7. Rounds(e, decisions[t])
      BY <1>1, <1>2, <1>5 DEF Rounds, Quiet
<1>8. Budgeted(e, ckpt[t], budget[t])
  <2>1. ~Opening(e)
        BY <1>1, <1>2, <1>5 DEF Opening
  <2> QED
      BY <1>1, <1>2, <1>5, <2>1, Here DEF Budgeted
<1> QED
    BY <1>1, <1>4, <1>5, <1>6, <1>7, <1>8, WorksKeeps DEF LoopInv, TypeOK

\* The verdict on a round closes it.
LEMMA VerdictKeeps ==
  ASSUME LoopInv, NEW t \in Looping, EvInv',
         NEW target \in Terminal \cup {"WAITING", "REPLANNING"},
         NEW replanning \in BOOLEAN, NEW ask \in BOOLEAN, NEW goal \in Nat,
         exec[t].mem.node = "evaluate",
         \/ exec[t].pc = "node" /\ exec[t].mem.status = "UPDATING"
         \/ exec[t].pc = "popped",
         target = "REPLANNING" => replanning = TRUE,
         Return(t, target, [RoundClosed(t) EXCEPT !.mem.replanning = replanning,
                              !.mem.ask = ask, !.mem.goal = goal])
  PROVE  LoopInv'
<1> DEFINE x == exec[t]
           c == RoundClosed(t)
           e == [c EXCEPT !.mem.replanning = replanning, !.mem.ask = ask, !.mem.goal = goal]
<1>1. /\ ckpt[t].node = "evaluate" /\ ckpt[t].status \in ActiveAt.evaluate
      /\ ~x.answer /\ x.open \subseteq {x.mem.step} /\ x.tier = 0 /\ x.pc # "off"
      /\ Affordable(x.mem.spent) /\ x.rounds <= x.mem.spent.replans + 1
      BY AtEvaluate DEF ActiveAt
<1>2. /\ c \in Exec /\ c.mem = x.mem /\ x.mem \in Graph /\ c.answer = x.answer
      /\ c.tier = x.tier /\ c.rounds = x.rounds /\ c.open = {}
      BY <1>1, RoundClosedIs, Here
<1> HIDE DEF c
<1>3. /\ e \in Exec /\ e.mem.node = "evaluate" /\ e.mem.spent = x.mem.spent
      /\ e.mem.replanning = replanning /\ e.open = {} /\ e.answer = x.answer
      /\ e.tier = x.tier /\ e.rounds = x.rounds
      BY <1>2 DEF Exec, Graph
<1>4. Return(t, target, e)
      BY DEF c
<1> HIDE DEF e
<1>5. target = "REPLANNING" => e.rounds = 0 \/ e.mem.replanning
      BY <1>3
<1>6. target \in Phase /\ target \in Terminal \cup {"WAITING", "REPLANNING"}
      BY DEF Phase, Terminal
<1> QED
    BY <1>1, <1>3, <1>4, <1>5, <1>6, ReturnKeeps

LEMMA EvaluatedKeeps ==
  ASSUME LoopInv, NEW t \in Looping, EvInv',
         Popped(t) \/ TurnComplete(t) \/ NoProgress(t) \/ Replan(t)
  PROVE  LoopInv'
<1> DEFINE x == exec[t]
           c == RoundClosed(t)
           P(target, replanning, ask, goal) ==
             Return(t, target, [c EXCEPT !.mem.replanning = replanning, !.mem.ask = ask,
                                         !.mem.goal = goal])
<1>1. /\ x.mem.node = "evaluate"
      /\ \/ x.pc = "node" /\ x.mem.status = "UPDATING"
         \/ x.pc = "popped"
      BY DEF Popped, TurnComplete, NoProgress, Replan, Evaluating, At
<1>2. /\ c \in Exec /\ c.mem = x.mem /\ x.mem \in Graph
      /\ x.mem.replanning \in BOOLEAN /\ x.mem.ask \in BOOLEAN /\ x.mem.goal \in Nat
      BY <1>1, AtEvaluate, RoundClosedIs, Here DEF Graph
<1> DEFINE r == x.mem.replanning
           a == x.mem.ask
           g == x.mem.goal
<1> HIDE DEF c
<1>3. /\ c = [c EXCEPT !.mem.replanning = r, !.mem.ask = a, !.mem.goal = g]
      /\ [c EXCEPT !.mem.replanning = TRUE] =
           [c EXCEPT !.mem.replanning = TRUE, !.mem.ask = a, !.mem.goal = g]
      /\ \A y \in Nat : [c EXCEPT !.mem.replanning = TRUE, !.mem.goal = y] =
           [c EXCEPT !.mem.replanning = TRUE, !.mem.ask = a, !.mem.goal = y]
  <2>1. c = [c EXCEPT !.mem.replanning = r, !.mem.ask = a, !.mem.goal = g]
    <3>1. c.mem = [c.mem EXCEPT !.replanning = r, !.ask = a, !.goal = g]
          BY <1>2 DEF Graph
    <3>2. c = [c EXCEPT !.mem = [c.mem EXCEPT !.replanning = r, !.ask = a, !.goal = g]]
          BY <1>2, <3>1 DEF Exec
    <3>3. c.mem \in Graph
          BY <1>2
    <3> HIDE DEF r, a, g
    <3> QED
        BY <1>2, <3>1, <3>2, <3>3 DEF Exec, Graph
  <2>2. [c EXCEPT !.mem.replanning = TRUE] =
           [c EXCEPT !.mem.replanning = TRUE, !.mem.ask = a, !.mem.goal = g]
        BY <1>2 DEF Exec, Graph
  <2>3. \A y \in Nat : [c EXCEPT !.mem.replanning = TRUE, !.mem.goal = y] =
           [c EXCEPT !.mem.replanning = TRUE, !.mem.ask = a, !.mem.goal = y]
        BY <1>2 DEF Exec, Graph
  <2> QED
      BY <2>1, <2>2, <2>3
<1>4. \E target \in Terminal \cup {"WAITING", "REPLANNING"}, replanning, ask \in BOOLEAN,
         goal \in Nat :
        (target = "REPLANNING" => replanning = TRUE) /\ P(target, replanning, ask, goal)
  <2>1. CASE Popped(t)
    <3>1. CASE stack[t] = <<>>
      <4>1. P("COMPLETED", r, a, g)
            BY <1>3, <2>1, <3>1 DEF Popped, c
      <4> QED
          BY <1>2, <4>1 DEF Terminal
    <3>2. CASE stack[t] # <<>>
      <4>1. Current(stack[t]) \in Nat
            BY <3>2, Here, GoalsTyped
      <4>2. P("REPLANNING", TRUE, a, Current(stack[t]))
            BY <1>3, <2>1, <3>2, <4>1 DEF Popped, c
      <4> QED
          BY <1>2, <4>1, <4>2
    <3> QED
        BY <3>1, <3>2
  <2>2. CASE TurnComplete(t)
    <3>1. PICK o \in x.mem.out \cap {"card", "bare"} :
            Return(t, "WAITING", [c EXCEPT !.mem.replanning = FALSE, !.mem.ask = @ \/ o = "card"])
          BY <2>2 DEF TurnComplete, c
    <3>2. [c EXCEPT !.mem.replanning = FALSE, !.mem.ask = @ \/ o = "card"] =
            [c EXCEPT !.mem.replanning = FALSE, !.mem.ask = a \/ o = "card", !.mem.goal = g]
          BY <1>2 DEF Exec, Graph
    <3>3. (a \/ o = "card") \in BOOLEAN
          BY <1>2
    <3>4. P("WAITING", FALSE, a \/ o = "card", g)
          BY <3>1, <3>2
    <3> QED
        BY <1>2, <3>3, <3>4
  <2>3. CASE NoProgress(t)
    <3>1. P("FAILED", r, a, g)
          BY <1>3, <2>3 DEF NoProgress, c
    <3> QED
        BY <1>2, <3>1 DEF Terminal
  <2>4. CASE Replan(t)
    <3>1. P("REPLANNING", TRUE, a, g)
          BY <1>3, <2>4 DEF Replan, c
    <3> QED
        BY <1>2, <3>1
  <2> QED
      BY <2>1, <2>2, <2>3, <2>4
<1> QED
    BY <1>1, <1>4, VerdictKeeps DEF c

LEMMA AwaitKeeps ==
  ASSUME LoopInv, NEW t \in Looping, AwaitRaises(t) \/ Park(t) \/ Finish(t), EvInv'
  PROVE  LoopInv'
<1>1. /\ exec[t].pc = "node" /\ Ends(t)
      /\ exec[t].mem.node = "await" /\ exec[t].mem.ask => ~exec[t].answer
      /\ exec[t].mem.node \in {"await", "end"}
      BY DEF AwaitRaises, Park, Finish, At
<1>2. exec[t].mem = ckpt[t]
      BY <1>1, Here DEF Entered
<1> QED
    BY <1>1, <1>2, EndsKeeps

LEMMA ResumeKeeps ==
  ASSUME LoopInv, NEW t \in Looping, Resume(t), EvInv'
  PROVE  LoopInv'
<1> DEFINE x == exec[t]
           e == [x EXCEPT !.answer = FALSE, !.mem.ask = FALSE]
<1>1. /\ x.pc = "node" /\ x.mem.node = "await" /\ x.answer /\ Return(t, "PLANNING", e)
      BY DEF Resume, At
<1>2. /\ x \in Exec /\ x.mem \in Graph /\ x.mem = ckpt[t] /\ ckpt[t].status \in ActiveAt.await
      /\ x.open = {} /\ x.tier = 0 /\ Affordable(x.mem.spent)
      BY <1>1, Here DEF Entered, Kept, ActiveAt, PassedAt, Rounds, Quiet, Budgeted
<1>3. /\ x.rounds = 0 \/ x.mem.replanning
      /\ x.rounds <= x.mem.spent.replans + 1
  <2>1. Opening(x) /\ x.mem.status # "FAILED"
        BY <1>1, <1>2 DEF Opening, ActiveAt
  <2> QED
      BY <1>1, <2>1, Here DEF Budgeted
<1>4. /\ e \in Exec /\ ~e.answer /\ e.mem.node = "await" /\ e.mem.spent = x.mem.spent
      /\ e.mem.replanning = x.mem.replanning /\ e.open = {} /\ e.tier = 0 /\ e.rounds = x.rounds
      BY <1>1, <1>2 DEF Exec, Graph
<1> HIDE DEF e
<1>5. e.rounds = 0 \/ e.mem.replanning
      BY <1>3, <1>4, Zenon
<1>6. "PLANNING" \in Phase /\ "PLANNING" \in ActiveAt.orchestrate
      BY DEF Phase, ActiveAt
<1> QED
    BY <1>1, <1>2, <1>3, <1>4, <1>5, <1>6, ReturnKeeps

-----------------------------------------------------------------------------
(* The specification *)

LEMMA LedgerOnlyKeeps ==
  ASSUME LoopInv, NEW t \in Task, UNCHANGED loopVars, EvInv',
         EvStep(t) \/ (EvTask(t) /\ t \notin Looping) \/ \E batch \in SUBSET Obs : BeginAppend(t, batch)
  PROVE  LoopInv'
<1>1. CASE EvStep(t) \/ \E batch \in SUBSET Obs : BeginAppend(t, batch)
  <2>1. at' = at
        BY <1>1 DEF EvStep, BeginAppend, AppendRead, AppendCommit, AppendCollides, ReadCursor,
           ReadPage, ReadProfile, ReadRows, WriteRows, WriteFails, ReadPosition, Advance,
           AdvanceFails, FoldStep
  <2> QED
      BY <2>1, LedgerStepKeeps
<1>2. CASE t \notin Looping /\ (BeginFold(t) \/ Release(t) \/ Leave(t) \/ \E p \in Process : Arrive(t, p))
  <2>1. \A v \in Looping : at'[v] = at[v]
        BY <1>2, LoopAssumption DEF BeginFold, Release, Leave, Arrive, LoopInv, TypeOK, EvTypeOK
  <2> QED
      BY <2>1, LedgerStepKeeps
<1> QED
    BY <1>1, <1>2 DEF EvTask

LEMMA NodeKeeps ==
  ASSUME LoopInv, NEW t \in Looping, NodeStep(t), EvInv'
  PROVE  LoopInv'
<1>1. CASE Save(t) \/ Pass(t)
      BY <1>1, SaveKeeps, PassKeeps
<1>2. CASE Interpret(t) \/ Interpreted(t) \/ InterpretFails(t) \/ InterpretNothing(t)
      BY <1>2, InterpretKeeps, InterpretReturns
<1>3. CASE Orchestrate(t) \/ ReplanRefused(t) \/ Blocked(t) \/ PlanRaises(t) \/ PlanExceeds(t)
      BY <1>3, OrchestrateKeeps, ReplanRefusedKeeps, BlockedKeeps, PlanRaisesKeeps, PlanExceedsKeeps
<1>4. CASE PlanFatal(t) \/ PlanRuns(t) \/ PlanWaits(t) \/ SavePlan(t) \/ Decided(t)
      BY <1>4, PlanKeeps, SavePlanKeeps, DecidedKeeps
<1>5. CASE NextTier(t) \/ TaskEnds(t) \/ TaskStored(t) \/ TaskRefused(t)
      BY <1>5, NextTierKeeps, TaskEndsKeeps, TaskRefusedKeeps
<1>6. CASE SaveBudget(t) \/ Dispatched(t) \/ Observe(t) \/ Update(t) \/ Updated(t)
      BY <1>6, SaveBudgetKeeps, DispatchedKeeps, UpdateKeeps, UpdatedKeeps
<1>7. CASE Achieved(t) \/ Popped(t) \/ TurnComplete(t) \/ NoProgress(t) \/ Replan(t)
      BY <1>7, AchievedKeeps, EvaluatedKeeps
<1>8. CASE AwaitRaises(t) \/ Park(t) \/ Resume(t) \/ Finish(t)
      BY <1>8, AwaitKeeps, ResumeKeeps
<1>9. CASE TaskReports(t) \/ (EvStep(t) /\ UNCHANGED loopVars)
  <2>1. t \in Task /\ UNCHANGED loopVars
        BY <1>9, LoopAssumption DEF TaskReports
  <2> QED
      BY <1>9, <2>1, LedgerOnlyKeeps DEF TaskReports
<1> QED
    BY <1>1, <1>2, <1>3, <1>4, <1>5, <1>6, <1>7, <1>8, <1>9 DEF NodeStep

LEMMA LoopNextKeeps ==
  ASSUME LoopInv, [Next]_vars
  PROVE  LoopInv'
<1>1. EvInv'
      BY NextOverLedger, NextKeeps DEF LoopInv
<1>2. ASSUME NEW t \in Looping, Message(t) \/ Answer(t) \/ NodeStep(t) \/ \E p \in Process : Start(t, p)
      PROVE  LoopInv'
      BY <1>1, <1>2, LearnerKeeps, NodeKeeps, StartKeeps
<1>3. ASSUME NEW t \in Task \ Looping, EvTask(t), UNCHANGED loopVars
      PROVE  LoopInv'
      BY <1>1, <1>3, LedgerOnlyKeeps
<1>4. ASSUME NEW p \in Process, Crash(p)
      PROVE  LoopInv'
      BY <1>1, <1>4, CrashKeeps
<1>5. CASE UNCHANGED vars
  <2>1. UNCHANGED loopVars /\ at' = at
        BY <1>5 DEF vars, evVars
  <2> QED
      BY <1>1, <2>1, LedgerStepKeeps
<1> QED
    BY <1>2, <1>3, <1>4, <1>5 DEF Next

LEMMA InitLoopInv == Init => LoopInv
<1> SUFFICES ASSUME Init PROVE LoopInv
    OBVIOUS
<1>1. /\ EvInit /\ phase = [t \in Looping |-> "PLANNING"]
      /\ budget = [t \in Looping |-> [steps |-> 0, replans |-> 0]]
      /\ stack = [t \in Looping |-> <<>>] /\ decisions = [t \in Looping |-> 0]
      /\ command = [t \in Looping |-> "none"]
      /\ ckpt = [t \in Looping |-> NewGraph(budget[t])]
      /\ exec = [t \in Looping |-> Off] /\ reentered = {} /\ turns = 0 /\ crashes = 0
      BY DEF Init
<1>2. EvInv
      BY <1>1, InitEvInv
<1> DEFINE z == [steps |-> 0, replans |-> 0]
           g == NewGraph(z)
<1>3. z \in Spent /\ z.steps = 0 /\ z.replans = 0
      BY DEF Spent
<1>4. /\ g \in Graph /\ g.node = "interpret" /\ g.status = "PLANNING" /\ g.spent = z
      BY <1>3, NewGraphTyped DEF NewGraph
<1>5. ckpt = [t \in Looping |-> g]
      BY <1>1
<1>6. Affordable(z)
      BY <1>3, LoopAssumption DEF Affordable
<1> HIDE DEF z, g
<1>7. /\ phase \in [Looping -> Phase] /\ budget \in [Looping -> Spent]
      /\ stack \in [Looping -> Seq(Nat)] /\ decisions \in [Looping -> Nat]
      /\ command \in [Looping -> {"none", "message", "answer"}]
      /\ ckpt \in [Looping -> Graph] /\ exec \in [Looping -> Exec]
      /\ reentered \subseteq Looping /\ turns \in Nat /\ crashes \in Nat
  <2>1. /\ phase \in [Looping -> Phase] /\ stack \in [Looping -> Seq(Nat)]
        /\ decisions \in [Looping -> Nat]
        /\ command \in [Looping -> {"none", "message", "answer"}]
        BY <1>1 DEF Phase
  <2>2. budget \in [Looping -> Spent]
        BY <1>1, <1>3 DEF z
  <2>3. ckpt \in [Looping -> Graph] /\ exec \in [Looping -> Exec]
        BY <1>1, <1>4, <1>5, OffTyped
  <2>4. reentered \subseteq Looping /\ turns \in Nat /\ crashes \in Nat
        BY <1>1
  <2> QED
      BY <2>1, <2>2, <2>3, <2>4
<1>8. ASSUME NEW t \in Looping PROVE Len(stack[t]) <= MaxGoals /\ Sound(t)
  <2>1. /\ phase[t] = "PLANNING" /\ budget[t] = z /\ stack[t] = <<>> /\ decisions[t] = 0
        /\ command[t] = "none" /\ ckpt[t] = g /\ exec[t] = Off /\ t \notin reentered
        BY <1>1, <1>5 DEF z
  <2>2. /\ Off.pc = "off" /\ Entered(Off, g, "PLANNING") /\ Rounds(Off, 0) /\ Budgeted(Off, g, z)
        BY <1>4, <1>6, OffSound
  <2>3. Kept(g, "PLANNING")
        BY <1>4 DEF Kept, ActiveAt
  <2>4. Confirmed(Off, g, "PLANNING", "none", t \in reentered)
        BY <1>4, <2>1, <2>2 DEF Confirmed
  <2>5. Len(stack[t]) <= MaxGoals
        BY <2>1, LoopAssumption
  <2> QED
      BY <2>1, <2>2, <2>3, <2>4, <2>5 DEF Sound
<1>9. EvTypeOK
      BY <1>2 DEF EvInv
<1> QED
    BY <1>2, <1>7, <1>8, <1>9 DEF LoopInv, TypeOK

LEMMA LoopInvHolds == Spec => []LoopInv
<1>1. LoopInv /\ [Next]_vars => LoopInv'
      BY LoopNextKeeps
<1> QED
    BY InitLoopInv, <1>1, PTL DEF Spec

\* The types of the loop and of the ledger below it.
THEOREM LoopTypeCorrect == Spec => []TypeOK
<1>1. LoopInv => TypeOK
      BY DEF LoopInv
<1> QED
    BY <1>1, LoopInvHolds, PTL

\* Between two nodes the graph is in the phase the database has confirmed,
\* until a crash, and again as soon as a node has returned after it.
THEOREM PhaseConfirmedHolds == Spec => []PhaseConfirmed
<1>1. ASSUME LoopInv PROVE PhaseConfirmed
  <2> SUFFICES ASSUME NEW t \in Looping, exec[t].pc = "node", exec[t].mem.node # "interpret",
                      t \notin reentered
               PROVE  exec[t].mem.status = phase[t]
      BY DEF PhaseConfirmed
  <2>1. exec[t].mem = ckpt[t]
        BY <1>1, Here DEF Entered
  <2> QED
      BY <1>1, <2>1 DEF LoopInv, Sound, Confirmed
<1> QED
    BY <1>1, LoopInvHolds, PTL

\* Whatever way a round ends it is closed before the loop plans again, waits
\* for the learner or stops.
THEOREM RoundsClosedHolds == Spec => []RoundsClosed
<1>1. ASSUME LoopInv PROVE RoundsClosed
      BY <1>1, Here DEF RoundsClosed, Rounds, Quiet
<1> QED
    BY <1>1, LoopInvHolds, PTL

\* Steps are exceeded by less than a tier, replans never, and an execution
\* opens a bounded number of rounds: for every plan and every budget.
THEOREM BudgetsHeld == Spec => []BudgetsHold
<1>1. ASSUME LoopInv PROVE BudgetsHold
  <2>1. ASSUME NEW t \in Looping
        PROVE  /\ Affordable(budget[t]) /\ Affordable(ckpt[t].spent)
               /\ Affordable(exec[t].mem.spent)
               /\ exec[t].rounds <= MaxReplans + 2
    <3>1. /\ Affordable(budget[t]) /\ Affordable(ckpt[t].spent) /\ Affordable(exec[t].mem.spent)
          /\ exec[t].rounds <= exec[t].mem.spent.replans + 1 \/ exec[t].rounds <= MaxReplans + 2
          BY <1>1, Here DEF Budgeted
    <3>2. exec[t].mem.spent.replans <= MaxReplans
          BY <3>1 DEF Affordable
    <3> QED
        BY <1>1, <3>1, <3>2, Here, LoopAssumption
  <2> QED
      BY <2>1 DEF BudgetsHold, Affordable
<1> QED
    BY <1>1, LoopInvHolds, PTL

-----------------------------------------------------------------------------
(* The evidence a round is judged by *)

\* What the execution does with the ledger belongs to the node it is in.
JobAt(t) ==
  /\ job[t].pc \in {"read", "commit", "stored", "refused"} =>
       exec[t].pc = "work" /\ exec[t].left > 0
  /\ job[t].pc \in FoldPcs \cup {"folded", "failed"} => exec[t].pc = "fold"

\* The round is about to be judged, also if that has to be done again.
Judged(t) ==
  \/ ckpt[t].node = "evaluate" /\ ckpt[t].status = "UPDATING"
  \/ ckpt[t].node = "update" /\ exec[t].pc = "done"

JudgedInv ==
  /\ LoopInv
  /\ \A t \in Looping : JobAt(t)
  /\ Clean => /\ \A t \in Task : Covered(t)
              /\ \A t \in Looping : Judged(t) => Learnt(t)

LEMMA JobNames ==
  ASSUME EvInv, NEW t \in Task
  PROVE  job[t].pc \in {"idle", "read", "commit"} \cup FoldPcs \cup EndPcs
  BY DEF EvInv, EvTypeOK, Job

\* Without work for the ledger the execution has none under way.
LEMMA AtRest ==
  ASSUME JudgedInv, NEW t \in Looping,
         exec[t].pc # "fold", exec[t].pc = "work" => exec[t].left = 0
  PROVE  job[t].pc = "idle"
<1>1. t \in Task /\ EvInv /\ JobAt(t)
      BY LoopAssumption DEF JudgedInv, LoopInv
<1>2. job[t].pc \in {"idle", "read", "commit"} \cup FoldPcs \cup EndPcs
      BY <1>1, JobNames
<1>3. exec[t].pc = "work" => ~(exec[t].left > 0)
      OBVIOUS
<1> QED
    BY <1>1, <1>2, <1>3 DEF JobAt, EndPcs

LEMMA JobStep ==
  ASSUME JudgedInv, NEW t \in Looping, NodeStep(t)
  PROVE  JobAt(t)'
<1> USE DEF JudgedInv
<1>1. t \in Task /\ EvInv /\ LoopInv /\ job \in [Task -> Job] /\ exec \in [Looping -> Exec]
      /\ JobAt(t)
      BY LoopAssumption DEF LoopInv, EvInv, EvTypeOK, TypeOK
<1>2. "idle" \notin FoldPcs
      BY DEF FoldPcs
<1>3. ASSUME job'[t].pc = "idle" PROVE JobAt(t)'
      BY <1>2, <1>3 DEF JobAt
<1>4. ASSUME Ends(t) PROVE JobAt(t)'
      BY <1>1, <1>3, <1>4, NoJobTyped DEF Ends, Leave
<1>5. ASSUME Release(t) PROVE JobAt(t)'
      BY <1>1, <1>3, <1>5, NoJobTyped DEF Release
<1>6. ASSUME exec[t].pc # "fold", exec[t].pc = "work" => exec[t].left = 0, UNCHANGED evVars
      PROVE  JobAt(t)'
      BY <1>3, <1>6, AtRest DEF evVars
<1>7. ASSUME exec[t].pc \notin {"fold", "work"}, NEW target, NEW e, Move(t, target, e)
      PROVE  JobAt(t)'
      BY <1>4, <1>6, <1>7 DEF Move
<1>8. ASSUME exec[t].pc \notin {"fold", "work"}, NEW target, NEW e, Return(t, target, e)
      PROVE  JobAt(t)'
      BY <1>7, <1>8 DEF Return
<1>9. CASE Save(t) \/ Pass(t)
      BY <1>6, <1>9 DEF Save, Pass, At, Checkpoints
<1>10. CASE Interpret(t) \/ Interpreted(t) \/ InterpretFails(t) \/ InterpretNothing(t)
  <2>1. exec[t].pc \notin {"fold", "work"}
        BY <1>10 DEF Interpret, Interpreted, InterpretFails, InterpretNothing, At
  <2> QED
      BY <1>6, <1>8, <1>10, <2>1 DEF Interpret, Interpreted, InterpretFails, InterpretNothing
<1>11. CASE Orchestrate(t) \/ ReplanRefused(t) \/ Blocked(t) \/ PlanRaises(t) \/ PlanExceeds(t)
  <2>1. exec[t].pc \notin {"fold", "work"}
        BY <1>11 DEF Orchestrate, ReplanRefused, Blocked, PlanRaises, PlanExceeds, At
  <2> QED
      BY <1>4, <1>6, <1>7, <1>8, <1>11, <2>1
      DEF Orchestrate, ReplanRefused, Blocked, PlanRaises, PlanExceeds
<1>12. CASE PlanFatal(t) \/ PlanRuns(t) \/ PlanWaits(t) \/ SavePlan(t) \/ Decided(t)
  <2>1. exec[t].pc \notin {"fold", "work"}
        BY <1>12 DEF PlanFatal, PlanRuns, PlanWaits, Decide, SavePlan, Decided, At
  <2> QED
      BY <1>6, <1>8, <1>12, <2>1 DEF PlanFatal, PlanRuns, PlanWaits, Decide, SavePlan, Decided
<1>13. CASE SaveBudget(t) \/ Dispatched(t) \/ Observe(t)
  <2>1. exec[t].pc \notin {"fold", "work"}
        BY <1>13 DEF SaveBudget, Dispatched, Observe, At
  <2> QED
      BY <1>6, <1>8, <1>13, <2>1 DEF SaveBudget, Dispatched, Observe
<1>14. CASE NextTier(t)
      BY <1>6, <1>14 DEF NextTier, At
<1>15. CASE TaskEnds(t)
      BY <1>3, <1>15 DEF TaskEnds, evVars
<1>16. CASE TaskStored(t) \/ TaskRefused(t) \/ Updated(t)
      BY <1>4, <1>5, <1>16 DEF TaskStored, TaskRefused, Updated
<1>17. CASE Achieved(t) \/ Popped(t) \/ TurnComplete(t) \/ NoProgress(t) \/ Replan(t)
  <2>1. exec[t].pc \notin {"fold", "work"}
        BY <1>17 DEF Achieved, Popped, TurnComplete, NoProgress, Replan, Evaluating, At
  <2> QED
      BY <1>6, <1>8, <1>17, <2>1 DEF Achieved, Popped, TurnComplete, NoProgress, Replan
<1>18. CASE AwaitRaises(t) \/ Park(t) \/ Resume(t) \/ Finish(t)
  <2>1. exec[t].pc \notin {"fold", "work"}
        BY <1>18 DEF AwaitRaises, Park, Resume, Finish, At
  <2> QED
      BY <1>4, <1>8, <1>18, <2>1 DEF AwaitRaises, Park, Resume, Finish
<1>19. CASE Update(t)
  <2>1. job'[t].pc = "cursor"
        BY <1>1, <1>19, NoJobTyped DEF Update, BeginFold, Job
  <2>2. exec'[t].pc = "fold"
        BY <1>1, <1>19 DEF Update, Works, Exec
  <2> QED
      BY <2>1, <2>2 DEF JobAt
<1>20. CASE TaskReports(t)
  <2>1. job'[t].pc = "read"
        BY <1>1, <1>20, NoJobTyped DEF TaskReports, BeginAppend, Job
  <2>2. exec' = exec /\ exec[t].pc = "work" /\ exec[t].left > 0
        BY <1>20 DEF TaskReports, Running, At, loopVars
  <2>3. "read" \notin FoldPcs
        BY DEF FoldPcs
  <2> QED
      BY <2>1, <2>2, <2>3 DEF JobAt
<1>21. CASE EvStep(t) /\ UNCHANGED loopVars
  <2>1. exec' = exec
        BY <1>21 DEF loopVars
  <2> QED
      BY <1>1, <1>21, <2>1, StaysAtWork DEF JobAt, Folding, FoldPcs
<1> QED
    BY <1>9, <1>10, <1>11, <1>12, <1>13, <1>14, <1>15, <1>16, <1>17, <1>18, <1>19, <1>20, <1>21
    DEF NodeStep

\* At update_state a node step is one of these.
LEMMA AtUpdate ==
  ASSUME NEW t \in Looping, NodeStep(t), exec[t].mem.node = "update"
  PROVE  Save(t) \/ Pass(t) \/ Update(t) \/ Updated(t) \/ UNCHANGED loopVars
<1>1. ~(Interpret(t) \/ Interpreted(t) \/ InterpretFails(t) \/ InterpretNothing(t))
      BY DEF Interpret, Interpreted, InterpretFails, InterpretNothing, At
<1>2. ~(Orchestrate(t) \/ ReplanRefused(t) \/ Blocked(t) \/ PlanRaises(t) \/ PlanExceeds(t))
      BY DEF Orchestrate, ReplanRefused, Blocked, PlanRaises, PlanExceeds, At
<1>3. ~(PlanFatal(t) \/ PlanRuns(t) \/ PlanWaits(t) \/ SavePlan(t) \/ Decided(t))
      BY DEF PlanFatal, PlanRuns, PlanWaits, Decide, SavePlan, Decided, At
<1>4. ~(NextTier(t) \/ TaskEnds(t) \/ TaskStored(t) \/ TaskRefused(t)
        \/ SaveBudget(t) \/ Dispatched(t) \/ Observe(t))
      BY DEF NextTier, TaskEnds, TaskStored, TaskRefused, Running, SaveBudget,
         Dispatched, Observe, At
<1>5. ~(Achieved(t) \/ Popped(t) \/ TurnComplete(t) \/ NoProgress(t) \/ Replan(t))
      BY DEF Achieved, Popped, TurnComplete, NoProgress, Replan, Evaluating, At
<1>6. ~(AwaitRaises(t) \/ Park(t) \/ Resume(t) \/ Finish(t))
      BY DEF AwaitRaises, Park, Resume, Finish, At
<1>7. TaskReports(t) => UNCHANGED loopVars
      BY DEF TaskReports
<1> QED
    BY <1>1, <1>2, <1>3, <1>4, <1>5, <1>6, <1>7 DEF NodeStep

\* Only a node that returns writes the checkpoint.
LEMMA NodeCheckpoint ==
  ASSUME NEW t \in Looping, NodeStep(t)
  PROVE  ckpt' = ckpt \/ Save(t) \/ Pass(t)
<1>1. ASSUME Ends(t) PROVE ckpt' = ckpt
      BY <1>1 DEF Ends
<1>2. ASSUME NEW target, NEW e, Move(t, target, e) PROVE ckpt' = ckpt
      BY <1>1, <1>2 DEF Move
<1>3. ASSUME NEW target, NEW e, Return(t, target, e) PROVE ckpt' = ckpt
      BY <1>2, <1>3 DEF Return
<1>4. ASSUME NEW e, Works(t, e) PROVE ckpt' = ckpt
      BY <1>4 DEF Works
<1>5. CASE Interpret(t) \/ Interpreted(t) \/ InterpretFails(t) \/ InterpretNothing(t)
      BY <1>3, <1>4, <1>5 DEF Interpret, Interpreted, InterpretFails, InterpretNothing
<1>6. CASE Orchestrate(t) \/ ReplanRefused(t) \/ Blocked(t) \/ PlanRaises(t) \/ PlanExceeds(t)
      BY <1>1, <1>2, <1>3, <1>4, <1>6
      DEF Orchestrate, ReplanRefused, Blocked, PlanRaises, PlanExceeds
<1>7. CASE PlanFatal(t) \/ PlanRuns(t) \/ PlanWaits(t) \/ SavePlan(t) \/ Decided(t)
      BY <1>3, <1>4, <1>7 DEF PlanFatal, PlanRuns, PlanWaits, Decide, SavePlan, Decided
<1>8. CASE NextTier(t) \/ TaskEnds(t) \/ SaveBudget(t) \/ Dispatched(t) \/ Observe(t)
      BY <1>3, <1>4, <1>8 DEF NextTier, TaskEnds, Settles, SaveBudget, Dispatched, Observe
<1>9. CASE TaskReports(t) \/ TaskStored(t) \/ TaskRefused(t) \/ Update(t) \/ Updated(t)
      BY <1>1, <1>4, <1>9
      DEF TaskReports, TaskStored, TaskRefused, Settles, Update, Updated, loopVars, dbVars
<1>10. CASE Achieved(t) \/ Popped(t) \/ TurnComplete(t) \/ NoProgress(t) \/ Replan(t)
      BY <1>3, <1>4, <1>10 DEF Achieved, Popped, TurnComplete, NoProgress, Replan
<1>11. CASE AwaitRaises(t) \/ Park(t) \/ Resume(t) \/ Finish(t)
      BY <1>1, <1>3, <1>11 DEF AwaitRaises, Park, Resume, Finish
<1>12. CASE EvStep(t) /\ UNCHANGED loopVars
      BY <1>12 DEF loopVars, dbVars
<1> QED
    BY <1>5, <1>6, <1>7, <1>8, <1>9, <1>10, <1>11, <1>12 DEF NodeStep

\* A node step makes a round ready to be judged only at the end of its fold.
LEMMA BecomesJudged ==
  ASSUME JudgedInv, NEW t \in Looping, NodeStep(t), Judged(t)'
  PROVE  Judged(t) \/ job[t].pc = "folded"
<1>1. /\ LoopInv /\ exec[t] \in Exec /\ exec[t].mem \in Graph /\ ckpt[t] \in Graph
      /\ exec \in [Looping -> Exec] /\ ckpt \in [Looping -> Graph]
      /\ exec[t].mem.node \in Node /\ Entered(exec[t], ckpt[t], phase[t])
      BY Here DEF JudgedInv, LoopInv, TypeOK
<1>2. CASE Save(t)
  <2>1. exec[t].pc = "done" /\ exec[t].mem.node = ckpt[t].node /\ ckpt[t].node # "end"
        BY <1>1, <1>2 DEF Save, Entered
  <2>2. ckpt'[t].node = Successor(exec[t].mem) /\ exec'[t].pc = "node"
    <3> DEFINE g == [exec[t].mem EXCEPT !.node = Successor(exec[t].mem)]
    <3>1. g.node = Successor(exec[t].mem)
          BY <1>1 DEF Graph
    <3>2. ckpt' = [ckpt EXCEPT ![t] = g] /\ exec' = [exec EXCEPT ![t] = [exec[t] EXCEPT !.pc = "node", !.mem = g]]
          BY <1>2 DEF Save, Checkpoints
    <3> HIDE DEF g
    <3>3. [exec[t] EXCEPT !.pc = "node", !.mem = g].pc = "node"
          BY <1>1 DEF Exec
    <3> QED
        BY <1>1, <3>1, <3>2, <3>3
  <2>3. Successor(exec[t].mem) = "evaluate"
        BY <2>2 DEF Judged
  <2>4. exec[t].mem.node = "update"
        BY <1>1, <2>1, <2>3, SuccessorIs DEF Node
  <2> QED
      BY <2>1, <2>4 DEF Judged
<1>3. CASE Pass(t)
  <2>1. exec[t].pc = "node" /\ exec[t].mem = ckpt[t] /\ exec[t].mem.node # "end"
        BY <1>1, <1>3 DEF Pass, At, Entered
  <2>2. Passed(t) \in Exec /\ Passed(t).mem = exec[t].mem
        BY <1>1, Here DEF Passed, Closed, Exec, JudgedInv
  <2>3. /\ ckpt'[t].node = Successor(exec[t].mem) /\ ckpt'[t].status = exec[t].mem.status
        /\ exec'[t].pc = "node"
    <3> DEFINE e == Passed(t)
               g == [e.mem EXCEPT !.node = Successor(e.mem)]
    <3>1. g.node = Successor(exec[t].mem) /\ g.status = exec[t].mem.status
          BY <1>1, <2>2 DEF Graph
    <3>2. ckpt' = [ckpt EXCEPT ![t] = g] /\ exec' = [exec EXCEPT ![t] = [e EXCEPT !.pc = "node", !.mem = g]]
          BY <1>3 DEF Pass, Checkpoints
    <3>3. e \in Exec
          BY <2>2
    <3> HIDE DEF g, e
    <3>4. [e EXCEPT !.pc = "node", !.mem = g].pc = "node"
          BY <3>3 DEF Exec
    <3> QED
        BY <1>1, <3>1, <3>2, <3>4
  <2>4. Successor(exec[t].mem) = "evaluate" /\ exec[t].mem.status = "UPDATING"
        BY <2>3 DEF Judged
  <2>5. exec[t].mem.node = "update"
        BY <1>1, <2>1, <2>4, SuccessorIs DEF Node
  <2> QED
      BY <1>3, <2>4, <2>5 DEF Pass, At
<1>4. CASE ckpt' = ckpt /\ ~Save(t) /\ ~Pass(t)
  <2>1. CASE ckpt[t].node = "evaluate" /\ ckpt[t].status = "UPDATING"
        BY <2>1 DEF Judged
  <2>2. CASE ckpt[t].node = "update" /\ exec'[t].pc = "done"
    <3>1. exec[t].pc # "off"
      <4> SUFFICES ASSUME exec[t].pc = "off" PROVE exec' = exec
          BY <2>2
      <4>1. ~Save(t) /\ \A n, pc : pc # "off" => ~At(t, n, pc)
            BY DEF Save, At
      <4> QED
          BY <4>1 DEF NodeStep, Pass, Interpret, Interpreted, InterpretFails, InterpretNothing,
             Orchestrate, ReplanRefused, Blocked, PlanRaises, PlanExceeds, PlanFatal,
             PlanRuns, PlanWaits, Decide, SavePlan, Decided, NextTier, TaskEnds, TaskStored,
             TaskRefused, TaskReports, Running, SaveBudget, Dispatched, Observe, Update,
             Updated, Achieved, Popped, TurnComplete, NoProgress, Replan, Evaluating,
             AwaitRaises, Park, Resume, Finish, At, loopVars
    <3>2. exec[t].mem.node = "update"
          BY <1>1, <2>2, <3>1 DEF Entered
    <3>3. CASE Update(t)
      <4>1. exec'[t].pc = "fold"
            BY <1>1, <3>3 DEF Update, Works, Exec
      <4> QED
          BY <2>2, <4>1
    <3>4. CASE Updated(t)
      <4>1. Ends(t) => exec'[t].pc = "off"
            BY <1>1, OffTyped DEF Ends, Off
      <4> QED
          BY <2>2, <3>4, <4>1 DEF Updated
    <3>5. CASE UNCHANGED loopVars
          BY <2>2, <3>5 DEF Judged, loopVars
    <3> QED
        BY <1>4, <3>2, <3>3, <3>4, <3>5, AtUpdate
  <2> QED
      BY <1>4, <2>1, <2>2 DEF Judged
<1> QED
    BY <1>2, <1>3, <1>4, NodeCheckpoint

\* A task's part of the ledger is left alone by the others.
LEMMA TheirJob ==
  ASSUME EvInv, NEW v \in Task, EvTask(v), NEW t \in Task, t # v
  PROVE  job'[t] = job[t]
<1>1. job \in [Task -> Job]
      BY DEF EvInv, EvTypeOK
<1> QED
    BY <1>1 DEF EvTask, EvStep, AppendRead, AppendCommit, AppendCollides, ReadCursor, ReadPage,
       ReadProfile, ReadRows, WriteRows, WriteFails, ReadPosition, Advance, AdvanceFails,
       FoldStep, BeginFold, Release, Leave, BeginAppend, Arrive

LEMMA OthersRest ==
  ASSUME LoopInv, NEW v \in Looping, NodeStep(v) \/ \E p \in Process : Start(v, p),
         NEW t \in Looping, t # v
  PROVE  exec'[t] = exec[t] /\ ckpt'[t] = ckpt[t] /\ job'[t] = job[t]
<1> DEFINE Rest == exec'[t] = exec[t] /\ ckpt'[t] = ckpt[t]
<1>1. /\ exec \in [Looping -> Exec] /\ ckpt \in [Looping -> Graph] /\ EvInv
      /\ t \in Task /\ v \in Task
      BY LoopAssumption DEF LoopInv, TypeOK
<1>2. ASSUME Ends(v) PROVE Rest
      BY <1>1, <1>2 DEF Ends
<1>3. ASSUME NEW target, NEW e, Move(v, target, e) PROVE Rest
      BY <1>1, <1>2, <1>3 DEF Move
<1>4. ASSUME NEW target, NEW e, Return(v, target, e) PROVE Rest
      BY <1>3, <1>4 DEF Return
<1>5. ASSUME NEW e, Works(v, e) PROVE Rest
      BY <1>1, <1>5 DEF Works
<1>6. ASSUME NEW e, Checkpoints(v, e) PROVE Rest
      BY <1>1, <1>6 DEF Checkpoints
<1>7. CASE \E p \in Process : Start(v, p)
  <2>1. Rest
        BY <1>1, <1>7 DEF Start
  <2>2. job' = job
        BY <1>7 DEF Start, Arrive
  <2> QED
      BY <2>1, <2>2
<1>8. CASE NodeStep(v)
  <2>1. job'[t] = job[t]
        BY <1>1, <1>8, NodeOverLedger, TheirJob DEF evVars
  <2>2. ASSUME UNCHANGED loopVars PROVE Rest
        BY <2>2 DEF loopVars, dbVars
  <2>3. CASE Save(v) \/ Pass(v)
        BY <2>1, <1>6, <2>3 DEF Save, Pass
  <2>4. CASE Interpret(v) \/ Interpreted(v) \/ InterpretFails(v) \/ InterpretNothing(v)
        BY <2>1, <1>4, <1>5, <2>4 DEF Interpret, Interpreted, InterpretFails, InterpretNothing
  <2>5. CASE Orchestrate(v) \/ ReplanRefused(v) \/ Blocked(v) \/ PlanRaises(v) \/ PlanExceeds(v)
        BY <2>1, <1>2, <1>3, <1>4, <1>5, <2>5
        DEF Orchestrate, ReplanRefused, Blocked, PlanRaises, PlanExceeds
  <2>6. CASE PlanFatal(v) \/ PlanRuns(v) \/ PlanWaits(v) \/ SavePlan(v) \/ Decided(v)
        BY <2>1, <1>4, <1>5, <2>6 DEF PlanFatal, PlanRuns, PlanWaits, Decide, SavePlan, Decided
  <2>7. CASE NextTier(v) \/ TaskEnds(v) \/ SaveBudget(v) \/ Dispatched(v) \/ Observe(v)
        BY <2>1, <1>4, <1>5, <2>7 DEF NextTier, TaskEnds, Settles, SaveBudget, Dispatched, Observe
  <2>8. CASE TaskReports(v) \/ TaskStored(v) \/ TaskRefused(v) \/ Update(v) \/ Updated(v)
        BY <2>1, <1>2, <1>5, <2>2, <2>8
        DEF TaskReports, TaskStored, TaskRefused, Settles, Update, Updated
  <2>9. CASE Achieved(v) \/ Popped(v) \/ TurnComplete(v) \/ NoProgress(v) \/ Replan(v)
        BY <2>1, <1>4, <1>5, <2>9 DEF Achieved, Popped, TurnComplete, NoProgress, Replan
  <2>10. CASE AwaitRaises(v) \/ Park(v) \/ Resume(v) \/ Finish(v)
        BY <2>1, <1>2, <1>4, <2>10 DEF AwaitRaises, Park, Resume, Finish
  <2>11. CASE EvStep(v) /\ UNCHANGED loopVars
        BY <2>1, <2>2, <2>11
  <2> QED
      BY <1>8, <2>3, <2>4, <2>5, <2>6, <2>7, <2>8, <2>9, <2>10, <2>11 DEF NodeStep
<1> QED
    BY <1>7, <1>8

\* What has been learnt is still there whoever takes the step.
LEMMA JudgedStays ==
  ASSUME JudgedInv, [EvNext]_evVars, Clean', NEW t \in Looping,
         Judged(t) \/ job[t].pc = "folded"
  PROVE  Learnt(t)'
<1>1. /\ LoopInv /\ EvInv /\ t \in Task /\ JobAt(t) /\ Clean
      /\ Covered(t) /\ (Judged(t) => Learnt(t))
      BY CleanBefore, LoopAssumption DEF JudgedInv, LoopInv
<1>2. Learnt(t)
      BY <1>1 DEF Covered
<1>3. Judged(t) => exec[t].pc # "work"
      BY <1>1, Here DEF Judged, Entered, PcsAt
<1>4. ~AppendCommit(t)
      BY <1>1, <1>3 DEF AppendCommit, JobAt
<1> QED
    BY <1>1, <1>2, <1>4, LearntStays DEF Clean

LEMMA JudgedNextKeeps ==
  ASSUME JudgedInv, [Next]_vars
  PROVE  JudgedInv'
<1>1. LoopInv /\ LoopInv' /\ EvInv /\ [EvNext]_evVars
      BY LoopNextKeeps, NextOverLedger DEF JudgedInv, LoopInv
<1>2. Clean' => \A t \in Task : Covered(t)'
      BY <1>1, CleanBefore, CoveredKeeps DEF JudgedInv
<1>3. /\ Looping \subseteq Task /\ job \in [Task -> Job] /\ exec \in [Looping -> Exec]
      /\ at \in [Task -> Process \cup {NoP}] /\ ckpt \in [Looping -> Graph]
      BY <1>1, LoopAssumption DEF LoopInv, TypeOK, EvTypeOK
<1>4. ASSUME NEW t \in Looping, NodeStep(t)
      PROVE  JobAt(t)' /\ (Judged(t)' => Judged(t) \/ job[t].pc = "folded")
      BY <1>4, JobStep, BecomesJudged
\* Everyone else's steps.
<1>5. ASSUME NEW t \in Looping, exec'[t] = exec[t], ckpt'[t] = ckpt[t], job'[t] = job[t]
      PROVE  JobAt(t)' /\ (Judged(t)' => Judged(t))
      BY <1>5 DEF JudgedInv, JobAt, Judged
<1>6. ASSUME NEW t \in Looping, NEW p \in Process, Start(t, p)
      PROVE  JobAt(t)' /\ (Judged(t)' => Judged(t))
  <2> DEFINE g == IF command[t] = "message" THEN NewGraph(budget[t]) ELSE ckpt[t]
             x == [Off EXCEPT !.pc = "node", !.mem = g, !.answer = g.node = "await"]
  <2>1. job' = job /\ at[t] = NoP
        BY <1>6 DEF Start, Arrive
  <2>2. exec[t].pc = "off"
        BY <1>1, <2>1 DEF LoopInv, Sound
  <2>3. job[t].pc = "idle"
        BY <2>2, AtRest
  <2>4. ckpt' = [ckpt EXCEPT ![t] = g] /\ exec' = [exec EXCEPT ![t] = x]
        BY <1>6 DEF Start
  <2>5. x.pc = "node"
        BY DEF Off
  <2>6. g.node = "interpret" \/ g = ckpt[t]
        BY DEF NewGraph
  <2> HIDE DEF g, x
  <2>7. "idle" \notin FoldPcs
        BY DEF FoldPcs
  <2> QED
      BY <1>3, <2>1, <2>3, <2>4, <2>5, <2>6, <2>7 DEF JobAt, Judged
<1>7. ASSUME NEW p \in Process, Crash(p), NEW t \in Looping
      PROVE  JobAt(t)' /\ (Judged(t)' => Judged(t))
  <2>1. /\ ckpt' = ckpt
        /\ exec' = [v \in Looping |-> IF at[v] = p THEN Off ELSE exec[v]]
        /\ job' = [v \in Task |-> IF at[v] = p THEN NoJob ELSE job[v]]
        BY <1>7 DEF Crash, Dies, dbVars
  <2>2. CASE at[t] = p
    <3>1. exec'[t].pc = "off" /\ job'[t].pc = "idle" /\ "idle" \notin FoldPcs
          BY <1>3, <2>1, <2>2, NoJobTyped DEF Off, FoldPcs
    <3> QED
        BY <2>1, <3>1 DEF JobAt, Judged
  <2>3. CASE at[t] # p
        BY <1>3, <1>5, <2>1, <2>3
  <2> QED
      BY <2>2, <2>3
<1>8. ASSUME NEW v \in Looping, NodeStep(v) \/ \E p \in Process : Start(v, p),
             NEW t \in Looping, t # v
      PROVE  exec'[t] = exec[t] /\ ckpt'[t] = ckpt[t] /\ job'[t] = job[t]
      BY <1>1, <1>3, <1>8, OthersRest
<1>9. ASSUME NEW v \in Task \ Looping, EvTask(v), UNCHANGED loopVars, NEW t \in Looping
      PROVE  exec'[t] = exec[t] /\ ckpt'[t] = ckpt[t] /\ job'[t] = job[t]
      BY <1>1, <1>3, <1>9, TheirJob DEF loopVars, dbVars
<1>10. ASSUME NEW t \in Looping
       PROVE  JobAt(t)' /\ (Judged(t)' => Judged(t) \/ job[t].pc = "folded")
  <2>1. ASSUME NEW v \in Looping, Message(v) \/ Answer(v)
        PROVE  exec'[t] = exec[t] /\ ckpt'[t] = ckpt[t] /\ job'[t] = job[t]
        BY <2>1 DEF Message, Answer, evVars
  <2>2. ASSUME UNCHANGED vars
        PROVE  exec'[t] = exec[t] /\ ckpt'[t] = ckpt[t] /\ job'[t] = job[t]
        BY <2>2 DEF vars, evVars, loopVars, dbVars
  <2>3. ASSUME NEW v \in Looping, NodeStep(v)
        PROVE  JobAt(t)' /\ (Judged(t)' => Judged(t) \/ job[t].pc = "folded")
        BY <1>4, <1>5, <1>8, <2>3
  <2>4. ASSUME NEW v \in Looping, NEW p \in Process, Start(v, p)
        PROVE  JobAt(t)' /\ (Judged(t)' => Judged(t) \/ job[t].pc = "folded")
        BY <1>5, <1>6, <1>8, <2>4
  <2> QED
      BY <1>5, <1>7, <1>9, <2>1, <2>2, <2>3, <2>4 DEF Next
<1>11. Clean' => \A t \in Looping : Judged(t)' => Learnt(t)'
       BY <1>1, <1>10, JudgedStays
<1> QED
    BY <1>1, <1>2, <1>10, <1>11 DEF JudgedInv

LEMMA JudgedInvHolds == Spec => []JudgedInv
<1>1. Init => JudgedInv
  <2> SUFFICES ASSUME Init PROVE JudgedInv
      OBVIOUS
  <2>1. LoopInv
        BY InitLoopInv
  <2>2. /\ job = [t \in Task |-> NoJob] /\ exec = [t \in Looping |-> Off]
        /\ ckpt = [t \in Looping |-> NewGraph(budget[t])] /\ Looping \subseteq Task
        BY LoopAssumption DEF Init, EvInit
  <2>3. \A t \in Task : job[t].pc = "idle"
        BY <2>2, NoJobTyped
  <2>4. "idle" \notin FoldPcs
        BY DEF FoldPcs
  <2>5. \A t \in Task : Covered(t)
        BY <2>3 DEF Covered
  <2>6. \A t \in Looping : JobAt(t)
        BY <2>2, <2>3, <2>4 DEF JobAt
  <2>7. \A t \in Looping : ~Judged(t)
        BY <2>2 DEF Judged, NewGraph
  <2> QED
      BY <2>1, <2>5, <2>6, <2>7 DEF JudgedInv
<1>2. JudgedInv /\ [Next]_vars => JudgedInv'
      BY JudgedNextKeeps
<1> QED
    BY <1>1, <1>2, PTL DEF Spec

\* Before a round is judged, everything its task has observed is in the
\* profile, once: whatever other tasks and processes do in between.
THEOREM JudgedOnEvidence == Spec => []EvaluatedOnEvidence
<1>1. ASSUME JudgedInv PROVE EvaluatedOnEvidence
  <2> SUFFICES ASSUME NEW t \in Looping, At(t, "evaluate", "node"),
                      exec[t].mem.status = "UPDATING", ~overlapped, Len(ledger) <= Page,
                      NEW i \in DOMAIN ledger, ledger[i].task = t, ledger[i].seq \in Seqs
               PROVE  profile[ledger[i].point].times[ledger[i].seq] = 1
      BY DEF EvaluatedOnEvidence
  <2>1. /\ LoopInv /\ EvInv /\ Numbered /\ ledger \in Seq(Row) /\ Alone
        BY <1>1 DEF JudgedInv, LoopInv, EvInv, EvTypeOK
  <2>2. exec[t].mem = ckpt[t]
        BY <2>1, Here DEF Entered, At
  <2>3. Judged(t)
        BY <2>2 DEF Judged, At
  <2>4. Learnt(t)
        BY <1>1, <2>3 DEF JudgedInv, Clean
  <2>5. ledger[i].seq = i /\ i \in 1..Len(ledger) /\ ledger[i] \in Row
        BY <2>1 DEF Numbered
  <2>6. ledger[i].point \in Point
        BY <2>5 DEF Row
  <2>7. i <= profile[ledger[i].point].mark
        BY <2>4, <2>5 DEF Learnt, Owned
  <2>8. profile[ledger[i].point].times[i] =
          IF OwnIn(ledger, ledger[i].point, i) /\ i <= profile[ledger[i].point].mark THEN 1 ELSE 0
        BY <2>1, <2>5, <2>6 DEF Alone, LearntOf
  <2> QED
      BY <2>5, <2>7, <2>8 DEF OwnIn
<1> QED
    BY <1>1, JudgedInvHolds, PTL
=============================================================================
