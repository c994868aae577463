--------------------------- MODULE EvidenceLedger ---------------------------
(***************************************************************************)
(* The evidence of one learner and the profile folded from it              *)
(* (store/runtime_state.py, store/profile_writer.py,                       *)
(* runtime/state_updater.py, store/models/learning.py).                    *)
(*                                                                         *)
(* Executions of several tasks append observations to one ledger and fold  *)
(* what is new into the rows of learning_profile.  Every transaction is a  *)
(* step; the fold reads in three of them and writes in two more.  What a   *)
(* profile row has learnt is times: how often each ledger row went into    *)
(* its mastery, its misconceptions and its evidence_count.                 *)
(***************************************************************************)
EXTENDS Naturals, Sequences, FiniteSets

CONSTANTS
  Task,        \* the learner's tasks, each with at most one execution
  Process, NoP,
  Point,       \* knowledge points
  MaxObs,      \* bound on the distinct observations of one task and point
  MaxBatch,    \* bound on the observations of one provider result
  MaxRows,     \* bound on the observations all providers report
  MaxTries,    \* _EVIDENCE_SEQ_RETRIES
  Page         \* limit of StateUpdater.apply

ASSUME EvidenceAssumption ==
  /\ NoP \notin Process
  /\ MaxObs \in Nat /\ MaxBatch \in Nat /\ MaxRows \in Nat
  /\ MaxTries \in Nat \ {0} /\ Page \in Nat \ {0}

VARIABLES
  ledger,      \* learning_evidence in the order of commits
  profile,     \* learning_profile by point
  cursor,      \* projection_cursor of the profile
  at,          \* the process that executes a task
  job,         \* what its execution does with the evidence
  begun,       \* history: observations reported so far
  overlapped   \* history: two processes have folded at the same time

evVars == <<ledger, profile, cursor, at, job, begun, overlapped>>

Seqs == 1..MaxRows
Obs  == [point: Point, n: 1..MaxObs]
Row  == [seq: Nat, task: Task, point: Point, n: 1..MaxObs]

\* here tells whether the row exists.
ProfileRow == [here: BOOLEAN, mark: Nat, times: [Seqs -> Nat]]
NoRow      == [here |-> FALSE, mark |-> 0, times |-> [s \in Seqs |-> 0]]

FoldPcs == {"cursor", "page", "seen", "rows", "write", "position", "advance"}
EndPcs  == {"stored", "refused", "folded", "failed"}
Job == [pc: {"idle", "read", "commit"} \cup FoldPcs \cup EndPcs,
        batch: SUBSET Obs, base: Nat, tries: Nat, lo: Nat, hi: Nat,
        seen: [Point -> ProfileRow], rows: [Point -> ProfileRow]]

NoProfile == [p \in Point |-> NoRow]
NoJob == [pc |-> "idle", batch |-> {}, base |-> 0, tries |-> 0, lo |-> 0,
          hi |-> 0, seen |-> NoProfile, rows |-> NoProfile]

EvInit ==
  /\ ledger = <<>>
  /\ profile = NoProfile
  /\ cursor = 0
  /\ at = [t \in Task |-> NoP]
  /\ job = [t \in Task |-> NoJob]
  /\ begun = 0
  /\ overlapped = FALSE

Folding(t) == job[t].pc \in FoldPcs

-----------------------------------------------------------------------------
(* append_evidence *)

\* A provider's result carries observations.
BeginAppend(t, batch) ==
  /\ at[t] # NoP
  /\ job[t].pc = "idle"
  /\ Cardinality(batch) \in 1..MaxBatch
  /\ begun + Cardinality(batch) <= MaxRows
  /\ begun' = begun + Cardinality(batch)
  /\ job' = [job EXCEPT ![t] = [NoJob EXCEPT !.pc = "read", !.batch = batch]]
  /\ UNCHANGED <<ledger, profile, cursor, at, overlapped>>

\* Observations are content-addressed within a task.
Known(t, o) ==
  \E i \in DOMAIN ledger :
    ledger[i].task = t /\ ledger[i].point = o.point /\ ledger[i].n = o.n

Used    == {ledger[i].seq : i \in DOMAIN ledger}
Highest == CHOOSE n \in Used \cup {0} : \A k \in Used : k <= n

\* The transaction reads the highest number and skips what is on record.
AppendRead(t) ==
  /\ job[t].pc = "read"
  /\ job' = [job EXCEPT ![t] =
               [@ EXCEPT !.pc = "commit", !.base = Highest,
                         !.batch = {o \in job[t].batch : ~Known(t, o)}]]
  /\ UNCHANGED <<ledger, profile, cursor, at, begun, overlapped>>

\* The orders in which a result may list its observations.
Listings(S) ==
  {f \in UNION {[1..n -> S] : n \in 0..MaxBatch} :
     /\ \A o \in S : \E i \in DOMAIN f : f[i] = o
     /\ \A i, k \in DOMAIN f : f[i] = f[k] => i = k}

NewRows(t, f) ==
  [i \in DOMAIN f |-> [seq |-> job[t].base + i, task |-> t,
                       point |-> f[i].point, n |-> f[i].n]]

\* The unique index on (learner_id, seq): another writer took a number.
Taken(rows) == \E i \in DOMAIN rows : rows[i].seq \in Used

AppendCommit(t) ==
  /\ job[t].pc = "commit"
  /\ \E f \in Listings(job[t].batch) :
       /\ ~Taken(NewRows(t, f))
       /\ ledger' = ledger \o NewRows(t, f)
  /\ job' = [job EXCEPT ![t] = [NoJob EXCEPT !.pc = "stored"]]
  /\ UNCHANGED <<profile, cursor, at, begun, overlapped>>

\* The transaction is rolled back and tried again, a few times.
AppendCollides(t) ==
  /\ job[t].pc = "commit"
  /\ \E f \in Listings(job[t].batch) : Taken(NewRows(t, f))
  /\ job' = [job EXCEPT ![t] =
               [@ EXCEPT !.tries = job[t].tries + 1,
                         !.pc = IF job[t].tries + 1 < MaxTries THEN "read" ELSE "refused"]]
  /\ UNCHANGED <<ledger, profile, cursor, at, begun, overlapped>>

-----------------------------------------------------------------------------
(* StateUpdater.apply *)

\* projection_lock is memory of one process.
LockFree(t) == \A v \in Task : at[v] = at[t] => ~Folding(v)

BeginFold(t) ==
  /\ at[t] # NoP
  /\ job[t].pc = "idle"
  /\ LockFree(t)
  /\ overlapped' = (overlapped \/ \E v \in Task : Folding(v))
  /\ job' = [job EXCEPT ![t] = [NoJob EXCEPT !.pc = "cursor"]]
  /\ UNCHANGED <<ledger, profile, cursor, at, begun>>

\* Every other step of the fold changes its own memory, or one table.
FoldStep(t, pc, memory) ==
  /\ job' = [job EXCEPT ![t] = [memory EXCEPT !.pc = pc]]
  /\ UNCHANGED <<ledger, at, begun, overlapped>>

ReadCursor(t) ==
  /\ job[t].pc = "cursor"
  /\ FoldStep(t, "page", [job[t] EXCEPT !.lo = cursor])
  /\ UNCHANGED <<profile, cursor>>

Smaller(a, b) == IF a < b THEN a ELSE b
Larger(a, b)  == IF a < b THEN b ELSE a

\* The rows after the cursor, at most a page of them.
ReadPage(t) ==
  /\ job[t].pc = "page"
  /\ IF job[t].lo < Highest
       THEN FoldStep(t, "seen", [job[t] EXCEPT !.hi = Smaller(Highest, job[t].lo + Page)])
       ELSE FoldStep(t, "folded", NoJob)
  /\ UNCHANGED <<profile, cursor>>

\* Mutant: every row of the page is folded, whatever the row's own mark says.
WholePage(j, p) ==
  {s \in j.lo + 1 .. j.hi : \E i \in DOMAIN ledger : ledger[i].seq = s /\ ledger[i].point = p}

\* The rows of the page that a profile row has not passed yet.
Fresh(j, p) ==
  {s \in j.lo + 1 .. j.hi :
     /\ s > j.seen[p].mark
     /\ \E i \in DOMAIN ledger : ledger[i].seq = s /\ ledger[i].point = p}

Changed(j) == {p \in Point : Fresh(j, p) # {}}

ReadProfile(t) ==
  /\ job[t].pc = "seen"
  /\ LET j == [job[t] EXCEPT !.seen = profile]
     IN  FoldStep(t, IF Changed(j) = {} THEN "position" ELSE "rows", j)
  /\ UNCHANGED <<profile, cursor>>

\* The writing transaction reads the rows again.
ReadRows(t) ==
  /\ job[t].pc = "rows"
  /\ FoldStep(t, "write", [job[t] EXCEPT !.rows = profile])
  /\ UNCHANGED <<profile, cursor>>

Newest(j, p) == CHOOSE s \in Fresh(j, p) : \A k \in Fresh(j, p) : k <= s

\* _delta_for: the new values, computed from the profile that was read.
Times(j, p) ==
  [s \in Seqs |-> j.seen[p].times[s] + IF s \in Fresh(j, p) THEN 1 ELSE 0]

\* Only columns that differ from the row as read are written.
Written(j, p) ==
  [here  |-> TRUE,
   mark  |-> IF j.rows[p].mark < Newest(j, p) THEN Newest(j, p) ELSE profile[p].mark,
   times |-> IF Times(j, p) = j.rows[p].times THEN profile[p].times ELSE Times(j, p)]

\* Another process created the same row first.
Twice(j) == \E p \in Changed(j) : ~j.rows[p].here /\ profile[p].here

WriteRows(t) ==
  /\ job[t].pc = "write"
  /\ ~Twice(job[t])
  /\ profile' = [p \in Point |-> IF p \in Changed(job[t]) THEN Written(job[t], p)
                                                          ELSE profile[p]]
  /\ FoldStep(t, "position", job[t])
  /\ UNCHANGED cursor

WriteFails(t) ==
  /\ job[t].pc = "write"
  /\ Twice(job[t])
  /\ FoldStep(t, "failed", NoJob)
  /\ UNCHANGED <<profile, cursor>>

\* advance_projection_cursor reads the cursor and writes a larger value.
ReadPosition(t) ==
  /\ job[t].pc = "position"
  /\ FoldStep(t, "advance", [job[t] EXCEPT !.base = cursor])
  /\ UNCHANGED <<profile, cursor>>

\* The row of the cursor is created with its first value: two may try.
Preceded(t) == job[t].base = 0 /\ cursor > 0

Advance(t) ==
  /\ job[t].pc = "advance"
  /\ ~Preceded(t)
  /\ cursor' = IF job[t].base < job[t].hi THEN job[t].hi ELSE cursor
  /\ FoldStep(t, "folded", NoJob)
  /\ UNCHANGED profile

AdvanceFails(t) ==
  /\ job[t].pc = "advance"
  /\ Preceded(t)
  /\ FoldStep(t, "failed", NoJob)
  /\ UNCHANGED <<profile, cursor>>

-----------------------------------------------------------------------------
(* Executions and processes *)

Arrive(t, p) ==
  /\ at[t] = NoP
  /\ at' = [at EXCEPT ![t] = p]
  /\ UNCHANGED <<ledger, profile, cursor, job, begun, overlapped>>

\* The execution takes the result of an append or a fold.
Release(t) ==
  /\ job[t].pc \in EndPcs
  /\ job' = [job EXCEPT ![t] = NoJob]
  /\ UNCHANGED <<ledger, profile, cursor, at, begun, overlapped>>

Leave(t) ==
  /\ at[t] # NoP
  /\ job[t].pc \in EndPcs \cup {"idle"}
  /\ at' = [at EXCEPT ![t] = NoP]
  /\ job' = [job EXCEPT ![t] = NoJob]
  /\ UNCHANGED <<ledger, profile, cursor, begun, overlapped>>

\* A process dies with the memory of its executions.
Dies(p) ==
  /\ \E t \in Task : at[t] = p
  /\ at' = [t \in Task |-> IF at[t] = p THEN NoP ELSE at[t]]
  /\ job' = [t \in Task |-> IF at[t] = p THEN NoJob ELSE job[t]]
  /\ UNCHANGED <<ledger, profile, cursor, begun, overlapped>>

EvStep(t) ==
  \/ AppendRead(t) \/ AppendCommit(t) \/ AppendCollides(t)
  \/ ReadCursor(t) \/ ReadPage(t) \/ ReadProfile(t) \/ ReadRows(t)
  \/ WriteRows(t) \/ WriteFails(t) \/ ReadPosition(t) \/ Advance(t)
  \/ AdvanceFails(t)

EvTask(t) ==
  \/ EvStep(t) \/ BeginFold(t) \/ Release(t) \/ Leave(t)
  \/ \E batch \in SUBSET Obs : BeginAppend(t, batch)
  \/ \E p \in Process : Arrive(t, p)

EvNext == (\E t \in Task : EvTask(t)) \/ \E p \in Process : Dies(p)

EvSpec == EvInit /\ [][EvNext]_evVars

-----------------------------------------------------------------------------
(* Properties *)

\* Type invariant of the ledger, the profile and the memory of the folds.
EvTypeOK ==
  /\ ledger \in Seq(Row)
  /\ profile \in [Point -> ProfileRow]
  /\ cursor \in Nat
  /\ at \in [Task -> Process \cup {NoP}]
  /\ job \in [Task -> Job]
  /\ begun \in Nat
  /\ overlapped \in BOOLEAN

\* Every observation the cursor has passed went into the profile of its
\* point exactly once, every other at most once, and none into another
\* point's: whatever transactions interleave, writers collide and processes
\* die between them, as long as the folds of two processes do not overlap
\* (StateUpdater.apply, ProfileWriter.apply, advance_projection_cursor).
FoldedOnce ==
  ~overlapped =>
    \A p \in Point, s \in Seqs :
      LET own == \E i \in DOMAIN ledger : ledger[i].seq = s /\ ledger[i].point = p
      IN  /\ profile[p].times[s] <= IF own THEN 1 ELSE 0
          /\ own /\ s <= cursor => profile[p].times[s] = 1

\* What the docstrings promise of the durable cursor, without the condition.
FoldedAlways ==
  \A p \in Point, s \in Seqs :
    (s <= cursor /\ \E i \in DOMAIN ledger : ledger[i].seq = s /\ ledger[i].point = p)
      => profile[p].times[s] = 1
=============================================================================
