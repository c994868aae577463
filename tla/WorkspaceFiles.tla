--------------------------- MODULE WorkspaceFiles ---------------------------
(***************************************************************************)
(* The workspace of the learner who owns the pages of Materials.  What is  *)
(* served for a task is also projected to the learner's files: a database  *)
(* row that names a blob in a storage volume.  The projection runs when an *)
(* `artifact.ready` event is flushed and when an execution has ended       *)
(* normally.  The API and the scheduler both run executions, on one        *)
(* database and one volume; a lock in each process keeps apart only the    *)
(* projections of that process.  The learner's own requests (upload,       *)
(* rename, replace, delete) take no lock.  A blob is written before the    *)
(* row that names it is committed and deleted after the row has stopped to *)
(* name it, or when the commit was answered by an error; its key is a new  *)
(* one each time.                                                          *)
(*                                                                         *)
(* Of the providers only this matters here: while an execution runs, one   *)
(* may write any page over the served file, or remove it (a deck), and may *)
(* announce it or fail without a word.                                     *)
(***************************************************************************)
EXTENDS Naturals, FiniteSets

CONSTANTS Page,       \* contents a provider may write
          Nothing,    \* no page
          Process,    \* the processes that run executions
          Api,        \* the one that serves the learner's requests
          Projection, \* projections under way at once
          Request,    \* requests of the learner to the workspace
          MaxWrites,  \* bound: writes by providers
          MaxKeys,    \* bound: blobs ever written
          MaxFaults   \* bound: errors, cancellations and crashes

Ended == {"normal", "broken"}

ASSUME WorkspaceAssumption ==
    /\ Nothing \notin Page /\ Projection \cap Request = {} /\ Api \in Process
    /\ Process \cap Ended = {}
    /\ MaxWrites \in Nat /\ MaxKeys \in Nat /\ MaxFaults \in Nat

VARIABLES served,  \* the page the task serves: Materials' `file`
          writes,  \* how often providers have written it
          rows,    \* artifacts: row id -> row
          blobs,   \* keys whose blob is in the storage
          used,    \* how many keys have been made
          job,     \* what each projection and each request is doing
          run,     \* the process of the task's execution, or how the last ended
          ready,   \* an artifact.ready event waits to be flushed
          due,     \* the processes with a projection due after an execution
          missed,  \* history: since its end one failed or the learner deleted
          crossed, \* history: projections of two processes have overlapped
          lost,    \* history: keys committed by a save that raised afterwards
          faults

execution == <<run, ready, due>>
files == <<served, writes, rows, blobs, used, job, execution, missed, crossed, lost, faults>>

Key == 1..MaxKeys
Id == {"first", "second", "third"}
Name == {"own", "learners"}
\* `hash` is the contentHash of the metadata, `edited` (history) that the
\* learner has replaced the content.
Row == [key : Key, source : {"agent", "upload"}, hash : Page \cup {Nothing},
        name : Name, edited : BOOLEAN]
Idle == [pc |-> "idle", at |-> Api, page |-> Nothing, id |-> "none",
         key |-> 0, old |-> 0, name |-> "own"]
\* Its row is committed, and the blob the row named before is to be deleted.
Purge(j) == [Idle EXCEPT !.pc = "purging", !.at = job[j].at, !.old = job[j].old]
\* A projection may be asked for again, a request is over.
Rest(j) == IF j \in Projection THEN Idle ELSE [Idle EXCEPT !.pc = "over"]

FilesInit ==
    /\ served = Nothing
    /\ writes = 0
    /\ rows = <<>>
    /\ blobs = {}
    /\ used = 0
    /\ job = [j \in Projection \cup Request |-> Idle]
    /\ run \in Process
    /\ ready = FALSE
    /\ due = {}
    /\ missed = FALSE
    /\ crossed = FALSE
    /\ lost = {}
    /\ faults = 0

-----------------------------------------------------------------------------
(* Storage and rows. *)

Goes(j, r) == job' = [job EXCEPT ![j] = r]
\* A new key: its blob is written at once.
Writes(j, r) ==
    /\ used < MaxKeys
    /\ used' = used + 1
    /\ blobs' = blobs \cup {used'}
    /\ Goes(j, [r EXCEPT !.key = used'])
\* The rows with one more, or with one replaced.
With(id, row) == [i \in DOMAIN rows \cup {id} |-> IF i = id THEN row ELSE rows[i]]
Without(id) == [i \in DOMAIN rows \ {id} |-> rows[i]]
\* An identifier that nothing has: they are made like keys.
Unused == Id \ (DOMAIN rows \cup {job[j].id : j \in Projection \cup Request})
NewId == CHOOSE id \in Id : id \in Unused
\* The row a query for the generated artifact of the task answers.
Generated(id) == id \in DOMAIN rows /\ rows[id].source = "agent"

\* A plausible bug: the blob that the row still names is deleted.
RefusedOld(j) ==
    /\ blobs' = blobs \ {job[j].old}
    /\ Goes(j, Rest(j))
    /\ UNCHANGED used

\* An error is the answer of j, and the blob it has written is deleted.
Refused(j) ==
    /\ blobs' = blobs \ {job[j].key}
    /\ Goes(j, Rest(j))
    /\ UNCHANGED used
\* The row of j is committed as r, and so it stays; but what follows, the
\* refresh of the row, may raise, and then that error is the answer.
Saves(j, r, next) ==
    /\ rows' = With(job[j].id, r)
    /\ \/ Goes(j, next) /\ UNCHANGED <<blobs, used, missed, lost, faults>>
       \/ /\ faults < MaxFaults /\ faults' = faults + 1
          /\ Refused(j)
          /\ lost' = lost \cup {job[j].key}
          /\ missed' = (missed \/ j \in Projection)
\* The row of j is not what it must be for the commit.
Rejected(j) ==
    /\ Refused(j)
    /\ missed' = (missed \/ j \in Projection)
    /\ UNCHANGED <<rows, lost, faults>>
\* The query or the commit of j fails.
SaveFails(j) ==
    /\ job[j].pc \in {"saving", "inserting", "updating", "adding", "replacing"}
    /\ faults < MaxFaults /\ faults' = faults + 1
    /\ Refused(j)
    /\ missed' = (missed \/ j \in Projection)
    /\ UNCHANGED <<served, writes, rows, execution, crossed, lost>>
\* j is cancelled, or a step outside of its `try` raises: nothing is undone.
Interrupted(j) ==
    /\ job[j].pc \notin {"idle", "over"}
    /\ faults < MaxFaults /\ faults' = faults + 1
    /\ Goes(j, Rest(j))
    /\ missed' = (missed \/ j \in Projection)
    /\ UNCHANGED <<served, writes, rows, blobs, used, execution, crossed, lost>>

-----------------------------------------------------------------------------
(* The projection of generated pages. *)

\* A projection waits for the lock of its process: one that a flushed event
\* asks for, or the one at the end of an execution.
ProjectionWaits(p) ==
    /\ job[p] = Idle
    /\ \E x \in Process :
         /\ \/ ready /\ x = run /\ ready' = FALSE /\ UNCHANGED due
            \/ x \in due /\ due' = due \ {x} /\ UNCHANGED ready
         /\ Goes(p, [Idle EXCEPT !.pc = "waiting", !.at = x])
    /\ UNCHANGED <<served, writes, rows, blobs, used, run, missed, crossed, lost,
                   faults>>

Holds(q) == job[q].pc \notin {"idle", "waiting"}
\* A plausible bug: projections are not kept apart.
NoLock(p) == TRUE
LockFree(p) == \A q \in Projection : Holds(q) => job[q].at # job[p].at

\* With the lock, the served file is read; without one there is nothing to do.
ProjectionReads(p) ==
    /\ job[p].pc = "waiting"
    /\ LockFree(p)
    /\ crossed' = (crossed \/ \E q \in Projection : Holds(q) /\ job[q].at # job[p].at)
    /\ Goes(p, IF served = Nothing THEN Idle
                ELSE [job[p] EXCEPT !.pc = "finding", !.page = served])
    /\ UNCHANGED <<served, writes, rows, blobs, used, execution, missed, lost, faults>>

\* A row with the same content hash ends it; otherwise the blob is written
\* under a new key.
ProjectionFinds(p) ==
    /\ job[p].pc = "finding"
    /\ \/ /\ \E id \in DOMAIN rows : Generated(id) /\ rows[id].hash = job[p].page
          /\ Goes(p, Idle)
          /\ UNCHANGED <<blobs, used>>
       \/ \E id \in Id :
            /\ Generated(id) /\ rows[id].hash # job[p].page
            /\ Writes(p, [job[p] EXCEPT !.pc = "saving", !.id = id])
       \/ /\ \A id \in DOMAIN rows : ~Generated(id)
          /\ Unused # {}
          /\ Writes(p, [job[p] EXCEPT !.pc = "saving", !.id = NewId])
    /\ UNCHANGED <<served, writes, rows, execution, missed, crossed, lost, faults>>

\* save_generated looks for the row again and remembers the key it names and
\* its name.
SaveSelects(p) ==
    /\ job[p].pc = "saving"
    /\ \/ \E id \in DOMAIN rows :
            /\ Generated(id)
            /\ Goes(p, [job[p] EXCEPT !.pc = "updating", !.id = id,
                                       !.old = rows[id].key, !.name = rows[id].name])
       \/ /\ \A id \in DOMAIN rows : ~Generated(id)
          /\ Goes(p, [job[p] EXCEPT !.pc = "inserting"])
    /\ UNCHANGED <<served, writes, rows, blobs, used, execution, missed, crossed, lost, faults>>

\* What the row says of the page that is projected.  An update writes the
\* columns that differ from what was selected: a name that was still its own
\* is not among them.
Projected(p, name) ==
    [key |-> job[p].key, source |-> "agent", hash |-> job[p].page,
     name |-> name, edited |-> FALSE]

\* The identifier may have been inserted, or the row deleted, since it was
\* selected: then the commit is refused.
SaveCommits(p) ==
    /\ \/ /\ job[p].pc = "inserting" /\ job[p].id \notin DOMAIN rows
          /\ Saves(p, Projected(p, "own"), Idle)
       \/ /\ job[p].pc = "updating" /\ job[p].id \in DOMAIN rows
          /\ Saves(p, Projected(p, IF job[p].name = "own" THEN rows[job[p].id].name ELSE "own"),
                   Purge(p))
       \/ /\ job[p].pc \in {"inserting", "updating"}
          /\ job[p].pc = "inserting" <=> job[p].id \in DOMAIN rows
          /\ Rejected(p)
    /\ UNCHANGED <<served, writes, execution, crossed>>

\* The blob that the row named before is deleted.
Purges(j) ==
    /\ job[j].pc = "purging"
    /\ blobs' = blobs \ {job[j].old}
    /\ Goes(j, Rest(j))
    /\ UNCHANGED <<served, writes, rows, used, execution, missed, crossed, lost, faults>>

-----------------------------------------------------------------------------
(* Requests of the learner. *)

CreateStarts(u) ==
    /\ job[u] = Idle
    /\ Unused # {}
    /\ Writes(u, [Idle EXCEPT !.pc = "adding", !.id = NewId])
    /\ UNCHANGED <<served, writes, rows, execution, missed, crossed, lost, faults>>

Create(u) ==
    /\ job[u].pc = "adding" /\ job[u].id \notin DOMAIN rows
    /\ Saves(u, [key |-> job[u].key, source |-> "upload", hash |-> Nothing,
                 name |-> "own", edited |-> FALSE], Rest(u))
    /\ UNCHANGED <<served, writes, execution, crossed>>

Rename(u) ==
    /\ job[u] = Idle
    /\ \E id \in DOMAIN rows : rows' = With(id, [rows[id] EXCEPT !.name = "learners"])
    /\ Goes(u, Rest(u))
    /\ UNCHANGED <<served, writes, blobs, used, execution, missed, crossed, lost, faults>>

\* A replacement reads the row, writes the new blob, and commits its key.
ReplaceStarts(u) ==
    /\ job[u] = Idle
    /\ \E id \in DOMAIN rows :
         Writes(u, [Idle EXCEPT !.pc = "replacing", !.id = id, !.old = rows[id].key])
    /\ UNCHANGED <<served, writes, rows, execution, missed, crossed, lost, faults>>

Replace(u) ==
    /\ job[u].pc = "replacing"
    /\ IF job[u].id \in DOMAIN rows
         THEN Saves(u, [rows[job[u].id] EXCEPT !.key = job[u].key, !.edited = TRUE],
                    Purge(u))
         ELSE Rejected(u)
    /\ UNCHANGED <<served, writes, execution, crossed>>

\* A deletion reads the row and the key it names, deletes the row, and then
\* the blob of that key.
DeleteSelects(u) ==
    /\ job[u] = Idle
    /\ \E id \in DOMAIN rows :
         Goes(u, [Idle EXCEPT !.pc = "deleting", !.id = id, !.old = rows[id].key])
    /\ UNCHANGED <<served, writes, rows, blobs, used, execution, missed, crossed, lost, faults>>

Delete(u) ==
    /\ job[u].pc = "deleting"
    /\ rows' = Without(job[u].id)
    /\ Goes(u, Purge(u))
    /\ missed' = (missed \/ Generated(job[u].id))
    /\ UNCHANGED <<served, writes, blobs, used, execution, crossed, lost, faults>>

-----------------------------------------------------------------------------
(* Executions. *)

\* A provider writes the served file, or removes it for a deck to be built.
PageWritten ==
    /\ run \in Process
    /\ writes < MaxWrites
    /\ writes' = writes + 1
    /\ served' \in (Page \cup {Nothing}) \ {served}
    /\ UNCHANGED <<rows, blobs, used, job, execution, missed, crossed, lost, faults>>

\* It succeeded and emits artifact.ready.
PageReady ==
    /\ run \in Process
    /\ served # Nothing
    /\ ready' = TRUE
    /\ UNCHANGED <<served, writes, rows, blobs, used, job, run, due, missed, crossed,
                   lost, faults>>

\* A plausible bug: nothing is projected when the execution has ended.
EndsUnprojected ==
    /\ run \in Process \ due /\ ~ready
    /\ run' = "normal"
    /\ missed' = FALSE
    /\ UNCHANGED <<served, writes, rows, blobs, used, job, ready, due, crossed, lost,
                   faults>>

\* The execution ends on its normal path: its thread is claimable, and the
\* projection is due in its process.
ExecutionEnds ==
    /\ run \in Process \ due /\ ~ready
    /\ run' = "normal"
    /\ due' = due \cup {run}
    /\ missed' = FALSE
    /\ UNCHANGED <<served, writes, rows, blobs, used, job, ready, crossed, lost, faults>>

\* It raises or is cancelled: nothing is projected.
ExecutionBreaks ==
    /\ run \in Process
    /\ run' = "broken"
    /\ ready' = FALSE
    /\ UNCHANGED <<served, writes, rows, blobs, used, job, due, missed, crossed, lost,
                   faults>>

ExecutionBegins ==
    /\ run \in Ended
    /\ run' \in Process
    /\ missed' = FALSE
    /\ UNCHANGED <<served, writes, rows, blobs, used, job, ready, due, crossed, lost, faults>>

\* Process x dies with everything it was doing.
ProcessDies(x) ==
    /\ faults < MaxFaults /\ faults' = faults + 1
    /\ job' = [j \in Projection \cup Request |->
                 IF job[j].pc # "idle" /\ job[j].at = x THEN Rest(j) ELSE job[j]]
    /\ run' = IF run = x THEN "broken" ELSE run
    /\ ready' = (ready /\ run # x)
    /\ due' = due \ {x}
    /\ missed' = (missed \/ x \in due
                   \/ \E p \in Projection : job[p].pc # "idle" /\ job[p].at = x)
    /\ UNCHANGED <<served, writes, rows, blobs, used, crossed, lost>>

FilesNext ==
    \/ \E p \in Projection :
         \/ ProjectionWaits(p) \/ ProjectionReads(p) \/ ProjectionFinds(p)
         \/ SaveSelects(p) \/ SaveCommits(p)
    \/ \E u \in Request :
         \/ CreateStarts(u) \/ Create(u) \/ Rename(u) \/ ReplaceStarts(u)
         \/ Replace(u) \/ DeleteSelects(u) \/ Delete(u)
    \/ \E j \in Projection \cup Request : Purges(j) \/ SaveFails(j) \/ Interrupted(j)
    \/ ExecutionEnds \/ ExecutionBreaks \/ ExecutionBegins \/ PageWritten \/ PageReady
    \/ \E x \in Process : ProcessDies(x)

FilesSpec == FilesInit /\ [][FilesNext]_files

-----------------------------------------------------------------------------
FilesOK ==
    /\ served \in Page \cup {Nothing} /\ writes \in 0..MaxWrites
    /\ \A id \in DOMAIN rows : id \in Id /\ rows[id] \in Row
    /\ blobs \subseteq 1..used /\ used \in 0..MaxKeys

\* The blob that a row names is in the storage, whatever requests and
\* projections overlapped, failed or died: only a save that raised after its
\* commit has deleted a blob that its row names.
BlobsKept == \A id \in DOMAIN rows : rows[id].key \in blobs \cup lost

\* A page has one file in the workspace.
OneFile == \A i, j \in DOMAIN rows : Generated(i) /\ Generated(j) => i = j
\* What the learner made of the file stays until the page has changed: her name
\* or her content is overwritten with another page only, unless projections of
\* two processes have overlapped.
Overwritten(id) ==
    \/ rows[id].edited /\ ~rows'[id].edited
    \/ rows[id].name = "learners" /\ rows'[id].name = "own"
EditsStay ==
    [][~crossed' => \A id \in DOMAIN rows \cap DOMAIN rows' :
         Overwritten(id) => rows'[id].hash # rows[id].hash]_files

\* When an execution has ended normally and the projections are over, the
\* learner's files have what is served, unless one failed or overlapped
\* another process's, or the learner deleted the file.
ShownAtRest ==
    /\ run = "normal" /\ ~ready /\ due = {} /\ ~missed /\ ~crossed
    /\ \A p \in Projection : job[p] = Idle
    /\ served # Nothing
    => \E id \in DOMAIN rows : Generated(id) /\ rows[id].hash = served

(* Without those conditions the three are not so; TLC refutes each.        *)

\* Every file can be opened.
FilesOpen == \A id \in DOMAIN rows : rows[id].key \in blobs
\* The same page is never projected over the learner's edit.
EditsAlwaysStay ==
    [][\A id \in DOMAIN rows \cap DOMAIN rows' :
         Overwritten(id) => rows'[id].hash # rows[id].hash]_files
\* After every execution the learner's files have what is served.
AlwaysShown ==
    /\ run \in Ended /\ ~ready /\ due = {} /\ ~missed /\ ~crossed
    /\ \A p \in Projection : job[p] = Idle
    /\ served # Nothing
    => \E id \in DOMAIN rows : Generated(id) /\ rows[id].hash = served
=============================================================================
