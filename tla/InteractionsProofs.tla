------------------------- MODULE InteractionsProofs -------------------------
(***************************************************************************)
(* Proofs about Interactions and the EventLog it composes: types, one      *)
(* answer and one announcement per question, the order of the log, what    *)
(* streams and snapshots read, and that the questions behave as            *)
(* QuestionBoard promises.                                                 *)
(***************************************************************************)
EXTENDS Interactions, SequenceTheorems, TLAPS

-----------------------------------------------------------------------------
(* The inductive invariant *)

\* An execution runs in a process, and a request in progress carries a payload
\* for a question that exists.
Carried ==
  /\ run.pc # "idle" => run.at \in Process
  /\ \A r \in Request :
       req[r].pc \in {"claim", "publish"} =>
         /\ req[r].at \in Process
         /\ req[r].q \in Question
         /\ req[r].key \in Key
         /\ req[r].value \in Value
         /\ row[req[r].q] # "absent"

\* A question has one answer once it is resolved and none before, and an
\* execution that runs on an answer runs on one that was given.
Settled ==
  /\ \A q \in Question : row[q] = "resolved" => \E a \in Reply : answers[q] = {a}
  /\ \A q \in Question : row[q] # "resolved" => answers[q] = {} /\ command[q] = "none"
  /\ run.cmd \in Question => row[run.cmd] = "resolved"
  /\ run.pc = "resume" => run.cmd \in Question

\* A row that shows a question shows one that exists, and only the log holds
\* announcements.
Shows(e) == e.kind = "requested" => e.q \in Question /\ row[e.q] # "absent"

Written ==
  /\ \A i \in DOMAIN log : Shows(log[i]) /\ log[i].n <= emitted
  /\ \A i \in DOMAIN log :
       log[i].kind = "resolved" => log[i].q \in Question /\ log[i].n = 0

\* Rows of a batch that is not yet stored: they ascend, and come after every row
\* of the log.
Waiting(rows) ==
  /\ \A i \in DOMAIN rows :
       /\ Shows(rows[i])
       /\ rows[i].kind # "resolved"
       /\ rows[i].n \in 1..emitted
       /\ \A j \in DOMAIN log : log[j].n < rows[i].n
  /\ \A i, j \in DOMAIN rows : i < j => rows[i].n < rows[j].n

\* One batch at most is in flight, and the buffer comes after it.
Queued ==
  /\ Len(flying) <= 1
  /\ Waiting(buffer)
  /\ \A b \in DOMAIN flying :
       /\ Waiting(flying[b])
       /\ \A i \in DOMAIN flying[b], j \in DOMAIN buffer : flying[b][i].n < buffer[j].n

\* The numbers from one up to a length.
Upto(rows) == rows = [i \in 1..Len(rows) |-> i]

\* A stream stands behind the last row it delivered, and its page follows on
\* within a log of a length.
Follows(stream, rows, length) ==
  /\ stream.pc # "off" => stream.cursor = Len(rows)
  /\ stream.batch = [i \in 1..Len(stream.batch) |-> Len(rows) + i]
  /\ Upto(rows)
  /\ Len(rows) + Len(stream.batch) <= length

Streaming == \A s \in Reader : Follows(sub[s], seen[s], Len(log))

\* A snapshot has read the log from its first row up to its cursor.
Snapping ==
  /\ Upto(shot.rows)
  /\ shot.expected <= Len(log)
  /\ Len(shot.rows) <= Len(log)
  /\ shot.pc = "page" => shot.cursor = Len(shot.rows)

\* What streams and snapshots are made of.
Stream == [pc : {"off", "read", "tail", "send", "sendtail", "wait", "ended"},
           cursor : Nat, batch : Seq(Nat)]
Shot == [pc : {"idle", "page", "done"}, expected : Nat, rows : Seq(Nat), cursor : Nat,
         whole : BOOLEAN]

ReadersOK ==
  /\ sub \in [Reader -> Stream]
  /\ seen \in [Reader -> Seq(Nat)]
  /\ shot \in Shot

AskInv == TypeOK /\ Carried /\ Settled /\ AcceptedIsRecorded /\ AnnouncedOnce
LogInv == Written /\ Queued /\ EmissionOrder
ReadInv == ReadersOK /\ Streaming /\ Snapping /\ SnapshotWhole

-----------------------------------------------------------------------------
(* Rows and batches *)

\* A row an execution or its turn writes is an event.
LEMMA RowTyped ==
  ASSUME NEW kind \in {"note", "requested", "turn"}, NEW q \in Command, NEW n \in Nat
  PROVE  /\ Row(kind, q, n) \in Event
         /\ Row(kind, q, n).kind = kind /\ Row(kind, q, n).q = q /\ Row(kind, q, n).n = n
BY DEF Row, Event

\* The reply of a question that has one is the only one.
LEMMA OnlyReply ==
  ASSUME NEW q \in Question, NEW a \in Reply, answers[q] = {a}
  PROVE  TheReply(q) = a
BY DEF TheReply

\* An announcement is an event and carries the answer on record.
LEMMA ResolvedTyped ==
  ASSUME NEW q \in Question, NEW a \in Reply, answers[q] = {a}
  PROVE  /\ Resolved(q) \in Event
         /\ Resolved(q).kind = "resolved" /\ Resolved(q).q = q
         /\ Resolved(q).value = a.value /\ Resolved(q).n = 0
BY OnlyReply DEF Resolved, Event, Reply, Command

\* Taking the only batch out of the air leaves none.
LEMMA OnlyBatch ==
  ASSUME NEW S, flying \in Seq(S), Len(flying) <= 1, NEW i \in DOMAIN flying
  PROVE  i = 1 /\ Len(flying) = 1 /\ RemoveAt(flying, i) = <<>> /\ flying[i] \in S
<1>0. DOMAIN flying = 1..Len(flying) /\ Len(flying) \in Nat /\ flying \in [1..Len(flying) -> S]
  BY LenProperties
<1>1. i = 1 /\ Len(flying) = 1 /\ flying[i] \in S
  BY <1>0
<1>2. SubSeq(flying, 1, 0) = <<>> /\ SubSeq(flying, 2, 1) = <<>>
  BY <1>1
<1>3. <<>> \o <<>> = <<>>
  OBVIOUS
<1> QED
  BY <1>1, <1>2, <1>3 DEF RemoveAt

-----------------------------------------------------------------------------
(* Which steps touch what *)

\* An execution emits a row; a question it shows exists by then.
EmitsOne ==
  \E kind \in {"note", "requested"}, q \in Command :
    /\ kind = "requested" => q \in Question /\ row'[q] # "absent"
    /\ Emit(kind, q)

\* The turn row goes to the log after everything the execution emitted.
ClosesTurn ==
  /\ Flushed
  /\ emitted' = emitted + 1
  /\ log' = Append(log, Row("turn", NoQ, emitted + 1))
  /\ UNCHANGED <<buffer, flying>>

\* An announcement leaves the outbox for the log.
Announces ==
  \E q \in Question :
    /\ q \in outbox
    /\ log' = Append(log, Resolved(q))
    /\ outbox' = outbox \ {q}
    /\ UNCHANGED <<buffer, flying, emitted, row, answers, command, taken>>

\* What becomes of the rows: emitted, taken, stored, lost, announced, or dropped
\* with the process that held them.
LEMMA LogSteps ==
  ASSUME TypeOK, [Next]_vars
  PROVE  \/ EmitsOne
         \/ TakeBuffer /\ UNCHANGED emitted
         \/ \E i \in DOMAIN flying : StoreBatch(i) /\ UNCHANGED emitted
         \/ \E i \in DOMAIN flying : LoseBatch(i) /\ UNCHANGED emitted
         \/ ClosesTurn
         \/ Announces
         \/ buffer' = <<>> /\ flying' = <<>> /\ UNCHANGED <<log, emitted>>
         \/ UNCHANGED <<log, buffer, flying, emitted>>
<1>1. NoQ \in Command
  BY DEF Command, Initial
<1>2. CASE Progress
  BY <1>1, <1>2 DEF Progress, EmitsOne
<1>3. CASE \E q \in Question : Ask(q)
  BY <1>3 DEF Ask, EmitsOne, Command, TypeOK
<1>4. CASE Raise
  BY <1>1, <1>4 DEF Raise, EmitsOne
<1>5. CASE Close
  BY <1>5 DEF Close, ClosesTurn
<1>6. CASE Take
  BY <1>6 DEF Take, history
<1>7. CASE Store
  BY <1>7 DEF Store, history
<1>8. CASE FlushFails
  BY <1>8 DEF FlushFails
<1>9. CASE \E x \in Publisher, q \in Question : PubRow(x, q)
  BY <1>9 DEF PubRow, Announces, Unpublished, history
<1>10. CASE \E p \in Process : Crash(p)
  BY <1>10 DEF Crash
<1>11. CASE Park \/ Finish \/ Resume \/ NoticeCancel \/ Leave \/ Learner
            \/ \E p \in Process : DriveStep(p) \/ Startup(p) \/ Recovered(p)
  BY <1>11 DEF Park, Finish, Resume, NoticeCancel, Leave, Learner, Send, DriveStep, Start,
     DrainNothing, Startup, Recovered, storeVars, history
<1>12. CASE \/ \E x \in Publisher : PubRead(x)
            \/ \E r \in Request : RequestStep(r) \/ PublishFails(r)
            \/ \E s \in Reader : ReaderStep(s) \/ ConnectionLost(s)
            \/ ShotStep \/ Cancel \/ UNCHANGED vars
  BY <1>12 DEF PubRead, RequestStep, Claim, Answered, PublishFails, ReaderStep, ConnectionLost,
     ShotStep, Cancel, vars, storeVars, history
<1> QED
  BY <1>2, <1>3, <1>4, <1>5, <1>6, <1>7, <1>8, <1>9, <1>10, <1>11, <1>12
     DEF Next, RunStep, PublishStep, Environment

\* What becomes of the questions: asked, claimed, announced, or left alone.
LEMMA QuestionSteps ==
  ASSUME [Next]_vars
  PROVE  \/ \E q \in Question : Ask(q)
         \/ \E r \in Request : Claim(r)
         \/ Announces
         \/ UNCHANGED <<row, answers, outbox>>
<1>1. CASE \E x \in Publisher, q \in Question : PubRow(x, q)
  BY <1>1 DEF PubRow, Announces, Unpublished, history
<1>2. CASE Progress \/ Raise \/ Close \/ Take \/ Store \/ FlushFails \/ Cancel
           \/ \E p \in Process : Crash(p)
  BY <1>2 DEF Progress, Raise, Close, Take, Store, FlushFails, Cancel, Crash, dbVars
<1>3. CASE Park \/ Finish \/ Resume \/ NoticeCancel \/ Leave \/ Learner
            \/ \E p \in Process : DriveStep(p) \/ Startup(p) \/ Recovered(p)
  BY <1>3 DEF Park, Finish, Resume, NoticeCancel, Leave, Learner, Send, DriveStep, Start,
     DrainNothing, Startup, Recovered, dbVars
<1>4. CASE \/ \E x \in Publisher : PubRead(x)
           \/ \E r \in Request : Answered(r) \/ PublishFails(r)
           \/ \E s \in Reader : ReaderStep(s) \/ ConnectionLost(s)
           \/ ShotStep \/ UNCHANGED vars
  BY <1>4 DEF PubRead, Answered, PublishFails, ReaderStep, ConnectionLost,
     ShotStep, vars, dbVars
<1> QED
  BY <1>1, <1>2, <1>3, <1>4 DEF Next, RunStep, PublishStep, RequestStep, Environment

\* A question that exists goes on existing.
LEMMA QuestionsStay ==
  ASSUME TypeOK, [Next]_vars, NEW q \in Question, row[q] # "absent"
  PROVE  row'[q] # "absent"
<1>1. CASE \E x \in Question : Ask(x)
  BY <1>1 DEF Ask, TypeOK
<1>2. CASE \E r \in Request : Claim(r)
  BY <1>2 DEF Claim, TypeOK
<1> QED
  BY <1>1, <1>2, QuestionSteps DEF Announces

-----------------------------------------------------------------------------
(* The order of the log *)

\* Elements of a concatenation.
LEMMA ConcatElements ==
  ASSUME NEW S, NEW s \in Seq(S), NEW t \in Seq(S)
  PROVE  /\ s \o t \in Seq(S) /\ Len(s \o t) = Len(s) + Len(t)
         /\ DOMAIN (s \o t) = 1..Len(s) + Len(t)
         /\ \A i \in DOMAIN s : i \in DOMAIN (s \o t) /\ (s \o t)[i] = s[i]
         /\ \A i \in DOMAIN (s \o t) :
              \/ i \in DOMAIN s /\ (s \o t)[i] = s[i]
              \/ i \notin DOMAIN s /\ i - Len(s) \in DOMAIN t /\ (s \o t)[i] = t[i - Len(s)]
<1>1. /\ s \o t \in Seq(S) /\ Len(s \o t) = Len(s) + Len(t)
      /\ Len(s) \in Nat /\ Len(t) \in Nat
      /\ DOMAIN (s \o t) = 1..Len(s) + Len(t)
  BY ConcatProperties, LenProperties
<1>2. DOMAIN s = 1..Len(s) /\ DOMAIN t = 1..Len(t)
  BY LenProperties
<1>3. \A i \in 1..Len(s) + Len(t) : (s \o t)[i] = IF i <= Len(s) THEN s[i] ELSE t[i - Len(s)]
  BY ConcatProperties, <1>1
<1> QED
  BY <1>1, <1>2, <1>3

\* Elements of an extension by one.
LEMMA AppendElements ==
  ASSUME NEW S, NEW s \in Seq(S), NEW e \in S
  PROVE  /\ Append(s, e) \in Seq(S) /\ Len(Append(s, e)) = Len(s) + 1
         /\ Len(s) + 1 \in DOMAIN Append(s, e) /\ Append(s, e)[Len(s) + 1] = e
         /\ \A i \in DOMAIN s : i \in DOMAIN Append(s, e) /\ Append(s, e)[i] = s[i]
         /\ \A i \in DOMAIN Append(s, e) :
              \/ i \in DOMAIN s /\ Append(s, e)[i] = s[i]
              \/ i = Len(s) + 1 /\ i \notin DOMAIN s /\ Append(s, e)[i] = e
<1>1. /\ Append(s, e) \in Seq(S) /\ Len(Append(s, e)) = Len(s) + 1
      /\ Append(s, e)[Len(s) + 1] = e
      /\ \A i \in 1..Len(s) : Append(s, e)[i] = s[i]
  BY AppendProperties
<1>2. DOMAIN s = 1..Len(s) /\ Len(s) \in Nat
  BY LenProperties
<1>3. DOMAIN Append(s, e) = 1..Len(s) + 1
  BY <1>1, LenProperties
<1> QED
  BY <1>1, <1>2, <1>3

\* The same of rows that exist already, after the step.
ShowsNext(e) == e.kind = "requested" => e.q \in Question /\ row'[e.q] # "absent"

WaitingNext(rows) ==
  /\ \A i \in DOMAIN rows :
       /\ ShowsNext(rows[i])
       /\ rows[i].kind # "resolved"
       /\ rows[i].n \in 1..emitted'
       /\ \A j \in DOMAIN log' : log'[j].n < rows[i].n
  /\ \A i, j \in DOMAIN rows : i < j => rows[i].n < rows[j].n

\* What a row shows goes on existing.
LEMMA ShownStays ==
  ASSUME TypeOK, [Next]_vars
  PROVE  \A e : Shows(e) => ShowsNext(e)
BY QuestionsStay DEF Shows, ShowsNext

\* A batch keeps waiting while the log grows only by what is older.
LEMMA WaitingStays ==
  ASSUME TypeOK, [Next]_vars, emitted' \in Nat, emitted' >= emitted,
         NEW rows \in Seq(Event), Waiting(rows),
         \A i \in DOMAIN rows, j \in DOMAIN log' : log'[j].n < rows[i].n
  PROVE  WaitingNext(rows)
<1>1. \A i \in DOMAIN rows : ShowsNext(rows[i])
  BY ShownStays DEF Waiting
<1>2. \A i \in DOMAIN rows : rows[i].n \in 1..emitted'
  BY DEF Waiting, TypeOK
<1> QED
  BY <1>1, <1>2 DEF Waiting, WaitingNext

\* What is to be shown of the batches after a step.
LEMMA QueuedNext ==
  ASSUME Len(flying') <= 1, WaitingNext(buffer'),
         \A b \in DOMAIN flying' :
           /\ WaitingNext(flying'[b])
           /\ \A i \in DOMAIN flying'[b], j \in DOMAIN buffer' :
                flying'[b][i].n < buffer'[j].n
  PROVE  Queued'
BY DEF Queued, Waiting, WaitingNext, Shows, ShowsNext

\* Nothing waits in an empty batch.
LEMMA NoneWaiting == WaitingNext(<<>>)
BY DEF WaitingNext

\* The rows that wait are events, and so are those of the log.
LEMMA LogTyped ==
  ASSUME TypeOK
  PROVE  /\ log \in Seq(Event) /\ buffer \in Seq(Event) /\ flying \in Seq(Seq(Event))
         /\ emitted \in Nat
         /\ \A i \in DOMAIN log : log[i] \in Event /\ log[i].n \in Nat
         /\ \A i \in DOMAIN buffer : buffer[i] \in Event /\ buffer[i].n \in Nat
         /\ \A b \in DOMAIN flying : flying[b] \in Seq(Event)
         /\ \A b \in DOMAIN flying : \A i \in DOMAIN flying[b] :
              flying[b][i] \in Event /\ flying[b][i].n \in Nat
<1>1. log \in Seq(Event) /\ buffer \in Seq(Event) /\ flying \in Seq(Seq(Event)) /\ emitted \in Nat
  BY DEF TypeOK
<1>2. \A e \in Event : e.n \in Nat
  BY DEF Event
<1>3. \A s \in Seq(Event) : \A i \in DOMAIN s : s[i] \in Event
  BY ElementOfSeq, LenProperties
<1>4. \A b \in DOMAIN flying : flying[b] \in Seq(Event)
  BY <1>1, ElementOfSeq, LenProperties
<1> QED
  BY <1>1, <1>2, <1>3, <1>4

\* What is stored or announced is shown and numbered like everything else.
LEMMA WrittenKeeps ==
  ASSUME TypeOK, AnnouncedOnce, LogInv, [Next]_vars
  PROVE  Written'
<1> USE LogTyped
<1>s. \A e : Shows(e) => ShowsNext(e)
  BY ShownStays
<1>c. NoQ \in Command
  BY DEF Command, Initial
<1>p. /\ \A i \in DOMAIN log : Shows(log[i]) /\ log[i].n <= emitted
      /\ \A i \in DOMAIN log :
           log[i].kind = "resolved" => log[i].q \in Question /\ log[i].n = 0
  BY DEF LogInv, Written
<1>n. ASSUME emitted' \in Nat,
             \A j \in DOMAIN log' :
               /\ ShowsNext(log'[j]) /\ log'[j].n <= emitted'
               /\ log'[j].kind = "resolved" => log'[j].q \in Question /\ log'[j].n = 0
      PROVE  Written'
  BY <1>n DEF Written, Shows, ShowsNext
<1>0. CASE UNCHANGED log /\ emitted' \in Nat /\ emitted' >= emitted
  BY <1>0, <1>s, <1>p, <1>n
<1>1. CASE EmitsOne
  BY <1>0, <1>1 DEF EmitsOne, Emit
<1>2. CASE TakeBuffer /\ UNCHANGED emitted
  BY <1>0, <1>2 DEF TakeBuffer
<1>3. ASSUME NEW i \in DOMAIN flying, StoreBatch(i), UNCHANGED emitted PROVE Written'
  <2>1. log' = log \o flying[i] /\ flying[i] \in Seq(Event)
    BY <1>3 DEF StoreBatch
  <2>2. \A j \in DOMAIN flying[i] :
           Shows(flying[i][j]) /\ flying[i][j].n <= emitted /\ flying[i][j].kind # "resolved"
    BY DEF LogInv, Queued, Waiting
  <2>3. \A j \in DOMAIN log' : \/ j \in DOMAIN log /\ log'[j] = log[j]
                               \/ \E k \in DOMAIN flying[i] : log'[j] = flying[i][k]
    BY <2>1, ConcatElements
  <2> QED
    BY <1>3, <2>2, <2>3, <1>s, <1>p, <1>n
<1>4. ASSUME NEW i \in DOMAIN flying, LoseBatch(i), UNCHANGED emitted PROVE Written'
  BY <1>0, <1>4 DEF LoseBatch
<1>5. CASE ClosesTurn
  <2> DEFINE e == Row("turn", NoQ, emitted + 1)
  <2>1. e \in Event /\ e.kind = "turn" /\ e.n = emitted + 1
    BY RowTyped, <1>c, emitted + 1 \in Nat
  <2>2. log' = Append(log, e) /\ emitted' = emitted + 1
    BY <1>5 DEF ClosesTurn
  <2> HIDE DEF e
  <2>3. \A j \in DOMAIN log' : (j \in DOMAIN log /\ log'[j] = log[j]) \/ log'[j] = e
    BY <2>1, <2>2, AppendElements
  <2>4. ShowsNext(e)
    BY <2>1 DEF ShowsNext
  <2> QED
    BY <2>1, <2>2, <2>3, <2>4, <1>s, <1>p, <1>n
<1>6. CASE Announces
  <2>1. PICK q \in Question : q \in outbox /\ log' = Append(log, Resolved(q)) /\ UNCHANGED emitted
    BY <1>6 DEF Announces
  <2>2. PICK a \in Reply : answers[q] = {a}
    BY <2>1 DEF AnnouncedOnce
  <2> DEFINE e == Resolved(q)
  <2>3. e \in Event /\ e.kind = "resolved" /\ e.q = q /\ e.n = 0
    BY <2>2, ResolvedTyped
  <2> HIDE DEF e
  <2>4. \A j \in DOMAIN log' : (j \in DOMAIN log /\ log'[j] = log[j]) \/ log'[j] = e
    BY <2>1, <2>3, AppendElements DEF e
  <2>5. ShowsNext(e)
    BY <2>3 DEF ShowsNext
  <2> QED
    BY <2>1, <2>3, <2>4, <2>5, <1>s, <1>p, <1>n
<1> QED
  BY <1>0, <1>1, <1>2, <1>3, <1>4, <1>5, <1>6, LogSteps

\* A batch that waits keeps its place between the log and the buffer, whatever is
\* emitted, taken, stored, lost or announced.
LEMMA QueuedKeeps ==
  ASSUME TypeOK, AnnouncedOnce, LogInv, [Next]_vars
  PROVE  Queued'
<1> USE LogTyped
<1>s. \A e : Shows(e) => ShowsNext(e)
  BY ShownStays
<1>w. \A rows \in Seq(Event) :
         /\ Waiting(rows)
         /\ emitted' \in Nat /\ emitted' >= emitted
         /\ \A i \in DOMAIN rows, j \in DOMAIN log' : log'[j].n < rows[i].n
         => WaitingNext(rows)
  BY WaitingStays
<1>u. \A rows \in Seq(Event) : Waiting(rows) /\ log' = log =>
         \A i \in DOMAIN rows, j \in DOMAIN log' : log'[j].n < rows[i].n
  BY DEF Waiting
<1>q. /\ Len(flying) <= 1 /\ Waiting(buffer)
      /\ \A b \in DOMAIN flying : Waiting(flying[b])
      /\ \A b \in DOMAIN flying :
           \A i \in DOMAIN flying[b], j \in DOMAIN buffer : flying[b][i].n < buffer[j].n
  BY DEF LogInv, Queued
<1>e. WaitingNext(<<>>)
  BY NoneWaiting
<1>0. CASE UNCHANGED <<log, buffer, flying, emitted>>
  <2>1. WaitingNext(buffer')
    BY <1>0, <1>q, <1>w, <1>u
  <2>2. ASSUME NEW b \in DOMAIN flying' PROVE WaitingNext(flying'[b])
    <3>1. Waiting(flying[b]) /\ flying[b] \in Seq(Event) /\ flying'[b] = flying[b]
      BY <1>0, <1>q
    <3> QED
      BY <1>0, <3>1, <1>w, <1>u
  <2> QED
    BY <1>0, <1>q, <2>1, <2>2, QueuedNext
<1>1. CASE EmitsOne
  <2>1. PICK kind \in {"note", "requested"}, q \in Command :
          /\ kind = "requested" => q \in Question /\ row'[q] # "absent"
          /\ Emit(kind, q)
    BY <1>1 DEF EmitsOne
  <2> DEFINE e == Row(kind, q, emitted + 1)
  <2>2. e \in Event /\ e.kind = kind /\ e.q = q /\ e.n = emitted + 1
    BY RowTyped
  <2>3. /\ buffer' = Append(buffer, e) /\ emitted' = emitted + 1
        /\ UNCHANGED <<log, flying>>
    BY <2>1, <2>2 DEF Emit, Emitted
  <2> HIDE DEF e
  <2>4. ShowsNext(e) /\ e.kind # "resolved"
    BY <2>1, <2>2 DEF ShowsNext
  <2>5. \A j \in DOMAIN buffer' : \/ j \in DOMAIN buffer /\ buffer'[j] = buffer[j]
                                  \/ j = Len(buffer) + 1 /\ buffer'[j] = e
    BY <2>2, <2>3, AppendElements
  <2>6. \A i \in DOMAIN log : log[i].n < e.n
    BY <2>2 DEF LogInv, Written, Shows, ShowsNext
  <2>7. \A j \in DOMAIN buffer' :
           /\ ShowsNext(buffer'[j])
           /\ buffer'[j].kind # "resolved"
           /\ buffer'[j].n \in 1..emitted'
           /\ \A i \in DOMAIN log : log[i].n < buffer'[j].n
    BY <1>q, <1>s, <2>2, <2>3, <2>4, <2>5, <2>6 DEF Waiting
  <2>8. \A i, j \in DOMAIN buffer' : i < j => buffer'[i].n < buffer'[j].n
    <3>1. DOMAIN buffer = 1..Len(buffer) /\ Len(buffer) \in Nat
      BY LenProperties
    <3>2. \A i \in DOMAIN buffer : buffer[i].n < e.n
      BY <1>q, <2>2 DEF Waiting
    <3> QED
      BY <1>q, <2>5, <3>1, <3>2 DEF Waiting
  <2>9. WaitingNext(buffer')
    BY <2>3, <2>7, <2>8 DEF WaitingNext
  <2>10. ASSUME NEW b \in DOMAIN flying'
         PROVE  /\ WaitingNext(flying'[b])
                /\ \A i \in DOMAIN flying'[b], j \in DOMAIN buffer' :
                     flying'[b][i].n < buffer'[j].n
    <3>1. b \in DOMAIN flying /\ flying'[b] = flying[b] /\ flying[b] \in Seq(Event)
          /\ Waiting(flying[b])
      BY <1>q, <2>3
    <3>2. \A i \in DOMAIN flying[b] : flying[b][i].n < e.n
      BY <2>2, <3>1 DEF Waiting
    <3>3. WaitingNext(flying'[b])
      <4>1. emitted' \in Nat /\ emitted' >= emitted /\ log' = log
        BY <2>3
      <4>2. WaitingNext(flying[b])
        BY <1>w, <1>u, <3>1, <4>1
      <4> QED
        BY <3>1, <4>2
    <3> QED
      BY <1>q, <2>5, <3>1, <3>2, <3>3
  <2> QED
    BY <1>q, <2>3, <2>9, <2>10, QueuedNext
<1>2. CASE TakeBuffer /\ UNCHANGED emitted
  <2>1. flying = <<>> /\ flying' = <<buffer>> /\ buffer' = <<>> /\ log' = log
    BY <1>2 DEF TakeBuffer, FlushLock
  <2>2. Len(flying') = 1 /\ DOMAIN flying' = {1} /\ flying'[1] = buffer
    BY <2>1
  <2>4. WaitingNext(flying'[1])
    BY <1>2, <1>q, <1>w, <1>u, <2>1, <2>2
  <2> QED
    BY <1>e, <2>1, <2>2, <2>4, QueuedNext
<1>3. ASSUME NEW b \in DOMAIN flying, StoreBatch(b), UNCHANGED emitted PROVE Queued'
  <2>1. /\ log' = log \o flying[b] /\ flying[b] \in Seq(Event) /\ buffer' = buffer
        /\ flying' = <<>>
    BY <1>3, <1>q, OnlyBatch DEF StoreBatch
  <2>2. \A j \in DOMAIN log' : \/ j \in DOMAIN log /\ log'[j] = log[j]
                               \/ \E k \in DOMAIN flying[b] : log'[j] = flying[b][k]
    BY <2>1, ConcatElements
  <2>3. \A i \in DOMAIN buffer, j \in DOMAIN log' : log'[j].n < buffer[i].n
    BY <1>q, <2>2 DEF Waiting
  <2>4. WaitingNext(buffer')
    BY <1>3, <1>q, <1>w, <2>1, <2>3
  <2> QED
    BY <2>1, <2>4, QueuedNext
<1>4. ASSUME NEW b \in DOMAIN flying, LoseBatch(b), UNCHANGED emitted PROVE Queued'
  <2>1. log' = log /\ buffer' = buffer /\ flying' = <<>>
    BY <1>4, <1>q, OnlyBatch DEF LoseBatch
  <2>2. WaitingNext(buffer')
    BY <1>4, <1>q, <1>w, <1>u, <2>1
  <2> QED
    BY <2>1, <2>2, QueuedNext
<1>5. CASE ClosesTurn
  BY <1>5, <1>e, QueuedNext DEF ClosesTurn, Flushed, FlushLock
<1>6. CASE Announces
  <2>1. PICK q \in Question : /\ q \in outbox /\ log' = Append(log, Resolved(q))
                              /\ UNCHANGED <<buffer, flying, emitted>>
    BY <1>6 DEF Announces
  <2>2. PICK a \in Reply : answers[q] = {a}
    BY <2>1 DEF AnnouncedOnce
  <2> DEFINE e == Resolved(q)
  <2>3. e \in Event /\ e.n = 0
    BY <2>2, ResolvedTyped
  <2> HIDE DEF e
  <2>4. \A j \in DOMAIN log' : (j \in DOMAIN log /\ log'[j] = log[j]) \/ log'[j] = e
    BY <2>1, <2>3, AppendElements DEF e
  <2>5. \A rows \in Seq(Event) : Waiting(rows) =>
           \A i \in DOMAIN rows, j \in DOMAIN log' : log'[j].n < rows[i].n
    <3> SUFFICES ASSUME NEW rows \in Seq(Event), Waiting(rows),
                        NEW i \in DOMAIN rows, NEW j \in DOMAIN log'
                 PROVE  log'[j].n < rows[i].n
      OBVIOUS
    <3>1. rows[i].n \in 1..emitted /\ \A k \in DOMAIN log : log[k].n < rows[i].n
      BY DEF Waiting
    <3>2. CASE j \in DOMAIN log /\ log'[j] = log[j]
      BY <3>1, <3>2
    <3>3. CASE log'[j] = e
      BY <2>3, <3>1, <3>3
    <3> QED
      BY <2>4, <3>2, <3>3
  <2>6. WaitingNext(buffer')
    BY <1>q, <1>w, <2>1, <2>5
  <2>7. ASSUME NEW b \in DOMAIN flying' PROVE WaitingNext(flying'[b])
    <3>1. Waiting(flying[b]) /\ flying[b] \in Seq(Event) /\ flying'[b] = flying[b]
      BY <2>1, <1>q
    <3>2. \A i \in DOMAIN flying[b], j \in DOMAIN log' : log'[j].n < flying[b][i].n
      BY <2>5, <3>1
    <3>3. emitted' \in Nat /\ emitted' >= emitted
      BY <2>1
    <3>4. WaitingNext(flying[b])
      BY <1>w, <3>1, <3>2, <3>3
    <3> QED
      BY <3>1, <3>4
  <2> QED
    BY <1>q, <2>1, <2>6, <2>7, QueuedNext
<1>7. CASE buffer' = <<>> /\ flying' = <<>> /\ UNCHANGED <<log, emitted>>
  BY <1>7, <1>e, QueuedNext
<1> QED
  BY <1>0, <1>1, <1>2, <1>3, <1>4, <1>5, <1>6, <1>7, LogSteps

\* Rows of executions reach the log in the order of their emission.
LEMMA OrderKeeps ==
  ASSUME TypeOK, AnnouncedOnce, LogInv, [Next]_vars
  PROVE  EmissionOrder'
<1> USE LogTyped
<1>d. DOMAIN log = 1..Len(log) /\ Len(log) \in Nat
  BY LenProperties
<1>o. \A i, j \in DOMAIN log : i < j /\ log[i].n > 0 /\ log[j].n > 0 => log[i].n < log[j].n
  BY DEF LogInv, EmissionOrder
<1>0. CASE UNCHANGED log
  BY <1>0, <1>o DEF EmissionOrder
<1>1. ASSUME NEW e \in Event, log' = Append(log, e), e.n \in Nat,
             e.n = 0 \/ \A i \in DOMAIN log : log[i].n < e.n
      PROVE  EmissionOrder'
  <2>1. \A j \in DOMAIN log' : \/ j \in DOMAIN log /\ log'[j] = log[j]
                               \/ j = Len(log) + 1 /\ log'[j] = e
    BY <1>1, AppendElements
  <2> QED
    BY <1>1, <1>d, <1>o, <2>1 DEF EmissionOrder
<1>2. ASSUME NEW b \in DOMAIN flying, StoreBatch(b) PROVE EmissionOrder'
  <2>1. log' = log \o flying[b] /\ flying[b] \in Seq(Event) /\ Waiting(flying[b])
    BY <1>2 DEF StoreBatch, LogInv, Queued
  <2>2. \A j \in DOMAIN log' : \/ j \in DOMAIN log /\ log'[j] = log[j]
                               \/ /\ j \notin DOMAIN log /\ j - Len(log) \in DOMAIN flying[b]
                                  /\ log'[j] = flying[b][j - Len(log)]
    BY <2>1, ConcatElements
  <2>3. DOMAIN log' = 1..Len(log) + Len(flying[b])
    BY <2>1, ConcatElements
  <2>4. Len(flying[b]) \in Nat /\ DOMAIN flying[b] = 1..Len(flying[b])
    BY <2>1, LenProperties
  <2>5. ASSUME NEW i \in DOMAIN log', NEW j \in DOMAIN log', i < j,
               log'[i].n > 0, log'[j].n > 0
        PROVE  log'[i].n < log'[j].n
    <3>1. CASE i \in DOMAIN log /\ j \in DOMAIN log
      BY <1>o, <2>2, <2>5, <3>1
    <3>2. CASE i \in DOMAIN log /\ j \notin DOMAIN log
      BY <2>1, <2>2, <2>5, <3>2 DEF Waiting
    <3>3. CASE i \notin DOMAIN log
      <4>1. i \in Int /\ j \in Int /\ j \notin DOMAIN log
        BY <1>d, <2>3, <2>4, <2>5, <3>3
      <4>2. i - Len(log) < j - Len(log)
        BY <1>d, <2>5, <4>1
      <4> QED
        BY <2>1, <2>2, <2>5, <3>3, <4>1, <4>2 DEF Waiting
    <3> QED
      BY <3>1, <3>2, <3>3
  <2> QED
    BY <2>5 DEF EmissionOrder
<1>c. NoQ \in Command
  BY DEF Command, Initial
<1>3. CASE ClosesTurn
  <2> DEFINE e == Row("turn", NoQ, emitted + 1)
  <2>1. e \in Event /\ e.n = emitted + 1
    BY RowTyped, <1>c, emitted + 1 \in Nat
  <2>2. log' = Append(log, e)
    BY <1>3 DEF ClosesTurn
  <2> HIDE DEF e
  <2> QED
    BY <1>1, <2>1, <2>2 DEF LogInv, Written, Shows, ShowsNext
<1>4. CASE Announces
  <2>1. PICK q \in Question : q \in outbox /\ log' = Append(log, Resolved(q))
    BY <1>4 DEF Announces
  <2>2. PICK a \in Reply : answers[q] = {a}
    BY <2>1 DEF AnnouncedOnce
  <2>3. Resolved(q) \in Event /\ Resolved(q).n = 0
    BY <2>2, ResolvedTyped
  <2> QED
    BY <1>1, <2>1, <2>3
<1> QED
  BY <1>0, <1>1, <1>2, <1>3, <1>4, LogSteps DEF EmitsOne, Emit, TakeBuffer, LoseBatch

-----------------------------------------------------------------------------
(* Types *)

\* The rows keep their types.
LEMMA RowsTyped ==
  ASSUME TypeOK, AnnouncedOnce, LogInv, [Next]_vars
  PROVE  /\ log' \in Seq(Event) /\ buffer' \in Seq(Event) /\ flying' \in Seq(Seq(Event))
         /\ emitted' \in Nat
<1> USE LogTyped
<1>c. NoQ \in Command /\ emitted + 1 \in Nat
  BY DEF Command, Initial
<1>0. <<>> \in Seq(Event) /\ <<>> \in Seq(Seq(Event))
  OBVIOUS
<1>1. CASE EmitsOne
  <2>1. PICK kind \in {"note", "requested"}, q \in Command : Emit(kind, q)
    BY <1>1 DEF EmitsOne
  <2>2. Row(kind, q, emitted + 1) \in Event
    BY <1>c, RowTyped
  <2> QED
    BY <2>1, <2>2 DEF Emit, Emitted
<1>2. CASE TakeBuffer /\ UNCHANGED emitted
  BY <1>2, <1>0 DEF TakeBuffer
<1>3. ASSUME NEW b \in DOMAIN flying, StoreBatch(b), UNCHANGED emitted
      PROVE  /\ log' \in Seq(Event) /\ buffer' \in Seq(Event) /\ flying' \in Seq(Seq(Event))
             /\ emitted' \in Nat
  <2>1. flying' = <<>> /\ flying[b] \in Seq(Event) /\ log' = log \o flying[b]
    BY <1>3, OnlyBatch DEF StoreBatch, LogInv, Queued
  <2>2. log' \in Seq(Event)
    BY <2>1, ConcatElements
  <2> QED
    BY <1>3, <1>0, <2>1, <2>2 DEF StoreBatch
<1>4. ASSUME NEW b \in DOMAIN flying, LoseBatch(b), UNCHANGED emitted
      PROVE  /\ log' \in Seq(Event) /\ buffer' \in Seq(Event) /\ flying' \in Seq(Seq(Event))
             /\ emitted' \in Nat
  BY <1>4, <1>0, OnlyBatch DEF LoseBatch, LogInv, Queued
<1>5. CASE ClosesTurn
  <2>1. Row("turn", NoQ, emitted + 1) \in Event
    BY <1>c, RowTyped
  <2> QED
    BY <1>5, <2>1 DEF ClosesTurn
<1>6. CASE Announces
  <2>1. PICK q \in Question : /\ q \in outbox /\ log' = Append(log, Resolved(q))
                              /\ UNCHANGED <<buffer, flying, emitted>>
    BY <1>6 DEF Announces
  <2>2. Resolved(q) \in Event
    BY <2>1, ResolvedTyped DEF AnnouncedOnce
  <2> QED
    BY <2>1, <2>2
<1> QED
  BY <1>0, <1>1, <1>2, <1>3, <1>4, <1>5, <1>6, LogSteps

\* An answer request in progress makes one reply.
LEMMA ReplyTyped ==
  ASSUME Carried, NEW r \in Request, req[r].pc = "claim"
  PROVE  /\ req[r].q \in Question /\ row[req[r].q] # "absent"
         /\ [key |-> req[r].key, value |-> req[r].value] \in Reply
BY DEF Carried, Reply

\* The questions, their answers and the outbox keep their types.
LEMMA QuestionsTyped ==
  ASSUME TypeOK, Carried, [Next]_vars
  PROVE  /\ row' \in [Question -> {"absent", "pending", "resolved"}]
         /\ answers' \in [Question -> SUBSET Reply]
         /\ outbox' \subseteq Question
<1>1. CASE \E q \in Question : Ask(q)
  BY <1>1 DEF Ask, TypeOK
<1>2. ASSUME NEW r \in Request, Claim(r)
      PROVE  /\ row' \in [Question -> {"absent", "pending", "resolved"}]
             /\ answers' \in [Question -> SUBSET Reply]
             /\ outbox' \subseteq Question
  <2>1. /\ req[r].q \in Question
        /\ [key |-> req[r].key, value |-> req[r].value] \in Reply
    BY <1>2, ReplyTyped DEF Claim
  <2>2. CASE ClaimOutcome(r) = "accepted"
    <3> DEFINE q == req[r].q
               a == [key |-> req[r].key, value |-> req[r].value]
    <3>1. /\ row' = [row EXCEPT ![q] = "resolved"]
          /\ answers' = [answers EXCEPT ![q] = @ \cup {a}]
          /\ outbox' = outbox \cup {q}
      BY <1>2, <2>2 DEF Claim
    <3>2. q \in Question /\ a \in Reply
      BY <2>1
    <3> HIDE DEF q, a
    <3>3. answers[q] \cup {a} \in SUBSET Reply
      BY <3>2 DEF TypeOK
    <3> QED
      BY <3>1, <3>2, <3>3 DEF TypeOK
  <2>3. CASE ClaimOutcome(r) # "accepted"
    BY <1>2, <2>3 DEF Claim, TypeOK
  <2> QED
    BY <2>2, <2>3
<1> QED
  BY <1>1, <1>2, QuestionSteps DEF Announces, TypeOK

\* What the processes hold and the rest of the database.
RestOK ==
  /\ status \in {"queued", "running", "awaiting_user", "completed", "failed", "cancelled"}
  /\ command \in [Command -> {"none", "pending", "applied"}]
  /\ ckpt \in Place
  /\ run \in Run
  /\ wake \subseteq Process
  /\ req \in [Request -> Req]
  /\ pub \in [Publisher -> Pub]
  /\ up \in [Process -> {"up", "boot", "down"}]
  /\ taken \in Seq(Question \X Value)
  /\ faults \in 0..MaxFaults

LEMMA RestTyped ==
  ASSUME InteractionsAssumption, TypeOK, Carried, Settled, [Next]_vars
  PROVE  RestOK'
<1>r. RestOK
  BY DEF TypeOK, RestOK
<1>c. NoQ \in Command /\ Question \subseteq Command /\ Initial = NoQ /\ Initial \notin Question
  BY DEF Command, Initial, InteractionsAssumption
<1>0. CASE UNCHANGED <<status, command, ckpt, run, wake, req, pub, up, taken, faults>>
  BY <1>r, <1>0 DEF RestOK
<1>1. CASE Progress \/ Take \/ Store
  BY <1>1, <1>0 DEF Progress, Take, Store, dbVars, procVars, history
<1>2. CASE \E s \in Reader : ReaderStep(s)
  BY <1>2, <1>0 DEF ReaderStep, dbVars, procVars, history
<1>3. CASE ShotStep
  BY <1>3, <1>0 DEF ShotStep, dbVars, procVars, history
<1>4. CASE UNCHANGED vars
  BY <1>4, <1>0 DEF vars, dbVars, procVars, history
<1>5. CASE \E q \in Question : Ask(q)
  <2>1. PICK q \in Question : Ask(q)
    BY <1>5
  <2>2. run' \in Run
    BY <1>r, <1>c, <2>1 DEF Ask, RestOK, Run
  <2> QED
    BY <1>r, <2>1, <2>2 DEF Ask, RestOK
<1>6. CASE Park \/ Finish
  <2>1. run.q \in Command
    BY <1>r DEF RestOK, Run
  <2>2. ckpt' \in Place
    BY <1>6, <1>c, <2>1 DEF Park, Finish, Place
  <2>3. run' \in Run
    BY <1>6, <1>r DEF Park, Finish, RestOK, Run
  <2> QED
    BY <1>6, <1>r, <2>2, <2>3 DEF Park, Finish, RestOK, history
<1>19. CASE NoticeCancel
  BY <1>19, <1>r DEF NoticeCancel, RestOK, Run, dbVars, history
<1>7. CASE Leave
  BY <1>7, <1>r, <1>c DEF Leave, RestOK, Run, NoRun, dbVars, history
<1>8. CASE Resume
  <2>1. run.cmd \in Question /\ TheReply(run.cmd) \in Reply
    BY <1>8, OnlyReply DEF Resume, Settled
  <2>2. taken' \in Seq(Question \X Value)
    <3> DEFINE e == <<run.cmd, TheReply(run.cmd).value>>
    <3>1. e \in Question \X Value
      BY <2>1 DEF Reply
    <3>2. taken' = Append(taken, e) \/ taken' = taken
      BY <1>8 DEF Resume
    <3> HIDE DEF e
    <3>3. taken \in Seq(Question \X Value)
      BY <1>r DEF RestOK
    <3>4. Append(taken, e) \in Seq(Question \X Value)
      BY <3>1, <3>3, AppendProperties
    <3> QED
      BY <3>2, <3>3, <3>4
  <2>3. ckpt' \in Place
    BY <1>8, <1>r, <1>c DEF Resume, RestOK, Place
  <2>4. run' \in Run
    BY <1>8, <1>r DEF Resume, RestOK, Run
  <2> QED
    BY <1>8, <1>r, <2>2, <2>3, <2>4 DEF Resume, RestOK
<1>9. CASE Close
  <2>1. run.at \in Process
    BY <1>9 DEF Close, Carried
  <2> QED
    BY <1>9, <1>r, <1>c, <2>1 DEF Close, RestOK, Run, NoRun, TurnStatus
<1>10. CASE \E p \in Process, c \in Command : Start(p, c)
  BY <1>10, <1>r, <1>c DEF Start, RestOK, Run, history
<1>11. CASE \E p \in Process : DrainNothing(p) \/ Startup(p) \/ Recovered(p)
  BY <1>11, <1>r DEF DrainNothing, Startup, Recovered, StartupPub, NoPub, RestOK, Pub, Publisher,
     dbVars, history
<1>12. ASSUME NEW x \in Publisher, PublishStep(x) PROVE RestOK'
  <2>1. ASSUME NEW rows, pub' = [pub EXCEPT ![x] = rows], rows \in Pub
        PROVE  pub' \in [Publisher -> Pub]
    BY <1>r, <2>1 DEF RestOK
  <2>2. NoPub \in Pub /\ [pc |-> "rows", rows |-> outbox] \in Pub
    BY DEF NoPub, Pub, TypeOK
  <2>3. CASE PubRead(x)
    BY <1>r, <2>1, <2>2, <2>3 DEF PubRead, RestOK, dbVars, history
  <2>4. ASSUME NEW q \in Question, PubRow(x, q) PROVE RestOK'
    <3>1. [pub[x] EXCEPT !.rows = @ \ {q}] \in Pub
      BY <1>r DEF RestOK, Pub
    <3>2. \/ pub' = [pub EXCEPT ![x] = NoPub]
          \/ pub' = [pub EXCEPT ![x] = [pub[x] EXCEPT !.rows = @ \ {q}]]
      BY <2>4 DEF PubRow
    <3>3. pub' \in [Publisher -> Pub]
      BY <2>1, <2>2, <3>1, <3>2
    <3> QED
      BY <1>r, <2>4, <3>3 DEF PubRow, RestOK, history
  <2> QED
    BY <1>12, <2>3, <2>4 DEF PublishStep
<1>13. CASE Learner
  <2>1. PICK r \in Request, p \in Process, q \in Question, k \in Key, v \in Value :
          Send(r, p, q, k, v)
    BY <1>13 DEF Learner
  <2>2. [pc |-> "claim", at |-> p, q |-> q, key |-> k, value |-> v, out |-> "none"] \in Req
    BY <1>c DEF Req, Outcome
  <2>3. req' \in [Request -> Req]
    BY <1>r, <2>1, <2>2 DEF Send, RestOK
  <2> QED
    BY <1>r, <2>1, <2>3 DEF Send, RestOK, dbVars, history
<1>14. ASSUME NEW r \in Request, Claim(r) PROVE RestOK'
  <2>1. req[r].q \in Question
    BY <1>14, ReplyTyped DEF Claim
  <2>2. ClaimOutcome(r) \in Outcome
    BY DEF ClaimOutcome, Outcome
  <2>3. command' \in [Command -> {"none", "pending", "applied"}]
    BY <1>14, <1>r, <1>c, <2>1 DEF Claim, RestOK
  <2>4. req' \in [Request -> Req]
    BY <1>14, <1>r, <2>2 DEF Claim, RestOK, Req
  <2>5. pub' \in [Publisher -> Pub]
    BY <1>14, <1>r DEF Claim, RestOK, Pub, NoPub, Publisher
  <2> QED
    BY <1>14, <1>r, <2>3, <2>4, <2>5 DEF Claim, RestOK, history
<1>15. CASE \E r \in Request : Answered(r)
  BY <1>15, <1>r DEF Answered, RestOK, Req, Carried, dbVars, history
<1>f. ASSUME NEW kind, Fault(kind) PROVE faults' \in 0..MaxFaults
  BY <1>r, <1>f DEF Fault, RestOK, InteractionsAssumption
<1>16. CASE Raise \/ FlushFails
  <2>1. run' \in Run
    BY <1>16, <1>r DEF Raise, FlushFails, RestOK, Run
  <2>2. faults' \in 0..MaxFaults
    BY <1>16, <1>f DEF Raise, FlushFails
  <2> QED
    BY <1>16, <1>r, <2>1, <2>2 DEF Raise, FlushFails, RestOK, dbVars
<1>20. CASE Cancel \/ \E s \in Reader : ConnectionLost(s)
  <2>1. faults' \in 0..MaxFaults
    BY <1>20, <1>f DEF Cancel, ConnectionLost
  <2> QED
    BY <1>20, <1>r, <2>1 DEF Cancel, ConnectionLost, RestOK, dbVars, procVars
<1>17. ASSUME NEW r \in Request, PublishFails(r) PROVE RestOK'
  <2>1. faults' \in 0..MaxFaults
    BY <1>17, <1>f DEF PublishFails
  <2>2. pub' \in [Publisher -> Pub]
    BY <1>17, <1>r DEF PublishFails, RestOK, Pub, NoPub, Publisher
  <2>3. req' \in [Request -> Req]
    <3>1. req[r] \in Req
      BY <1>r DEF RestOK
    <3>2. [req[r] EXCEPT !.pc = "done", !.out = "error"] \in Req
      BY <3>1 DEF Req, Outcome
    <3>3. req' = [req EXCEPT ![r] = [req[r] EXCEPT !.pc = "done", !.out = "error"]]
      BY <1>17 DEF PublishFails
    <3> QED
      BY <1>r, <3>2, <3>3 DEF RestOK
  <2> QED
    BY <1>17, <1>r, <2>1, <2>2, <2>3 DEF PublishFails, RestOK, dbVars
<1>18. CASE \E p \in Process : Crash(p)
  BY <1>18, <1>r, <1>c DEF Crash, Fault, RestOK, Req, NoReq, Outcome, Pub, NoPub, Run, NoRun, dbVars,
     InteractionsAssumption
<1> QED
  BY <1>1, <1>2, <1>3, <1>4, <1>5, <1>6, <1>7, <1>8, <1>9, <1>10, <1>11, <1>12, <1>13, <1>14,
     <1>15, <1>16, <1>17, <1>18, <1>19, <1>20
     DEF Next, RunStep, DriveStep, RequestStep, Environment

LEMMA TypesKeep ==
  ASSUME InteractionsAssumption, AskInv, LogInv, [Next]_vars
  PROVE  TypeOK'
BY RowsTyped, QuestionsTyped, RestTyped DEF AskInv, TypeOK, RestOK

-----------------------------------------------------------------------------
(* Questions, answers and announcements *)

\* The live execution goes on, ends, or starts on a live command.
LEMMA RunSteps ==
  ASSUME TypeOK, [Next]_vars
  PROVE  \/ run'.pc = "idle" /\ run'.cmd = Initial
         \/ \E p \in Process, c \in Command :
              /\ run'.at = p /\ run'.cmd = c /\ Live(c)
              /\ run'.pc = IF c = Initial THEN "plan" ELSE "resume"
         \/ /\ run'.at = run.at /\ run'.cmd = run.cmd
            /\ run'.pc = "resume" => run.pc = "resume"
            /\ run'.pc # "idle" => run.pc # "idle"
<1>r. run \in Run
  BY DEF TypeOK
<1>0. CASE run' = run
  BY <1>0
<1>1. CASE Leave \/ Close
  BY <1>1 DEF Leave, Close, NoRun
<1>2. CASE \E p \in Process : Crash(p)
  BY <1>0, <1>2 DEF Crash, NoRun
<1>3. CASE \E p \in Process, c \in Command : Start(p, c)
  BY <1>3 DEF Start, Oldest
<1>4. CASE (\E q \in Question : Ask(q)) \/ Park \/ Finish \/ Resume \/ NoticeCancel \/ Raise \/ FlushFails
  BY <1>4, <1>r DEF Ask, Park, Finish, Resume, NoticeCancel, Raise, FlushFails, Run
<1>5. CASE Progress \/ Take \/ Store \/ Learner \/ ShotStep \/ Cancel \/ UNCHANGED vars
  BY <1>0, <1>5 DEF Progress, Take, Store, Learner, Send, ShotStep, Cancel, vars, procVars
<1>6. CASE \/ \E p \in Process : DrainNothing(p) \/ Startup(p) \/ Recovered(p)
           \/ \E x \in Publisher : PublishStep(x)
           \/ \E r \in Request : RequestStep(r) \/ PublishFails(r)
           \/ \E s \in Reader : ReaderStep(s) \/ ConnectionLost(s)
  BY <1>0, <1>6 DEF DrainNothing, Startup, Recovered, PublishStep, PubRead, PubRow, RequestStep,
     Claim, Answered, PublishFails, ReaderStep, ConnectionLost, procVars
<1> QED
  BY <1>1, <1>2, <1>3, <1>4, <1>5, <1>6 DEF Next, RunStep, DriveStep, Environment

\* A request is sent, claims, ends, is forgotten with its process, or stays.
LEMMA RequestSteps ==
  ASSUME TypeOK, [Next]_vars, NEW r \in Request
  PROVE  \/ \E p \in Process, q \in Question, k \in Key, v \in Value : Send(r, p, q, k, v)
         \/ Claim(r)
         \/ req'[r].pc = "done" /\ req'[r] = [req[r] EXCEPT !.pc = "done"]
         \/ req'[r].pc = "done" /\ req'[r].out = "error"
         \/ req'[r] = NoReq
         \/ req'[r] = req[r]
<1>r. req \in [Request -> Req]
  BY DEF TypeOK
<1>0. CASE UNCHANGED req
  BY <1>0
<1>1. CASE Learner
  <2>1. PICK x \in Request, p \in Process, q \in Question, k \in Key, v \in Value :
          Send(x, p, q, k, v)
    BY <1>1 DEF Learner
  <2>2. CASE x = r
    BY <2>1, <2>2
  <2>3. CASE x # r
    BY <2>1, <2>3, <1>r DEF Send
  <2> QED
    BY <2>2, <2>3
<1>2. CASE \E x \in Request : Claim(x)
  BY <1>2, <1>r DEF Claim
<1>3. ASSUME NEW x \in Request, Answered(x)
      PROVE  \/ req'[r].pc = "done" /\ req'[r] = [req[r] EXCEPT !.pc = "done"]
             \/ req'[r] = req[r]
  BY <1>3, <1>r DEF Answered, Req
<1>4. ASSUME NEW x \in Request, PublishFails(x)
      PROVE  \/ req'[r].pc = "done" /\ req'[r].out = "error"
             \/ req'[r] = req[r]
  BY <1>4, <1>r DEF PublishFails, Req
<1>5. CASE \E p \in Process : Crash(p)
  BY <1>5 DEF Crash
<1>6. CASE \/ RunStep \/ Raise \/ FlushFails \/ Cancel \/ ShotStep \/ UNCHANGED vars
           \/ \E s \in Reader : ReaderStep(s) \/ ConnectionLost(s)
  BY <1>0, <1>6 DEF RunStep, Progress, Ask, Park, Finish, Resume, NoticeCancel, Leave, Close, Take, Store,
     Raise, FlushFails, Cancel, ShotStep, ReaderStep, ConnectionLost, vars, procVars
<1>7. CASE \/ \E p \in Process : DriveStep(p) \/ Startup(p) \/ Recovered(p)
           \/ \E x \in Publisher : PublishStep(x)
  BY <1>0, <1>7 DEF DriveStep, Start, DrainNothing, Startup, Recovered, PublishStep, PubRead, PubRow
<1> QED
  BY <1>1, <1>2, <1>3, <1>4, <1>5, <1>6, <1>7 DEF Next, RequestStep, Environment

\* Executions run in processes, and requests carry payloads for questions that
\* exist, whatever crashes or fails around them.
LEMMA CarriedKeeps ==
  ASSUME InteractionsAssumption, AskInv, LogInv, [Next]_vars
  PROVE  Carried'
<1>t. TypeOK /\ Carried
  BY DEF AskInv
<1>1. run'.pc # "idle" => run'.at \in Process
  BY <1>t, RunSteps DEF Carried
<1>2. ASSUME NEW r \in Request, req'[r].pc \in {"claim", "publish"}
      PROVE  /\ req'[r].at \in Process
             /\ req'[r].q \in Question
             /\ req'[r].key \in Key
             /\ req'[r].value \in Value
             /\ row'[req'[r].q] # "absent"
  <2>0. req[r] \in Req
    BY <1>t DEF TypeOK
  <2>1. ASSUME NEW p \in Process, NEW q \in Question, NEW k \in Key, NEW v \in Value,
               Send(r, p, q, k, v)
        PROVE  /\ req'[r].at = p /\ req'[r].q = q /\ req'[r].key = k /\ req'[r].value = v
               /\ row'[q] # "absent"
    <3>1. row[q] # "absent"
      BY <2>1 DEF Send, Requested, LogInv, Written, Shows
    <3>2. row'[q] # "absent"
      BY <1>t, <3>1, QuestionsStay
    <3> QED
      BY <1>t, <2>1, <3>2 DEF Send, TypeOK
  <2>2. CASE Claim(r) \/ req'[r] = req[r]
    <3>1. /\ req[r].pc \in {"claim", "publish"}
          /\ req'[r].at = req[r].at /\ req'[r].q = req[r].q
          /\ req'[r].key = req[r].key /\ req'[r].value = req[r].value
      BY <1>t, <1>2, <2>0, <2>2 DEF Claim, TypeOK, Req
    <3>2. row'[req[r].q] # "absent"
      BY <1>t, <3>1, QuestionsStay DEF Carried
    <3> QED
      BY <1>t, <3>1, <3>2 DEF Carried
  <2>3. req'[r] # NoReq /\ req'[r].pc # "done"
    BY <1>2 DEF NoReq
  <2>4. CASE \E p \in Process, q \in Question, k \in Key, v \in Value : Send(r, p, q, k, v)
    BY <2>1, <2>4
  <2> QED
    BY <1>t, <2>2, <2>3, <2>4, RequestSteps
<1> QED
  BY <1>1, <1>2 DEF Carried

\* A claim that is accepted settles a question that was asked and has no answer.
LEMMA ClaimSettles ==
  ASSUME AskInv, NEW r \in Request, Claim(r), ClaimOutcome(r) = "accepted"
  PROVE  /\ req[r].q \in Question /\ row[req[r].q] = "pending"
         /\ [key |-> req[r].key, value |-> req[r].value] \in Reply
         /\ answers[req[r].q] = {}
         /\ row' = [row EXCEPT ![req[r].q] = "resolved"]
         /\ answers' = [answers EXCEPT ![req[r].q] =
                          {[key |-> req[r].key, value |-> req[r].value]}]
         /\ command' = [command EXCEPT ![req[r].q] = "pending"]
         /\ outbox' = outbox \cup {req[r].q}
         /\ UNCHANGED log
<1>1. req[r].q \in Question /\ row[req[r].q] # "absent"
      /\ [key |-> req[r].key, value |-> req[r].value] \in Reply
  BY ReplyTyped DEF AskInv, Claim
<1>2. row[req[r].q] # "resolved"
  BY DEF ClaimOutcome
<1>3. row[req[r].q] = "pending" /\ answers[req[r].q] = {}
  BY <1>1, <1>2 DEF AskInv, Settled, TypeOK
<1>4. answers' = [answers EXCEPT ![req[r].q] =
                    answers[req[r].q] \cup {[key |-> req[r].key, value |-> req[r].value]}]
  BY DEF Claim
<1> QED
  BY <1>1, <1>3, <1>4 DEF Claim, storeVars

\* Commands are put in only by claims; everything else leaves the absent absent.
LEMMA CommandSteps ==
  ASSUME TypeOK, [Next]_vars, NEW q \in Question, command[q] = "none", command'[q] # "none",
         InteractionsAssumption
  PROVE  run.cmd = q \/ \E r \in Request : Claim(r) /\ ClaimOutcome(r) = "accepted" /\ req[r].q = q
<1>c. q \in Command /\ command \in [Command -> {"none", "pending", "applied"}]
  BY DEF Command, TypeOK
<1>0. CASE UNCHANGED command
  BY <1>0
<1>1. CASE Close
  BY <1>1, <1>c DEF Close
<1>2. CASE \E r \in Request : Claim(r)
  BY <1>2, <1>c DEF Claim
<1>3. CASE \/ Progress \/ (\E x \in Question : Ask(x)) \/ Park \/ Finish \/ Resume \/ NoticeCancel
           \/ Leave \/ Take \/ Store \/ Raise \/ FlushFails \/ Cancel \/ ShotStep \/ Learner
           \/ UNCHANGED vars
  BY <1>0, <1>3 DEF Progress, Ask, Park, Finish, Resume, NoticeCancel, Leave, Take, Store,
     Raise, FlushFails, Cancel, ShotStep, Learner, Send, vars, dbVars
<1>4. CASE \/ \E p \in Process : DriveStep(p) \/ Startup(p) \/ Recovered(p) \/ Crash(p)
           \/ \E x \in Publisher : PublishStep(x)
           \/ \E r \in Request : Answered(r) \/ PublishFails(r)
           \/ \E s \in Reader : ReaderStep(s) \/ ConnectionLost(s)
  BY <1>0, <1>4 DEF DriveStep, Start, DrainNothing, Startup, Recovered, Crash, PublishStep, PubRead,
     PubRow, Answered, PublishFails, ReaderStep, ConnectionLost, dbVars
<1> QED
  BY <1>1, <1>2, <1>3, <1>4 DEF Next, RunStep, RequestStep, Environment

\* A claim that is not accepted, or another step, leaves answers and resolutions.
LEMMA AnswerSteps ==
  ASSUME AskInv, [Next]_vars
  PROVE  \/ \E r \in Request : Claim(r) /\ ClaimOutcome(r) = "accepted"
         \/ \E q \in Question : Ask(q)
         \/ Announces
         \/ UNCHANGED <<row, answers, outbox>>
BY QuestionSteps DEF Claim

\* Asking makes a question pending and answers nothing.
LEMMA AskAsks ==
  ASSUME AskInv, NEW q \in Question, Ask(q)
  PROVE  /\ row[q] = "absent" /\ row' = [row EXCEPT ![q] = "pending"]
         /\ row \in [Question -> {"absent", "pending", "resolved"}]
         /\ UNCHANGED <<answers, outbox, log>>
BY DEF AskInv, TypeOK, Ask, Emit

\* One answer for good: it is never replaced, and nothing runs before it is there.
LEMMA SettledKeeps ==
  ASSUME InteractionsAssumption, AskInv, [Next]_vars
  PROVE  Settled'
<1>t. TypeOK /\ Settled
  BY DEF AskInv
<1>y. /\ row \in [Question -> {"absent", "pending", "resolved"}]
      /\ answers \in [Question -> SUBSET Reply]
  BY <1>t DEF TypeOK
<1>r. \A q \in Question : row[q] = "resolved" => row'[q] = "resolved" /\ answers'[q] = answers[q]
  <2>1. CASE \E r \in Request : Claim(r) /\ ClaimOutcome(r) = "accepted"
    BY <1>y, <2>1, ClaimSettles
  <2>2. CASE \E q \in Question : Ask(q)
    BY <1>y, <2>2, AskAsks
  <2> QED
    BY <2>1, <2>2, AnswerSteps DEF Announces
<1>1. ASSUME NEW q \in Question, row'[q] = "resolved" PROVE \E a \in Reply : answers'[q] = {a}
  <2>1. CASE row[q] = "resolved"
    BY <1>r, <1>t, <2>1 DEF Settled
  <2>2. CASE row[q] # "resolved"
    <3>1. PICK r \in Request : Claim(r) /\ ClaimOutcome(r) = "accepted"
      BY <1>1, <1>y, <2>2, AnswerSteps, AskAsks DEF Announces
    <3> DEFINE a == [key |-> req[r].key, value |-> req[r].value]
    <3>2. /\ row' = [row EXCEPT ![req[r].q] = "resolved"]
          /\ answers' = [answers EXCEPT ![req[r].q] = {a}]
          /\ a \in Reply
      BY <3>1, ClaimSettles
    <3> HIDE DEF a
    <3> QED
      BY <1>1, <1>y, <2>2, <3>2
  <2> QED
    BY <2>1, <2>2
<1>2. ASSUME NEW q \in Question, row'[q] # "resolved"
      PROVE  answers'[q] = {} /\ command'[q] = "none"
  <2>1. row[q] # "resolved"
    BY <1>2, <1>r
  <2>2. answers[q] = {} /\ command[q] = "none" /\ run.cmd # q
    BY <1>t, <2>1 DEF Settled
  <2>3. ASSUME NEW r \in Request, Claim(r), ClaimOutcome(r) = "accepted" PROVE req[r].q # q
    <3>1. row' = [row EXCEPT ![req[r].q] = "resolved"]
      BY <2>3, ClaimSettles
    <3> QED
      BY <1>2, <1>y, <3>1
  <2>4. answers'[q] = {}
    <3>1. CASE \E r \in Request : Claim(r) /\ ClaimOutcome(r) = "accepted"
      <4>1. PICK r \in Request : Claim(r) /\ ClaimOutcome(r) = "accepted"
        BY <3>1
      <4> DEFINE a == [key |-> req[r].key, value |-> req[r].value]
      <4>2. answers' = [answers EXCEPT ![req[r].q] = {a}]
        BY <4>1, ClaimSettles
      <4>3. req[r].q # q
        BY <2>3, <4>1
      <4> HIDE DEF a
      <4> QED
        BY <1>y, <2>2, <4>2, <4>3
    <3> QED
      BY <2>2, <3>1, AnswerSteps, AskAsks DEF Announces
  <2>5. command'[q] = "none"
    BY <1>t, <2>2, <2>3, CommandSteps
  <2> QED
    BY <2>4, <2>5
<1>3. ASSUME NEW c \in Question, Live(c) PROVE row[c] = "resolved"
  BY <1>t, <1>3 DEF Settled, Live
<1>4. run'.cmd \in Question => row'[run'.cmd] = "resolved"
  BY <1>t, <1>r, <1>3, RunSteps DEF Settled, Initial, InteractionsAssumption
<1>5. run'.pc = "resume" => run'.cmd \in Question
  BY <1>t, RunSteps DEF Settled, Command
<1> QED
  BY <1>1, <1>2, <1>4, <1>5 DEF Settled

\* What a client was told about its answer stays true.
LEMMA AcceptedKeeps ==
  ASSUME InteractionsAssumption, AskInv, [Next]_vars
  PROVE  AcceptedIsRecorded'
<1>t. TypeOK /\ Settled /\ Carried /\ AcceptedIsRecorded
  BY DEF AskInv
<1>y. /\ answers \in [Question -> SUBSET Reply]
      /\ req \in [Request -> Req]
  BY <1>t DEF TypeOK
<1>a. \A q : answers[q] \subseteq answers'[q] \/ UNCHANGED answers
      \/ \E r \in Request : Claim(r) /\ ClaimOutcome(r) = "accepted"
  BY AnswerSteps, AskAsks DEF Announces
<1>b. ASSUME NEW r \in Request, req[r].out \in {"accepted", "duplicate"}
      PROVE  [key |-> req[r].key, value |-> req[r].value] \in answers'[req[r].q]
  <2>1. [key |-> req[r].key, value |-> req[r].value] \in answers[req[r].q]
    BY <1>b, <1>t DEF AcceptedIsRecorded
  <2>2. ASSUME NEW x \in Request, Claim(x), ClaimOutcome(x) = "accepted"
        PROVE  answers[req[r].q] = answers'[req[r].q]
    <3>1. answers[req[x].q] = {} /\ req[x].q # req[r].q
      BY <2>1, <2>2, ClaimSettles
    <3> DEFINE a == [key |-> req[x].key, value |-> req[x].value]
    <3>2. answers' = [answers EXCEPT ![req[x].q] = {a}]
      BY <2>2, ClaimSettles
    <3> HIDE DEF a
    <3> QED
      BY <1>y, <3>1, <3>2
  <2> QED
    BY <1>a, <2>1, <2>2
<1>1. ASSUME NEW r \in Request, req'[r].out \in {"accepted", "duplicate"}
      PROVE  [key |-> req'[r].key, value |-> req'[r].value] \in answers'[req'[r].q]
  <2> DEFINE a == [key |-> req[r].key, value |-> req[r].value]
  <2>0. req[r] \in Req
    BY <1>y
  <2>1. CASE Claim(r)
    <3>1. /\ req'[r].key = req[r].key /\ req'[r].value = req[r].value /\ req'[r].q = req[r].q
          /\ req'[r].out = ClaimOutcome(r)
      BY <1>y, <2>0, <2>1 DEF Claim, Req
    <3>2. req[r].q \in Question
      BY <1>t, <2>1, ReplyTyped DEF Claim
    <3>3. CASE ClaimOutcome(r) = "accepted"
      BY <1>y, <2>1, <3>1, <3>2, <3>3, ClaimSettles
    <3>4. CASE ClaimOutcome(r) = "duplicate"
      <4>1. \E b \in answers[req[r].q] : b.key = req[r].key /\ b.value = req[r].value
        BY <3>4 DEF ClaimOutcome
      <4>2. a \in answers[req[r].q]
        BY <1>y, <3>2, <4>1 DEF Reply
      <4>3. UNCHANGED answers
        BY <2>1, <3>4 DEF Claim
      <4> QED
        BY <3>1, <4>2, <4>3
    <3> QED
      BY <1>1, <3>1, <3>3, <3>4
  <2>2. CASE req'[r].pc = "done" /\ req'[r] = [req[r] EXCEPT !.pc = "done"]
    BY <1>1, <1>b, <2>0, <2>2 DEF Req
  <2>3. CASE req'[r] = req[r]
    BY <1>1, <1>b, <2>3
  <2>4. ASSUME NEW p \in Process, NEW q \in Question, NEW k \in Key, NEW v \in Value,
               Send(r, p, q, k, v)
        PROVE  FALSE
    BY <1>1, <1>y, <2>4 DEF Send
  <2> QED
    BY <1>1, <1>t, <2>1, <2>2, <2>3, <2>4, RequestSteps DEF NoReq
<1> QED
  BY <1>1 DEF AcceptedIsRecorded

\* The log only grows, and by announcements only when something is announced.
LEMMA LogGrows ==
  ASSUME TypeOK, AnnouncedOnce, LogInv, [Next]_vars
  PROVE  /\ DOMAIN log = 1..Len(log) /\ DOMAIN log' = 1..Len(log')
         /\ Len(log) \in Nat /\ Len(log') \in Nat /\ Len(log) <= Len(log')
         /\ \A i \in DOMAIN log : i \in DOMAIN log' /\ log'[i] = log[i]
         /\ \/ Announces
            \/ \A i \in DOMAIN log' : log'[i].kind = "resolved" => i \in DOMAIN log
<1> USE LogTyped
<1>c. NoQ \in Command /\ emitted + 1 \in Nat
  BY DEF Command, Initial
<1>d. /\ DOMAIN log = 1..Len(log) /\ DOMAIN log' = 1..Len(log')
      /\ Len(log) \in Nat /\ Len(log') \in Nat
  BY RowsTyped, LenProperties
<1>1. ASSUME NEW e \in Event, log' = Append(log, e)
      PROVE  /\ Len(log) <= Len(log')
             /\ \A i \in DOMAIN log : i \in DOMAIN log' /\ log'[i] = log[i]
             /\ e.kind # "resolved" =>
                  \A i \in DOMAIN log' : log'[i].kind = "resolved" => i \in DOMAIN log
  BY <1>1, <1>d, AppendElements
<1>2. ASSUME NEW b \in DOMAIN flying, StoreBatch(b)
      PROVE  /\ Len(log) <= Len(log')
             /\ \A i \in DOMAIN log : i \in DOMAIN log' /\ log'[i] = log[i]
             /\ \A i \in DOMAIN log' : log'[i].kind = "resolved" => i \in DOMAIN log
  <2>1. log' = log \o flying[b] /\ flying[b] \in Seq(Event) /\ Waiting(flying[b])
    BY <1>2 DEF StoreBatch, LogInv, Queued
  <2>2. Len(flying[b]) \in Nat
    BY <2>1, LenProperties
  <2>3. Len(log') = Len(log) + Len(flying[b])
    BY <2>1, ConcatElements
  <2>4. \A i \in DOMAIN log : i \in DOMAIN log' /\ log'[i] = log[i]
    BY <2>1, ConcatElements
  <2>5. \A i \in DOMAIN log' : i \in DOMAIN log \/ \E k \in DOMAIN flying[b] : log'[i] = flying[b][k]
    BY <2>1, ConcatElements
  <2> QED
    BY <1>d, <2>1, <2>2, <2>3, <2>4, <2>5 DEF Waiting
<1>3. CASE ClosesTurn
  <2> DEFINE e == Row("turn", NoQ, emitted + 1)
  <2>1. e \in Event /\ e.kind = "turn" /\ log' = Append(log, e)
    BY <1>c, <1>3, RowTyped DEF ClosesTurn
  <2> HIDE DEF e
  <2> QED
    BY <1>1, <1>d, <2>1
<1>4. CASE Announces
  <2>1. PICK q \in Question : q \in outbox /\ log' = Append(log, Resolved(q))
    BY <1>4 DEF Announces
  <2>2. Resolved(q) \in Event
    BY <2>1, ResolvedTyped DEF AnnouncedOnce
  <2> QED
    BY <1>1, <1>4, <1>d, <2>1, <2>2
<1>5. CASE UNCHANGED log
  BY <1>5, <1>d
<1> QED
  BY <1>2, <1>d, <1>3, <1>4, <1>5, LogSteps DEF EmitsOne, Emit, TakeBuffer, LoseBatch

\* An announcement is one more row, of a question from the outbox that the log
\* has not announced, with the answer on record.
LEMMA AnnounceAdds ==
  ASSUME TypeOK, AnnouncedOnce, Announces
  PROVE  \E q \in Question, a \in Reply :
           /\ q \in outbox /\ outbox' = outbox \ {q}
           /\ row[q] = "resolved" /\ answers[q] = {a} /\ Announcements(q) = {}
           /\ DOMAIN log' = DOMAIN log \cup {Len(log) + 1} /\ Len(log) + 1 \notin DOMAIN log
           /\ DOMAIN log = 1..Len(log) /\ Len(log) \in Nat
           /\ log'[Len(log) + 1].kind = "resolved"
           /\ log'[Len(log) + 1].q = q /\ log'[Len(log) + 1].value = a.value
           /\ \A i \in DOMAIN log : log'[i] = log[i]
           /\ UNCHANGED <<row, answers>>
<1>1. PICK q \in Question : /\ q \in outbox /\ log' = Append(log, Resolved(q))
                            /\ outbox' = outbox \ {q} /\ UNCHANGED <<row, answers>>
  BY DEF Announces
<1>2. row[q] = "resolved" /\ Announcements(q) = {}
  BY <1>1 DEF AnnouncedOnce
<1>3. PICK a \in Reply : answers[q] = {a}
  BY <1>2 DEF AnnouncedOnce
<1> DEFINE e == Resolved(q)
<1>4. e \in Event /\ e.kind = "resolved" /\ e.q = q /\ e.value = a.value
  BY <1>3, ResolvedTyped
<1>5. log' = Append(log, e)
  BY <1>1
<1> HIDE DEF e
<1>6. log \in Seq(Event) /\ DOMAIN log = 1..Len(log) /\ Len(log) \in Nat
  BY LenProperties DEF TypeOK
<1>7. /\ DOMAIN log' = DOMAIN log \cup {Len(log) + 1}
      /\ log'[Len(log) + 1] = e /\ \A i \in DOMAIN log : log'[i] = log[i]
  BY <1>4, <1>5, <1>6, AppendElements
<1> QED
  BY <1>1, <1>2, <1>3, <1>4, <1>6, <1>7

\* No step loses an announcement or makes it twice.
LEMMA AnnouncedKeeps ==
  ASSUME InteractionsAssumption, AskInv, LogInv, [Next]_vars
  PROVE  AnnouncedOnce'
<1>t. TypeOK /\ AnnouncedOnce /\ Settled
  BY DEF AskInv
<1>y. row \in [Question -> {"absent", "pending", "resolved"}]
  BY <1>t DEF TypeOK
<1>s. \A q \in Question : row'[q] = "resolved" => \E a \in Reply : answers'[q] = {a}
  BY SettledKeeps DEF Settled
<1>a. \A q \in Question :
        /\ q \in outbox => row[q] = "resolved" /\ Announcements(q) = {}
        /\ row[q] # "resolved" => Announcements(q) = {}
        /\ row[q] = "resolved" /\ q \notin outbox => \E i \in DOMAIN log : Announcements(q) = {i}
  BY <1>t DEF AnnouncedOnce
<1>n. ASSUME \A q \in Question :
               /\ q \in outbox' => row'[q] = "resolved" /\ Announcements(q)' = {}
               /\ row'[q] # "resolved" => Announcements(q)' = {}
               /\ row'[q] = "resolved" /\ q \notin outbox' =>
                    \E i \in DOMAIN log' : Announcements(q)' = {i}
      PROVE  AnnouncedOnce'
  BY <1>s, <1>n DEF AnnouncedOnce
<1>1. CASE Announces
  <2>1. PICK q \in Question, a \in Reply :
          /\ q \in outbox /\ outbox' = outbox \ {q}
          /\ row[q] = "resolved" /\ Announcements(q) = {}
          /\ DOMAIN log' = DOMAIN log \cup {Len(log) + 1} /\ Len(log) + 1 \notin DOMAIN log
          /\ log'[Len(log) + 1].kind = "resolved" /\ log'[Len(log) + 1].q = q
          /\ \A i \in DOMAIN log : log'[i] = log[i]
          /\ UNCHANGED row
    BY <1>t, <1>1, AnnounceAdds
  <2>2. Announcements(q)' = {Len(log) + 1}
    BY <2>1 DEF Announcements
  <2>3. \A x \in Question : x # q => Announcements(x)' = Announcements(x)
    BY <2>1 DEF Announcements
  <2>4. ASSUME NEW x \in Question
        PROVE  /\ x \in outbox' => row'[x] = "resolved" /\ Announcements(x)' = {}
               /\ row'[x] # "resolved" => Announcements(x)' = {}
               /\ row'[x] = "resolved" /\ x \notin outbox' =>
                    \E i \in DOMAIN log' : Announcements(x)' = {i}
    <3>1. CASE x = q
      BY <2>1, <2>2, <3>1
    <3>2. CASE x # q
      <4>1. (x \in outbox' <=> x \in outbox) /\ row'[x] = row[x]
        BY <2>1, <3>2
      <4> QED
        BY <1>a, <2>1, <2>3, <3>2, <4>1
    <3> QED
      BY <3>1, <3>2
  <2> QED
    BY <1>n, <2>4
<1>2. CASE ~Announces
  <2>1. \A q \in Question : Announcements(q)' = Announcements(q)
    BY <1>t, <1>2, LogGrows DEF Announcements
  <2>2. DOMAIN log \subseteq DOMAIN log'
    BY <1>t, LogGrows
  <2>3. CASE UNCHANGED <<row, answers, outbox>>
    BY <1>a, <1>n, <2>1, <2>2, <2>3
  <2>4. CASE \E q \in Question : Ask(q)
    <3>1. PICK q \in Question : row' = [row EXCEPT ![q] = "pending"] /\ row[q] = "absent"
                                /\ outbox' = outbox
      BY <2>4, AskAsks
    <3>2. \A x \in Question : (row'[x] = "resolved") <=> (row[x] = "resolved")
      BY <1>y, <3>1
    <3> QED
      BY <1>a, <1>n, <2>1, <2>2, <3>1, <3>2
  <2>5. CASE \E r \in Request : Claim(r) /\ ClaimOutcome(r) = "accepted"
    <3>1. PICK q \in Question : /\ row' = [row EXCEPT ![q] = "resolved"] /\ row[q] = "pending"
                                /\ outbox' = outbox \cup {q}
      BY <2>5, ClaimSettles
    <3>2. ASSUME NEW x \in Question
          PROVE  /\ x \in outbox' => row'[x] = "resolved" /\ Announcements(x)' = {}
                 /\ row'[x] # "resolved" => Announcements(x)' = {}
                 /\ row'[x] = "resolved" /\ x \notin outbox' =>
                      \E i \in DOMAIN log' : Announcements(x)' = {i}
      <4>1. CASE x = q
        BY <1>a, <1>y, <2>1, <3>1, <4>1
      <4>2. CASE x # q
        <5>1. (x \in outbox' <=> x \in outbox) /\ row'[x] = row[x]
          BY <1>y, <3>1, <4>2
        <5> QED
          BY <1>a, <2>1, <2>2, <5>1
      <4> QED
        BY <4>1, <4>2
    <3> QED
      BY <1>n, <3>2
  <2> QED
    BY <1>2, <2>3, <2>4, <2>5, AnswerSteps
<1> QED
  BY <1>1, <1>2

-----------------------------------------------------------------------------
(* The theorems about questions and the log *)

LEMMA InvInit ==
  ASSUME InteractionsAssumption, Init
  PROVE  AskInv /\ LogInv
<1>c. /\ NoQ \in Command /\ Initial = NoQ /\ NoQ \notin Question /\ Question \subseteq Command
  BY DEF Command, Initial, InteractionsAssumption
<1>1. /\ log = <<>> /\ buffer = <<>> /\ flying = <<>>
  BY DEF Init, LogInit
<1>2. /\ log \in Seq(Event) /\ buffer \in Seq(Event) /\ flying \in Seq(Seq(Event))
      /\ taken \in Seq(Question \X Value)
  BY <1>1 DEF Init
<1>3. /\ ckpt \in Place /\ run \in Run /\ NoReq \in Req /\ NoPub \in Pub
  BY <1>c DEF Init, Place, Run, NoRun, Req, NoReq, Outcome, Pub, NoPub
<1>4. wake \subseteq Process /\ faults \in 0..MaxFaults /\ emitted \in Nat
  BY DEF Init, InteractionsAssumption
<1>5. TypeOK
  BY <1>2, <1>3, <1>4 DEF Init, TypeOK
<1>6. Carried
  BY DEF Init, Carried, NoRun, NoReq
<1>7. Settled
  BY <1>c DEF Init, Settled, NoRun
<1>8. AcceptedIsRecorded
  BY DEF Init, AcceptedIsRecorded, NoReq
<1>9. AnnouncedOnce
  BY <1>1 DEF Init, AnnouncedOnce, Announcements
<1>10. LogInv
  BY <1>1 DEF LogInv, Written, Queued, Waiting, EmissionOrder
<1> QED
  BY <1>5, <1>6, <1>7, <1>8, <1>9, <1>10 DEF AskInv

LEMMA InvKeeps ==
  ASSUME InteractionsAssumption, AskInv, LogInv, [Next]_vars
  PROVE  AskInv' /\ LogInv'
<1>1. TypeOK /\ AnnouncedOnce
  BY DEF AskInv
<1>2. LogInv'
  BY <1>1, WrittenKeeps, QueuedKeeps, OrderKeeps DEF LogInv
<1> QED
  BY <1>2, TypesKeep, CarriedKeeps, SettledKeeps, AcceptedKeeps, AnnouncedKeeps DEF AskInv

\* Everything above holds in every reachable state.
THEOREM InvHolds == Spec => [](AskInv /\ LogInv)
<1>1. Init => AskInv /\ LogInv
  BY InvInit, InteractionsAssumption
<1>2. (AskInv /\ LogInv) /\ [Next]_vars => (AskInv /\ LogInv)'
  BY InvKeeps, InteractionsAssumption
<1> QED
  BY <1>1, <1>2, PTL DEF Spec

\* Every variable keeps its type, for every set of processes, questions, requests,
\* keys and values.
THEOREM QuestionsTypeCorrect == Spec => []TypeOK
<1>1. AskInv /\ LogInv => TypeOK
  BY DEF AskInv
<1> QED
  BY <1>1, InvHolds, PTL

\* A client is told that its answer was accepted only for the answer on record.
THEOREM AcceptedHolds == Spec => []AcceptedIsRecorded
<1>1. AskInv /\ LogInv => AcceptedIsRecorded
  BY DEF AskInv
<1> QED
  BY <1>1, InvHolds, PTL

\* No crash, retry or second publisher loses or repeats an announcement.
THEOREM AnnouncedHolds == Spec => []AnnouncedOnce
<1>1. AskInv /\ LogInv => AnnouncedOnce
  BY DEF AskInv
<1> QED
  BY <1>1, InvHolds, PTL

\* The rows of executions are in the log in the order of their emission.
THEOREM EmissionHolds == Spec => []EmissionOrder
<1>1. AskInv /\ LogInv => EmissionOrder
  BY DEF LogInv
<1> QED
  BY <1>1, InvHolds, PTL

-----------------------------------------------------------------------------
(* The refinement of QuestionBoard *)

\* What the board calls the reply and the announcements.
BoardReply == [q \in Question |-> IF answers[q] = {} THEN NoQ ELSE TheReply(q).value]
BoardTold ==
  [i \in {j \in DOMAIN log : log[j].kind = "resolved"} |-> <<log[i].q, log[i].value>>]

\* Only a resume takes an answer in, the one on record.
LEMMA TakenSteps ==
  ASSUME InteractionsAssumption, AskInv, [Next]_vars
  PROVE  \/ UNCHANGED taken
         \/ \E q \in Question : /\ row[q] = "resolved"
                                /\ taken' = Append(taken, <<q, BoardReply[q]>>)
                                /\ UNCHANGED <<log, row, answers>>
<1>1. CASE Resume
  <2>1. run.cmd \in Question /\ row[run.cmd] = "resolved"
    BY <1>1 DEF Resume, AskInv, Settled
  <2>2. answers[run.cmd] # {}
    BY <2>1 DEF AskInv, Settled
  <2>3. BoardReply[run.cmd] = TheReply(run.cmd).value
    BY <2>1, <2>2 DEF BoardReply
  <2> QED
    BY <1>1, <2>1, <2>3 DEF Resume, storeVars
<1>2. CASE \/ Progress \/ (\E q \in Question : Ask(q)) \/ Park \/ Finish \/ NoticeCancel
           \/ Leave \/ Close \/ Take \/ Store \/ Raise \/ FlushFails \/ Cancel \/ ShotStep \/ Learner
           \/ UNCHANGED vars
  BY <1>2 DEF Progress, Ask, Park, Finish, NoticeCancel, Leave, Close, Take, Store, Raise, FlushFails,
     Cancel, ShotStep, Learner, Send, vars, history
<1>3. CASE \/ \E p \in Process : DriveStep(p) \/ Startup(p) \/ Recovered(p) \/ Crash(p)
           \/ \E x \in Publisher : PublishStep(x)
           \/ \E r \in Request : RequestStep(r) \/ PublishFails(r)
           \/ \E s \in Reader : ReaderStep(s) \/ ConnectionLost(s)
  BY <1>3 DEF DriveStep, Start, DrainNothing, Startup, Recovered, Crash, PublishStep, PubRead,
     PubRow, RequestStep, Claim, Answered, PublishFails, ReaderStep, ConnectionLost, history
<1> QED
  BY <1>1, <1>2, <1>3 DEF Next, RunStep, Environment

\* The board starts empty.
LEMMA BoardInit ==
  ASSUME InteractionsAssumption, Init
  PROVE  Board!Init
<1>1. \A q \in Question : row[q] = "absent" /\ answers[q] = {}
  BY DEF Init
<1>2. BoardTold = <<>>
  BY DEF Init, LogInit, BoardTold
<1> QED
  BY <1>1, <1>2 DEF Board!Init, BoardTold, Init

\* Every step is a step of the board, or none.
LEMMA BoardStep ==
  ASSUME InteractionsAssumption, AskInv, LogInv, [Next]_vars
  PROVE  [Board!Next]_(Board!vars)
<1> DEFINE asked == {q \in Question : row[q] # "absent"}
<1>t. TypeOK /\ Settled /\ AnnouncedOnce
  BY DEF AskInv
<1>y. /\ row \in [Question -> {"absent", "pending", "resolved"}]
      /\ answers \in [Question -> SUBSET Reply]
  BY <1>t DEF TypeOK
<1>v. \A a \in Reply : a.value \in Value /\ a.value # NoQ
  BY DEF Reply, InteractionsAssumption
<1>g. /\ \A i \in DOMAIN log : i \in DOMAIN log' /\ log'[i] = log[i]
      /\ Announces \/ \A i \in DOMAIN log' : log'[i].kind = "resolved" => i \in DOMAIN log
  BY <1>t, LogGrows
<1>l. ~Announces => BoardTold' = BoardTold
  BY <1>g DEF BoardTold
<1>a. UNCHANGED answers => BoardReply' = BoardReply
  BY DEF BoardReply, TheReply
<1>s. UNCHANGED <<asked, BoardReply, BoardTold, taken>> => UNCHANGED Board!vars
  BY DEF Board!vars, BoardReply, BoardTold
<1>1. ASSUME NEW q \in Question, Ask(q) PROVE [Board!Next]_(Board!vars)
  <2>1. /\ row[q] = "absent" /\ row' = [row EXCEPT ![q] = "pending"]
        /\ UNCHANGED <<answers, log>>
    BY <1>1, AskAsks
  <2>2. q \notin asked /\ asked' = asked \cup {q} /\ UNCHANGED taken
    BY <1>1, <1>y, <2>1 DEF Ask
  <2>3. UNCHANGED <<BoardReply, BoardTold>>
    BY <1>a, <2>1 DEF BoardTold
  <2>4. Board!Ask(q)
    BY <2>2, <2>3 DEF Board!Ask, BoardReply, BoardTold
  <2> QED
    BY <2>4 DEF Board!Next
<1>2. ASSUME NEW r \in Request, Claim(r), ClaimOutcome(r) = "accepted"
      PROVE  [Board!Next]_(Board!vars)
  <2>1. PICK q \in Question, a \in Reply :
          /\ row[q] = "pending" /\ answers[q] = {}
          /\ row' = [row EXCEPT ![q] = "resolved"]
          /\ answers' = [answers EXCEPT ![q] = {a}]
          /\ UNCHANGED log
    BY <1>2, ClaimSettles
  <2>2. UNCHANGED taken
    BY <1>2 DEF Claim, history
  <2>3. asked' = asked /\ q \in asked
    BY <1>y, <2>1
  <2>4. BoardReply[q] = NoQ /\ UNCHANGED BoardTold
    BY <2>1 DEF BoardReply, BoardTold
  <2>5. BoardReply' = [BoardReply EXCEPT ![q] = a.value]
    <3>1. answers'[q] = {a} /\ \A x \in Question : x # q => answers'[x] = answers[x]
      BY <1>y, <2>1
    <3>2. TheReply(q)' = a
      BY <3>1 DEF TheReply
    <3>3. \A x \in Question : x # q => TheReply(x)' = TheReply(x)
      BY <3>1 DEF TheReply
    <3> QED
      BY <3>1, <3>2, <3>3 DEF BoardReply
  <2>6. Board!Settle(q, a.value)
    BY <2>2, <2>3, <2>4, <2>5 DEF Board!Settle, BoardReply, BoardTold
  <2> QED
    BY <1>v, <2>1, <2>6 DEF Board!Next
<1>3. CASE Announces
  <2>1. PICK q \in Question, a \in Reply :
          /\ row[q] = "resolved" /\ answers[q] = {a} /\ Announcements(q) = {}
          /\ DOMAIN log' = DOMAIN log \cup {Len(log) + 1} /\ Len(log) + 1 \notin DOMAIN log
          /\ DOMAIN log = 1..Len(log) /\ Len(log) \in Nat
          /\ log'[Len(log) + 1].kind = "resolved"
          /\ log'[Len(log) + 1].q = q /\ log'[Len(log) + 1].value = a.value
          /\ \A i \in DOMAIN log : log'[i] = log[i]
          /\ UNCHANGED <<row, answers>>
    BY <1>t, <1>3, AnnounceAdds
  <2> DEFINE n == Len(log) + 1
  <2>2. BoardReply[q] = a.value /\ BoardReply[q] # NoQ /\ UNCHANGED <<asked, BoardReply, taken>>
    BY <1>3, <1>a, <1>v, <2>1, OnlyReply DEF BoardReply, Announces
  <2>3. DOMAIN BoardTold' = DOMAIN BoardTold \cup {n}
    BY <2>1 DEF BoardTold
  <2>4. BoardTold' = [i \in DOMAIN BoardTold \cup {n} |->
                        IF i = n THEN <<q, BoardReply[q]>> ELSE BoardTold[i]]
    BY <2>1, <2>2, <2>3 DEF BoardTold
  <2>5. \A i \in DOMAIN BoardTold : i < n
    BY <2>1 DEF BoardTold
  <2>6. ~\E i \in DOMAIN BoardTold : BoardTold[i] = <<q, BoardReply[q]>>
    BY <2>1 DEF BoardTold, Announcements
  <2>7. Board!Tell(q)
    <3>1. n \in DOMAIN BoardTold'
      BY <2>3
    <3>2. ~Board!Occurs(<<q, BoardReply[q]>>, BoardTold)
      BY <2>6 DEF Board!Occurs
    <3> HIDE DEF n
    <3> QED
      BY <2>2, <2>4, <2>5, <3>1, <3>2, Zenon DEF Board!Tell, BoardReply, BoardTold
  <2> QED
    BY <2>7 DEF Board!Next
<1>4. CASE UNCHANGED <<row, answers, outbox>> /\ ~Announces
  <2>1. UNCHANGED <<asked, BoardReply, BoardTold>>
    BY <1>4, <1>a, <1>l
  <2>2. CASE UNCHANGED taken
    BY <1>s, <2>1, <2>2
  <2>3. CASE ~UNCHANGED taken
    <3>1. PICK q \in Question : row[q] = "resolved" /\ taken' = Append(taken, <<q, BoardReply[q]>>)
      BY <2>3, TakenSteps
    <3>2. PICK a \in Reply : answers[q] = {a}
      BY <1>t, <3>1 DEF Settled
    <3>3. BoardReply[q] # NoQ
      BY <1>v, <3>2, OnlyReply DEF BoardReply
    <3>4. Board!Take(q)
      BY <2>1, <3>1, <3>3 DEF Board!Take, BoardReply, BoardTold
    <3> QED
      BY <3>4 DEF Board!Next
  <2> QED
    BY <2>2, <2>3
<1> QED
  BY <1>1, <1>2, <1>3, <1>4, AnswerSteps

\* Questions, answers and announcements behave as the board promises, for every
\* set of processes, questions, requests and values.
THEOREM BoardImplemented == Spec => ImplementsBoard
<1>1. Init => Board!Init
  BY BoardInit, InteractionsAssumption
<1>2. (AskInv /\ LogInv) /\ [Next]_vars => [Board!Next]_(Board!vars)
  BY BoardStep, InteractionsAssumption
<1> QED
  BY <1>1, <1>2, InvHolds, PTL DEF Spec, ImplementsBoard, Board!Spec

-----------------------------------------------------------------------------
(* What streams and snapshots read *)

\* A query returns the numbers that follow the cursor, up to a page or to the end
\* of the log.
LEMMA PageFollows ==
  ASSUME Page \in Nat \ {0}, Len(log) \in Nat, NEW c \in Nat, c <= Len(log)
  PROVE  \E m \in Nat :
           /\ PageAfter(c) = [i \in 1..m |-> c + i]
           /\ PageAfter(c) \in Seq(Nat) /\ Len(PageAfter(c)) = m
           /\ c + m <= Len(log)
           /\ m = Page \/ c + m = Len(log)
<1> DEFINE m == Least(Page, Len(log) - c)
<1>1. m \in Nat /\ c + m <= Len(log) /\ (m = Page \/ c + m = Len(log))
  BY DEF Least
<1>2. PageAfter(c) = [i \in 1..m |-> c + i]
  BY DEF PageAfter
<1> HIDE DEF m
<1>3. PageAfter(c) \in Seq(Nat) /\ Len(PageAfter(c)) = m
  BY <1>1, <1>2
<1> QED
  BY <1>1, <1>2, <1>3

\* Numbers from one up, and one more.
LEMMA UptoNext ==
  ASSUME NEW rows \in Seq(Nat), Upto(rows)
  PROVE  Upto(Append(rows, Len(rows) + 1))
<1>1. Len(rows) \in Nat /\ \A i \in 1..Len(rows) : rows[i] = i
  BY DEF Upto
<1> DEFINE t == Append(rows, Len(rows) + 1)
<1>2. t \in Seq(Nat) /\ Len(t) = Len(rows) + 1 /\ t[Len(rows) + 1] = Len(rows) + 1
      /\ \A i \in 1..Len(rows) : t[i] = rows[i]
  BY <1>1, AppendProperties
<1> HIDE DEF t
<1>3. \A i \in 1..Len(t) : t[i] = i
  BY <1>1, <1>2
<1>4. t = [i \in 1..Len(t) |-> t[i]]
  BY <1>2
<1>5. Upto(t)
  BY <1>3, <1>4 DEF Upto
<1> QED
  BY <1>5 DEF t

\* Numbers from one up, and the page that follows them.
LEMMA UptoPage ==
  ASSUME NEW rows \in Seq(Nat), Upto(rows), NEW m \in Nat, NEW page \in Seq(Nat),
         page = [i \in 1..m |-> Len(rows) + i]
  PROVE  /\ rows \o page \in Seq(Nat) /\ Len(rows \o page) = Len(rows) + m
         /\ Upto(rows \o page)
<1>1. Len(rows) \in Nat /\ \A i \in 1..Len(rows) : rows[i] = i
  BY DEF Upto
<1>2. Len(page) = m /\ \A i \in 1..m : page[i] = Len(rows) + i
  OBVIOUS
<1> DEFINE t == rows \o page
<1>3. t \in Seq(Nat) /\ Len(t) = Len(rows) + m
      /\ \A i \in 1..Len(rows) + m : t[i] = IF i <= Len(rows) THEN rows[i] ELSE page[i - Len(rows)]
  BY <1>1, <1>2, ConcatProperties
<1> HIDE DEF t
<1>4. ASSUME NEW i \in 1..Len(t) PROVE t[i] = i
  <2>1. CASE i <= Len(rows)
    <3>1. i \in 1..Len(rows) /\ i \in 1..Len(rows) + m
      BY <1>1, <1>3, <2>1
    <3>2. t[i] = rows[i]
      BY <1>3, <2>1, <3>1
    <3> QED
      BY <1>1, <3>1, <3>2
  <2>2. CASE i > Len(rows)
    <3>1. i - Len(rows) \in 1..m
      BY <1>1, <1>3, <2>2
    <3> QED
      BY <1>1, <1>2, <1>3, <2>2, <3>1
  <2> QED
    BY <1>1, <2>1, <2>2
<1>5. t = [i \in 1..Len(t) |-> t[i]]
  BY <1>3
<1>6. Upto(t)
  BY <1>4, <1>5 DEF Upto
<1> QED
  BY <1>3, <1>6 DEF t

\* What a stream has sent is followed by the rest of its page.
LEMMA RestOfPage ==
  ASSUME NEW c \in Nat, NEW batch \in Seq(Nat), batch # <<>>,
         batch = [i \in 1..Len(batch) |-> c + i]
  PROVE  /\ Head(batch) = c + 1 /\ Len(batch) >= 1
         /\ Tail(batch) \in Seq(Nat) /\ Len(Tail(batch)) = Len(batch) - 1
         /\ Tail(batch) = [i \in 1..Len(Tail(batch)) |-> (c + 1) + i]
<1>1. Len(batch) \in Nat /\ Len(batch) >= 1 /\ \A i \in 1..Len(batch) : batch[i] = c + i
  BY EmptySeq
<1>2. /\ Head(batch) = batch[1] /\ Tail(batch) \in Seq(Nat) /\ Len(Tail(batch)) = Len(batch) - 1
      /\ \A i \in 1..Len(batch) - 1 : Tail(batch)[i] = batch[i + 1]
  BY <1>1, HeadTailProperties
<1> DEFINE t == Tail(batch)
<1>3. t \in Seq(Nat) /\ Len(t) = Len(batch) - 1 /\ \A i \in 1..Len(t) : t[i] = (c + 1) + i
  BY <1>1, <1>2
<1> HIDE DEF t
<1>4. t = [i \in 1..Len(t) |-> t[i]]
  BY <1>3
<1>5. t = [i \in 1..Len(t) |-> (c + 1) + i]
  BY <1>3, <1>4
<1> QED
  BY <1>1, <1>2, <1>3, <1>5 DEF t

\* Only readers change what readers hold, and they write nothing.
LEMMA ReadSteps ==
  ASSUME [Next]_vars
  PROVE  \/ UNCHANGED readVars
         \/ \E s \in Reader : ReaderStep(s) /\ UNCHANGED log
         \/ \E s \in Reader : Disconnect(s) /\ UNCHANGED log
         \/ ShotStep /\ UNCHANGED log
<1>1. CASE RunStep
  BY <1>1 DEF RunStep, Progress, Ask, Park, Finish, Resume, NoticeCancel, Leave, Close, Take, Store
<1>2. CASE \E p \in Process : DriveStep(p) \/ Startup(p) \/ Recovered(p)
  BY <1>2 DEF DriveStep, Start, DrainNothing, Startup, Recovered
<1>3. CASE \/ \E x \in Publisher : PublishStep(x)
           \/ \E r \in Request : RequestStep(r) \/ PublishFails(r)
  BY <1>3 DEF PublishStep, PubRead, PubRow, RequestStep, Claim, Answered, PublishFails
<1>4. CASE Learner \/ Raise \/ FlushFails \/ Cancel \/ (\E p \in Process : Crash(p)) \/ UNCHANGED vars
  BY <1>4 DEF Learner, Send, Raise, FlushFails, Cancel, Crash, vars
<1>5. CASE (\E s \in Reader : ReaderStep(s) \/ ConnectionLost(s)) \/ ShotStep
  BY <1>5 DEF ReaderStep, ConnectionLost, ShotStep, storeVars
<1> QED
  BY <1>1, <1>2, <1>3, <1>4, <1>5 DEF Next, Environment

\* Each step of a stream or a broken connection leaves it behind its last row.
LEMMA StreamStep ==
  ASSUME ReadersOK, Streaming, Page \in Nat \ {0}, Len(log) \in Nat, NEW s \in Reader,
         ReaderStep(s) \/ Disconnect(s)
  PROVE  \E stream \in Stream, rows \in Seq(Nat) :
           /\ sub' = [sub EXCEPT ![s] = stream] /\ seen' = [seen EXCEPT ![s] = rows]
           /\ Follows(stream, rows, Len(log))
           /\ UNCHANGED shot
<1> DEFINE old == sub[s]
           rows == seen[s]
<1>1. /\ old \in Stream /\ rows \in Seq(Nat) /\ Follows(old, rows, Len(log))
      /\ sub \in [Reader -> Stream] /\ seen \in [Reader -> Seq(Nat)]
  BY DEF ReadersOK, Streaming
<1>2. /\ old.cursor \in Nat /\ old.batch \in Seq(Nat) /\ Len(rows) \in Nat /\ Len(old.batch) \in Nat
      /\ Len(rows) <= Len(log) /\ Upto(rows)
      /\ old.pc # "off" => old.cursor = Len(rows)
  BY <1>1, LenProperties DEF Stream, Follows
<1>3. ASSUME NEW stream \in Stream, sub' = [sub EXCEPT ![s] = stream], UNCHANGED <<seen, shot>>,
             Follows(stream, rows, Len(log))
      PROVE  \E st \in Stream, rs \in Seq(Nat) :
               /\ sub' = [sub EXCEPT ![s] = st] /\ seen' = [seen EXCEPT ![s] = rs]
               /\ Follows(st, rs, Len(log))
               /\ UNCHANGED shot
  <2>1. seen' = [seen EXCEPT ![s] = rows]
    BY <1>1, <1>3
  <2> QED
    BY <1>1, <1>3, <2>1
<1>4. <<>> \in Seq(Nat) /\ Len(<<>>) = 0 /\ <<>> = [i \in 1..0 |-> Len(rows) + i]
  OBVIOUS
<1>5. CASE Disconnect(s)
  <2>1. NoSub \in Stream /\ NoSub.pc = "off" /\ NoSub.batch = <<>>
    BY <1>4 DEF NoSub, Stream
  <2>2. Follows(NoSub, rows, Len(log))
    BY <1>2, <1>4, <2>1 DEF Follows
  <2> QED
    BY <1>3, <1>5, <2>1, <2>2 DEF Disconnect
<1>6. CASE Connect(s)
  <2> DEFINE c == Resumes(s)
             stream == [NoSub EXCEPT !.pc = "read", !.cursor = c]
  <2>1. c = Len(rows)
    <3>1. CASE rows = <<>>
      BY <1>4, <3>1 DEF Resumes
    <3>2. CASE rows # <<>>
      <4>1. Len(rows) \in 1..Len(rows)
        BY <1>1, <1>2, <3>2, EmptySeq
      <4> QED
        BY <1>2, <3>2, <4>1 DEF Resumes, Last, Upto
    <3> QED
      BY <3>1, <3>2
  <2>2. stream \in Stream /\ stream.cursor = Len(rows) /\ stream.batch = <<>>
    BY <1>2, <1>4, <2>1 DEF NoSub, Stream
  <2>4. sub' = [sub EXCEPT ![s] = stream] /\ UNCHANGED <<seen, shot>>
    BY <1>6 DEF Connect
  <2> HIDE DEF stream, c
  <2>3. Follows(stream, rows, Len(log))
    BY <1>2, <1>4, <2>2 DEF Follows
  <2> QED
    BY <1>3, <2>2, <2>3, <2>4
<1>7. CASE ReadPage(s)
  <2>1. old.pc # "off" /\ old.cursor = Len(rows)
    BY <1>2, <1>7 DEF ReadPage
  <2> DEFINE page == PageAfter(old.cursor)
             stream == [old EXCEPT !.batch = page,
                                   !.pc = IF old.pc = "read" THEN "send" ELSE "sendtail"]
  <2>2. PICK m \in Nat : /\ page = [i \in 1..m |-> Len(rows) + i] /\ page \in Seq(Nat)
                         /\ Len(page) = m /\ Len(rows) + m <= Len(log)
    BY <1>2, <2>1, PageFollows
  <2>3. sub' = [sub EXCEPT ![s] = stream] /\ UNCHANGED <<seen, shot>>
    BY <1>1, <1>7 DEF ReadPage, Stream
  <2> HIDE DEF page
  <2>4. stream \in Stream /\ stream.cursor = Len(rows) /\ stream.batch = page
    BY <1>1, <2>1, <2>2 DEF Stream
  <2>5. Follows(stream, rows, Len(log))
    BY <1>2, <2>2, <2>4 DEF Follows
  <2> HIDE DEF stream
  <2> QED
    BY <1>3, <2>3, <2>4, <2>5
<1>8. CASE SendRow(s)
  <2>1. old.pc # "off" /\ old.batch # <<>> /\ old.cursor = Len(rows)
    BY <1>2, <1>8 DEF SendRow
  <2>2. old.batch = [i \in 1..Len(old.batch) |-> Len(rows) + i]
    BY <1>1 DEF Follows
  <2>3. ASSUME NEW c \in Nat, NEW b \in Seq(Nat), b # <<>>, b = [i \in 1..Len(b) |-> c + i]
        PROVE  /\ Head(b) = c + 1
               /\ Tail(b) \in Seq(Nat) /\ Len(Tail(b)) = Len(b) - 1
               /\ Tail(b) = [i \in 1..Len(Tail(b)) |-> (c + 1) + i]
    BY <2>3, RestOfPage
  <2> DEFINE rest == Tail(old.batch)
             first == Head(old.batch)
             stream == [old EXCEPT !.cursor = first, !.batch = rest]
             more == Append(rows, first)
  <2>9. /\ first = Len(rows) + 1
        /\ rest \in Seq(Nat) /\ Len(rest) = Len(old.batch) - 1
        /\ rest = [i \in 1..Len(rest) |-> (Len(rows) + 1) + i]
    <3>1. /\ Len(rows) \in Nat /\ old.batch \in Seq(Nat) /\ old.batch # <<>>
          /\ old.batch = [i \in 1..Len(old.batch) |-> Len(rows) + i]
      BY <1>2, <2>1, <2>2
    <3> HIDE DEF old, rows
    <3> QED
      BY <2>3, <3>1 DEF rest, first
  <2>4. sub' = [sub EXCEPT ![s] = stream] /\ seen' = [seen EXCEPT ![s] = more] /\ UNCHANGED shot
    BY <1>1, <1>8 DEF SendRow, Stream
  <2> HIDE DEF rest, first
  <2>5. stream \in Stream /\ stream.cursor = first /\ stream.batch = rest
    <3>1. first \in Nat /\ rest \in Seq(Nat)
      BY <1>2, <2>9
    <3> QED
      BY <1>1, <3>1 DEF Stream
  <2>6. more \in Seq(Nat) /\ Len(more) = Len(rows) + 1 /\ Upto(more)
    BY <1>1, <1>2, <2>9, UptoNext, AppendProperties
  <2> HIDE DEF more, stream
  <2>7. Len(more) + Len(stream.batch) <= Len(log)
    BY <1>1, <1>2, <2>9, <2>5, <2>6 DEF Follows
  <2>8. Follows(stream, more, Len(log))
    BY <2>9, <2>5, <2>6, <2>7 DEF Follows
  <2> QED
    BY <2>4, <2>5, <2>6, <2>8
<1>9. CASE LookAtThread(s, status = "cancelled") \/ EndStream(s) \/ WakeUp(s)
  <2>1. old.pc # "off"
    BY <1>9 DEF LookAtThread, EndStream, WakeUp
  <2>2. PICK pc \in {"read", "tail", "wait", "ended"} :
          sub' = [sub EXCEPT ![s] = [old EXCEPT !.pc = pc]] /\ UNCHANGED <<seen, shot>>
    BY <1>1, <1>9 DEF LookAtThread, EndStream, WakeUp
  <2> DEFINE stream == [old EXCEPT !.pc = pc]
  <2>3. stream \in Stream /\ stream.batch = old.batch /\ stream.cursor = old.cursor
    BY <1>1 DEF Stream
  <2> HIDE DEF stream
  <2>4. Follows(stream, rows, Len(log))
    BY <1>1, <2>1, <2>3 DEF Follows
  <2> QED
    BY <1>3, <2>2, <2>3, <2>4 DEF stream
<1> QED
  BY <1>5, <1>6, <1>7, <1>8, <1>9 DEF ReaderStep

\* A page taken into the snapshot: more rows without a gap, and an end only when
\* everything expected is there.
LEMMA SnapshotPage ==
  ASSUME ReadersOK, Snapping, Page \in Nat \ {0}, Len(log) \in Nat, NextPage
  PROVE  \E rows \in Seq(Nat) :
           /\ Upto(rows) /\ Len(rows) <= Len(log) /\ Len(rows) \in Nat
           /\ \/ /\ shot' = [shot EXCEPT !.pc = "done", !.rows = rows, !.whole = TRUE]
                 /\ Len(rows) >= shot.expected
              \/ shot' = [shot EXCEPT !.rows = rows, !.cursor = Len(rows)]
<1>1. /\ shot.rows \in Seq(Nat) /\ shot.expected \in Nat /\ Len(shot.rows) \in Nat
      /\ shot.cursor = Len(shot.rows) /\ Upto(shot.rows)
      /\ shot.expected <= Len(log) /\ Len(shot.rows) <= Len(log)
  BY LenProperties DEF ReadersOK, Shot, Snapping, NextPage
<1> DEFINE page == PageAfter(shot.cursor)
           rows == shot.rows \o page
           enough == Len(rows) >= shot.expected
<1>2. PICK m \in Nat : /\ page = [i \in 1..m |-> Len(shot.rows) + i] /\ page \in Seq(Nat)
                       /\ Len(page) = m /\ Len(shot.rows) + m <= Len(log)
                       /\ m = Page \/ Len(shot.rows) + m = Len(log)
  BY <1>1, PageFollows
<1>3. shot' = IF page = <<>> \/ enough \/ Len(page) < Page
              THEN [shot EXCEPT !.pc = "done", !.rows = rows, !.whole = enough]
              ELSE [shot EXCEPT !.rows = rows, !.cursor = Last(page)]
  BY DEF NextPage, NextCursor
<1> HIDE DEF page
<1>4. rows \in Seq(Nat) /\ Len(rows) = Len(shot.rows) + m /\ Upto(rows)
  BY <1>1, <1>2, UptoPage
<1> HIDE DEF rows
<1>7. /\ Len(rows) \in Nat /\ Len(rows) <= Len(log) /\ shot.expected <= Len(log)
      /\ Len(page) < Page => Len(rows) = Len(log)
  BY <1>1, <1>2, <1>4
<1>8. page = <<>> => Len(page) < Page
  OBVIOUS
<1>5. CASE page = <<>> \/ enough \/ Len(page) < Page
  <2>1. Len(rows) >= shot.expected
    BY <1>1, <1>5, <1>7, <1>8
  <2>2. enough = TRUE
    BY <2>1
  <2> HIDE DEF enough
  <2>3. shot' = [shot EXCEPT !.pc = "done", !.rows = rows, !.whole = TRUE]
    BY <1>3, <1>5, <2>2
  <2> QED
    BY <1>4, <1>7, <2>1, <2>3
<1>6. CASE ~(page = <<>> \/ enough \/ Len(page) < Page)
  <2>1. m >= 1
    BY <1>2, <1>6, EmptySeq
  <2>2. Last(page) = Len(rows)
    BY <1>1, <1>2, <1>4, <2>1 DEF Last
  <2> HIDE DEF enough
  <2>3. shot' = [shot EXCEPT !.rows = rows, !.cursor = Len(rows)]
    BY <1>3, <1>6, <2>2
  <2> QED
    BY <1>4, <1>7, <2>3
<1> QED
  BY <1>5, <1>6

\* A snapshot never reports what it has not read.
LEMMA SnapshotStep ==
  ASSUME ReadersOK, Snapping, SnapshotWhole, Page \in Nat \ {0}, Len(log) \in Nat,
         ShotStep, UNCHANGED log
  PROVE  shot' \in Shot /\ Snapping' /\ SnapshotWhole' /\ UNCHANGED <<sub, seen>>
<1>1. shot \in Shot
  BY DEF ReadersOK
<1>2. CASE NextPage
  <2>1. PICK rows \in Seq(Nat) :
          /\ Upto(rows) /\ Len(rows) <= Len(log) /\ Len(rows) \in Nat
          /\ \/ /\ shot' = [shot EXCEPT !.pc = "done", !.rows = rows, !.whole = TRUE]
                /\ Len(rows) >= shot.expected
             \/ shot' = [shot EXCEPT !.rows = rows, !.cursor = Len(rows)]
    BY <1>2, SnapshotPage
  <2>2. \A i \in 1..Len(rows) : rows[i] = i
    BY <2>1 DEF Upto
  <2>3. shot.pc = "page" /\ UNCHANGED <<sub, seen>>
    BY <1>2 DEF NextPage
  <2>4. shot.expected \in Nat /\ shot.expected <= Len(log)
    BY <1>1 DEF Shot, Snapping
  <2>5. CASE /\ shot' = [shot EXCEPT !.pc = "done", !.rows = rows, !.whole = TRUE]
             /\ Len(rows) >= shot.expected
    <3>1. /\ shot' \in Shot /\ shot'.pc = "done" /\ shot'.rows = rows
          /\ shot'.expected = shot.expected
      BY <1>1, <2>1, <2>5 DEF Shot
    <3>2. shot'.whole
      BY <1>1, <2>5 DEF Shot
    <3>3. Snapping'
      BY <2>1, <2>4, <3>1 DEF Snapping
    <3>4. SnapshotWhole'
      BY <2>1, <2>2, <2>4, <2>5, <3>1, <3>2 DEF SnapshotWhole
    <3> QED
      BY <2>3, <3>1, <3>3, <3>4
  <2>6. CASE shot' = [shot EXCEPT !.rows = rows, !.cursor = Len(rows)]
    <3>1. /\ shot' \in Shot /\ shot'.pc = "page" /\ shot'.rows = rows
          /\ shot'.expected = shot.expected /\ shot'.cursor = Len(rows)
      BY <1>1, <2>1, <2>3, <2>6 DEF Shot
    <3>3. Snapping'
      BY <2>1, <2>4, <3>1 DEF Snapping
    <3>4. SnapshotWhole'
      BY <3>1 DEF SnapshotWhole
    <3> QED
      BY <2>3, <3>1, <3>3, <3>4
  <2> QED
    BY <2>1, <2>5, <2>6
<1>3. CASE CountRows
  <2>1. <<>> \in Seq(Nat) /\ Len(<<>>) = 0 /\ Upto(<<>>)
    BY DEF Upto
  <2>2. /\ shot' \in Shot /\ shot'.pc = "page" /\ shot'.rows = <<>>
        /\ shot'.expected = Len(log) /\ shot'.cursor = 0 /\ UNCHANGED <<sub, seen>>
    BY <1>3, <2>1 DEF CountRows, NoShot, Shot
  <2> QED
    BY <2>1, <2>2 DEF Snapping, SnapshotWhole
<1>4. CASE CloseShot
  <2>1. <<>> \in Seq(Nat) /\ Len(<<>>) = 0 /\ Upto(<<>>)
    BY DEF Upto
  <2>2. /\ shot' \in Shot /\ shot'.pc = "idle" /\ shot'.rows = <<>>
        /\ shot'.expected = 0 /\ UNCHANGED <<sub, seen>>
    BY <1>4, <2>1 DEF CloseShot, NoShot, Shot
  <2> QED
    BY <2>1, <2>2 DEF Snapping, SnapshotWhole
<1> QED
  BY <1>2, <1>3, <1>4 DEF ShotStep

\* Streams and snapshots stand where they stood relative to a log that only grows.
LEMMA ReadKeeps ==
  ASSUME InteractionsAssumption, AskInv, LogInv, ReadInv, [Next]_vars
  PROVE  ReadInv'
<1>1. /\ ReadersOK /\ Streaming /\ Snapping /\ SnapshotWhole
      /\ Page \in Nat \ {0} /\ TypeOK /\ AnnouncedOnce
  BY DEF ReadInv, AskInv, InteractionsAssumption
<1>2. /\ Len(log) \in Nat /\ Len(log') \in Nat /\ Len(log) <= Len(log')
  BY <1>1, LogGrows
<1>3. \A s \in Reader : /\ sub[s] \in Stream /\ seen[s] \in Seq(Nat)
                        /\ Len(seen[s]) \in Nat /\ Len(sub[s].batch) \in Nat
  BY <1>1, LenProperties DEF ReadersOK, Stream
<1>4. \A s \in Reader : Follows(sub[s], seen[s], Len(log'))
  <2> TAKE s \in Reader
  <2>1. Len(seen[s]) + Len(sub[s].batch) <= Len(log')
    <3>1. Len(seen[s]) + Len(sub[s].batch) <= Len(log)
      BY <1>1 DEF Streaming, Follows
    <3>2. Len(seen[s]) \in Nat /\ Len(sub[s].batch) \in Nat
      BY <1>3
    <3>3. \A a, b, c, d \in Nat : a + b <= c /\ c <= d => a + b <= d
      OBVIOUS
    <3> QED
      BY <1>2, <3>1, <3>2, <3>3, Zenon
  <2> QED
    BY <1>1, <2>1 DEF Streaming, Follows
<1>5. CASE UNCHANGED readVars
  <2>1. UNCHANGED <<sub, seen, shot>>
    BY <1>5 DEF readVars
  <2>2. Streaming'
    BY <1>4, <2>1 DEF Streaming
  <2>3. Snapping'
    <3>1. shot.expected \in Nat /\ Len(shot.rows) \in Nat
      BY <1>1, LenProperties DEF ReadersOK, Shot
    <3> QED
      BY <1>1, <1>2, <2>1, <3>1 DEF Snapping
  <2> QED
    BY <1>1, <2>1, <2>2, <2>3 DEF ReadInv, ReadersOK, SnapshotWhole
<1>6. ASSUME NEW s \in Reader, ReaderStep(s) \/ Disconnect(s), UNCHANGED log PROVE ReadInv'
  <2>1. PICK stream \in Stream, rows \in Seq(Nat) :
          /\ sub' = [sub EXCEPT ![s] = stream] /\ seen' = [seen EXCEPT ![s] = rows]
          /\ Follows(stream, rows, Len(log))
          /\ UNCHANGED shot
    BY <1>1, <1>2, <1>6, StreamStep
  <2>2. ReadersOK'
    BY <1>1, <2>1 DEF ReadersOK
  <2>3. Streaming'
    BY <1>1, <1>6, <2>1 DEF Streaming, ReadersOK
  <2> QED
    BY <1>1, <1>6, <2>1, <2>2, <2>3 DEF ReadInv, Snapping, SnapshotWhole
<1>7. CASE ShotStep /\ UNCHANGED log
  <2>1. shot' \in Shot /\ Snapping' /\ SnapshotWhole' /\ UNCHANGED <<sub, seen>>
    BY <1>1, <1>2, <1>7, SnapshotStep
  <2> QED
    BY <1>1, <1>7, <2>1 DEF ReadInv, ReadersOK, Streaming
<1> QED
  BY <1>5, <1>6, <1>7, ReadSteps

\* What streams and snapshots hold, in every reachable state.
THEOREM ReadHolds == Spec => []ReadInv
<1>1. Init => ReadInv
  <2> SUFFICES ASSUME Init PROVE ReadInv
    OBVIOUS
  <2>1. <<>> \in Seq(Nat) /\ Len(<<>>) = 0 /\ Upto(<<>>) /\ <<>> = [i \in 1..0 |-> 0 + i]
    BY DEF Upto
  <2>2. log = <<>> /\ shot = NoShot /\ \A s \in Reader : sub[s] = NoSub /\ seen[s] = <<>>
    BY DEF Init, LogInit
  <2>3. NoSub \in Stream /\ NoShot \in Shot
    BY <2>1 DEF NoSub, Stream, NoShot, Shot
  <2>4. ReadersOK
    BY <2>1, <2>3 DEF Init, LogInit, ReadersOK
  <2>5. Follows(NoSub, <<>>, 0)
    BY <2>1 DEF Follows, NoSub
  <2>6. Streaming
    BY <2>1, <2>2, <2>5 DEF Streaming
  <2>7. Snapping /\ SnapshotWhole
    BY <2>1, <2>2 DEF Snapping, SnapshotWhole, NoShot
  <2> QED
    BY <2>4, <2>6, <2>7 DEF ReadInv
<1>2. (AskInv /\ LogInv) /\ ReadInv /\ [Next]_vars => ReadInv'
  BY ReadKeeps, InteractionsAssumption
<1> QED
  BY <1>1, <1>2, InvHolds, PTL DEF Spec

\* Each client receives the rows of the log in order, once and without a gap, over
\* any number of broken connections and crashes.
THEOREM SeenInOrderHolds == Spec => []SeenInOrder
<1>1. ReadInv => SeenInOrder
  BY DEF ReadInv, Streaming, Follows, Upto, SeenInOrder
<1> QED
  BY <1>1, ReadHolds, PTL

\* No snapshot is reported truncated, however the log grows while it is read.
THEOREM SnapshotsWhole == Spec => []SnapshotWhole
<1>1. ReadInv => SnapshotWhole
  BY DEF ReadInv
<1> QED
  BY <1>1, ReadHolds, PTL
=============================================================================
