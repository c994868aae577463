------------------------------ MODULE EventLog ------------------------------
(***************************************************************************)
(* The durable event log of one thread: rows numbered from 1 by their      *)
(* position, written by the flushes of an execution's buffer and by other  *)
(* transactions, and read by the server-sent-event stream                  *)
(* (api/agent_events.py) and by the paged execution snapshot               *)
(* (application/agent_events.py).                                          *)
(*                                                                         *)
(* A write locks the task row before it reads the highest number and keeps *)
(* the lock until it commits, so one transaction is one action and numbers *)
(* become visible in order.  The module has no behaviour of its own:       *)
(* Interactions composes it with those who emit.                           *)
(***************************************************************************)
EXTENDS Naturals, Sequences, SequencesExt

CONSTANTS
  Reader,      \* clients connected to the event stream
  Page         \* rows one query returns at most

VARIABLES
  log,         \* agent_task_events, in the order of their sequence numbers
  buffer,      \* the live execution's buffer
  flying,      \* batches taken out of the buffer and being persisted
  sub,         \* the generator that serves each client
  seen,        \* row numbers each client has received, in order of arrival
  shot         \* one reader of the paged execution snapshot

storeVars == <<log, buffer, flying>>
readVars  == <<sub, seen, shot>>

NoSub  == [pc |-> "off", cursor |-> 0, batch |-> <<>>]
NoShot == [pc |-> "idle", expected |-> 0, rows |-> <<>>, cursor |-> 0,
           whole |-> FALSE]

LogInit ==
  /\ log = <<>>
  /\ buffer = <<>>
  /\ flying = <<>>
  /\ sub = [s \in Reader |-> NoSub]
  /\ seen = [s \in Reader |-> <<>>]
  /\ shot = NoShot

-----------------------------------------------------------------------------
(* Writing: emit is synchronous, flush_buffer persists under flush_lock. *)

\* Mutant: flush_buffer takes no lock, so a flush overtakes the one in flight.
NoLock == TRUE
FlushLock == flying = <<>>

Emitted(events) == buffer' = buffer \o events

TakeBuffer ==
  /\ buffer # <<>>
  /\ FlushLock
  /\ flying' = Append(flying, buffer)
  /\ buffer' = <<>>
  /\ UNCHANGED log

\* persist_buffer: all rows of the batch in one append.
StoreBatch(i) ==
  /\ log' = log \o flying[i]
  /\ flying' = RemoveAt(flying, i)
  /\ UNCHANGED buffer

\* The append raises: the batch has left the buffer already and is gone.
LoseBatch(i) ==
  /\ flying' = RemoveAt(flying, i)
  /\ UNCHANGED <<log, buffer>>

\* flush_buffer returns: nothing buffered and no other flush in flight.
Flushed == buffer = <<>> /\ FlushLock

-----------------------------------------------------------------------------
(* The stream: read a page, send it row by row, look at the thread, wait.  *)
(* A notification only shortens the wait, which the heartbeat bounds.      *)

Least(a, b) == IF a < b THEN a ELSE b

\* Numbers of the rows of one query after a cursor.
PageAfter(cursor) ==
  [i \in 1..Least(Page, Len(log) - cursor) |-> cursor + i]

\* Mutant: the Last-Event-ID header is ignored.
FromTheStart(s) == 0
Resumes(s) == IF seen[s] = <<>> THEN 0 ELSE Last(seen[s])

Connect(s) ==
  /\ sub[s].pc = "off"
  /\ sub' = [sub EXCEPT ![s] = [NoSub EXCEPT !.pc = "read", !.cursor = Resumes(s)]]
  /\ UNCHANGED <<seen, shot>>

ReadPage(s) ==
  /\ sub[s].pc \in {"read", "tail"}
  /\ sub' = [sub EXCEPT ![s].batch = PageAfter(sub[s].cursor),
                        ![s].pc = IF @ = "read" THEN "send" ELSE "sendtail"]
  /\ UNCHANGED <<seen, shot>>

SendRow(s) ==
  /\ sub[s].pc \in {"send", "sendtail"}
  /\ sub[s].batch # <<>>
  /\ seen' = [seen EXCEPT ![s] = Append(@, Head(sub[s].batch))]
  /\ sub' = [sub EXCEPT ![s].cursor = Head(sub[s].batch),
                        ![s].batch = Tail(@)]
  /\ UNCHANGED shot

\* The snapshot of the thread is read after the page has been sent.
LookAtThread(s, cancelled) ==
  /\ sub[s].pc = "send"
  /\ sub[s].batch = <<>>
  /\ sub' = [sub EXCEPT ![s].pc = IF cancelled THEN "tail" ELSE "wait"]
  /\ UNCHANGED <<seen, shot>>

EndStream(s) ==
  /\ sub[s].pc = "sendtail"
  /\ sub[s].batch = <<>>
  /\ sub' = [sub EXCEPT ![s].pc = "ended"]
  /\ UNCHANGED <<seen, shot>>

\* Mutant: no heartbeat, so a row stored before the wait began wakes nobody.
WakeUpNotified(s) ==
  /\ sub[s].pc = "wait"
  /\ flying # <<>>
  /\ sub' = [sub EXCEPT ![s].pc = "read"]
  /\ UNCHANGED <<seen, shot>>

WakeUp(s) ==
  /\ sub[s].pc = "wait"
  /\ sub' = [sub EXCEPT ![s].pc = "read"]
  /\ UNCHANGED <<seen, shot>>

\* The connection breaks; what was not received is read again on reconnect.
Disconnect(s) ==
  /\ sub[s].pc \notin {"off", "ended"}
  /\ sub' = [sub EXCEPT ![s] = NoSub]
  /\ UNCHANGED <<seen, shot>>

-----------------------------------------------------------------------------
(* The execution snapshot: count first, then page by number.               *)

CountRows ==
  /\ shot.pc = "idle"
  /\ shot' = [NoShot EXCEPT !.pc = "page", !.expected = Len(log)]
  /\ UNCHANGED <<sub, seen>>

\* Mutant: the next page starts one row late.
SkippingCursor(page, cursor) == Last(page) + 1
NextCursor(page, cursor) == Last(page)

NextPage ==
  /\ shot.pc = "page"
  /\ LET page == PageAfter(shot.cursor)
         rows == shot.rows \o page
         enough == Len(rows) >= shot.expected
     IN  shot' = IF page = <<>> \/ enough \/ Len(page) < Page
                 THEN [shot EXCEPT !.pc = "done", !.rows = rows, !.whole = enough]
                 ELSE [shot EXCEPT !.rows = rows,
                                   !.cursor = NextCursor(page, shot.cursor)]
  /\ UNCHANGED <<sub, seen>>

CloseShot ==
  /\ shot.pc = "done"
  /\ shot' = NoShot
  /\ UNCHANGED <<sub, seen>>

-----------------------------------------------------------------------------
(* What readers rely on *)

\* A client receives the rows of the log in order, each once and without a gap,
\* over any number of broken connections and whichever page a row falls on.
SeenInOrder == \A s \in Reader : seen[s] = [i \in 1..Len(seen[s]) |-> i]

\* A snapshot read while rows are being appended is never reported truncated,
\* and holds every row that was committed when it started.
SnapshotWhole ==
  shot.pc = "done" =>
    /\ shot.whole
    /\ \A i \in 1..shot.expected : shot.rows[i] = i
=============================================================================
