------------------------------- MODULE Ingest -------------------------------
(***************************************************************************)
(* Click ingestion in one process: redirects record into a bounded channel  *)
(* without waiting, one goroutine batches what it receives and writes each   *)
(* batch in a transaction, and Close stops it.                              *)
(*                                                                          *)
(* Close is called when the listener is closed, or when closing it has timed *)
(* out with redirects still in flight: a redirect may be anywhere in Record. *)
(* The order of the events within the channel decides nothing here.         *)
(***************************************************************************)
EXTENDS Integers, FiniteSets

CONSTANTS Event,      \* redirects, each recording one click
          QueueSize,  \* the channel's capacity
          BatchSize   \* events that make a batch full

ASSUME IngestConstants == IsFiniteSet(Event) /\ QueueSize \in Nat /\ BatchSize \in Nat \ {0}

VARIABLES
  place,    \* where each event is: unborn, checked, queued, batched, flushed, failed, dropped or refused
  closed,   \* "open", "closed" once the flag is set, "stopping" once the stop channel is closed too
  loop,     \* what the goroutine is doing: "select", "drain", "write", "mark" or "done"
  last,     \* what it does after the write: "select", "drain" or "done"
  rows,     \* events whose click row and count are committed
  marked,   \* events the returning-visitor set was told of
  late      \* events sent after the flag was set

ingestVars == <<place, closed, loop, last, rows, marked, late>>

Queued == {e \in Event : place[e] = "queued"}
Batch == {e \in Event : place[e] = "batched"}

IngestInit ==
  /\ place = [e \in Event |-> "unborn"]
  /\ closed = "open"
  /\ loop = "select" /\ last = "select"
  /\ rows = {} /\ marked = {} /\ late = {}

Moves(e, where) == place' = [place EXCEPT ![e] = where]

(* Record's first half: an event recorded after Close is refused. *)
Record(e) ==
  /\ place[e] = "unborn"
  /\ Moves(e, IF closed = "open" THEN "checked" ELSE "refused")
  /\ UNCHANGED <<closed, loop, last, rows, marked, late>>

(* Its second half, which cannot be one step with the check: send, or drop when the channel is full. *)
Send(e) ==
  /\ place[e] = "checked"
  /\ Moves(e, IF Cardinality(Queued) < QueueSize THEN "queued" ELSE "dropped")
  /\ late' = IF closed = "open" THEN late ELSE late \union {e}
  /\ UNCHANGED <<closed, loop, last, rows, marked>>

Close ==
  /\ closed = "open"
  /\ closed' = "closed"
  /\ UNCHANGED <<place, loop, last, rows, marked, late>>

CloseStop ==
  /\ closed = "closed"
  /\ closed' = "stopping"
  /\ UNCHANGED <<place, loop, last, rows, marked, late>>

(* One event moves to the batch, and a full batch is written before the next is received. *)
Receive(e) ==
  /\ loop \in {"select", "drain"}
  /\ place[e] = "queued"
  /\ Moves(e, "batched")
  /\ IF Cardinality(Batch) + 1 >= BatchSize
       THEN loop' = "write" /\ last' = loop
       ELSE UNCHANGED <<loop, last>>
  /\ UNCHANGED <<closed, rows, marked, late>>

TickerFlush ==
  /\ loop = "select"
  /\ Batch # {}
  /\ loop' = "write" /\ last' = "select"
  /\ UNCHANGED <<place, closed, rows, marked, late>>

(* Mutant: told to stop, the goroutine returns without draining the channel. *)
StopAtOnce ==
  /\ loop = "select"
  /\ closed = "stopping"
  /\ loop' = "done"
  /\ UNCHANGED <<place, closed, last, rows, marked, late>>

(* The select has several ready cases and takes any of them. *)
Stop ==
  /\ loop = "select"
  /\ closed = "stopping"
  /\ loop' = "drain"
  /\ UNCHANGED <<place, closed, last, rows, marked, late>>

(* The drain finds the channel empty: a last flush, and the goroutine returns. *)
Drained ==
  /\ loop = "drain"
  /\ Queued = {}
  /\ IF Batch = {} THEN loop' = "done" /\ UNCHANGED last
                   ELSE loop' = "write" /\ last' = "done"
  /\ UNCHANGED <<place, closed, rows, marked, late>>

Counted(where) == place' = [e \in Event |-> IF e \in Batch THEN where ELSE place[e]]

(* Rows and counts are one transaction. *)
WriteCommits ==
  /\ loop = "write"
  /\ rows' = rows \union Batch
  /\ loop' = "mark"
  /\ UNCHANGED <<place, closed, last, marked, late>>

(* Mutant: a batch whose write failed goes on to be marked. *)
WriteFailsMarks(committed) ==
  /\ loop = "write"
  /\ rows' = IF committed THEN rows \union Batch ELSE rows
  /\ loop' = "mark"
  /\ UNCHANGED <<place, closed, last, marked, late>>

(* Preparing, beginning, copying or counting fails; or the commit does, with or without having happened. *)
WriteFails(committed) ==
  /\ loop = "write"
  /\ rows' = IF committed THEN rows \union Batch ELSE rows
  /\ Counted("failed")
  /\ loop' = last
  /\ UNCHANGED <<closed, last, marked, late>>

(* The visitors are marked, or Redis does not answer, and the batch is emptied. *)
Mark(answered) ==
  /\ loop = "mark"
  /\ marked' = IF answered THEN marked \union Batch ELSE marked
  /\ Counted("flushed")
  /\ loop' = last
  /\ UNCHANGED <<closed, last, rows, late>>

IngestNext ==
  \/ \E e \in Event : Record(e) \/ Send(e) \/ Receive(e)
  \/ Close \/ CloseStop
  \/ TickerFlush \/ Stop \/ Drained
  \/ WriteCommits
  \/ \E b \in BOOLEAN : WriteFails(b) \/ Mark(b)

IngestSpec == IngestInit /\ [][IngestNext]_ingestVars

----------------------------------------------------------------------------

(* Close loses nothing it had accepted: when the goroutine has returned, what   *)
(* is left in the channel was sent after Close began.                           *)
AcceptedIsFlushed ==
  loop = "done" => Batch = {} /\ Queued \subseteq late

(* The channel never holds more than its capacity and the goroutine never more  *)
(* than a batch, and a click is counted as flushed only with its row stored and *)
(* marked in Redis only after it.                                               *)
MarkedIsStored ==
  /\ marked \subseteq rows
  /\ \A e \in Event : place[e] = "flushed" => e \in rows
  /\ Cardinality(Queued) <= QueueSize /\ Cardinality(Batch) <= BatchSize
=============================================================================
