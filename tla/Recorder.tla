------------------------------- MODULE Recorder -------------------------------
(***************************************************************************)
(* The raw tape of the CLOB feed (src/src/recorder.rs): the CLOB task puts *)
(* every frame into a bounded queue and never waits, a thread of its own   *)
(* takes batches from it and writes each in one transaction.  A frame that *)
(* finds no room, a batch that cannot be written and a process that dies   *)
(* leave gaps; the tape is of use only where a gap can be seen.            *)
(*                                                                         *)
(* A frame is represented by a number, the position in which it arrived.   *)
(***************************************************************************)
EXTENDS Naturals, Sequences

CONSTANTS
  QueueLen,    \* capacity of the queue, 8192
  BatchLen,    \* rows of a batch, 256
  MaxFrames    \* bound: frames of a behaviour

ASSUME RecorderAssumption ==
  /\ {QueueLen, BatchLen, MaxFrames} \subseteq Nat \ {0}
  /\ BatchLen > 1

VARIABLES
  connected,   \* the CLOB task has a connection, and recorded that
  seen,        \* number of the last row that was to be recorded
  dropped,     \* dropped_events of the CLOB task
  queue,       \* the channel
  batch,       \* rows the writer holds
  lost,        \* rows it could not write since its last success
  tape         \* the table market_events, which survives a crash

vars == <<connected, seen, dropped, queue, batch, lost, tape>>

\* A row is a frame or says that the tape is interrupted here: capture_gap, or
\* capture_connected at the start of a connection.
Row == [kind : {"frame", "gap", "connected"}, n : Nat]
Frame(n) == [kind |-> "frame", n |-> n]
Gap == [kind |-> "gap", n |-> 0]
Connected(n) == [kind |-> "connected", n |-> n]

TypeOK ==
  /\ connected \in BOOLEAN
  /\ {seen, dropped, lost} \subseteq Nat
  /\ queue \in Seq(Row) /\ Len(queue) <= QueueLen
  /\ batch \in Seq(Row) /\ Len(batch) <= BatchLen
  /\ tape \in Seq(Row)

-----------------------------------------------------------------------------
(* The CLOB task                                                           *)

\* record: the marker of an earlier overflow goes first, and needs room itself.
Offer(row) ==
  LET marked == IF dropped > 0 THEN Append(queue, Gap) ELSE queue
  IN  \/ /\ Len(marked) < QueueLen
         /\ queue' = Append(marked, row)
         /\ dropped' = 0
      \/ /\ Len(marked) = QueueLen
         /\ queue' = marked
         /\ dropped' = 1
      \/ /\ Len(marked) > QueueLen
         /\ queue' = queue
         /\ dropped' = dropped + 1

\* A connection begins with a row of its own ...
Connect ==
  /\ ~connected
  /\ seen < MaxFrames
  /\ seen' = seen + 1
  /\ connected' = TRUE
  /\ Offer(Connected(seen'))
  /\ UNCHANGED <<batch, lost, tape>>

\* ... every frame is recorded before it is handled ...
Receive ==
  /\ connected
  /\ seen < MaxFrames
  /\ seen' = seen + 1
  /\ Offer(Frame(seen'))
  /\ UNCHANGED <<connected, batch, lost, tape>>

\* ... and so is capture_disconnected, here one more frame.
Disconnect ==
  /\ connected
  /\ seen < MaxFrames
  /\ seen' = seen + 1
  /\ connected' = FALSE
  /\ Offer(Frame(seen'))
  /\ UNCHANGED <<batch, lost, tape>>

-----------------------------------------------------------------------------
(* The writer                                                              *)

\* The first row of a batch; after a failed write it follows a marker.
TakeFirst ==
  /\ batch = <<>>
  /\ queue # <<>>
  /\ batch' = IF lost > 0 THEN <<Gap, Head(queue)>> ELSE <<Head(queue)>>
  /\ queue' = Tail(queue)
  /\ UNCHANGED <<connected, seen, dropped, lost, tape>>

\* The batch is filled as long as rows are waiting.
TakeMore ==
  /\ batch # <<>>
  /\ Len(batch) < BatchLen
  /\ queue # <<>>
  /\ batch' = Append(batch, Head(queue))
  /\ queue' = Tail(queue)
  /\ UNCHANGED <<connected, seen, dropped, lost, tape>>

Complete == batch # <<>> /\ (queue = <<>> \/ Len(batch) = BatchLen)

\* insert_market_events: all rows of the batch are stored ...
Write ==
  /\ Complete
  /\ tape' = tape \o batch
  /\ batch' = <<>>
  /\ lost' = 0
  /\ UNCHANGED <<connected, seen, dropped, queue>>

\* Seeded fault: the failure is logged and forgotten.
WriteFailsQuietly ==
  /\ Complete
  /\ batch' = <<>>
  /\ UNCHANGED <<connected, seen, dropped, queue, lost, tape>>

\* ... or none is, and they are counted, markers among them included.
WriteFails ==
  /\ Complete
  /\ lost' = lost + Len(batch)
  /\ batch' = <<>>
  /\ UNCHANGED <<connected, seen, dropped, queue, tape>>

\* The process dies and comes back; only the table is left.
Crash ==
  /\ connected' = FALSE
  /\ dropped' = 0
  /\ queue' = <<>>
  /\ batch' = <<>>
  /\ lost' = 0
  /\ UNCHANGED <<seen, tape>>

Init ==
  /\ connected = FALSE
  /\ seen = 0
  /\ dropped = 0
  /\ queue = <<>>
  /\ batch = <<>>
  /\ lost = 0
  /\ tape = <<>>

Next ==
  \/ Connect \/ Receive \/ Disconnect
  \/ TakeFirst \/ TakeMore \/ Write \/ WriteFails
  \/ Crash

Spec == Init /\ [][Next]_vars

-----------------------------------------------------------------------------
(* Properties                                                              *)

Follows(r, s) == r.kind = "frame" /\ s.kind = "frame" => s.n = r.n + 1
Linked(rows) == \A i \in 1..Len(rows) - 1 : Follows(rows[i], rows[i + 1])

\* Nothing is missing between two frames that stand next to each other on the
\* tape: whatever was dropped by a full queue, a failed transaction or a crash
\* (recorder.rs 1-3) lies behind a row that says so.
GapsMarked == Linked(tape)

\* What is on its way to the tape, and what may become of the tape.
Held == batch \o queue
Stream == tape \o Held

\* The rows that a new one must not follow with an unmarked gap.
Current == IF lost > 0 THEN Held ELSE Stream

\* The inductive invariant: the stream has no unmarked gap but the one behind
\* the tape after a failed write, for which the next batch begins with a
\* marker; and it ends with the last frame unless the next row is a marker.
RecorderInv ==
  /\ TypeOK
  /\ Linked(tape)
  /\ Linked(Current)
  /\ batch # <<>> /\ lost > 0 => batch[1].kind = "gap"
  /\ connected /\ dropped = 0 /\ Current # <<>> =>
       Follows(Current[Len(Current)], Frame(seen + 1))
=============================================================================
