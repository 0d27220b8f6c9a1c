----------------------------- MODULE ByteQueue -----------------------------
(***************************************************************************)
(* The ring buffer of bytequeue.c: a record of the two indices and the     *)
(* array.  One entry stays free, so that equal indices mean empty.  Each   *)
(* operation but Get runs with interrupts disabled and is one step; Get    *)
(* relies on there being one reader.                                       *)
(***************************************************************************)
EXTENDS Integers, Sequences

CONSTANTS
  QueueLength,   \* MIDI_INPUT_QUEUE_LENGTH, MIDI_OUTPUT_QUEUE_LENGTH (192)
  Byte           \* the bytes that are queued

ASSUME QueueAssumption == QueueLength \in Nat \ {0, 1} /\ Byte # {}

Index == 0..(QueueLength - 1)
Queue == [start : Index, end : Index, data : [Index -> Byte]]

EmptyQueue(data) == [start |-> 0, end |-> 0, data |-> data]

Full(q) == (q.end + 1) % QueueLength = q.start

\* Mutant of Enqueue: a full queue is not noticed.
EnqueueUnchecked(q, byte) ==
  [q EXCEPT !.data[q.end] = byte, !.end = (@ + 1) % QueueLength]

Enqueue(q, byte) ==
  IF Full(q) THEN q
  ELSE [q EXCEPT !.data[q.end] = byte, !.end = (@ + 1) % QueueLength]

Length(q) ==
  IF q.end >= q.start THEN q.end - q.start ELSE (QueueLength - q.start) + q.end

Get(q, i) == q.data[(q.start + i) % QueueLength]

Remove(q, n) == [q EXCEPT !.start = (@ + n) % QueueLength]

\* What is in the queue, oldest first.
Content(q) == [i \in 1..Length(q) |-> Get(q, i - 1)]
=============================================================================
