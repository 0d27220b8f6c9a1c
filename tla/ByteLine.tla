------------------------------ MODULE ByteLine ------------------------------
(***************************************************************************)
(* What a byte queue promises to the two sides of it: a line of bytes that *)
(* leave once each, in the order in which they came.                       *)
(***************************************************************************)
EXTENDS Integers, Sequences

CONSTANTS Byte, Capacity

VARIABLES
  fifo,    \* the bytes on their way
  last     \* the byte that left last

Put == /\ Len(fifo) < Capacity
       /\ \E byte \in Byte : fifo' = Append(fifo, byte)
       /\ UNCHANGED last

Take == /\ fifo # <<>>
        /\ last' = Head(fifo)
        /\ fifo' = Tail(fifo)

Init == fifo = <<>> /\ last \in Byte

Next == Put \/ Take

Spec == Init /\ [][Next]_<<fifo, last>>
=============================================================================
