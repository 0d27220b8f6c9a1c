--------------------------- MODULE PatternPlayer ---------------------------
(***************************************************************************)
(* What a listener is promised: a pattern has one part or two; the steps   *)
(* of a part are played one after the other from step 0 to its last step,  *)
(* and after the second part comes the first part again.                   *)
(***************************************************************************)
EXTENDS Integers

CONSTANTS NumSteps

VARIABLE played   \* the last step triggered: its part, its number, the part's last step

FIRST  == 0
SECOND == 1

Silent == [part |-> FIRST, step |-> NumSteps, last |-> NumSteps]

Place == [part : {FIRST, SECOND}, step : 0..(NumSteps - 1), last : 0..(NumSteps - 1)]

Init == played = Silent

\* The machine is started (or started again).
Restart == played' = Silent

\* The first step after a start is the downbeat.
Begin == played = Silent /\ played' \in {p \in Place : p.part = FIRST /\ p.step = 0}

Advance ==
  /\ played # Silent /\ played.step < played.last
  /\ played' = [played EXCEPT !.step = @ + 1]

NextPart ==
  /\ played # Silent /\ played.step = played.last
  /\ played' \in {p \in Place : p.step = 0 /\ (played.part = SECOND => p.part = FIRST)}

Next == Restart \/ Begin \/ Advance \/ NextPart

Spec == Init /\ [][Next]_played

=============================================================================
