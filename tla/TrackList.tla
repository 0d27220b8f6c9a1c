----------------------------- MODULE TrackList -----------------------------
(***************************************************************************)
(* What the player is promised about rhythm tracks: a track is a list of   *)
(* at least one pattern and at most MaxMeasures; one entry is selected, or *)
(* the free place after the last; putting a pattern, removing and          *)
(* duplicating are about the selected entry and leave the others alone;    *)
(* a track that is closed is kept as it was.                               *)
(***************************************************************************)
EXTENDS Integers, Sequences, SequencesExt

CONSTANTS Cell, Blank, MaxMeasures, Track

Lists == UNION {[1..n -> Cell] : n \in 1..MaxMeasures}

VARIABLES
  list,      \* the open track
  selected,  \* its selected entry
  saved,     \* every track as it is stored
  number     \* which of them is open

Bounded(s) == IF Len(s) > MaxMeasures THEN SubSeq(s, 1, MaxMeasures) ELSE s

Select ==
  /\ selected' \in 1..(Len(list) + 1)
  /\ UNCHANGED <<list, saved, number>>

Put ==
  /\ \E c \in Cell : list' = IF selected > Len(list) THEN Append(list, c)
                                                     ELSE [list EXCEPT ![selected] = c]
  /\ Len(list') <= MaxMeasures
  /\ UNCHANGED <<selected, saved, number>>

Removed == IF Len(list) > 1 THEN RemoveAt(list, selected) ELSE list

Delete ==
  /\ selected <= Len(list) /\ Len(list) > 1
  /\ list' = Removed
  /\ selected' \in {selected, Len(list')}
  /\ UNCHANGED <<saved, number>>

\* A copy of the entry; in a full track the last one makes room.
Insert ==
  /\ selected <= Len(list)
  /\ list' = Bounded(InsertAt(list, selected, list[selected]))
  /\ UNCHANGED <<selected, saved, number>>

\* Behind the last entry the chosen pattern is appended.
AppendOne ==
  /\ selected = Len(list) /\ Len(list) < MaxMeasures
  /\ \E c \in Cell : list' = Append(list, c)
  /\ selected' = Len(list')
  /\ UNCHANGED <<saved, number>>

SaveAs(s) == saved' = [saved EXCEPT ![number] = s]

Save == SaveAs(list) /\ UNCHANGED <<list, selected, number>>

Close ==
  /\ list' = list \/ (selected <= Len(list) /\ list' = Removed)
  /\ selected' = 1
  /\ SaveAs(list')
  /\ UNCHANGED number

Open ==
  \E t \in Track : /\ SaveAs(list)
                   /\ list' = saved'[t]
                   /\ selected' = 1
                   /\ number' = t

Clear ==
  /\ list' = <<Blank>>
  /\ selected' = 1
  /\ SaveAs(list')
  /\ UNCHANGED number

Init ==
  /\ saved \in [Track -> Lists]
  /\ number \in Track
  /\ list = saved[number]
  /\ selected = 1

Next == Select \/ Put \/ Delete \/ Insert \/ AppendOne \/ Save \/ Close \/ Open \/ Clear

Spec == Init /\ [][Next]_<<list, selected, saved, number>>
=============================================================================
