--------------------------- MODULE MCRhythmTrack ---------------------------
(***************************************************************************)
(* RhythmTrack for TLC: tracks of up to three measures.  Track 0 has been *)
(* cleared; track 1 has two measures that differ in pattern and bank.      *)
(***************************************************************************)
EXTENDS RhythmTrack

Two == [patterns |-> [i \in Measure |-> IF i = 0 THEN [pattern |-> 1, bank |-> 0]
                                       ELSE IF i = 1 THEN [pattern |-> 0, bank |-> 1]
                                       ELSE Junk],
        length |-> 1]

MCBegun == {[t \in Track |-> IF t = 0 THEN Empty ELSE Two]}
=============================================================================
