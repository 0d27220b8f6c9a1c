----------------------------- MODULE Variations -----------------------------
(***************************************************************************)
(* The A and B variations of a pattern: the mode that the BASIC VARIATION  *)
(* button chooses, the variation that plays, and the change that waits for *)
(* the end of the measure.  The operators apply to any record with the     *)
(* fields START, variation_mode, current_variation and variation_change.   *)
(***************************************************************************)

Variation == {"VAR_A", "VAR_B"}
VariationMode == Variation \union {"VAR_AB"}

First(mode) == IF mode = "VAR_B" THEN "VAR_B" ELSE "VAR_A"
Opposite(v) == IF v = "VAR_A" THEN "VAR_B" ELSE "VAR_A"

\* check_variation_switches: SHIFT goes to A/B and, from there, to B.  While stopped the
\* variation changes at once; while running the change is flagged, but not from A to A/B.
SwitchVariation(s, shift) ==
  LET from == s.variation_mode
      to == IF from = "VAR_AB" THEN IF shift THEN "VAR_B" ELSE "VAR_A"
            ELSE IF shift THEN "VAR_AB" ELSE Opposite(from)
  IN  [s EXCEPT !.variation_mode = to,
                !.variation_change = @ \/ (s.START /\ ~(from = "VAR_A" /\ shift)),
                !.current_variation = IF s.START \/ to = "VAR_AB" THEN @ ELSE to]

\* At the end of the last part: the change that waits, or the turn of the other one.
toggle_variation(s) ==
  IF s.variation_change
    THEN [s EXCEPT !.variation_change = FALSE, !.current_variation = First(s.variation_mode)]
  ELSE IF s.variation_mode = "VAR_AB" THEN [s EXCEPT !.current_variation = Opposite(@)]
  ELSE s

\* Mutant of StartVariation: a change that waits goes on waiting.
StartVariationPending(s) == [s EXCEPT !.START = TRUE, !.current_variation = First(s.variation_mode)]

\* process_start begins with the variation of the mode.
StartVariation(s) ==
  [s EXCEPT !.START = TRUE, !.variation_change = FALSE,
            !.current_variation = First(s.variation_mode)]
=============================================================================
