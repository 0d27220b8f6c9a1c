--------------------------- MODULE VariationLeds ---------------------------
(***************************************************************************)
(* The two LEDs of the BASIC VARIATION button.  Each half step process_step *)
(* computes var_led_mask from the mode, the variation that plays and the   *)
(* change that waits; every pass of the loop adds it to what is lit.       *)
(***************************************************************************)
EXTENDS Variations

VARIABLES
  turn,           \* START, the variation fields, and whether clock.source is EXTERNAL
  var_led_mask,
  var_lit,        \* the two bits of LATCH_5 of spi_data
  asked           \* history: the button was pressed while running, and since then no
                  \* measure has ended and process_start has not been called

varLedVars == <<turn, var_led_mask, var_lit, asked>>

-----------------------------------------------------------------------------
(* process_step *)

\* While running: the variation that plays; on the first half of the beat the one to come
\* as well.  With a change that waits, B takes no LED once its mode has been left.
RunningVariation(s, early) ==
  LET settled == s.current_variation = s.variation_mode
      playing == IF settled /\ s.variation_change THEN "VAR_A" ELSE s.current_variation
  IN  {playing} \union
      (IF ~early THEN {}
       ELSE IF ~settled THEN {Opposite(s.current_variation)}
       ELSE IF s.current_variation = "VAR_A" /\ s.variation_change THEN {"VAR_B"} ELSE {})

\* While stopped: the mode; A/B flashes B, unless a key is held.
StoppedVariation(s, early, held) ==
  {First(s.variation_mode)} \union
  (IF early /\ ~held /\ s.variation_mode = "VAR_AB" THEN {"VAR_B"} ELSE {})

\* While an external clock is awaited: the mode.
WaitingVariation(s) == IF s.variation_mode = "VAR_AB" THEN Variation ELSE {s.variation_mode}

VarHalfStep ==
  /\ \E early, held \in BOOLEAN :
       var_led_mask' = IF turn.START THEN RunningVariation(turn, early)
                       ELSE StoppedVariation(turn, early, held)
  /\ var_lit' = var_led_mask'
  /\ UNCHANGED <<turn, asked>>

\* A pass with a step, or with nothing to do.
OtherPass ==
  /\ IF turn.external /\ ~turn.START
       THEN var_led_mask' = WaitingVariation(turn) /\ var_lit' = var_led_mask'
       ELSE var_lit' = var_lit \union var_led_mask /\ UNCHANGED var_led_mask
  /\ UNCHANGED <<turn, asked>>

-----------------------------------------------------------------------------
(* What moves the variations *)

PressVariation ==
  /\ \E shift \in BOOLEAN : turn' = SwitchVariation(turn, shift)
  /\ asked' = (asked \/ turn.START)
  /\ UNCHANGED <<var_led_mask, var_lit>>

\* update_pattern: a change that waits is done or A and B alternate, in any case; then a new
\* pattern begins with the variation of the mode, a fill with its own.  The end of a track
\* stops before it.
VarMeasure ==
  /\ turn.START
  /\ \/ turn' = toggle_variation(turn)
     \/ \E v \in Variation :
          turn' = [toggle_variation(turn) EXCEPT !.current_variation = v]
     \/ turn' = [toggle_variation(turn) EXCEPT
                   !.START = FALSE, !.current_variation = First(turn.variation_mode)]
  /\ asked' = FALSE
  /\ UNCHANGED <<var_led_mask, var_lit>>

VarStop ==
  /\ turn.START
  /\ turn' = [turn EXCEPT !.START = FALSE]
  /\ UNCHANGED <<var_led_mask, var_lit, asked>>

\* SHIFT + START leaves process_start to a later pulse, or to none if the clock has been
\* made internal since (delay_slave_start).
VarStartAwaited ==
  /\ ~turn.START
  /\ turn' = [turn EXCEPT !.START = TRUE]
  /\ UNCHANGED <<var_led_mask, var_lit, asked>>

\* process_start, which a master may call for while the slave runs; an intro brings its own
\* variation.
VarStart ==
  /\ turn.START => turn.external
  /\ \/ turn' = StartVariation(turn)
     \/ \E v \in Variation : turn' = [StartVariation(turn) EXCEPT !.current_variation = v]
  /\ asked' = FALSE
  /\ UNCHANGED <<var_led_mask, var_lit>>

\* set_clock_mode.
VarSource ==
  /\ turn' = [turn EXCEPT !.external = ~@]
  /\ UNCHANGED <<var_led_mask, var_lit, asked>>

-----------------------------------------------------------------------------
VarLedInit ==
  /\ turn = [START |-> FALSE, external |-> FALSE, variation_mode |-> "VAR_A",
             current_variation |-> "VAR_A", variation_change |-> FALSE]
  /\ var_led_mask = {} /\ var_lit = {"VAR_A"}
  /\ asked = FALSE

VarLedNext ==
  \/ VarHalfStep \/ OtherPass \/ PressVariation \/ VarMeasure
  \/ VarStop \/ VarStartAwaited \/ VarStart \/ VarSource

VarLedSpec == VarLedInit /\ [][VarLedNext]_varLedVars

-----------------------------------------------------------------------------
(* Correctness *)

VarLedTypeOK ==
  /\ turn \in [START : BOOLEAN, external : BOOLEAN, variation_mode : VariationMode,
               current_variation : Variation, variation_change : BOOLEAN]
  /\ var_led_mask \subseteq Variation /\ var_lit \subseteq Variation
  /\ asked \in BOOLEAN

\* B has been asked for while it plays: to take back a change that waits, from A/B, or
\* under a fill or an intro of variation B.  The code then shows A (sequencer.c:779).
BAskedFor == asked /\ turn.current_variation = "VAR_B" /\ turn.variation_mode = "VAR_B"

\* While the sequencer runs every half step leaves the LED of the variation that plays lit,
\* but for B from a press that asks for it until the measure ends or process_start is
\* called: no change that was dropped by STOP, overtaken by a new pattern, a fill or an
\* intro, or left over from the run before darkens it for longer (sequencer.c:775).
PlayingVariationLit ==
  [][VarHalfStep /\ turn.START =>
       turn.current_variation \in var_lit' \/ BAskedFor]_varLedVars
=============================================================================
