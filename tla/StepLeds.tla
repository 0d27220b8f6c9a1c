------------------------------ MODULE StepLeds ------------------------------
(***************************************************************************)
(* The row of LEDs above the step buttons.  process_step writes the whole  *)
(* row on each step and half step, from the mask of the pattern that is    *)
(* edited or the number of the one that is chosen; buttons switch single   *)
(* LEDs in between.                                                        *)
(*                                                                         *)
(* strip is the part of struct sequencer that is shown, under its C names. *)
(* row is what the latches light (spi_data), led_state what led[].state    *)
(* remembers, which the writes of whole latches leave alone.  The view     *)
(* that SHIFT, ALT or TAP shows while it is held is any set of LEDs.       *)
(***************************************************************************)
EXTENDS Integers

CONSTANT RowLength     \* NUM_STEPS (16)

ASSUME RowAssumption == RowLength \in Nat /\ RowLength > 0

Led == 0..(RowLength - 1)
EditMode == {"PATTERN_CLEAR", "PART"}                    \* PART: FIRST_PART, SECOND_PART
RowMode  == EditMode \union {"MANUAL_PLAY", "RHYTHM"}    \* RHYTHM: PLAY or COMPOSE

VARIABLES strip, row, led_state

ledVars == <<strip, row, led_state>>
rowVars == <<row, led_state>>

Held == strip.SHIFT \/ strip.ALT \/ strip.TAP_HELD
Flip(leds, led) == IF led \in leds THEN leds \ {led} ELSE leds \union {led}

Write(leds) == row' = leds /\ UNCHANGED led_state              \* whole latches
Light(leds) == row' = leds /\ led_state' = led_state \union leds   \* blank, then turn_on

\* toggle: by what is remembered, not by what is lit.
toggle(led) ==
  IF led \in led_state
    THEN row' = row \ {led} /\ led_state' = led_state \ {led}
    ELSE row' = row \union {led} /\ led_state' = led_state \union {led}

-----------------------------------------------------------------------------
(* process_step *)

\* A step: its LED inverted in the row, unless something held is shown or, while a part
\* is edited, the other one plays.
StepRow(step) ==
  LET chosen == {strip.new_pattern, strip.current_intro_fill}
  IN  CASE strip.mode \in EditMode ->
             \/ ~strip.SHIFT /\ ~strip.ALT /\ Write(Flip(strip.led_mask, step))
             \/ UNCHANGED rowVars
        [] strip.mode = "MANUAL_PLAY" ->
             IF strip.SHIFT THEN UNCHANGED rowVars ELSE Write(Flip(chosen, step))
        [] OTHER ->
             IF strip.ALT \/ strip.TAP_HELD THEN UNCHANGED rowVars
             ELSE Write(Flip({strip.new_pattern}, step))

\* Mutant of HalfStepRow: while a part is edited the row stays blank.
HalfStepRowBlank(view) ==
  IF strip.mode = "MANUAL_PLAY" /\ ~strip.SHIFT
    THEN Write({strip.new_pattern, strip.current_intro_fill})
  ELSE IF strip.mode = "RHYTHM" /\ ~strip.TAP_HELD /\ (strip.SHIFT \/ ~strip.ALT)
    THEN Write({strip.new_pattern})
  ELSE IF Held THEN Light(view) ELSE Light({})

\* A half step while running: the row again without the step, or the view of what is held.
HalfStepRow(view) ==
  IF strip.mode \in EditMode /\ ~strip.SHIFT /\ ~strip.ALT THEN Write(strip.led_mask)
  ELSE IF strip.mode = "MANUAL_PLAY" /\ ~strip.SHIFT
    THEN Write({strip.new_pattern, strip.current_intro_fill})
  ELSE IF strip.mode = "RHYTHM" /\ ~strip.TAP_HELD /\ (strip.SHIFT \/ ~strip.ALT)
    THEN Write({strip.new_pattern})
  ELSE Light(view)

\* A half step while stopped: the view, or what is chosen on the first half of the beat;
\* in MANUAL PLAY the pattern or the intro is lit on both.
StoppedRow(view, early) ==
  LET chosen == IF strip.mode = "MANUAL_PLAY"
                  THEN {strip.new_pattern, strip.current_intro_fill} ELSE {strip.new_pattern}
  IN  IF Held THEN Light(view)
      ELSE IF early THEN Light(chosen)
      ELSE IF strip.mode = "MANUAL_PLAY" THEN \E steady \in chosen : Light({steady})
      ELSE Light({})

PlayStep ==
  /\ strip.START
  /\ \E step \in Led : StepRow(step)
  /\ UNCHANGED strip

HalfStep ==
  /\ \E early \in BOOLEAN, view \in SUBSET Led :
       IF strip.START THEN HalfStepRow(view) ELSE StoppedRow(view, early)
  /\ UNCHANGED strip

-----------------------------------------------------------------------------
(* What changes the row in between, and what it shows *)

\* A step button of the pattern that is edited: its LED and its bit of the mask.
EditStep ==
  /\ strip.START /\ strip.mode = "PART" /\ ~strip.SHIFT /\ ~strip.ALT
  /\ \E step \in Led :
       /\ strip' = [strip EXCEPT !.led_mask = Flip(@, step)]
       /\ toggle(step)

\* SHIFT + ALT + a step button, while a part is edited and plays: the row goes blank
\* (refresh_step_leds), and another pattern than the one that plays is chosen and lit.
ChooseLed ==
  /\ strip.START /\ strip.mode = "PART" /\ strip.SHIFT /\ strip.ALT
  /\ \E press \in Led :
       IF press = strip.current_pattern
         THEN Write({}) /\ UNCHANGED strip
         ELSE /\ strip' = [strip EXCEPT !.new_pattern = press]
              /\ row' = {press}
              /\ led_state' = (led_state \ {strip.current_pattern}) \union {press}

\* SHIFT + a step button, while a part is edited and plays: amount of shuffle and roll mode.
ChooseShuffle ==
  /\ strip.START /\ strip.mode = "PART" /\ strip.SHIFT /\ ~strip.ALT
  /\ \E chosen \in SUBSET Led : Light(chosen)
  /\ UNCHANGED strip

\* The other settings that a step button changes with SHIFT or ALT: bank, MIDI channel and
\* sync count, shuffle and live hits in MANUAL PLAY, the trigger inputs.  No blanking; the
\* old one is turned off.
ChooseSetting ==
  /\ \/ strip.mode = "PART" /\ (strip.ALT \/ strip.SHIFT) /\ (strip.START => ~strip.SHIFT)
     \/ strip.mode = "PATTERN_CLEAR" /\ (strip.ALT \/ strip.SHIFT) /\ ~strip.START
     \/ strip.mode = "MANUAL_PLAY" /\ strip.SHIFT
     \/ strip.mode = "RHYTHM" /\ strip.ALT /\ ~strip.SHIFT
  /\ \E old, chosen \in SUBSET Led :
       /\ row' = (row \ old) \union chosen
       /\ led_state' = (led_state \ old) \union chosen
  /\ UNCHANGED strip

\* Where the patterns change and no LED is switched: a press while stopped, in MANUAL PLAY
\* or in COMPOSE; a program change; the end of a measure; a fill or the intro; another mode
\* or track.
TurnPattern ==
  /\ \/ \E pattern \in Led : strip' = [strip EXCEPT !.new_pattern = pattern]
     \/ \E pattern \in Led : strip' = [strip EXCEPT !.current_intro_fill = pattern]
     \/ \E pattern \in Led :
          strip' = [strip EXCEPT !.new_pattern = pattern, !.current_pattern = pattern]
     \/ strip' = [strip EXCEPT !.new_pattern = strip.current_pattern,
                               !.current_pattern = strip.current_intro_fill]
  /\ UNCHANGED rowVars

\* Another instrument, variation, measure or mode; a key that is held or released.
ShowColumn ==
  /\ \E mask \in SUBSET Led, mode \in RowMode :
       strip' = [strip EXCEPT !.led_mask = mask, !.mode = mode]
  /\ UNCHANGED rowVars

HoldKey ==
  /\ \E key \in {"SHIFT", "ALT", "TAP_HELD"} : strip' = [strip EXCEPT ![key] = ~@]
  /\ UNCHANGED rowVars

\* process_stop leaves the chosen pattern lit, in MANUAL PLAY the intro as well; a rhythm
\* track goes back to its first pattern.
StartStopRow ==
  \/ /\ strip.START
     /\ Light({strip.new_pattern} \union
                 (IF strip.mode = "MANUAL_PLAY" THEN {strip.current_intro_fill} ELSE {}))
     /\ \E pattern \in IF strip.mode = "RHYTHM" THEN Led ELSE {strip.new_pattern} :
          strip' = [strip EXCEPT !.START = FALSE, !.new_pattern = pattern,
                                 !.current_pattern = pattern]
  \/ /\ ~strip.START
     /\ strip' = [strip EXCEPT !.START = TRUE]
     /\ UNCHANGED rowVars

-----------------------------------------------------------------------------
LedInit ==
  /\ strip = [mode |-> "PART", START |-> FALSE, SHIFT |-> FALSE, ALT |-> FALSE,
              TAP_HELD |-> FALSE, led_mask |-> {}, new_pattern |-> 0,
              current_pattern |-> 0, current_intro_fill |-> RowLength - 1]
  /\ row = {0} /\ led_state = {0}

LedNext ==
  \/ PlayStep \/ HalfStep \/ EditStep \/ ChooseLed \/ ChooseShuffle \/ ChooseSetting
  \/ TurnPattern \/ ShowColumn \/ HoldKey \/ StartStopRow

LedSpec == LedInit /\ [][LedNext]_ledVars

\* The timer goes on, and the main loop serves its half steps.
LedFairness == WF_ledVars(HalfStep)

-----------------------------------------------------------------------------
(* Correctness *)

LedTypeOK ==
  /\ strip \in [mode : RowMode, START : BOOLEAN, SHIFT : BOOLEAN, ALT : BOOLEAN,
                TAP_HELD : BOOLEAN, led_mask : SUBSET Led, new_pattern : Led,
                current_pattern : Led, current_intro_fill : Led]
  /\ row \subseteq Led /\ led_state \subseteq Led

\* Whatever presses, blinks and held views have left on the row: while a part is edited
\* it shows the hits of the selected instrument again, at the latest with the half step
\* (leds.c:98, sequencer.c:725).
EditingRow == strip.START /\ strip.mode = "PART" /\ ~Held
RowSettles == EditingRow /\ row # strip.led_mask ~> row = strip.led_mask \/ ~EditingRow
=============================================================================
