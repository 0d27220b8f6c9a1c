----------------------------- MODULE StepBoard -----------------------------
(***************************************************************************)
(* The editing of a pattern on the sixteen step buttons, and the mask of   *)
(* the LEDs above them.  The mask (led_mask) is a second copy of one       *)
(* column of the pattern: the steps on which the selected instrument       *)
(* plays, in the part that is edited and the variation that plays.  Every  *)
(* operation on the pattern keeps it up to date or computes it anew.       *)
(*                                                                         *)
(* board is the part of struct sequencer these operations use, under its   *)
(* C names.  The clock is left out: a measure may end whenever the         *)
(* sequencer runs, and its current step is any step.                       *)
(***************************************************************************)
EXTENDS Variations, Integers, Sequences, FiniteSets

CONSTANTS
  BoardSteps,      \* NUM_STEPS: steps to a part; also NO_STEPS, the null length (16)
  BoardInst,       \* the instruments, without the accent
  StoredBoards,    \* the patterns the EEPROM may hold, with their lengths
  MaxHits          \* bound on the hits of the pattern that is edited

ASSUME BoardAssumption ==
  /\ BoardSteps \in Nat /\ BoardSteps > 0
  /\ "accent" \notin BoardInst /\ BoardInst # {} /\ IsFiniteSet(BoardInst)
  /\ MaxHits \in Nat

Row     == 0..(BoardSteps - 1)
NULL_LENGTH == BoardSteps
Tracks  == BoardInst \union {"accent"}
Parts   == {"FIRST", "SECOND"}
BoardMode == <<"PATTERN_CLEAR", "FIRST_PART", "SECOND_PART", "elsewhere">>
PartMode  == {"FIRST_PART", "SECOND_PART"}
Grid == [Variation -> [Parts -> [Tracks -> SUBSET Row]]]

VARIABLES
  board,
  stale    \* history: the mask was left behind, and has not been computed since

boardVars == <<board, stale>>

-----------------------------------------------------------------------------
(* The pattern and its mask *)

\* The loop of update_inst_led_mask: up to the length of the part, all of a null part.
Shown(b) == {i \in Row : i <= b.step_num[b.part_editing]}
Column(b) == b.pattern[b.current_variation][b.part_editing][b.current_inst]

update_inst_led_mask(b) == [b EXCEPT !.led_mask = Column(b) \intersect Shown(b)]

NoHits == [t \in Tracks |-> {}]
BlankLength == [p \in Parts |-> IF p = "FIRST" THEN BoardSteps - 1 ELSE NULL_LENGTH]
Blank == [v \in Variation |-> [p \in Parts |-> NoHits]]

SetColumn(b, hits) ==
  [b EXCEPT !.pattern[b.current_variation][b.part_editing][b.current_inst] = hits]

read_next_pattern(b, data) ==
  LET read == update_inst_led_mask([b EXCEPT !.pattern = data.pattern,
                                             !.step_num = data.step_num])
  IN  [read EXCEPT !.step_num_new = read.step_num[b.part_editing]]

Xor(hits, step) == IF step \in hits THEN hits \ {step} ELSE hits \union {step}

Hits(b) == {h \in Variation \X Parts \X Tracks \X Row : h[4] \in b.pattern[h[1]][h[2]][h[3]]}
Bounded == Cardinality(Hits(board')) <= MaxHits

Running == board.START /\ board.mode \in PartMode

-----------------------------------------------------------------------------
(* A part mode while the sequencer runs *)

\* A step button, up to the length of the part.
StepPress ==
  /\ Running
  /\ \E step \in Shown(board) :
       board' = [SetColumn(board, Xor(Column(board), step)) EXCEPT
                   !.led_mask = Xor(@, step)]
  /\ Bounded
  /\ UNCHANGED stale

\* CLEAR and a step button: the length from the next measure on; the first step a second
\* time drops the second part, of which the mask goes on showing what it was.
LengthPress ==
  /\ Running
  /\ \E step \in Row :
       LET drop == step = 0 /\ board.step_num_new = 0 /\ board.mode = "SECOND_PART"
       IN  /\ board' = IF drop
                         THEN [board EXCEPT
                                !.step_num_new = NULL_LENGTH,
                                !.pattern = [v \in Variation |-> [@[v] EXCEPT !["SECOND"] = NoHits]]]
                         ELSE [board EXCEPT !.step_num_new = step]
           /\ stale' = (stale \/ drop)

\* Mutant of TapClear: the mask keeps the hits that go.
TapClearMasked ==
  /\ Running
  /\ board.current_inst # "accent" /\ board.step_num[board.part_editing] # NULL_LENGTH
  /\ board' = SetColumn(board, Column(board) \ Shown(board))
  /\ UNCHANGED stale

\* check_tap: CLEAR empties and SHIFT fills the track, but not the accent's.  A second
\* part without steps is left out: there the loop writes past the part.
TapClear ==
  /\ Running
  /\ board.current_inst # "accent" /\ board.step_num[board.part_editing] # NULL_LENGTH
  /\ board' = [SetColumn(board, Column(board) \ Shown(board)) EXCEPT !.led_mask = @ \ Shown(board)]
  /\ UNCHANGED stale

TapFill ==
  /\ Running
  /\ board.current_inst # "accent" /\ board.step_num[board.part_editing] # NULL_LENGTH
  /\ board' = [SetColumn(board, Column(board) \union Shown(board)) EXCEPT
                 !.led_mask = @ \union Shown(board)]
  /\ Bounded
  /\ UNCHANGED stale

\* TAP alone adds the current step, which may lie beyond the part that is edited.
TapHit ==
  /\ Running
  /\ \E step \in Row :
       board' = [SetColumn(board, Column(board) \union {step}) EXCEPT
                   !.led_mask = @ \union {step}]
  /\ Bounded
  /\ UNCHANGED stale

-----------------------------------------------------------------------------
(* Instruments, variations and modes *)

SelectInst ==
  /\ \E t \in Tracks : board' = update_inst_led_mask([board EXCEPT !.current_inst = t])
  /\ stale' = FALSE

\* check_variation_switches: from A, CLEAR copies A to B on the way.
VariationSwitch ==
  \E shift, clear \in BOOLEAN :
    LET copied == IF board.variation_mode = "VAR_A" /\ clear /\ ~shift
                    THEN [board EXCEPT !.pattern["VAR_B"] = board.pattern["VAR_A"]] ELSE board
    IN  /\ board' = update_inst_led_mask(SwitchVariation(copied, shift))
        /\ Bounded
        /\ stale' = FALSE

\* copy_part: the steps up to the length of the source, and all of its accent.
copy_part(b, source, destination) ==
  LET upto == {i \in Row : i <= b.step_num[source]}
      Copy(v) == [t \in Tracks |->
                    IF t = "accent" THEN b.pattern[v][source][t]
                    ELSE (b.pattern[v][destination][t] \ upto)
                           \union (b.pattern[v][source][t] \intersect upto)]
  IN  [b EXCEPT !.pattern = [v \in Variation |-> [@[v] EXCEPT ![destination] = Copy(v)]],
                !.step_num[destination] = b.step_num[source]]

\* check_mode_switch: the next mode, with SHIFT the one before.
ModeAfter(from, shift) ==
  LET index == CHOOSE i \in DOMAIN BoardMode : BoardMode[i] = from
  IN  BoardMode[IF shift THEN IF index = 1 THEN Len(BoardMode) ELSE index - 1
                ELSE (index % Len(BoardMode)) + 1]

\* On the way between the parts ALT copies the part that is left.
Copies(from, shift, alt) == alt /\ from = IF shift THEN "SECOND_PART" ELSE "FIRST_PART"

CopyOnTheWay(b, shift, alt) ==
  IF ~Copies(b.mode, shift, alt) THEN b
  ELSE IF shift THEN copy_part(b, "SECOND", "FIRST") ELSE copy_part(b, "FIRST", "SECOND")

\* A part mode reads its pattern again, unless it has been edited, and edits its part.
set_mode(b, read, data) ==
  LET part   == IF b.mode = "FIRST_PART" THEN "FIRST" ELSE "SECOND"
      loaded == IF read THEN read_next_pattern(b, data) ELSE b
  IN  IF b.mode \notin PartMode THEN b
      ELSE update_inst_led_mask([loaded EXCEPT !.part_editing = part,
                                               !.step_num_new = loaded.step_num[part]])

\* A copy flags the edit.  A second part without steps is never copied: it would be copied
\* from past its end.
ModeSwitch ==
  \E shift, alt, read \in BOOLEAN, data \in StoredBoards :
    LET copies == Copies(board.mode, shift, alt)
        moved  == [CopyOnTheWay(board, shift, alt) EXCEPT !.mode = ModeAfter(board.mode, shift)]
    IN  /\ copies => ~read
        /\ copies /\ shift => board.step_num["SECOND"] # NULL_LENGTH
        /\ board' = set_mode(moved, read, data)
        /\ stale' = (stale /\ moved.mode \notin PartMode)
        /\ Bounded

-----------------------------------------------------------------------------
(* Clearing and loading *)

\* check_clear_switch in PATTERN CLEAR: the variation that is current, in both parts.
ClearBoard ==
  /\ board.mode = "PATTERN_CLEAR"
  /\ board' = [board EXCEPT !.pattern[board.current_variation] = [p \in Parts |-> NoHits],
                            !.led_mask = {}, !.step_num = BlankLength]
  /\ UNCHANGED stale

clear_all_patterns ==
  /\ board.mode = "PATTERN_CLEAR"
  /\ board' = [board EXCEPT !.pattern = Blank, !.led_mask = {}, !.step_num = BlankLength]
  /\ UNCHANGED stale

\* A pattern or bank that is chosen while stopped; an intro or a track elsewhere.
LoadBoard ==
  /\ ~board.START \/ board.mode = "elsewhere"
  /\ \E data \in StoredBoards : board' = read_next_pattern(board, data)
  /\ stale' = FALSE

-----------------------------------------------------------------------------
(* Transport *)

\* process_start takes the variation from the mode, and leaves the mask alone.
StartBoard ==
  /\ ~board.START
  /\ board' = StartVariation(board)
  /\ stale' = (stale \/ First(board.variation_mode) # board.current_variation)

StopBoard ==
  /\ board.START
  /\ board' = [board EXCEPT !.START = FALSE]
  /\ UNCHANGED stale

\* update_pattern, without the fill.
update_pattern(b, change, data) ==
  LET toggled == toggle_variation(b)
  IN  IF change
        THEN [read_next_pattern(toggled, data) EXCEPT
                !.current_variation = First(b.variation_mode)]
        ELSE toggled

\* process_new_measure: the length that was asked for, the other part or, after the last
\* one, the other variation or the next pattern.
NewMeasure ==
  /\ board.START
  /\ \E last, change \in BOOLEAN, data \in StoredBoards :
       LET timed  == [board EXCEPT !.step_num[board.part_editing] = board.step_num_new]
           turned == IF last \/ timed.step_num["SECOND"] = NULL_LENGTH
                       THEN update_pattern(timed, change, data) ELSE timed
       IN  IF board.mode \in PartMode
             THEN board' = update_inst_led_mask(turned) /\ stale' = FALSE
             ELSE board' = turned /\ UNCHANGED stale

\* An intro or a fill brings its own variation.
IntroFill ==
  /\ board.mode = "elsewhere" /\ board.START
  /\ \E data \in StoredBoards, variation \in Variation :
       board' = [read_next_pattern(board, data) EXCEPT !.current_variation = variation]
  /\ UNCHANGED stale

-----------------------------------------------------------------------------
BoardInit ==
  /\ \E data \in StoredBoards, inst \in BoardInst :
       board = update_inst_led_mask(
         [mode |-> "elsewhere", part_editing |-> "FIRST", current_inst |-> inst,
          current_variation |-> "VAR_A", variation_mode |-> "VAR_A",
          variation_change |-> FALSE, START |-> FALSE,
          pattern |-> data.pattern, step_num |-> data.step_num,
          step_num_new |-> data.step_num["FIRST"], led_mask |-> {}])
  /\ stale = FALSE

BoardNext ==
  \/ StepPress \/ LengthPress \/ TapClear \/ TapFill \/ TapHit
  \/ SelectInst \/ VariationSwitch \/ ModeSwitch
  \/ ClearBoard \/ clear_all_patterns \/ LoadBoard
  \/ StartBoard \/ StopBoard \/ NewMeasure \/ IntroFill

BoardSpec == BoardInit /\ [][BoardNext]_boardVars

-----------------------------------------------------------------------------
(* Correctness *)

BoardTypeOK ==
  /\ board.mode \in {BoardMode[i] : i \in DOMAIN BoardMode}
  /\ board.part_editing \in Parts /\ board.current_inst \in Tracks
  /\ board.current_variation \in Variation
  /\ board.variation_mode \in VariationMode
  /\ board.variation_change \in BOOLEAN /\ board.START \in BOOLEAN
  /\ board.step_num \in [Parts -> 0..BoardSteps] /\ board.step_num["FIRST"] # NULL_LENGTH
  /\ board.step_num_new \in 0..BoardSteps
  /\ board.led_mask \subseteq Row
  /\ board.pattern \in Grid
  /\ stale \in BOOLEAN

\* While a part is edited the LEDs above its steps show the hits of the selected
\* instrument, in that part and in the variation that plays, unless one of the two
\* operations that leave the mask behind has come in between (leds.c:325).
LedsShowPattern ==
  board.mode \in PartMode /\ ~stale =>
    board.led_mask \intersect Shown(board) = Column(board) \intersect Shown(board)
=============================================================================
