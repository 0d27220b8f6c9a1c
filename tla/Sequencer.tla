----------------------------- MODULE Sequencer -----------------------------
(***************************************************************************)
(* The transport of the drum machine: the timer interrupt that counts      *)
(* clock pulses (process_tick) against the main loop that plays the steps  *)
(* (process_step), turns measures (process_new_measure, update_pattern,    *)
(* update_fill) and obeys the front panel and MIDI program changes.        *)
(*                                                                         *)
(* ram is the part of the C globals sequencer, clock and flag that these   *)
(* functions read or write, under their C names.  An interrupt runs        *)
(* between any two main-loop steps; one pass of the loop serves at most    *)
(* one gesture and then process_step, as refresh() in main.c orders them.  *)
(* Trigger bits, the pattern bank and EEPROM contents are abstracted:      *)
(* reading a pattern returns any member of Stored.                         *)
(***************************************************************************)
EXTENDS Integers, Sequences

CONSTANTS
  NumSteps,         \* NUM_STEPS: steps per part; also NO_STEPS, the null length
  NumPatterns,      \* patterns per bank (16)
  NumBasic,         \* BASIC_RHYTHM: slots from here on are intro/fills (12)
  PreScale,         \* pre_scale[]: pre-scale index -> clock divider
  DefaultPreScale,  \* the index PATTERN CLEAR restores
  PpqnWrap,         \* modulus of the uint8_t ppqn_counter (256)
  ShuffleMax,       \* SHUFFLE_MAX
  FillModes,        \* fill_mode[] of check_fill_switch; FillModes[1] is MANUAL
  EditPatterns,     \* the patterns this instance's user selects outside MANUAL PLAY
  Track,            \* patterns of the current rhythm track, in play order
  Stored,           \* the pattern records that the EEPROM may hold
  Gestures,         \* the gestures this instance's user makes
  KeepUp            \* the main loop serves a step before the next can be due

FIRST  == 0
SECOND == 1
Part   == {FIRST, SECOND}
VAR_A  == 0
VAR_B  == 1
VAR_AB == 2
MANUAL == 0
NO_STEPS == NumSteps

ShuffleMult == 2    \* sequencer.shuffle_multplier, set once in main
NibbleWrap  == 16   \* 4-bit shuffle_ppqn_count
AutoFillWrap == 64  \* 6-bit current_measure_auto_fill

Pattern == 0..(NumPatterns - 1)
Step    == 0..(NumSteps - 1)
Length  == 0..NumSteps

ModeOrder == <<"PATTERN_CLEAR", "FIRST_PART", "SECOND_PART",
               "MANUAL_PLAY", "PLAY_RHYTHM", "COMPOSE_RHYTHM">>

PatternData == [step_num : {n \in [Part -> Length] : n[FIRST] # NO_STEPS},
                pre_scale : DOMAIN PreScale, shuffle : 0..ShuffleMax]

ASSUME SizeAssumption ==
  /\ NumSteps \in Nat \ {0}
  /\ NumPatterns \in Nat \ {0}
  /\ NumBasic \in 1..(NumPatterns - 1)
  /\ PpqnWrap \in Nat \ {0}
  /\ ShuffleMax \in 0..7
  /\ KeepUp \in BOOLEAN

ASSUME TableAssumption ==
  /\ PreScale \in Seq(1..(PpqnWrap - 1)) /\ PreScale # <<>>
  /\ DefaultPreScale \in DOMAIN PreScale
  /\ FillModes \in Seq(0..15) /\ FillModes # <<>>
  /\ EditPatterns \subseteq Pattern
  /\ Track \in Seq(Pattern) /\ Track # <<>>
  /\ Stored \subseteq PatternData

VARIABLES
  ram,      \* the C globals
  pc,       \* where the main loop is: "scan" the panel, "step", "measure", "load", "trigger"
  played    \* history: the last step triggered since start, or Silent

vars == <<ram, pc, played>>

Mode(s) == ModeOrder[s.mode_index + 1]
PartMode(s) == Mode(s) \in {"FIRST_PART", "SECOND_PART"}
TrackMode(s) == Mode(s) \in {"PLAY_RHYTHM", "COMPOSE_RHYTHM"}
FillEvery(s) == FillModes[s.fill_index + 1]

Silent == [part |-> FIRST, step |-> NO_STEPS, last |-> NO_STEPS]

-----------------------------------------------------------------------------
(* The timer interrupt *)

\* Mutant of StepMatch: the step is flagged whether or not it is held back.
StepMatchUnheld(s) ==
  LET delay == s.shuffle_amount # 0 /\ s.current_step % 2 = 0
      end   == s.START /\ s.current_step = s.step_num[s.part_playing]
  IN  [s EXCEPT
        !.divider = IF s.pre_scale_change THEN PreScale[s.pre_scale] ELSE @,
        !.shuffle_amount = IF s.shuffle_change THEN s.new_shuffle_amount ELSE @,
        !.shuffle_change = FALSE,
        !.shuffle_ppqn_count = IF delay THEN 0 ELSE @,
        !.shuffle_step = @ \/ delay,
        !.next_step = TRUE,
        !.current_step = IF end /\ s.primed THEN 0 ELSE (@ + 1) % NumSteps,
        !.primed = @ /\ ~end,
        !.new_measure = @ \/ (end /\ ~s.primed),
        !.ppqn_counter = 0]

\* current_step is compared before it is incremented, as a 4-bit field.  At the
\* end of the part a primed sequencer restarts it, otherwise a measure is due.
StepMatch(s) ==
  LET amount == IF s.shuffle_change THEN s.new_shuffle_amount ELSE s.shuffle_amount
      delay  == amount # 0 /\ s.current_step % 2 = 0
      end    == s.START /\ s.current_step = s.step_num[s.part_playing]
  IN  [s EXCEPT
        !.divider = IF s.pre_scale_change THEN PreScale[s.pre_scale] ELSE @,
        !.shuffle_amount = amount,
        !.shuffle_change = FALSE,
        !.shuffle_ppqn_count = IF delay THEN 0 ELSE @,
        !.shuffle_step = @ \/ delay,
        !.next_step = @ \/ ~(s.shuffle_step \/ delay),
        !.current_step = IF end /\ s.primed THEN 0 ELSE (@ + 1) % NumSteps,
        !.primed = @ /\ ~end,
        !.new_measure = @ \/ (end /\ ~s.primed),
        !.ppqn_counter = 0]

\* A shuffled step is held back for shuffle_amount * shuffle_multplier pulses.
ShuffleCount(s) ==
  LET count == (s.shuffle_ppqn_count + 1) % NibbleWrap
      due   == count = s.shuffle_amount * ShuffleMult
  IN  IF s.shuffle_step
        THEN [s EXCEPT !.shuffle_ppqn_count = count,
                       !.next_step = @ \/ due,
                       !.shuffle_step = ~due]
        ELSE s

ProcessTick(s) ==
  LET count == (s.ppqn_counter + 1) % PpqnWrap
  IN  IF count = s.divider THEN StepMatch(ShuffleCount(s))
                           ELSE [ShuffleCount(s) EXCEPT !.ppqn_counter = count]

-----------------------------------------------------------------------------
(* Loading patterns, starting and stopping *)

\* The divider takes effect at once, without waiting for the counter.
ReadNextPattern(s, d) ==
  [s EXCEPT !.step_num = d.step_num,
            !.pre_scale = d.pre_scale,
            !.divider = PreScale[d.pre_scale],
            !.new_shuffle_amount = d.shuffle,
            !.shuffle_change = TRUE,
            !.step_num_new = d.step_num[s.part_editing]]

CountAutoFill(s) ==
  LET count == (s.current_measure_auto_fill + 1) % AutoFillWrap
  IN  IF FillEvery(s) = MANUAL THEN s
      ELSE [s EXCEPT !.current_measure_auto_fill = count,
                     !.fill = @ \/ count = FillEvery(s)]

\* MIDI_MASTER: prime the part so that the next pulse is the downbeat.
Prime(s, shift) ==
  [s EXCEPT
    !.part_playing = FIRST,
    !.track_measure = IF Mode(s) = "COMPOSE_RHYTHM" THEN @ ELSE 0,
    !.track_loop = @ \/ (Mode(s) = "PLAY_RHYTHM" /\ shift),
    !.current_step = s.step_num[FIRST] % NumSteps,
    !.ppqn_counter = s.divider - 1,
    !.primed = TRUE,
    !.variation_change = FALSE,
    !.current_variation = IF s.variation_mode = VAR_B THEN VAR_B ELSE VAR_A]

CueIntro(s) ==
  [s EXCEPT
    !.intro = FALSE,
    !.current_variation = IF s.intro THEN s.intro_fill_var ELSE @,
    !.pattern_change = @ \/ s.intro]

ProcessStart(s, shift) ==
  IF Mode(s) = "MANUAL_PLAY" THEN CountAutoFill(CueIntro(Prime(s, shift)))
                             ELSE Prime(s, shift)

\* new_measure and next_step are left as they are.
ProcessStop(s, d) ==
  LET reset == [s EXCEPT
        !.track_measure = 0,
        !.track_loop = FALSE,
        !.part_playing = FIRST,
        !.current_pattern = s.new_pattern,
        !.current_measure_auto_fill = 0,
        !.pattern_change = FALSE,
        !.fill = FALSE]
      rewind == [reset EXCEPT !.current_pattern = Track[1],
                              !.new_pattern = Track[1],
                              !.pattern_change = TRUE]
  IN  IF Mode(s) = "MANUAL_PLAY" THEN ReadNextPattern(reset, d)
      ELSE IF TrackMode(s) THEN ReadNextPattern(rewind, d)
      ELSE reset

-----------------------------------------------------------------------------
(* The end of a measure *)

ToggleVariation(s) ==
  [s EXCEPT
    !.variation_change = FALSE,
    !.current_variation =
      IF s.variation_change THEN IF s.variation_mode = VAR_B THEN VAR_B ELSE VAR_A
      ELSE IF s.variation_mode = VAR_AB THEN 1 - @ ELSE @]

\* Mutant of UpdateFill: the return from the fill is not booked.
UpdateFillStays(s, d) ==
  IF ~s.fill THEN CountAutoFill(s)
  ELSE [ReadNextPattern(s, d) EXCEPT
          !.current_measure_auto_fill = 0,
          !.fill = FALSE,
          !.pre_scale_change = TRUE,
          !.part_playing = FIRST,
          !.new_pattern = s.current_pattern,
          !.current_pattern = s.current_intro_fill,
          !.current_variation = s.intro_fill_var]

UpdateFill(s, d) ==
  IF ~s.fill THEN CountAutoFill(s)
  ELSE [ReadNextPattern(s, d) EXCEPT
          !.current_measure_auto_fill = 0,
          !.fill = FALSE,
          !.pre_scale_change = TRUE,
          !.part_playing = FIRST,
          !.new_pattern = s.current_pattern,
          !.current_pattern = s.current_intro_fill,
          !.current_variation = s.intro_fill_var,
          !.pattern_change = TRUE]

\* Mutants of AdvanceTrack: A/B holds the track at both variations; the new measure's
\* pattern is chosen without asking for the change.
AdvanceTrackHolds(s, d) ==
  LET ends  == s.track_measure = Len(Track) - 1
      ended == [(IF s.track_loop THEN s ELSE ProcessStop([s EXCEPT !.START = FALSE], d))
                  EXCEPT !.track_measure = 0, !.pattern_change = TRUE]
      moved == IF s.variation_mode = VAR_AB THEN s
               ELSE IF ends THEN ended
               ELSE [s EXCEPT !.track_measure = @ + 1, !.pattern_change = TRUE]
  IN  [moved EXCEPT !.new_pattern = Track[moved.track_measure + 1]]

AdvanceTrackUnasked(s, d) ==
  LET holds == s.variation_mode = VAR_AB /\ s.current_variation = VAR_A
      ends  == s.track_measure = Len(Track) - 1
      ended == [(IF s.track_loop THEN s ELSE ProcessStop([s EXCEPT !.START = FALSE], d))
                  EXCEPT !.track_measure = 0, !.pattern_change = TRUE]
      moved == IF holds THEN s
               ELSE IF ends THEN ended
               ELSE [s EXCEPT !.track_measure = @ + 1]
  IN  [moved EXCEPT !.new_pattern = Track[moved.track_measure + 1]]

\* PLAY_RHYTHM: A/B play both variations of a measure before the track moves on;
\* at the end of the track the sequencer stops unless the track is looped.
AdvanceTrack(s, d) ==
  LET holds  == s.variation_mode = VAR_AB /\ s.current_variation = VAR_A
      ends   == s.track_measure = Len(Track) - 1
      ended  == [(IF s.track_loop THEN s ELSE ProcessStop([s EXCEPT !.START = FALSE], d))
                   EXCEPT !.track_measure = 0, !.pattern_change = TRUE]
      moved  == IF holds THEN s
                ELSE IF ends THEN ended
                ELSE [s EXCEPT !.track_measure = @ + 1, !.pattern_change = TRUE]
  IN  [moved EXCEPT !.new_pattern = Track[moved.track_measure + 1]]

ChangePattern(s, d) ==
  IF ~s.pattern_change THEN s
  ELSE [ReadNextPattern(s, d) EXCEPT
          !.pattern_change = FALSE,
          !.pre_scale_change = TRUE,
          !.current_pattern = s.new_pattern,
          !.current_variation = IF s.variation_mode = VAR_B THEN VAR_B ELSE VAR_A,
          !.part_playing = FIRST]

UpdatePattern(s, stop, next, fill) ==
  LET advanced == IF Mode(s) = "PLAY_RHYTHM" THEN AdvanceTrack(s, stop) ELSE s
      changed  == ChangePattern(ToggleVariation(advanced), next)
  IN  IF Mode(s) = "MANUAL_PLAY" THEN UpdateFill(changed, fill) ELSE changed

\* Mutants of CloseMeasure: the step counter is not reset; the edit is not taken.
CloseMeasureRunsOn(s) ==
  [s EXCEPT !.step_num = [@ EXCEPT ![s.part_editing] = s.step_num_new],
            !.pattern_edit = FALSE]

CloseMeasureUnwritten(s) ==
  [s EXCEPT !.step_num = [@ EXCEPT ![s.part_editing] = s.step_num_new],
            !.current_step = 0]

\* process_new_measure up to the start of the write of an edited pattern.
CloseMeasure(s) ==
  [s EXCEPT !.step_num = [@ EXCEPT ![s.part_editing] = s.step_num_new],
            !.current_step = 0,
            !.pattern_edit = FALSE]

\* Mutant of TurnPart: a second part without steps gets its turn.
TurnPartAlways(s, stop, next, fill) ==
  IF s.part_playing = FIRST
    THEN [s EXCEPT !.part_playing = SECOND]
    ELSE UpdatePattern([s EXCEPT !.part_playing = FIRST], stop, next, fill)

\* ... and from there: the other part or, after the last one, the next pattern.
TurnPart(s, stop, next, fill) ==
  IF s.step_num[SECOND] # NO_STEPS /\ s.part_playing = FIRST
    THEN [s EXCEPT !.part_playing = SECOND]
    ELSE UpdatePattern([s EXCEPT !.part_playing = FIRST], stop, next, fill)

ApplyPreScale(s) ==
  IF s.pre_scale_change
    THEN [s EXCEPT !.pre_scale_change = FALSE,
                   !.shuffle_amount = 0,
                   !.divider = PreScale[s.pre_scale]]
    ELSE s

-----------------------------------------------------------------------------
(* The front panel and MIDI program changes *)

\* check_tap while running; the bits it adds to the pattern are abstracted.
TapRunning(s) ==
  [s EXCEPT !.tap = @ /\ TrackMode(s),
            !.pattern_edit = @ \/ (s.tap /\ PartMode(s)),
            !.fill = @ \/ (s.tap /\ Mode(s) = "MANUAL_PLAY" /\ FillEvery(s) = MANUAL)]

\* check_tap while stopped in MANUAL PLAY: toggle between intro and basic rhythm.
TapStopped(s, d) ==
  IF s.START \/ ~s.tap \/ Mode(s) # "MANUAL_PLAY" THEN s
  ELSE [ReadNextPattern(s, d) EXCEPT
          !.tap = FALSE,
          !.intro = ~@,
          !.new_pattern = IF s.intro THEN @ ELSE s.current_pattern,
          !.current_pattern = IF s.intro THEN s.new_pattern ELSE s.current_intro_fill]

\* copy_part on the way between FIRST_PART and SECOND_PART with ALT held.
CopyPart(s, source) ==
  [s EXCEPT !.step_num = [@ EXCEPT ![1 - source] = s.step_num[source]],
            !.pattern_edit = TRUE]

UpdateRhythmTrack(s, d) ==
  LET rewound == [s EXCEPT !.track_measure = 0,
                           !.current_pattern = Track[1],
                           !.new_pattern = Track[1],
                           !.pattern_change = TRUE]
  IN  IF s.START THEN rewound ELSE ReadNextPattern(rewound, d)

EnterPartMode(s, d) ==
  LET home == [s EXCEPT !.current_pattern = s.previous_pattern,
                        !.new_pattern = s.previous_pattern]
      read == IF s.pattern_edit THEN home ELSE ReadNextPattern(home, d)
      part == IF Mode(s) = "FIRST_PART" THEN FIRST ELSE SECOND
  IN  [read EXCEPT !.part_editing = part, !.step_num_new = read.step_num[part]]

EnterManualPlay(s) ==
  IF s.current_pattern < NumBasic THEN s
  ELSE [s EXCEPT !.previous_pattern = s.current_pattern,
                 !.new_pattern = NumBasic - 1,
                 !.pattern_change = TRUE]

SetMode(s, d) ==
  IF PartMode(s) THEN EnterPartMode(s, d)
  ELSE IF Mode(s) = "MANUAL_PLAY" THEN EnterManualPlay(s)
  ELSE IF TrackMode(s) THEN UpdateRhythmTrack(s, d)
  ELSE s

CheckModeSwitch(s, shift, alt, d) ==
  LET from   == IF shift THEN "SECOND_PART" ELSE "FIRST_PART"
      copied == IF alt /\ Mode(s) = from
                  THEN CopyPart(s, IF shift THEN SECOND ELSE FIRST) ELSE s
      n      == Len(ModeOrder)
  IN  SetMode([copied EXCEPT !.mode_index = (@ + IF shift THEN n - 1 ELSE 1) % n], d)

\* Mutant of CheckFillSwitch: the count of the last fill mode is kept.
CheckFillSwitchKeeps(s) ==
  [s EXCEPT !.fill_index = (@ + 1) % Len(FillModes)]

CheckFillSwitch(s) ==
  [s EXCEPT !.fill_index = (@ + 1) % Len(FillModes), !.current_measure_auto_fill = 0]

\* PATTERN CLEAR; step_num_new keeps its value.
ClearPattern(s) ==
  [s EXCEPT !.step_num = [p \in Part |-> IF p = FIRST THEN NumSteps - 1 ELSE NO_STEPS],
            !.pre_scale = DefaultPreScale,
            !.divider = PreScale[DefaultPreScale]]

\* Mutant of CheckVariationSwitch: while running no change is asked for.
CheckVariationSwitchUnasked(s, shift) ==
  LET mode == IF s.variation_mode = VAR_AB THEN IF shift THEN VAR_B ELSE VAR_A
              ELSE IF shift THEN VAR_AB
              ELSE 1 - s.variation_mode
  IN  [s EXCEPT !.variation_mode = mode,
                !.current_variation = IF s.START \/ mode = VAR_AB THEN @ ELSE mode]

\* Entering A/B from A forgets to ask for the change.
CheckVariationSwitch(s, shift) ==
  LET mode == IF s.variation_mode = VAR_AB THEN IF shift THEN VAR_B ELSE VAR_A
              ELSE IF shift THEN VAR_AB
              ELSE 1 - s.variation_mode
  IN  [s EXCEPT
        !.variation_mode = mode,
        !.variation_change = @ \/ (s.START /\ ~(s.variation_mode = VAR_A /\ shift)),
        !.current_variation = IF s.START \/ mode = VAR_AB THEN @ ELSE mode]

\* Mutants of UpdatePrescale: the index does not wrap; the divider changes at once
\* (as a line commented out in the source once did).
UpdatePrescaleUnwrapped(s) ==
  [s EXCEPT !.pre_scale = @ - 1, !.pre_scale_change = TRUE, !.pattern_edit = TRUE]

UpdatePrescaleAtOnce(s) ==
  LET index == IF s.pre_scale = 1 THEN Len(PreScale) ELSE s.pre_scale - 1
  IN  [s EXCEPT !.pre_scale = index,
                !.divider = PreScale[index],
                !.pre_scale_change = TRUE,
                !.pattern_edit = TRUE]

\* The divider waits for the next step.
UpdatePrescale(s) ==
  [s EXCEPT !.pre_scale = IF @ = 1 THEN Len(PreScale) ELSE @ - 1,
            !.pre_scale_change = TRUE,
            !.pattern_edit = TRUE]

\* Mutant of UpdateShuffle: the amount changes at once, under a held step.
UpdateShuffleAtOnce(s, amount) ==
  [s EXCEPT !.new_shuffle_amount = amount,
            !.shuffle_amount = amount,
            !.shuffle_change = TRUE,
            !.pattern_edit = @ \/ PartMode(s)]

UpdateShuffle(s, amount) ==
  [s EXCEPT !.new_shuffle_amount = amount,
            !.shuffle_change = TRUE,
            !.pattern_edit = @ \/ PartMode(s)]

\* A part mode, running, CLEAR + step: the length for the next measure.
SetLength(s, press) ==
  LET null == press = 0 /\ s.step_num_new = 0 /\ Mode(s) = "SECOND_PART"
      new  == IF null THEN NO_STEPS ELSE press
  IN  [s EXCEPT !.step_num_new = new,
                !.pattern_edit = @ \/ null \/ new # s.step_num[s.part_editing]]

\* A part mode, running, SHIFT + ALT + step; MANUAL PLAY, running, step.
ChooseNext(s, press) ==
  IF Mode(s) = "MANUAL_PLAY" /\ press >= NumBasic
    THEN [s EXCEPT !.current_intro_fill = press]
    ELSE IF PartMode(s) /\ press = s.current_pattern THEN s
    ELSE [s EXCEPT !.new_pattern = press, !.previous_pattern = press,
                   !.pattern_change = @ \/ press # s.current_pattern]

\* Stopped: load at once and rewind; with CLEAR held copy over instead of loading.
ChooseStopped(s, press, copy, d) ==
  IF Mode(s) = "MANUAL_PLAY" /\ press >= NumBasic
    THEN [s EXCEPT !.current_intro_fill = press]
    ELSE [(IF copy THEN s ELSE ReadNextPattern(s, d)) EXCEPT
            !.current_pattern = press, !.new_pattern = press, !.previous_pattern = press,
            !.part_playing = FIRST, !.current_step = 0, !.ppqn_counter = 0]

\* Stopped, ALT + step: a bank change writes a pending edit and reads at once.
ChooseBankStopped(s, d) ==
  ReadNextPattern([s EXCEPT !.pattern_edit = @ /\ Mode(s) \in {"MANUAL_PLAY", "COMPOSE_RHYTHM"}], d)

ProgramChange(s, press, bank) ==
  LET banked == [s EXCEPT !.pattern_change = @ \/ bank]
  IN  IF Mode(s) = "MANUAL_PLAY" THEN ChooseNext(banked, press)
      ELSE [banked EXCEPT !.new_pattern = press, !.previous_pattern = press]

-----------------------------------------------------------------------------
(* The main loop *)

PowerUp(p) ==
  [mode_index |-> 1, START |-> FALSE, primed |-> FALSE, tap |-> FALSE, intro |-> FALSE,
   step_num |-> [q \in Part |-> 0], step_num_new |-> 0, pre_scale |-> DefaultPreScale,
   current_step |-> 0, part_playing |-> FIRST, part_editing |-> FIRST,
   current_pattern |-> p, new_pattern |-> p, previous_pattern |-> p,
   current_intro_fill |-> NumBasic, fill_index |-> 0, current_measure_auto_fill |-> 0,
   variation_mode |-> VAR_A, current_variation |-> VAR_A, intro_fill_var |-> VAR_A,
   track_measure |-> 0, track_loop |-> FALSE,
   shuffle_amount |-> 0, new_shuffle_amount |-> 0, shuffle_ppqn_count |-> 0,
   ppqn_counter |-> 1, divider |-> PreScale[DefaultPreScale],
   next_step |-> FALSE, new_measure |-> FALSE, pre_scale_change |-> FALSE,
   pattern_change |-> FALSE, variation_change |-> FALSE, fill |-> FALSE,
   pattern_edit |-> FALSE, shuffle_step |-> FALSE, shuffle_change |-> FALSE]

\* main: recall the last pattern and load it.
Init ==
  /\ \E p \in EditPatterns, d \in Stored : ram = ReadNextPattern(PowerUp(p), d)
  /\ pc = "scan"
  /\ played = Silent

MinDivider == CHOOSE n \in 1..(PpqnWrap - 1) :
                /\ \E i \in DOMAIN PreScale : PreScale[i] = n
                /\ \A i \in DOMAIN PreScale : n <= PreScale[i]

Serving == ram.next_step \/ pc \in {"measure", "load", "trigger"}

\* With KeepUp the loop has served a step before the shortest step is over.
Tick ==
  /\ KeepUp /\ Serving => ram.ppqn_counter + 1 < MinDivider
  /\ ram' = ProcessTick(ram)
  /\ UNCHANGED <<pc, played>>

\* One pass over the panel leaves ram as s, after check_tap of the stopped machine.
Serve(s) ==
  /\ pc = "scan"
  /\ \E d \in Stored : ram' = TapStopped(s, d)
  /\ pc' = "step"

\* Without the "race" gesture START/STOP is not pressed while a step is pending or
\* held back by the shuffle.
Apart == "race" \in Gestures \/ ~(ram.next_step \/ ram.shuffle_step)

Idle == Serve(ram) /\ UNCHANGED played

Start ==
  /\ "start" \in Gestures /\ ~ram.START /\ Apart
  /\ \E shift \in BOOLEAN : Serve(ProcessStart([ram EXCEPT !.START = TRUE], shift))
  /\ played' = Silent

Stop ==
  /\ "stop" \in Gestures /\ ram.START /\ Apart
  /\ \E d \in Stored : Serve(ProcessStop([ram EXCEPT !.START = FALSE], d))
  /\ UNCHANGED played

Tap ==
  /\ "tap" \in Gestures
  /\ Serve([ram EXCEPT !.tap = TRUE])
  /\ UNCHANGED played

\* Without the "copy_null" gesture a second part without steps is not copied back.
ModeSwitch ==
  /\ IF ram.START THEN "mode_running" \in Gestures ELSE "mode" \in Gestures
  /\ \E shift, alt \in BOOLEAN, d \in Stored :
        /\ alt => "copy" \in Gestures
        /\ alt /\ shift => "copy_null" \in Gestures \/ ram.step_num[SECOND] # NO_STEPS
        /\ Serve(CheckModeSwitch(ram, shift, alt, d))
  /\ UNCHANGED played

\* MANUAL PLAY divides the slots into basic rhythms and intro/fills; elsewhere any
\* slot can be chosen.
Choices == IF Mode(ram) = "MANUAL_PLAY" THEN Pattern ELSE EditPatterns

FillSwitch ==
  /\ "fill" \in Gestures
  /\ Serve(CheckFillSwitch(ram))
  /\ UNCHANGED played

ClearSwitch ==
  /\ IF ram.START THEN "clear_running" \in Gestures ELSE "clear" \in Gestures
  /\ Mode(ram) = "PATTERN_CLEAR"
  /\ Serve(ClearPattern(ram))
  /\ UNCHANGED played

IntroFillVarSwitch ==
  /\ "variation" \in Gestures /\ Mode(ram) = "MANUAL_PLAY"
  /\ Serve([ram EXCEPT !.intro_fill_var = 1 - @])
  /\ UNCHANGED played

VariationSwitch ==
  /\ "variation" \in Gestures
  /\ \E shift \in BOOLEAN : Serve(CheckVariationSwitch(ram, shift))
  /\ UNCHANGED played

PrescaleSwitch ==
  /\ "prescale" \in Gestures
  /\ Serve(UpdatePrescale(ram))
  /\ UNCHANGED played

ShuffleSwitch ==
  /\ "shuffle" \in Gestures /\ ram.START
  /\ PartMode(ram) \/ Mode(ram) = "MANUAL_PLAY"
  /\ \E amount \in 0..(ShuffleMax - 1) : Serve(UpdateShuffle(ram, amount))
  /\ UNCHANGED played

LengthSwitch ==
  /\ "length" \in Gestures /\ ram.START /\ PartMode(ram)
  /\ \E press \in Step : Serve(SetLength(ram, press))
  /\ UNCHANGED played

StepSwitch ==
  /\ "edit" \in Gestures /\ ram.START /\ PartMode(ram)
  /\ Serve([ram EXCEPT !.pattern_edit = TRUE])
  /\ UNCHANGED played

PatternSwitch ==
  /\ "select" \in Gestures
  /\ \E press \in Choices :
       \/ /\ ram.START /\ (PartMode(ram) \/ Mode(ram) = "MANUAL_PLAY")
          /\ Serve(ChooseNext(ram, press))
       \/ /\ ~ram.START /\ Mode(ram) # "PLAY_RHYTHM"
          /\ \E copy \in BOOLEAN, d \in Stored :
               /\ copy => PartMode(ram) \/ Mode(ram) = "PATTERN_CLEAR"
               /\ Serve(ChooseStopped(ram, press, copy, d))
  /\ UNCHANGED played

BankSwitch ==
  /\ "bank" \in Gestures /\ Mode(ram) # "PLAY_RHYTHM"
  /\ \/ /\ ram.START /\ Mode(ram) # "PATTERN_CLEAR"
        /\ Serve([ram EXCEPT !.pattern_change = TRUE])
     \/ /\ ~ram.START
        /\ \E d \in Stored : Serve(ChooseBankStopped(ram, d))
  /\ UNCHANGED played

Program ==
  /\ "program" \in Gestures
  /\ \E press \in Choices, bank \in BOOLEAN : Serve(ProgramChange(ram, press, bank))
  /\ UNCHANGED played

\* process_step: the step flag and START decide what the rest of it does.
StepDue ==
  /\ pc = "step"
  /\ ram' = [ram EXCEPT !.next_step = FALSE,
                        !.new_measure = @ /\ ~(ram.next_step /\ ram.START)]
  /\ pc' = IF ~(ram.next_step /\ ram.START) THEN "scan"
           ELSE IF ram.new_measure THEN "measure" ELSE "trigger"
  /\ UNCHANGED played

Measure ==
  /\ pc = "measure"
  /\ ram' = CloseMeasure(ram)
  /\ pc' = "load"
  /\ UNCHANGED played

Load ==
  /\ pc = "load"
  /\ \E stop, next, fill \in Stored :
        ram' = ApplyPreScale(TurnPart(ram, stop, next, fill))
  /\ pc' = IF ram'.START THEN "trigger" ELSE "scan"
  /\ UNCHANGED played

Trigger ==
  /\ pc = "trigger"
  /\ ram' = TapRunning(ram)
  /\ pc' = "scan"
  /\ played' = [part |-> ram.part_playing, step |-> ram.current_step,
                last |-> ram.step_num[ram.part_playing]]

Panel ==
  \/ Idle \/ Start \/ Stop \/ Tap \/ ModeSwitch \/ FillSwitch \/ ClearSwitch
  \/ IntroFillVarSwitch \/ VariationSwitch \/ PrescaleSwitch \/ ShuffleSwitch
  \/ LengthSwitch \/ StepSwitch \/ PatternSwitch \/ BankSwitch \/ Program

ProcessStep == StepDue \/ Measure \/ Load \/ Trigger

MainLoop == Panel \/ ProcessStep

Next == Tick \/ MainLoop

Spec == Init /\ [][Next]_vars

\* Timer 1 keeps running and the main loop keeps looping.
FairSpec == Spec /\ WF_vars(Tick) /\ WF_vars(MainLoop)

-----------------------------------------------------------------------------
(* Correctness *)

RamType ==
  [mode_index : 0..(Len(ModeOrder) - 1), START : BOOLEAN, primed : BOOLEAN,
   tap : BOOLEAN, intro : BOOLEAN,
   step_num : [Part -> Length], step_num_new : Length, pre_scale : DOMAIN PreScale,
   current_step : Step, part_playing : Part, part_editing : Part,
   current_pattern : Pattern, new_pattern : Pattern, previous_pattern : Pattern,
   current_intro_fill : Pattern, fill_index : 0..(Len(FillModes) - 1),
   current_measure_auto_fill : 0..(AutoFillWrap - 1),
   variation_mode : {VAR_A, VAR_B, VAR_AB}, current_variation : {VAR_A, VAR_B},
   intro_fill_var : {VAR_A, VAR_B},
   track_measure : 0..(Len(Track) - 1), track_loop : BOOLEAN,
   shuffle_amount : 0..ShuffleMax, new_shuffle_amount : 0..ShuffleMax,
   shuffle_ppqn_count : 0..(NibbleWrap - 1),
   ppqn_counter : 0..(PpqnWrap - 1), divider : 1..(PpqnWrap - 1),
   next_step : BOOLEAN, new_measure : BOOLEAN, pre_scale_change : BOOLEAN,
   pattern_change : BOOLEAN, variation_change : BOOLEAN, fill : BOOLEAN,
   pattern_edit : BOOLEAN, shuffle_step : BOOLEAN, shuffle_change : BOOLEAN]

\* Every global keeps within the width of its C field, and the loop at a known place.
TypeOK ==
  /\ ram \in RamType
  /\ pc \in {"scan", "step", "measure", "load", "trigger"}
  /\ played \in [part : Part, step : Length, last : Length]

\* While running, the pulse counter stays below the divider it is compared with
\* (for equality), so a step is never lost to a wrap of the counter.
PpqnBelowDivider == ram.START => ram.ppqn_counter < ram.divider

\* The second part is never being played when it has no steps: its end would
\* never be found.  (While a measure is turned the part is being chosen.)
SecondPartHasSteps ==
  ram.START /\ ram.part_playing = SECOND /\ pc # "load" => ram.step_num[SECOND] # NO_STEPS

\* The steps that the two concurrent halves trigger are those that a listener is
\* promised: no step of a part is skipped, none comes back, and parts alternate.
Player == INSTANCE PatternPlayer
PlaysInOrder == Player!Spec

\* No step sounds twice: whatever the shuffle holds back and process_step consumes, every
\* trigger is a step forward of the player, also where the refinement would stutter.
StepsPlayOnce == [][Trigger => Player!Begin \/ Player!Advance \/ Player!NextPart]_vars

\* A fill lasts one measure: while its pattern plays, the return to a basic
\* rhythm is already booked for the end of the measure.
FillReturns ==
  ram.START /\ Mode(ram) = "MANUAL_PLAY" /\ ram.current_pattern >= NumBasic =>
    ram.pattern_change /\ ram.new_pattern < NumBasic

\* The auto-fill counter never passes the fill interval it is compared with
\* (for equality), and reaches it only with the fill flagged.
AutoFillCounts ==
  FillEvery(ram) # MANUAL =>
    /\ ram.current_measure_auto_fill <= FillEvery(ram)
    /\ ram.current_measure_auto_fill = FillEvery(ram) => ram.fill

\* Outside A/B the variation being played is the selected one, unless a change of
\* variation or of pattern (which also ends an intro or fill) is still pending.
VariationMatches ==
  ram.START /\ ram.variation_mode # VAR_AB /\ ~ram.variation_change /\ ~ram.pattern_change =>
    ram.current_variation = ram.variation_mode

\* RHYTHM PLAY: the pattern that plays is the one of the track at this measure.
TrackInStep ==
  ram.START /\ Mode(ram) = "PLAY_RHYTHM" => ram.current_pattern = Track[ram.track_measure + 1]

\* Once the downbeat is over, a shuffled step is released before the next step is
\* due: the count has not passed its target (compared for equality), and the target
\* comes before the divider.
ShuffleReleases ==
  ram.START /\ ~ram.primed /\ ram.shuffle_step =>
    /\ ram.shuffle_ppqn_count < ram.shuffle_amount * ShuffleMult
    /\ ram.shuffle_amount * ShuffleMult - ram.shuffle_ppqn_count
         < ram.divider - ram.ppqn_counter

\* Every measure comes to an end.
MeasuresEnd == ram.START ~> (pc = "load" \/ ~ram.START)

\* A rhythm track that is not looped comes to its end, once the player leaves the
\* variation switch and MIDI program changes alone (each can hold it at a measure).
TrackEnds ==
  <>[][~VariationSwitch /\ ~Program]_vars =>
    (ram.START /\ Mode(ram) = "PLAY_RHYTHM" /\ ~ram.track_loop ~> ~ram.START)

\* Every measure comes to an end once the player leaves the mode and clear switches
\* alone, also after the second part was "reset to 0 steps" (sequencer.c:565).
MeasuresResume ==
  <>[][~ModeSwitch /\ ~ClearSwitch]_vars => (ram.START ~> (pc = "load" \/ ~ram.START))

\* The first step after a start is the downbeat: process_start primes the sequencer
\* "so that first step (downbeat) occurs on first incoming clock pulse".
StartsOnDownbeat ==
  [][Trigger /\ played = Silent => played'.part = FIRST /\ played'.step = 0]_vars

\* An edit made while running is handed to the EEPROM writer.
EditsAreWritten == ram.START /\ ram.pattern_edit ~> (~ram.pattern_edit \/ ~ram.START)

=============================================================================
