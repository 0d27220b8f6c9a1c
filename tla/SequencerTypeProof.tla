------------------------ MODULE SequencerTypeProof -------------------------
(***************************************************************************)
(* The type invariant of Sequencer holds for every value of its constants. *)
(* One lemma per operation, in the order of Sequencer, and one case per    *)
(* action in the theorem.                                                  *)
(***************************************************************************)
EXTENDS Sequencer, SequenceTheorems, TLAPS

\* Every divider of pre_scale[] is one the counter can reach (mode.c, sequencer.c use it as index).
LEMMA PreScaleType ==
  ASSUME NEW i \in DOMAIN PreScale
  PROVE  PreScale[i] \in 1..(PpqnWrap - 1)
BY TableAssumption, ElementOfSeq, LenProperties

\* Every measure of the rhythm track names a pattern slot.
LEMMA TrackType ==
  ASSUME NEW i \in 0..(Len(Track) - 1)
  PROVE  Track[i + 1] \in Pattern
BY TableAssumption, ElementOfSeq, LenProperties

\* A rhythm track has a first measure (update_rhythm_track and process_stop rewind to it).
LEMMA TrackBegins == Track[1] \in Pattern /\ Len(Track) \in Nat \ {0}
BY TableAssumption, ElementOfSeq, LenProperties, EmptySeq

\* What the handlers reset to is within the width of the field.
LEMMA Zeros ==
  /\ 0 \in 0..(Len(Track) - 1)
  /\ 0 \in 0..(AutoFillWrap - 1)
  /\ 0 \in Step
  /\ 0 \in 0..(PpqnWrap - 1)
  /\ 0 \in 0..ShuffleMax
  /\ 0 \in 0..(NibbleWrap - 1)
  /\ FIRST \in Part /\ SECOND \in Part /\ NO_STEPS \in Length
BY SizeAssumption, TrackBegins DEF AutoFillWrap, Step, NibbleWrap, Part, Length, NO_STEPS

\* Flags that are computed from flags are flags.
LEMMA BoolType ==
  ASSUME NEW x, NEW y
  PROVE  /\ (x \/ y) \in BOOLEAN
         /\ (x /\ y) \in BOOLEAN
         /\ (~x) \in BOOLEAN
  OBVIOUS

\* The fields of a well-typed set of globals, one by one.
LEMMA Fields ==
  ASSUME NEW s \in RamType
  PROVE  /\ s.step_num \in [Part -> Length]
         /\ s.step_num[FIRST] \in Length /\ s.step_num[SECOND] \in Length
         /\ s.step_num_new \in Length
         /\ s.pre_scale \in DOMAIN PreScale
         /\ s.current_step \in Step
         /\ s.part_playing \in Part /\ s.part_editing \in Part
         /\ s.current_pattern \in Pattern /\ s.new_pattern \in Pattern
         /\ s.previous_pattern \in Pattern /\ s.current_intro_fill \in Pattern
         /\ s.current_variation \in {VAR_A, VAR_B} /\ s.intro_fill_var \in {VAR_A, VAR_B}
         /\ s.variation_mode \in {VAR_A, VAR_B, VAR_AB}
         /\ s.track_measure \in 0..(Len(Track) - 1)
         /\ s.shuffle_amount \in 0..ShuffleMax /\ s.new_shuffle_amount \in 0..ShuffleMax
         /\ s.shuffle_ppqn_count \in 0..(NibbleWrap - 1)
         /\ s.ppqn_counter \in 0..(PpqnWrap - 1)
         /\ s.divider \in 1..(PpqnWrap - 1)
         /\ s.current_measure_auto_fill \in 0..(AutoFillWrap - 1)
         /\ s.fill_index \in 0..(Len(FillModes) - 1)
         /\ s.mode_index \in 0..(Len(ModeOrder) - 1)
         /\ s.intro \in BOOLEAN /\ s.track_loop \in BOOLEAN /\ s.pattern_change \in BOOLEAN
         /\ s.new_measure \in BOOLEAN
<1>1. s.step_num \in [Part -> Length] BY ZenonT(60) DEF RamType
<1>2. s.step_num[FIRST] \in Length /\ s.step_num[SECOND] \in Length BY <1>1 DEF Part
<1> QED BY <1>1, <1>2, ZenonT(60) DEF RamType

\* read_next_pattern keeps every global within its width.
LEMMA ReadType ==
  ASSUME NEW s \in RamType, NEW d \in Stored
  PROVE  ReadNextPattern(s, d) \in RamType
<1> DEFINE divider == PreScale[d.pre_scale]
           new     == d.step_num[s.part_editing]
<1>1. d \in PatternData BY TableAssumption
<1>2. d.step_num \in [Part -> Length] /\ d.pre_scale \in DOMAIN PreScale /\ d.shuffle \in 0..ShuffleMax
  BY <1>1 DEF PatternData
<1>3. divider \in 1..(PpqnWrap - 1) BY <1>2, PreScaleType
<1>4. new \in Length BY <1>2, Fields
<1>5. ReadNextPattern(s, d) =
        [s EXCEPT !.step_num = d.step_num, !.pre_scale = d.pre_scale, !.divider = divider,
                  !.new_shuffle_amount = d.shuffle, !.shuffle_change = TRUE, !.step_num_new = new]
  BY DEF ReadNextPattern
<1> HIDE DEF divider, new
<1>6. [s EXCEPT !.step_num = d.step_num, !.pre_scale = d.pre_scale, !.divider = divider,
                !.new_shuffle_amount = d.shuffle, !.shuffle_change = TRUE,
                !.step_num_new = new] \in RamType
  BY <1>2, <1>3, <1>4, ZenonT(60) DEF RamType
<1> QED BY <1>5, <1>6

\* The auto-fill counter of process_start and update_fill stays within six bits.
LEMMA CountAutoFillType ==
  ASSUME NEW s \in RamType
  PROVE  CountAutoFill(s) \in RamType
<1> DEFINE count == (s.current_measure_auto_fill + 1) % AutoFillWrap
           fill  == s.fill \/ count = FillEvery(s)
<1>0. s.current_measure_auto_fill \in 0..(AutoFillWrap - 1) BY Fields
<1>1. count \in 0..(AutoFillWrap - 1) BY <1>0 DEF AutoFillWrap
<1>2. fill \in BOOLEAN BY BoolType
<1>3. CountAutoFill(s) = s \/ CountAutoFill(s) = [s EXCEPT !.current_measure_auto_fill = count, !.fill = fill]
  BY DEF CountAutoFill
<1> HIDE DEF count, fill
<1>4. [s EXCEPT !.current_measure_auto_fill = count, !.fill = fill] \in RamType BY <1>1, <1>2, ZenonT(60) DEF RamType
<1> QED BY <1>3, <1>4

\* process_start, the reset of the counters: current_step is four bits wide also for a
\* part of NO_STEPS steps.
LEMMA PrimeType ==
  ASSUME NEW s \in RamType, NEW shift \in BOOLEAN
  PROVE  Prime(s, shift) \in RamType
<1> DEFINE measure == IF Mode(s) = "COMPOSE_RHYTHM" THEN s.track_measure ELSE 0
           loop    == s.track_loop \/ (Mode(s) = "PLAY_RHYTHM" /\ shift)
           var     == IF s.variation_mode = VAR_B THEN VAR_B ELSE VAR_A
           step    == s.step_num[FIRST] % NumSteps
           count   == s.divider - 1
           half    == [s EXCEPT !.part_playing = FIRST, !.track_measure = measure,
                                !.track_loop = loop, !.current_step = step]
<1>1. measure \in 0..(Len(Track) - 1) /\ FIRST \in Part BY Zeros, Fields
<1>2. loop \in BOOLEAN BY BoolType
<1>3. step \in Step BY Fields, SizeAssumption DEF Step, Length
<1>4. var \in {VAR_A, VAR_B} OBVIOUS
<1>5. count \in 0..(PpqnWrap - 1) BY SizeAssumption, Fields
<1>6. Prime(s, shift) =
        [half EXCEPT !.ppqn_counter = count, !.primed = TRUE, !.variation_change = FALSE,
                     !.current_variation = var]
  BY DEF Prime
<1> HIDE DEF measure, loop, var, step, count
<1>7. half \in RamType BY <1>1, <1>2, <1>3, ZenonT(60) DEF RamType
<1> HIDE DEF half
<1>8. [half EXCEPT !.ppqn_counter = count, !.primed = TRUE, !.variation_change = FALSE,
                   !.current_variation = var] \in RamType
  BY <1>4, <1>5, <1>7, ZenonT(60) DEF RamType
<1> QED BY <1>6, <1>8

\* process_start, cueing the intro of MANUAL PLAY.
LEMMA CueIntroType ==
  ASSUME NEW s \in RamType
  PROVE  CueIntro(s) \in RamType
<1> DEFINE var    == IF s.intro THEN s.intro_fill_var ELSE s.current_variation
           change == s.pattern_change \/ s.intro
<1>1. var \in {VAR_A, VAR_B} BY Fields
<1>2. change \in BOOLEAN BY BoolType
<1>3. CueIntro(s) = [s EXCEPT !.intro = FALSE, !.current_variation = var,
                              !.pattern_change = change]
  BY DEF CueIntro
<1> HIDE DEF var, change
<1>4. [s EXCEPT !.intro = FALSE, !.current_variation = var, !.pattern_change = change] \in RamType
  BY <1>1, <1>2, ZenonT(60) DEF RamType
<1> QED BY <1>3, <1>4

\* process_start keeps the type.
LEMMA ProcessStartType ==
  ASSUME NEW s \in RamType, NEW shift \in BOOLEAN
  PROVE  ProcessStart(s, shift) \in RamType
BY PrimeType, CueIntroType, CountAutoFillType DEF ProcessStart

\* process_stop keeps the type, in every mode.
LEMMA ProcessStopType ==
  ASSUME NEW s \in RamType, NEW d \in Stored
  PROVE  ProcessStop(s, d) \in RamType
<1> DEFINE reset == [s EXCEPT
        !.track_measure = 0,
        !.track_loop = FALSE,
        !.part_playing = FIRST,
        !.current_pattern = s.new_pattern,
        !.current_measure_auto_fill = 0,
        !.pattern_change = FALSE,
        !.fill = FALSE]
      first  == Track[1]
      rewind == [reset EXCEPT !.current_pattern = first,
                              !.new_pattern = first,
                              !.pattern_change = TRUE]
<1>1. reset \in RamType
  <2>1. /\ 0 \in 0..(Len(Track) - 1) /\ 0 \in 0..(AutoFillWrap - 1)
        /\ FIRST \in Part /\ s.new_pattern \in Pattern
    BY Zeros, Fields
  <2> DEFINE half == [s EXCEPT !.track_measure = 0, !.track_loop = FALSE,
                               !.part_playing = FIRST, !.current_pattern = s.new_pattern]
  <2>2. half \in RamType BY <2>1, ZenonT(60) DEF RamType
  <2> HIDE DEF half
  <2>3. [half EXCEPT !.current_measure_auto_fill = 0, !.pattern_change = FALSE,
                     !.fill = FALSE] \in RamType
    BY <2>1, <2>2, ZenonT(60) DEF RamType
  <2> QED BY <2>3 DEF half
<1>2. rewind \in RamType
  <2>1. first \in Pattern BY TrackBegins
  <2> HIDE DEF reset, first
  <2> QED BY <1>1, <2>1, ZenonT(60) DEF RamType
<1>3. ProcessStop(s, d) \in {reset, ReadNextPattern(reset, d), ReadNextPattern(rewind, d)}
  BY DEF ProcessStop
<1> QED BY <1>1, <1>2, <1>3, ReadType

\* toggle_variation keeps the type.
LEMMA ToggleVariationType ==
  ASSUME NEW s \in RamType
  PROVE  ToggleVariation(s) \in RamType
<1> DEFINE var == IF s.variation_change THEN IF s.variation_mode = VAR_B THEN VAR_B ELSE VAR_A
      ELSE IF s.variation_mode = VAR_AB THEN 1 - s.current_variation ELSE s.current_variation
<1>1. var \in {VAR_A, VAR_B} BY Fields DEF VAR_A, VAR_B
<1>2. ToggleVariation(s) = [s EXCEPT !.variation_change = FALSE, !.current_variation = var]
  BY DEF ToggleVariation
<1> HIDE DEF var
<1>3. [s EXCEPT !.variation_change = FALSE, !.current_variation = var] \in RamType
  BY <1>1, ZenonT(60) DEF RamType
<1> QED BY <1>2, <1>3

\* update_fill keeps the type.
LEMMA UpdateFillType ==
  ASSUME NEW s \in RamType, NEW d \in Stored
  PROVE  UpdateFill(s, d) \in RamType
<1> DEFINE r == ReadNextPattern(s, d)
<1>1. r \in RamType BY ReadType
<1> HIDE DEF r
<1>2. [r EXCEPT
          !.current_measure_auto_fill = 0,
          !.fill = FALSE,
          !.pre_scale_change = TRUE,
          !.part_playing = FIRST,
          !.new_pattern = s.current_pattern,
          !.current_pattern = s.current_intro_fill,
          !.current_variation = s.intro_fill_var,
          !.pattern_change = TRUE] \in RamType
  <2>1. /\ 0 \in 0..(AutoFillWrap - 1) /\ FIRST \in Part
        /\ s.current_pattern \in Pattern /\ s.current_intro_fill \in Pattern
        /\ s.intro_fill_var \in {VAR_A, VAR_B}
    BY Zeros, Fields
  <2> DEFINE half == [r EXCEPT !.current_measure_auto_fill = 0, !.fill = FALSE,
                               !.pre_scale_change = TRUE, !.part_playing = FIRST]
  <2>2. half \in RamType BY <1>1, <2>1, ZenonT(60) DEF RamType
  <2> HIDE DEF half
  <2>3. [half EXCEPT !.new_pattern = s.current_pattern,
                     !.current_pattern = s.current_intro_fill,
                     !.current_variation = s.intro_fill_var,
                     !.pattern_change = TRUE] \in RamType
    BY <2>1, <2>2, ZenonT(60) DEF RamType
  <2> QED BY <2>3 DEF half
<1> QED BY <1>2, CountAutoFillType DEF UpdateFill, r

\* update_pattern in PLAY_RHYTHM: the measure never leaves the track.
LEMMA AdvanceTrackType ==
  ASSUME NEW s \in RamType, NEW d \in Stored
  PROVE  AdvanceTrack(s, d) \in RamType
<1> DEFINE holds  == s.variation_mode = VAR_AB /\ s.current_variation = VAR_A
      ends   == s.track_measure = Len(Track) - 1
      over   == IF s.track_loop THEN s ELSE ProcessStop([s EXCEPT !.START = FALSE], d)
      ended  == [over EXCEPT !.track_measure = 0, !.pattern_change = TRUE]
      measure == s.track_measure + 1
      next   == [s EXCEPT !.track_measure = measure, !.pattern_change = TRUE]
      moved  == IF holds THEN s
                ELSE IF ends THEN ended
                ELSE next
      pattern == Track[moved.track_measure + 1]
<1>1. [s EXCEPT !.START = FALSE] \in RamType BY ZenonT(60) DEF RamType
<1>2. over \in RamType BY <1>1, ProcessStopType
<1>3. ended \in RamType
  <2> HIDE DEF over
  <2> QED BY <1>2, Zeros, ZenonT(60) DEF RamType
<1>4. ASSUME ~ends PROVE next \in RamType
  <2>1. measure \in 0..(Len(Track) - 1) BY <1>4, TrackBegins, Fields
  <2> HIDE DEF measure
  <2> QED BY <2>1, ZenonT(60) DEF RamType
<1>5. moved \in RamType BY <1>3, <1>4
<1>6. AdvanceTrack(s, d) = [moved EXCEPT !.new_pattern = pattern]
  BY DEF AdvanceTrack
<1> HIDE DEF moved
<1>7. pattern \in Pattern BY <1>5, TrackType, Fields
<1> HIDE DEF pattern
<1>8. [moved EXCEPT !.new_pattern = pattern] \in RamType BY <1>5, <1>7, ZenonT(60) DEF RamType
<1> QED BY <1>6, <1>8

\* The pending pattern change of update_pattern keeps the type.
LEMMA ChangePatternType ==
  ASSUME NEW s \in RamType, NEW d \in Stored
  PROVE  ChangePattern(s, d) \in RamType
<1> DEFINE r == ReadNextPattern(s, d)
           var == IF s.variation_mode = VAR_B THEN VAR_B ELSE VAR_A
<1>1. r \in RamType BY ReadType
<1>0. var \in {VAR_A, VAR_B} OBVIOUS
<1> HIDE DEF r, var
<1>2. [r EXCEPT
          !.pattern_change = FALSE,
          !.pre_scale_change = TRUE,
          !.current_pattern = s.new_pattern,
          !.current_variation = var,
          !.part_playing = FIRST] \in RamType
  <2>1. s.new_pattern \in Pattern /\ FIRST \in Part BY Fields, Zeros
  <2> DEFINE half == [r EXCEPT !.pattern_change = FALSE, !.pre_scale_change = TRUE,
                               !.current_pattern = s.new_pattern]
  <2>2. half \in RamType BY <1>1, <2>1, ZenonT(60) DEF RamType
  <2> HIDE DEF half
  <2>3. [half EXCEPT !.current_variation = var, !.part_playing = FIRST] \in RamType
    BY <1>0, <2>1, <2>2, ZenonT(60) DEF RamType
  <2> QED BY <2>3 DEF half
<1> QED BY <1>2 DEF ChangePattern, r, var

\* update_pattern keeps the type.
LEMMA UpdatePatternType ==
  ASSUME NEW s \in RamType, NEW a \in Stored, NEW b \in Stored, NEW c \in Stored
  PROVE  UpdatePattern(s, a, b, c) \in RamType
BY AdvanceTrackType, ToggleVariationType, ChangePatternType, UpdateFillType DEF UpdatePattern

\* The first half of process_new_measure keeps the type.
LEMMA CloseMeasureType ==
  ASSUME NEW s \in RamType
  PROVE  CloseMeasure(s) \in RamType
<1> DEFINE steps == [s.step_num EXCEPT ![s.part_editing] = s.step_num_new]
<1>1. steps \in [Part -> Length] BY Fields
<1>2. CloseMeasure(s) = [s EXCEPT !.step_num = steps, !.current_step = 0, !.pattern_edit = FALSE]
  BY DEF CloseMeasure
<1>3. 0 \in Step BY Zeros
<1> HIDE DEF steps
<1>4. [s EXCEPT !.step_num = steps, !.current_step = 0, !.pattern_edit = FALSE] \in RamType
  BY <1>1, <1>3, ZenonT(60) DEF RamType
<1> QED BY <1>2, <1>4

\* The second half of process_new_measure keeps the type.
LEMMA TurnPartType ==
  ASSUME NEW s \in RamType, NEW a \in Stored, NEW b \in Stored, NEW c \in Stored
  PROVE  TurnPart(s, a, b, c) \in RamType
<1>1. \A p \in Part : [s EXCEPT !.part_playing = p] \in RamType BY ZenonT(60) DEF RamType
<1> QED BY <1>1, Zeros, UpdatePatternType DEF TurnPart

\* The pre-scale change at the end of process_new_measure keeps the type.
LEMMA ApplyPreScaleType ==
  ASSUME NEW s \in RamType
  PROVE  ApplyPreScale(s) \in RamType
<1> DEFINE divider == PreScale[s.pre_scale]
<1>1. divider \in 1..(PpqnWrap - 1) BY Fields, PreScaleType
<1>2. ApplyPreScale(s) \in
        {s, [s EXCEPT !.pre_scale_change = FALSE, !.shuffle_amount = 0, !.divider = divider]}
  BY DEF ApplyPreScale
<1>3. 0 \in 0..ShuffleMax BY Zeros
<1> HIDE DEF divider
<1>4. [s EXCEPT !.pre_scale_change = FALSE, !.shuffle_amount = 0, !.divider = divider] \in RamType
  BY <1>1, <1>3, ZenonT(60) DEF RamType
<1> QED BY <1>2, <1>4

\* The step boundary of process_tick keeps the type: current_step wraps.
LEMMA StepMatchType ==
  ASSUME NEW s \in RamType
  PROVE  StepMatch(s) \in RamType
<1> DEFINE amount  == IF s.shuffle_change THEN s.new_shuffle_amount ELSE s.shuffle_amount
           delay   == amount # 0 /\ s.current_step % 2 = 0
           end     == s.START /\ s.current_step = s.step_num[s.part_playing]
           divider == IF s.pre_scale_change THEN PreScale[s.pre_scale] ELSE s.divider
           count   == IF delay THEN 0 ELSE s.shuffle_ppqn_count
           held    == s.shuffle_step \/ delay
           next    == s.next_step \/ ~(s.shuffle_step \/ delay)
           step    == IF end /\ s.primed THEN 0 ELSE (s.current_step + 1) % NumSteps
           primed  == s.primed /\ ~end
           measure == s.new_measure \/ (end /\ ~s.primed)
<1>1. divider \in 1..(PpqnWrap - 1) BY Fields, PreScaleType
<1>2. amount \in 0..ShuffleMax BY Fields
<1>3. count \in 0..(NibbleWrap - 1) BY Fields, Zeros
<1>4. step \in Step
  <2>1. s.current_step \in Step BY Fields
  <2>2. (s.current_step + 1) % NumSteps \in Step BY <2>1, SizeAssumption DEF Step
  <2> QED BY <2>2, Zeros
<1>5. held \in BOOLEAN BY BoolType
<1>6. next \in BOOLEAN BY BoolType
<1>7. primed \in BOOLEAN BY BoolType
<1>8. measure \in BOOLEAN BY BoolType
<1>9. StepMatch(s) =
        [s EXCEPT !.divider = divider, !.shuffle_amount = amount, !.shuffle_change = FALSE,
                  !.shuffle_ppqn_count = count, !.shuffle_step = held, !.next_step = next,
                  !.current_step = step, !.primed = primed, !.new_measure = measure,
                  !.ppqn_counter = 0]
  BY DEF StepMatch
<1>10. 0 \in 0..(PpqnWrap - 1) BY Zeros
<1> HIDE DEF amount, delay, end, divider, count, held, next, step, primed, measure
<1> DEFINE half == [s EXCEPT !.divider = divider, !.shuffle_amount = amount,
                             !.shuffle_change = FALSE, !.shuffle_ppqn_count = count,
                             !.shuffle_step = held]
<1>11. half \in RamType BY <1>1, <1>2, <1>3, <1>5, ZenonT(60) DEF RamType
<1> HIDE DEF half
<1>12. [half EXCEPT !.next_step = next, !.current_step = step, !.primed = primed,
                    !.new_measure = measure, !.ppqn_counter = 0] \in RamType
  BY <1>4, <1>6, <1>7, <1>8, <1>10, <1>11, ZenonT(60) DEF RamType
<1> QED BY <1>9, <1>12 DEF half

\* The held-back step of process_tick keeps the type: the count wraps at four bits.
LEMMA ShuffleCountType ==
  ASSUME NEW s \in RamType
  PROVE  ShuffleCount(s) \in RamType
<1> DEFINE count == (s.shuffle_ppqn_count + 1) % NibbleWrap
           due   == count = s.shuffle_amount * ShuffleMult
           next  == s.next_step \/ due
           held  == ~due
<1>1. s.shuffle_ppqn_count \in 0..(NibbleWrap - 1) BY Fields
<1>2. count \in 0..(NibbleWrap - 1) BY <1>1 DEF NibbleWrap
<1>3. next \in BOOLEAN BY BoolType
<1>4. held \in BOOLEAN BY BoolType
<1>5. ShuffleCount(s) \in
        {s, [s EXCEPT !.shuffle_ppqn_count = count, !.next_step = next, !.shuffle_step = held]}
  BY DEF ShuffleCount
<1> HIDE DEF count, due, next, held
<1>6. [s EXCEPT !.shuffle_ppqn_count = count, !.next_step = next, !.shuffle_step = held] \in RamType
  BY <1>2, <1>3, <1>4, ZenonT(60) DEF RamType
<1> QED BY <1>5, <1>6

\* The timer interrupt keeps the type: ppqn_counter wraps.
LEMMA ProcessTickType ==
  ASSUME NEW s \in RamType
  PROVE  ProcessTick(s) \in RamType
<1> DEFINE r     == ShuffleCount(s)
           count == (s.ppqn_counter + 1) % PpqnWrap
<1>1. r \in RamType BY ShuffleCountType
<1>2. s.ppqn_counter \in 0..(PpqnWrap - 1) BY Fields
<1>3. count \in 0..(PpqnWrap - 1) BY <1>2, SizeAssumption
<1>4. ProcessTick(s) \in {StepMatch(r), [r EXCEPT !.ppqn_counter = count]} BY DEF ProcessTick
<1> HIDE DEF r, count
<1>5. [r EXCEPT !.ppqn_counter = count] \in RamType BY <1>1, <1>3, ZenonT(60) DEF RamType
<1> QED BY <1>1, <1>4, <1>5, StepMatchType

\* check_tap while running keeps the type.
LEMMA TapRunningType ==
  ASSUME NEW s \in RamType
  PROVE  TapRunning(s) \in RamType
<1> DEFINE tap  == s.tap /\ TrackMode(s)
           edit == s.pattern_edit \/ (s.tap /\ PartMode(s))
           fill == s.fill \/ (s.tap /\ Mode(s) = "MANUAL_PLAY" /\ FillEvery(s) = MANUAL)
<1>1. tap \in BOOLEAN BY BoolType
<1>2. edit \in BOOLEAN BY BoolType
<1>3. fill \in BOOLEAN BY BoolType
<1>4. TapRunning(s) = [s EXCEPT !.tap = tap, !.pattern_edit = edit, !.fill = fill]
  BY DEF TapRunning
<1> HIDE DEF tap, edit, fill
<1>5. [s EXCEPT !.tap = tap, !.pattern_edit = edit, !.fill = fill] \in RamType
  BY <1>1, <1>2, <1>3, ZenonT(60) DEF RamType
<1> QED BY <1>4, <1>5

\* check_tap while stopped keeps the type.
LEMMA TapStoppedType ==
  ASSUME NEW s \in RamType, NEW d \in Stored
  PROVE  TapStopped(s, d) \in RamType
<1> DEFINE r       == ReadNextPattern(s, d)
           intro   == ~s.intro
           new     == IF s.intro THEN s.new_pattern ELSE s.current_pattern
           current == IF s.intro THEN s.new_pattern ELSE s.current_intro_fill
<1>1. r \in RamType BY ReadType
<1>2. intro \in BOOLEAN BY BoolType
<1>3. new \in Pattern /\ current \in Pattern BY Fields
<1>4. TapStopped(s, d) \in
        {s, [r EXCEPT !.tap = FALSE, !.intro = intro, !.new_pattern = new,
                      !.current_pattern = current]}
  BY DEF TapStopped, ReadNextPattern
<1> HIDE DEF r, intro, new, current
<1>5. [r EXCEPT !.tap = FALSE, !.intro = intro, !.new_pattern = new,
                !.current_pattern = current] \in RamType
  BY <1>1, <1>2, <1>3, ZenonT(60) DEF RamType
<1> QED BY <1>4, <1>5

\* copy_part keeps the type.
LEMMA CopyPartType ==
  ASSUME NEW s \in RamType, NEW source \in Part
  PROVE  CopyPart(s, source) \in RamType
<1> DEFINE steps == [s.step_num EXCEPT ![1 - source] = s.step_num[source]]
<1>1. steps \in [Part -> Length] BY Fields
<1>2. CopyPart(s, source) = [s EXCEPT !.step_num = steps, !.pattern_edit = TRUE] BY DEF CopyPart
<1> HIDE DEF steps
<1>3. [s EXCEPT !.step_num = steps, !.pattern_edit = TRUE] \in RamType BY <1>1, ZenonT(60) DEF RamType
<1> QED BY <1>2, <1>3

\* update_rhythm_track keeps the type.
LEMMA UpdateRhythmTrackType ==
  ASSUME NEW s \in RamType, NEW d \in Stored
  PROVE  UpdateRhythmTrack(s, d) \in RamType
<1> DEFINE first   == Track[1]
           rewound == [s EXCEPT !.track_measure = 0, !.current_pattern = first,
                                !.new_pattern = first, !.pattern_change = TRUE]
<1>1. first \in Pattern /\ 0 \in 0..(Len(Track) - 1) BY TrackBegins, Zeros
<1>2. rewound \in RamType
  <2> HIDE DEF first
  <2> QED BY <1>1, ZenonT(60) DEF RamType
<1>3. UpdateRhythmTrack(s, d) \in {rewound, ReadNextPattern(rewound, d)} BY DEF UpdateRhythmTrack
<1> QED BY <1>2, <1>3, ReadType

\* set_mode into FIRST_PART or SECOND_PART keeps the type.
LEMMA EnterPartModeType ==
  ASSUME NEW s \in RamType, NEW d \in Stored
  PROVE  EnterPartMode(s, d) \in RamType
<1> DEFINE home == [s EXCEPT !.current_pattern = s.previous_pattern,
                             !.new_pattern = s.previous_pattern]
           read == IF s.pattern_edit THEN home ELSE ReadNextPattern(home, d)
           part == IF Mode(s) = "FIRST_PART" THEN FIRST ELSE SECOND
           new  == read.step_num[part]
<1>1. s.previous_pattern \in Pattern /\ part \in Part BY Fields, Zeros
<1>2. home \in RamType BY <1>1, ZenonT(60) DEF RamType
<1>3. read \in RamType BY <1>2, ReadType
<1>4. EnterPartMode(s, d) = [read EXCEPT !.part_editing = part, !.step_num_new = new]
  BY DEF EnterPartMode
<1> HIDE DEF read
<1>5. new \in Length BY <1>1, <1>3, Fields
<1> HIDE DEF part, new
<1>6. [read EXCEPT !.part_editing = part, !.step_num_new = new] \in RamType
  BY <1>1, <1>3, <1>5, ZenonT(60) DEF RamType
<1> QED BY <1>4, <1>6

\* set_mode into MANUAL_PLAY keeps the type.
LEMMA EnterManualPlayType ==
  ASSUME NEW s \in RamType
  PROVE  EnterManualPlay(s) \in RamType
<1> DEFINE last == NumBasic - 1
<1>1. last \in Pattern /\ s.current_pattern \in Pattern BY SizeAssumption, Fields DEF Pattern
<1>2. EnterManualPlay(s) \in
        {s, [s EXCEPT !.previous_pattern = s.current_pattern, !.new_pattern = last,
                      !.pattern_change = TRUE]}
  BY DEF EnterManualPlay
<1> HIDE DEF last
<1>3. [s EXCEPT !.previous_pattern = s.current_pattern, !.new_pattern = last,
                !.pattern_change = TRUE] \in RamType
  BY <1>1, ZenonT(60) DEF RamType
<1> QED BY <1>2, <1>3

\* set_mode keeps the type.
LEMMA SetModeType ==
  ASSUME NEW s \in RamType, NEW d \in Stored
  PROVE  SetMode(s, d) \in RamType
BY EnterPartModeType, EnterManualPlayType, UpdateRhythmTrackType DEF SetMode

\* check_mode_switch keeps the type: the mode index wraps both ways.
LEMMA CheckModeSwitchType ==
  ASSUME NEW s \in RamType, NEW shift \in BOOLEAN, NEW alt \in BOOLEAN, NEW d \in Stored
  PROVE  CheckModeSwitch(s, shift, alt, d) \in RamType
<1> DEFINE from   == IF shift THEN "SECOND_PART" ELSE "FIRST_PART"
           copied == IF alt /\ Mode(s) = from
                       THEN CopyPart(s, IF shift THEN SECOND ELSE FIRST) ELSE s
           n      == Len(ModeOrder)
           index  == (copied.mode_index + IF shift THEN n - 1 ELSE 1) % n
<1>1. copied \in RamType BY CopyPartType, Zeros
<1>2. CheckModeSwitch(s, shift, alt, d) = SetMode([copied EXCEPT !.mode_index = index], d)
  BY DEF CheckModeSwitch
<1> HIDE DEF copied
<1>3. n = 6 BY DEF ModeOrder
<1>4. copied.mode_index \in 0..(n - 1) BY <1>1, Fields
<1>5. index \in 0..(n - 1)
  <2> HIDE DEF n
  <2> QED BY <1>3, <1>4
<1> HIDE DEF index
<1>6. [copied EXCEPT !.mode_index = index] \in RamType BY <1>1, <1>5, ZenonT(60) DEF RamType
<1> QED BY <1>2, <1>6, SetModeType

\* check_fill_switch keeps the type: the fill mode wraps.
LEMMA CheckFillSwitchType ==
  ASSUME NEW s \in RamType
  PROVE  CheckFillSwitch(s) \in RamType
<1> DEFINE index == (s.fill_index + 1) % Len(FillModes)
<1>1. Len(FillModes) \in Nat \ {0} BY TableAssumption, LenProperties, EmptySeq
<1>2. s.fill_index \in 0..(Len(FillModes) - 1) BY Fields
<1>3. index \in 0..(Len(FillModes) - 1) BY <1>1, <1>2
<1>4. 0 \in 0..(AutoFillWrap - 1) BY Zeros
<1>5. CheckFillSwitch(s) = [s EXCEPT !.fill_index = index, !.current_measure_auto_fill = 0]
  BY DEF CheckFillSwitch
<1> HIDE DEF index
<1>6. [s EXCEPT !.fill_index = index, !.current_measure_auto_fill = 0] \in RamType
  BY <1>3, <1>4, ZenonT(60) DEF RamType
<1> QED BY <1>5, <1>6

\* PATTERN CLEAR keeps the type.
LEMMA ClearPatternType ==
  ASSUME NEW s \in RamType
  PROVE  ClearPattern(s) \in RamType
<1> DEFINE steps   == [p \in Part |-> IF p = FIRST THEN NumSteps - 1 ELSE NO_STEPS]
           divider == PreScale[DefaultPreScale]
<1>1. steps \in [Part -> Length] BY SizeAssumption DEF Length, NO_STEPS
<1>2. DefaultPreScale \in DOMAIN PreScale BY TableAssumption
<1>3. divider \in 1..(PpqnWrap - 1) BY <1>2, PreScaleType
<1>4. ClearPattern(s) = [s EXCEPT !.step_num = steps, !.pre_scale = DefaultPreScale,
                                  !.divider = divider]
  BY DEF ClearPattern
<1> HIDE DEF steps, divider
<1>5. [s EXCEPT !.step_num = steps, !.pre_scale = DefaultPreScale, !.divider = divider] \in RamType
  BY <1>1, <1>2, <1>3, ZenonT(60) DEF RamType
<1> QED BY <1>4, <1>5

\* check_variation_switches keeps the type.
LEMMA CheckVariationSwitchType ==
  ASSUME NEW s \in RamType, NEW shift \in BOOLEAN
  PROVE  CheckVariationSwitch(s, shift) \in RamType
<1> DEFINE mode == IF s.variation_mode = VAR_AB THEN IF shift THEN VAR_B ELSE VAR_A
                   ELSE IF shift THEN VAR_AB
                   ELSE 1 - s.variation_mode
           change  == s.variation_change \/ (s.START /\ ~(s.variation_mode = VAR_A /\ shift))
           current == IF s.START \/ mode = VAR_AB THEN s.current_variation ELSE mode
<1>1. s.variation_mode \in {VAR_A, VAR_B, VAR_AB} /\ s.current_variation \in {VAR_A, VAR_B}
  BY Fields
<1>2. mode \in {VAR_A, VAR_B, VAR_AB} BY <1>1 DEF VAR_A, VAR_B, VAR_AB
<1>3. current \in {VAR_A, VAR_B} BY <1>1, <1>2
<1>4. change \in BOOLEAN BY BoolType
<1>5. CheckVariationSwitch(s, shift) =
        [s EXCEPT !.variation_mode = mode, !.variation_change = change,
                  !.current_variation = current]
  BY DEF CheckVariationSwitch
<1> HIDE DEF mode, change, current
<1>6. [s EXCEPT !.variation_mode = mode, !.variation_change = change,
                !.current_variation = current] \in RamType
  BY <1>2, <1>3, <1>4, ZenonT(60) DEF RamType
<1> QED BY <1>5, <1>6

\* update_prescale keeps the type: the index wraps downwards.
LEMMA UpdatePrescaleType ==
  ASSUME NEW s \in RamType
  PROVE  UpdatePrescale(s) \in RamType
<1> DEFINE index == IF s.pre_scale = 1 THEN Len(PreScale) ELSE s.pre_scale - 1
<1>1. DOMAIN PreScale = 1..Len(PreScale) /\ Len(PreScale) \in Nat \ {0}
  BY TableAssumption, LenProperties, EmptySeq
<1>2. s.pre_scale \in 1..Len(PreScale) BY <1>1, Fields
<1>3. index \in 1..Len(PreScale) BY <1>1, <1>2
<1>4. index \in DOMAIN PreScale BY <1>1, <1>3
<1>5. UpdatePrescale(s) =
        [s EXCEPT !.pre_scale = index, !.pre_scale_change = TRUE, !.pattern_edit = TRUE]
  BY DEF UpdatePrescale
<1> HIDE DEF index
<1>6. [s EXCEPT !.pre_scale = index, !.pre_scale_change = TRUE, !.pattern_edit = TRUE] \in RamType
  BY <1>4, ZenonT(60) DEF RamType
<1> QED BY <1>5, <1>6

\* update_shuffle keeps the type.
LEMMA UpdateShuffleType ==
  ASSUME NEW s \in RamType, NEW amount \in 0..(ShuffleMax - 1)
  PROVE  UpdateShuffle(s, amount) \in RamType
<1> DEFINE edit == s.pattern_edit \/ PartMode(s)
<1>1. edit \in BOOLEAN BY BoolType
<1>2. amount \in 0..ShuffleMax BY SizeAssumption
<1>3. UpdateShuffle(s, amount) =
        [s EXCEPT !.new_shuffle_amount = amount, !.shuffle_change = TRUE, !.pattern_edit = edit]
  BY DEF UpdateShuffle
<1> HIDE DEF edit
<1>4. [s EXCEPT !.new_shuffle_amount = amount, !.shuffle_change = TRUE,
                !.pattern_edit = edit] \in RamType
  BY <1>1, <1>2, ZenonT(60) DEF RamType
<1> QED BY <1>3, <1>4

\* Choosing the length of a part keeps the type.
LEMMA SetLengthType ==
  ASSUME NEW s \in RamType, NEW press \in Step
  PROVE  SetLength(s, press) \in RamType
<1> DEFINE null == press = 0 /\ s.step_num_new = 0 /\ Mode(s) = "SECOND_PART"
           new  == IF null THEN NO_STEPS ELSE press
           edit == s.pattern_edit \/ null \/ new # s.step_num[s.part_editing]
<1>1. new \in Length BY Zeros, SizeAssumption DEF Step, Length
<1>2. edit \in BOOLEAN BY BoolType
<1>3. SetLength(s, press) = [s EXCEPT !.step_num_new = new, !.pattern_edit = edit]
  BY DEF SetLength
<1> HIDE DEF null, new, edit
<1>4. [s EXCEPT !.step_num_new = new, !.pattern_edit = edit] \in RamType BY <1>1, <1>2, ZenonT(60) DEF RamType
<1> QED BY <1>3, <1>4

\* Choosing the next pattern while running keeps the type.
LEMMA ChooseNextType ==
  ASSUME NEW s \in RamType, NEW press \in Pattern
  PROVE  ChooseNext(s, press) \in RamType
<1> DEFINE change == s.pattern_change \/ press # s.current_pattern
<1>1. change \in BOOLEAN BY BoolType
<1>2. ChooseNext(s, press) \in
        {s, [s EXCEPT !.current_intro_fill = press],
         [s EXCEPT !.new_pattern = press, !.previous_pattern = press, !.pattern_change = change]}
  BY DEF ChooseNext
<1> HIDE DEF change
<1>3. [s EXCEPT !.current_intro_fill = press] \in RamType BY ZenonT(60) DEF RamType
<1>4. [s EXCEPT !.new_pattern = press, !.previous_pattern = press,
                !.pattern_change = change] \in RamType
  BY <1>1, ZenonT(60) DEF RamType
<1> QED BY <1>2, <1>3, <1>4

\* Choosing a pattern while stopped keeps the type.
LEMMA ChooseStoppedType ==
  ASSUME NEW s \in RamType, NEW press \in Pattern, NEW copy \in BOOLEAN, NEW d \in Stored
  PROVE  ChooseStopped(s, press, copy, d) \in RamType
<1> DEFINE r == IF copy THEN s ELSE ReadNextPattern(s, d)
<1>1. r \in RamType BY ReadType
<1>2. ChooseStopped(s, press, copy, d) \in
        {[s EXCEPT !.current_intro_fill = press],
         [r EXCEPT !.current_pattern = press, !.new_pattern = press, !.previous_pattern = press,
                   !.part_playing = FIRST, !.current_step = 0, !.ppqn_counter = 0]}
  BY DEF ChooseStopped
<1>3. [s EXCEPT !.current_intro_fill = press] \in RamType BY ZenonT(60) DEF RamType
<1>4. FIRST \in Part /\ 0 \in Step /\ 0 \in 0..(PpqnWrap - 1) BY Zeros
<1> DEFINE half == [r EXCEPT !.current_pattern = press, !.new_pattern = press,
                             !.previous_pattern = press]
<1>5. half \in RamType
  <2> HIDE DEF r
  <2> QED BY <1>1, ZenonT(60) DEF RamType
<1>6. [half EXCEPT !.part_playing = FIRST, !.current_step = 0, !.ppqn_counter = 0] \in RamType
  <2> HIDE DEF half
  <2> QED BY <1>4, <1>5, ZenonT(60) DEF RamType
<1> HIDE DEF r
<1> QED BY <1>2, <1>3, <1>6 DEF half

\* Choosing a bank while stopped keeps the type.
LEMMA ChooseBankStoppedType ==
  ASSUME NEW s \in RamType, NEW d \in Stored
  PROVE  ChooseBankStopped(s, d) \in RamType
<1> DEFINE edit == s.pattern_edit /\ Mode(s) \in {"MANUAL_PLAY", "COMPOSE_RHYTHM"}
<1>1. edit \in BOOLEAN BY BoolType
<1>2. ChooseBankStopped(s, d) = ReadNextPattern([s EXCEPT !.pattern_edit = edit], d)
  BY DEF ChooseBankStopped
<1> HIDE DEF edit
<1>3. [s EXCEPT !.pattern_edit = edit] \in RamType BY <1>1, ZenonT(60) DEF RamType
<1> QED BY <1>2, <1>3, ReadType

\* A MIDI program change keeps the type.
LEMMA ProgramChangeType ==
  ASSUME NEW s \in RamType, NEW press \in Pattern, NEW bank \in BOOLEAN
  PROVE  ProgramChange(s, press, bank) \in RamType
<1> DEFINE change == s.pattern_change \/ bank
           banked == [s EXCEPT !.pattern_change = change]
<1>1. change \in BOOLEAN BY BoolType
<1>2. ProgramChange(s, press, bank) \in
        {ChooseNext(banked, press), [banked EXCEPT !.new_pattern = press, !.previous_pattern = press]}
  BY DEF ProgramChange
<1>3. banked \in RamType
  <2> HIDE DEF change
  <2> QED BY <1>1, ZenonT(60) DEF RamType
<1> HIDE DEF banked
<1>4. [banked EXCEPT !.new_pattern = press, !.previous_pattern = press] \in RamType
  BY <1>3, ZenonT(60) DEF RamType
<1> QED BY <1>2, <1>3, <1>4, ChooseNextType

\* The globals at power-up are well typed.
LEMMA PowerUpType ==
  ASSUME NEW p \in Pattern
  PROVE  PowerUp(p) \in RamType
<1>1. DefaultPreScale \in DOMAIN PreScale BY TableAssumption
<1> DEFINE divider == PreScale[DefaultPreScale]
           steps   == [q \in Part |-> 0]
<1>2. divider \in 1..(PpqnWrap - 1) BY <1>1, PreScaleType
<1>3. steps \in [Part -> Length] /\ 0 \in Length BY SizeAssumption DEF Length
<1>4. 1 \in 0..(PpqnWrap - 1) BY <1>2, SizeAssumption
<1>5. 1 \in 0..(Len(ModeOrder) - 1) BY DEF ModeOrder
<1>6. 0 \in 0..(Len(FillModes) - 1) BY TableAssumption, LenProperties, EmptySeq
<1>7. NumBasic \in Pattern BY SizeAssumption DEF Pattern
<1>8. /\ FIRST \in Part /\ 0 \in Step /\ 0 \in 0..(AutoFillWrap - 1) /\ 0 \in 0..(Len(Track) - 1)
      /\ 0 \in 0..ShuffleMax /\ 0 \in 0..(NibbleWrap - 1)
  BY Zeros
<1>9. PowerUp(p) =
  [mode_index |-> 1, START |-> FALSE, primed |-> FALSE, tap |-> FALSE, intro |-> FALSE,
   step_num |-> steps, step_num_new |-> 0, pre_scale |-> DefaultPreScale,
   current_step |-> 0, part_playing |-> FIRST, part_editing |-> FIRST,
   current_pattern |-> p, new_pattern |-> p, previous_pattern |-> p,
   current_intro_fill |-> NumBasic, fill_index |-> 0, current_measure_auto_fill |-> 0,
   variation_mode |-> VAR_A, current_variation |-> VAR_A, intro_fill_var |-> VAR_A,
   track_measure |-> 0, track_loop |-> FALSE,
   shuffle_amount |-> 0, new_shuffle_amount |-> 0, shuffle_ppqn_count |-> 0,
   ppqn_counter |-> 1, divider |-> divider,
   next_step |-> FALSE, new_measure |-> FALSE, pre_scale_change |-> FALSE,
   pattern_change |-> FALSE, variation_change |-> FALSE, fill |-> FALSE,
   pattern_edit |-> FALSE, shuffle_step |-> FALSE, shuffle_change |-> FALSE]
  BY DEF PowerUp
<1> HIDE DEF divider, steps
<1> QED BY <1>1, <1>2, <1>3, <1>4, <1>5, <1>6, <1>7, <1>8, <1>9 DEF RamType

\* A pass over the panel ends with check_tap, and goes on to process_step.
LEMMA ServeType ==
  ASSUME NEW s \in RamType, Serve(s)
  PROVE  ram' \in RamType /\ pc' = "step"
BY TapStoppedType DEF Serve

\* The state of the history before the first step.
LEMMA SilentType == Silent \in [part : Part, step : Length, last : Length]
BY SizeAssumption DEF Silent, Part, Length, NO_STEPS

\* Every global of the sequencer keeps within the width of its C field, whatever the
\* interrupt and the main loop do to it in whichever order: no sum of process_tick, of
\* the panel or of the end of a measure overflows.
THEOREM TypeCorrect == Spec => []TypeOK
<1>1. Init => TypeOK
  BY PowerUpType, ReadType, SilentType, TableAssumption DEF Init, TypeOK
<1>2. TypeOK /\ [Next]_vars => TypeOK'
  <2> SUFFICES ASSUME TypeOK, [Next]_vars PROVE TypeOK'
    OBVIOUS
  <2>1. ram \in RamType /\ played \in [part : Part, step : Length, last : Length]
    BY DEF TypeOK
  <2>2. ASSUME NEW s \in RamType, Serve(s), played' \in {played, Silent} PROVE TypeOK'
    BY <2>1, <2>2, ServeType, SilentType DEF TypeOK
  <2>3. CASE Tick
    BY <2>1, <2>3, ProcessTickType DEF Tick, TypeOK
  <2>4. CASE Idle
    BY <2>1, <2>2, <2>4 DEF Idle
  <2>5. CASE Start
    <3> DEFINE s == [ram EXCEPT !.START = TRUE]
    <3>1. s \in RamType BY <2>1, ZenonT(60) DEF RamType
    <3> HIDE DEF s
    <3>2. PICK shift \in BOOLEAN : Serve(ProcessStart(s, shift)) BY <2>5 DEF Start, s
    <3>3. played' = Silent BY <2>5 DEF Start
    <3> QED BY <2>2, <3>1, <3>2, <3>3, ProcessStartType
  <2>6. CASE Stop
    <3> DEFINE s == [ram EXCEPT !.START = FALSE]
    <3>1. s \in RamType BY <2>1, ZenonT(60) DEF RamType
    <3> HIDE DEF s
    <3>2. PICK d \in Stored : Serve(ProcessStop(s, d)) BY <2>6 DEF Stop, s
    <3>3. played' = played BY <2>6 DEF Stop
    <3> QED BY <2>2, <3>1, <3>2, <3>3, ProcessStopType
  <2>7. CASE Tap
    <3>1. [ram EXCEPT !.tap = TRUE] \in RamType BY <2>1, ZenonT(60) DEF RamType
    <3> QED BY <2>2, <2>7, <3>1 DEF Tap
  <2>8. CASE ModeSwitch
    <3>1. PICK shift \in BOOLEAN, alt \in BOOLEAN, d \in Stored :
             Serve(CheckModeSwitch(ram, shift, alt, d))
      BY <2>8 DEF ModeSwitch
    <3> QED BY <2>1, <2>2, <2>8, <3>1, CheckModeSwitchType DEF ModeSwitch
  <2>9. CASE FillSwitch
    BY <2>1, <2>2, <2>9, CheckFillSwitchType DEF FillSwitch
  <2>10. CASE ClearSwitch
    BY <2>1, <2>2, <2>10, ClearPatternType DEF ClearSwitch
  <2>11. CASE IntroFillVarSwitch
    <3> DEFINE other == 1 - ram.intro_fill_var
    <3>1. other \in {VAR_A, VAR_B} BY <2>1, Fields DEF VAR_A, VAR_B
    <3>2. Serve([ram EXCEPT !.intro_fill_var = other]) /\ played' = played
      BY <2>11 DEF IntroFillVarSwitch
    <3> HIDE DEF other
    <3>3. [ram EXCEPT !.intro_fill_var = other] \in RamType BY <2>1, <3>1, ZenonT(60) DEF RamType
    <3> QED BY <2>2, <3>2, <3>3
  <2>12. CASE VariationSwitch
    BY <2>1, <2>2, <2>12, CheckVariationSwitchType DEF VariationSwitch
  <2>13. CASE PrescaleSwitch
    BY <2>1, <2>2, <2>13, UpdatePrescaleType DEF PrescaleSwitch
  <2>14. CASE ShuffleSwitch
    BY <2>1, <2>2, <2>14, UpdateShuffleType DEF ShuffleSwitch
  <2>15. CASE LengthSwitch
    BY <2>1, <2>2, <2>15, SetLengthType DEF LengthSwitch
  <2>16. CASE StepSwitch
    <3>1. [ram EXCEPT !.pattern_edit = TRUE] \in RamType BY <2>1, ZenonT(60) DEF RamType
    <3> QED BY <2>2, <2>16, <3>1 DEF StepSwitch
  <2>17. Choices \subseteq Pattern
    BY TableAssumption DEF Choices
  <2>18. CASE PatternSwitch
    <3>1. PICK press \in Pattern :
             \/ Serve(ChooseNext(ram, press))
             \/ \E copy \in BOOLEAN, d \in Stored : Serve(ChooseStopped(ram, press, copy, d))
      BY <2>17, <2>18 DEF PatternSwitch
    <3>2. played' = played BY <2>18 DEF PatternSwitch
    <3> QED BY <2>1, <2>2, <3>1, <3>2, ChooseNextType, ChooseStoppedType
  <2>19. CASE BankSwitch
    <3>1. [ram EXCEPT !.pattern_change = TRUE] \in RamType BY <2>1, ZenonT(60) DEF RamType
    <3> QED BY <2>1, <2>2, <2>19, <3>1, ChooseBankStoppedType DEF BankSwitch
  <2>20. CASE Program
    <3>1. PICK press \in Pattern, bank \in BOOLEAN : Serve(ProgramChange(ram, press, bank))
      BY <2>17, <2>20 DEF Program
    <3> QED BY <2>1, <2>2, <2>20, <3>1, ProgramChangeType DEF Program
  <2>21. CASE StepDue
    <3> DEFINE measure == ram.new_measure /\ ~(ram.next_step /\ ram.START)
    <3>1. measure \in BOOLEAN BY BoolType
    <3>2. ram' = [ram EXCEPT !.next_step = FALSE, !.new_measure = measure]
      BY <2>21 DEF StepDue
    <3> HIDE DEF measure
    <3>3. [ram EXCEPT !.next_step = FALSE, !.new_measure = measure] \in RamType
      BY <2>1, <3>1, ZenonT(60) DEF RamType
    <3>4. pc' \in {"scan", "measure", "trigger"} BY <2>21 DEF StepDue
    <3>5. played' = played BY <2>21 DEF StepDue
    <3> QED BY <2>1, <3>2, <3>3, <3>4, <3>5 DEF TypeOK
  <2>22. CASE Measure
    BY <2>1, <2>22, CloseMeasureType DEF Measure, TypeOK
  <2>23. CASE Load
    <3>1. ram' \in RamType BY <2>1, <2>23, TurnPartType, ApplyPreScaleType DEF Load
    <3> QED BY <2>1, <2>23, <3>1 DEF Load, TypeOK
  <2>24. CASE Trigger
    <3>1. ram' \in RamType BY <2>1, <2>24, TapRunningType DEF Trigger
    <3>2. /\ ram.part_playing \in Part /\ ram.current_step \in Length
          /\ ram.step_num[ram.part_playing] \in Length
      BY <2>1, Fields, SizeAssumption DEF Step, Length
    <3> QED BY <2>24, <3>1, <3>2 DEF Trigger, TypeOK
  <2>25. CASE UNCHANGED vars
    BY <2>25 DEF TypeOK, vars
  <2> QED
    BY <2>3, <2>4, <2>5, <2>6, <2>7, <2>8, <2>9, <2>10, <2>11, <2>12, <2>13, <2>14, <2>15,
       <2>16, <2>18, <2>19, <2>20, <2>21, <2>22, <2>23, <2>24, <2>25
    DEF Next, MainLoop, Panel, ProcessStep
<1> QED BY <1>1, <1>2, PTL DEF Spec

=============================================================================
