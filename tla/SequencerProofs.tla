-------------------------- MODULE SequencerProofs --------------------------
(***************************************************************************)
(* The auto-fill counter, the playing variation and the place in a rhythm  *)
(* track are right, and a fill gives the pattern back, for every value of  *)
(* the constants of Sequencer.                                             *)
(*                                                                         *)
(* The first two are not inductive.  The count needs to be zero, and no    *)
(* fill pending, whenever the machine is stopped (process_start counts     *)
(* without looking), and only a running machine may flag a fill: the main  *)
(* loop is inside a measure only while START is set (Busy).  The place in  *)
(* a track also needs the track to be rewound whenever the machine is      *)
(* stopped; a fill, that the pattern to return to is a basic rhythm and    *)
(* booked, or that the machine is stopped on the intro it will start with. *)
(* Where measures end, every edit is taken by the writer.                  *)
(***************************************************************************)
EXTENDS SequencerTypeProof

\* The fill state: AutoFillCounts, and a stopped machine starts from nothing.
Counted(s) ==
  /\ FillEvery(s) # MANUAL =>
       /\ s.current_measure_auto_fill <= FillEvery(s)
       /\ s.current_measure_auto_fill = FillEvery(s) => s.fill
  /\ ~s.START => s.current_measure_auto_fill = 0 /\ ~s.fill

\* The variation state: VariationMatches, of any set of globals.
Matched(s) ==
  s.START /\ s.variation_mode # VAR_AB /\ ~s.variation_change /\ ~s.pattern_change =>
    s.current_variation = s.variation_mode

\* Both.
Sound(s) == Counted(s) /\ Matched(s)

\* What most steps do to the fill and variation state.
Kept(s, t) ==
  /\ t.START = s.START /\ t.fill = s.fill
  /\ t.current_measure_auto_fill = s.current_measure_auto_fill /\ t.fill_index = s.fill_index
  /\ t.variation_mode = s.variation_mode /\ t.current_variation = s.current_variation
  /\ t.variation_change = s.variation_change /\ (s.pattern_change => t.pattern_change)

\* A step that leaves the fill and variation state alone keeps the invariant; it may ask
\* for a change of pattern, never take back the question.
LEMMA KeptSound ==
  ASSUME NEW s, NEW t, Sound(s), Kept(s, t)
  PROVE  Sound(t)
BY DEF Sound, Counted, Matched, Kept, FillEvery

\* fill_mode[] holds four-bit intervals, so the six-bit counter reaches each of them.
LEMMA FillEveryType ==
  ASSUME NEW s \in RamType
  PROVE  FillEvery(s) \in 0..15
<1>1. s.fill_index \in 0..(Len(FillModes) - 1) BY Fields
<1>2. FillModes \in Seq(0..15) /\ Len(FillModes) \in Nat BY TableAssumption, LenProperties
<1>3. s.fill_index + 1 \in 1..Len(FillModes) BY <1>1, <1>2
<1>4. FillModes[s.fill_index + 1] \in 0..15 BY <1>2, <1>3, ElementOfSeq
<1> QED BY <1>4 DEF FillEvery

\* read_next_pattern does not touch the fill and variation state.
LEMMA ReadKept == ASSUME NEW s \in RamType, NEW d \in Stored PROVE Kept(s, ReadNextPattern(s, d))
BY DEF Kept, ReadNextPattern, RamType

\* Neither does the timer interrupt.
LEMMA TickKept == ASSUME NEW s \in RamType PROVE Kept(s, ProcessTick(s))
BY DEF Kept, ProcessTick, ShuffleCount, StepMatch, RamType

\* One more measure counted: from below the interval at most to the interval, and then
\* with the fill flagged.
LEMMA CountSound ==
  ASSUME NEW s \in RamType, s.START, Matched(s),
         FillEvery(s) # MANUAL => s.current_measure_auto_fill < FillEvery(s)
  PROVE  Sound(CountAutoFill(s))
<1> DEFINE n     == s.current_measure_auto_fill
           count == (n + 1) % AutoFillWrap
           t     == CountAutoFill(s)
<1>1. FillEvery(s) \in 0..15 /\ n \in 0..(AutoFillWrap - 1)
  BY FillEveryType, Fields
<1>2. CASE FillEvery(s) = MANUAL
  BY <1>2 DEF CountAutoFill, Sound, Counted
<1>3. CASE FillEvery(s) # MANUAL
  <2>1. n < FillEvery(s) /\ n < 15 /\ n \in Nat BY <1>1, <1>3 DEF AutoFillWrap
  <2>2. count = n + 1 BY <2>1 DEF AutoFillWrap
  <2>3. /\ t.START /\ t.current_measure_auto_fill = n + 1 /\ t.fill_index = s.fill_index
        /\ (n + 1 = FillEvery(s) => t.fill)
    BY <1>3, <2>2 DEF CountAutoFill, RamType
  <2>4. Matched(t) BY <1>3 DEF CountAutoFill, RamType, Matched
  <2>5. FillEvery(t) = FillEvery(s) BY <2>3 DEF FillEvery
  <2> HIDE DEF t, n
  <2>6. n + 1 <= FillEvery(s) BY <1>1, <2>1
  <2>7. Counted(t) BY <2>3, <2>5, <2>6 DEF Counted
  <2> QED BY <2>4, <2>7 DEF Sound, t
<1> QED BY <1>2, <1>3

\* process_start: the count is zero when stopped, and the variation is set anew.
LEMMA StartSound ==
  ASSUME NEW s \in RamType, s.START, s.current_measure_auto_fill = 0, NEW shift \in BOOLEAN
  PROVE  Sound(ProcessStart(s, shift))
<1> DEFINE p == Prime(s, shift)
           i == CueIntro(p)
           var == IF s.variation_mode = VAR_B THEN VAR_B ELSE VAR_A
<1>1. p \in RamType /\ i \in RamType BY PrimeType, CueIntroType
<1>2. s.variation_mode # VAR_AB => var = s.variation_mode BY Fields
<1>3. /\ p.START /\ p.current_measure_auto_fill = 0 /\ p.fill_index = s.fill_index
      /\ p.variation_mode = s.variation_mode /\ p.current_variation = var
  BY DEF Prime, RamType
<1>4. FillEvery(s) \in 0..15 BY FillEveryType
<1>5. FillEvery(p) = FillEvery(s) BY <1>3 DEF FillEvery
<1> HIDE DEF p, var
<1>6. Sound(p) BY <1>2, <1>3, <1>4, <1>5 DEF Sound, Counted, Matched, MANUAL
<1>7. /\ i.START = p.START /\ i.current_measure_auto_fill = p.current_measure_auto_fill
      /\ i.fill_index = p.fill_index /\ i.variation_mode = p.variation_mode
      /\ p.intro => i.pattern_change
      /\ ~p.intro => i.current_variation = p.current_variation
  BY <1>1 DEF CueIntro, RamType
<1> HIDE DEF i
<1>8. FillEvery(i) = FillEvery(s) BY <1>3, <1>7 DEF FillEvery
<1>9. Matched(i) BY <1>2, <1>3, <1>7 DEF Matched
<1>10. Sound(CountAutoFill(i))
  <2>1. i.START BY <1>3, <1>7
  <2>2. FillEvery(i) # MANUAL => i.current_measure_auto_fill < FillEvery(i)
    BY <1>3, <1>4, <1>7, <1>8 DEF MANUAL
  <2> QED BY <1>1, <1>9, <2>1, <2>2, CountSound
<1> QED BY <1>6, <1>10 DEF ProcessStart, p, i

\* process_stop resets the count and the fill.
LEMMA StopSound ==
  ASSUME NEW s \in RamType, ~s.START, NEW d \in Stored
  PROVE  Sound(ProcessStop(s, d)) /\ ~ProcessStop(s, d).START
<1>1. FillEvery(s) \in 0..15 BY FillEveryType
<1> DEFINE t == ProcessStop(s, d)
<1>2. /\ t.START = s.START /\ t.current_measure_auto_fill = 0 /\ t.fill_index = s.fill_index
      /\ ~t.fill
  BY DEF ProcessStop, ReadNextPattern, RamType
<1> HIDE DEF t
<1>3. FillEvery(t) = FillEvery(s) BY <1>2 DEF FillEvery
<1> QED BY <1>1, <1>2, <1>3 DEF Sound, Counted, Matched, t, MANUAL

\* toggle_variation fulfils a change of variation when it takes the request back.
LEMMA ToggleSound ==
  ASSUME NEW s \in RamType, Sound(s)
  PROVE  Sound(ToggleVariation(s)) /\ ToggleVariation(s).START = s.START
<1> DEFINE t == ToggleVariation(s)
<1>1. s.variation_mode \in {VAR_A, VAR_B, VAR_AB} /\ s.current_variation \in {VAR_A, VAR_B}
  BY Fields
<1>2. /\ t.START = s.START /\ t.current_measure_auto_fill = s.current_measure_auto_fill
      /\ t.fill_index = s.fill_index /\ t.fill = s.fill
      /\ t.variation_mode = s.variation_mode /\ t.pattern_change = s.pattern_change
      /\ t.current_variation = IF s.variation_change THEN IF s.variation_mode = VAR_B THEN VAR_B ELSE VAR_A
                               ELSE IF s.variation_mode = VAR_AB THEN 1 - s.current_variation
                               ELSE s.current_variation
  BY DEF ToggleVariation, RamType
<1> HIDE DEF t
<1>3. FillEvery(t) = FillEvery(s) BY <1>2 DEF FillEvery
<1> QED BY <1>1, <1>2, <1>3 DEF Sound, Counted, Matched, t

\* A change of pattern starts with the selected variation.
LEMMA ChangeSound ==
  ASSUME NEW s \in RamType, Sound(s), NEW d \in Stored
  PROVE  Sound(ChangePattern(s, d)) /\ ChangePattern(s, d).START = s.START
<1> DEFINE t == ChangePattern(s, d)
<1>1. s.variation_mode \in {VAR_A, VAR_B, VAR_AB} BY Fields
<1>2. CASE ~s.pattern_change
  BY <1>2 DEF ChangePattern
<1>3. CASE s.pattern_change
  <2>1. /\ t.START = s.START /\ t.current_measure_auto_fill = s.current_measure_auto_fill
        /\ t.fill_index = s.fill_index /\ t.fill = s.fill
        /\ t.variation_mode = s.variation_mode
        /\ t.current_variation = IF s.variation_mode = VAR_B THEN VAR_B ELSE VAR_A
    BY <1>3 DEF ChangePattern, ReadNextPattern, RamType
  <2> HIDE DEF t
  <2>2. FillEvery(t) = FillEvery(s) BY <2>1 DEF FillEvery
  <2> QED BY <1>1, <2>1, <2>2 DEF Sound, Counted, Matched, t
<1> QED BY <1>2, <1>3

\* update_fill: a pending fill starts the count again and books the return.
LEMMA UpdateFillSound ==
  ASSUME NEW s \in RamType, s.START, Sound(s), NEW d \in Stored
  PROVE  Sound(UpdateFill(s, d))
<1> DEFINE t == UpdateFill(s, d)
<1>1. FillEvery(s) \in 0..15 /\ s.current_measure_auto_fill \in 0..(AutoFillWrap - 1)
  BY FillEveryType, Fields
<1>2. CASE ~s.fill
  <2>1. FillEvery(s) # MANUAL => s.current_measure_auto_fill < FillEvery(s)
    BY <1>1, <1>2 DEF Sound, Counted, AutoFillWrap
  <2> QED BY <1>2, <2>1, CountSound DEF UpdateFill, Sound
<1>3. CASE s.fill
  <2>1. /\ t.START /\ t.current_measure_auto_fill = 0 /\ t.fill_index = s.fill_index
        /\ t.pattern_change
    BY <1>3 DEF UpdateFill, ReadNextPattern, RamType
  <2> HIDE DEF t
  <2>2. FillEvery(t) = FillEvery(s) BY <2>1 DEF FillEvery
  <2> QED BY <1>1, <2>1, <2>2 DEF Sound, Counted, Matched, t, MANUAL
<1> QED BY <1>2, <1>3
\* PLAY_RHYTHM moving on, or stopping at the end of the track.
LEMMA AdvanceTrackSound ==
  ASSUME NEW s \in RamType, s.START, Sound(s), NEW d \in Stored
  PROVE  Sound(AdvanceTrack(s, d))
<1> DEFINE holds == s.variation_mode = VAR_AB /\ s.current_variation = VAR_A
           ends  == s.track_measure = Len(Track) - 1
           stopping == [s EXCEPT !.START = FALSE]
           over  == IF s.track_loop THEN s ELSE ProcessStop(stopping, d)
           ended == [over EXCEPT !.track_measure = 0, !.pattern_change = TRUE]
           next  == [s EXCEPT !.track_measure = s.track_measure + 1, !.pattern_change = TRUE]
           moved == IF holds THEN s ELSE IF ends THEN ended ELSE next
           pattern == Track[moved.track_measure + 1]
<1>1. stopping \in RamType BY ZenonT(60) DEF RamType
<1>0. ~stopping.START BY DEF RamType
<1> HIDE DEF stopping
<1>2. over \in RamType BY <1>1, ProcessStopType
<1>3. Sound(over) BY <1>0, <1>1, StopSound
<1> HIDE DEF over
<1>4. Kept(over, ended) BY <1>2 DEF Kept, RamType
<1>5. Sound(ended) BY <1>3, <1>4, KeptSound
<1>6. Kept(s, next) BY DEF Kept, RamType
<1>7. Sound(next) BY <1>6, KeptSound
<1>8. Sound(moved) BY <1>5, <1>7
<1>9. AdvanceTrack(s, d) = [moved EXCEPT !.new_pattern = pattern]
  BY DEF AdvanceTrack, over, stopping
<1>10. Kept(moved, [moved EXCEPT !.new_pattern = pattern])
  BY <1>2 DEF Kept, RamType
<1> HIDE DEF moved, pattern
<1> QED BY <1>8, <1>9, <1>10, KeptSound

\* Turning to the other part.
LEMMA PartSound ==
  ASSUME NEW s \in RamType, Sound(s), NEW p \in Part
  PROVE  LET t == [s EXCEPT !.part_playing = p]
         IN  t \in RamType /\ Sound(t) /\ t.START = s.START
<1>1. [s EXCEPT !.part_playing = p] \in RamType BY ZenonT(60) DEF RamType
<1>2. Kept(s, [s EXCEPT !.part_playing = p]) BY DEF Kept, RamType
<1> QED BY <1>1, <1>2, KeptSound DEF Kept

\* update_pattern: the order of its parts matters, toggle_variation comes before the
\* change of pattern and update_fill comes last.
LEMMA UpdatePatternSound ==
  ASSUME NEW s \in RamType, s.START, Sound(s),
         NEW a \in Stored, NEW b \in Stored, NEW c \in Stored
  PROVE  Sound(UpdatePattern(s, a, b, c))
<1> DEFINE advanced == IF Mode(s) = "PLAY_RHYTHM" THEN AdvanceTrack(s, a) ELSE s
           toggled  == ToggleVariation(advanced)
           changed  == ChangePattern(toggled, b)
<1>1. advanced \in RamType /\ Sound(advanced) BY AdvanceTrackType, AdvanceTrackSound
<1>2. Mode(s) = "MANUAL_PLAY" => advanced.START OBVIOUS
<1> HIDE DEF advanced
<1>3. toggled \in RamType /\ Sound(toggled) /\ toggled.START = advanced.START
  BY <1>1, ToggleVariationType, ToggleSound
<1> HIDE DEF toggled
<1>4. changed \in RamType /\ Sound(changed) /\ changed.START = advanced.START
  BY <1>3, ChangePatternType, ChangeSound
<1> HIDE DEF changed
<1>5. Mode(s) = "MANUAL_PLAY" => Sound(UpdateFill(changed, c))
  BY <1>2, <1>4, UpdateFillSound
<1> QED BY <1>4, <1>5 DEF UpdatePattern, changed, toggled, advanced

\* The second half of process_new_measure.
LEMMA LoadSound ==
  ASSUME NEW s \in RamType, s.START, Sound(s),
         NEW a \in Stored, NEW b \in Stored, NEW c \in Stored
  PROVE  Sound(ApplyPreScale(TurnPart(s, a, b, c)))
<1> DEFINE t == TurnPart(s, a, b, c)
<1>1. t \in RamType BY TurnPartType
<1>2. Sound(t) BY PartSound, UpdatePatternSound, Zeros DEF TurnPart
<1> HIDE DEF t
<1>3. Kept(t, ApplyPreScale(t)) BY <1>1 DEF Kept, ApplyPreScale, RamType
<1> QED BY <1>2, <1>3, KeptSound DEF t

\* Steps that leave the fill and variation state alone compose.
LEMMA KeptTransitive ==
  ASSUME NEW s, NEW t, NEW u, Kept(s, t), Kept(t, u)
  PROVE  Kept(s, u)
BY DEF Kept

\* The first half of process_new_measure leaves it alone.
LEMMA CloseMeasureKept == ASSUME NEW s \in RamType PROVE Kept(s, CloseMeasure(s))
BY DEF Kept, CloseMeasure, RamType

\* check_tap while running may raise the fill, never lower it.
LEMMA TapRunningSound ==
  ASSUME NEW s \in RamType, s.START, Sound(s)
  PROVE  Sound(TapRunning(s))
<1> DEFINE t == TapRunning(s)
<1>1. /\ t.START = s.START /\ t.current_measure_auto_fill = s.current_measure_auto_fill
      /\ t.fill_index = s.fill_index /\ (s.fill => t.fill)
      /\ t.variation_mode = s.variation_mode /\ t.current_variation = s.current_variation
      /\ t.variation_change = s.variation_change /\ t.pattern_change = s.pattern_change
  BY DEF TapRunning, RamType
<1> HIDE DEF t
<1>2. FillEvery(t) = FillEvery(s) BY <1>1 DEF FillEvery
<1>3. Counted(t) BY <1>1, <1>2 DEF Sound, Counted
<1>4. Matched(t) BY <1>1 DEF Sound, Matched
<1> QED BY <1>3, <1>4 DEF Sound, t

\* check_tap while stopped leaves the fill and variation state alone.
LEMMA TapStoppedKept ==
  ASSUME NEW s \in RamType, NEW d \in Stored
  PROVE  Kept(s, TapStopped(s, d))
BY DEF Kept, TapStopped, ReadNextPattern, RamType

\* So does copy_part,
LEMMA CopyPartKept ==
  ASSUME NEW s \in RamType, NEW source \in Part
  PROVE  Kept(s, CopyPart(s, source))
BY DEF Kept, CopyPart, RamType

\* so does set_mode,
LEMMA SetModeKept ==
  ASSUME NEW s \in RamType, NEW d \in Stored
  PROVE  Kept(s, SetMode(s, d))
<1>1. Kept(s, EnterPartMode(s, d)) BY DEF Kept, EnterPartMode, ReadNextPattern, RamType
<1>2. Kept(s, EnterManualPlay(s)) BY DEF Kept, EnterManualPlay, RamType
<1>3. Kept(s, UpdateRhythmTrack(s, d))
  BY DEF Kept, UpdateRhythmTrack, ReadNextPattern, RamType
<1>4. Kept(s, s) BY DEF Kept
<1> QED BY <1>1, <1>2, <1>3, <1>4 DEF SetMode

\* and so check_mode_switch.
LEMMA CheckModeSwitchKept ==
  ASSUME NEW s \in RamType, NEW shift \in BOOLEAN, NEW alt \in BOOLEAN, NEW d \in Stored
  PROVE  Kept(s, CheckModeSwitch(s, shift, alt, d))
<1> DEFINE from   == IF shift THEN "SECOND_PART" ELSE "FIRST_PART"
           copied == IF alt /\ Mode(s) = from
                       THEN CopyPart(s, IF shift THEN SECOND ELSE FIRST) ELSE s
           index  == (copied.mode_index + IF shift THEN Len(ModeOrder) - 1 ELSE 1)
                       % Len(ModeOrder)
           moved  == [copied EXCEPT !.mode_index = index]
<1>1. copied \in RamType BY CopyPartType, Zeros
<1>2. Kept(s, copied) BY CopyPartKept, Zeros DEF Kept
<1>3. CheckModeSwitch(s, shift, alt, d) = SetMode(moved, d) BY DEF CheckModeSwitch
<1> HIDE DEF copied
<1>4. index \in 0..(Len(ModeOrder) - 1)
  <2>1. copied.mode_index \in 0..5 BY <1>1, Fields, SMTT(30) DEF ModeOrder
  <2>2. Len(ModeOrder) = 6 BY DEF ModeOrder
  <2> QED BY <2>1, <2>2
<1> HIDE DEF index
<1>5. moved \in RamType BY <1>1, <1>4, ZenonT(60) DEF RamType
<1>6. Kept(copied, moved) BY <1>1 DEF Kept, RamType
<1> HIDE DEF moved
<1>7. Kept(moved, SetMode(moved, d)) BY <1>5, SetModeKept
<1> QED BY <1>2, <1>3, <1>6, <1>7, KeptTransitive

\* check_fill_switch: a new interval starts a new count.
LEMMA CheckFillSwitchSound ==
  ASSUME NEW s \in RamType, Sound(s)
  PROVE  Sound(CheckFillSwitch(s))
<1> DEFINE t == CheckFillSwitch(s)
<1>1. /\ t.START = s.START /\ t.current_measure_auto_fill = 0 /\ t.fill = s.fill
      /\ t.variation_mode = s.variation_mode /\ t.current_variation = s.current_variation
      /\ t.variation_change = s.variation_change /\ t.pattern_change = s.pattern_change
  BY DEF CheckFillSwitch, RamType
<1>2. t \in RamType BY CheckFillSwitchType
<1> HIDE DEF t
<1>3. FillEvery(t) \in 0..15 BY <1>2, FillEveryType
<1>4. Counted(t) BY <1>1, <1>3 DEF Sound, Counted, MANUAL
<1>5. Matched(t) BY <1>1 DEF Sound, Matched
<1> QED BY <1>4, <1>5 DEF Sound, t

\* check_variation_switches: while running the selection runs ahead of the variation
\* that plays only with variation_change set, or into A/B.
LEMMA CheckVariationSwitchSound ==
  ASSUME NEW s \in RamType, Sound(s), NEW shift \in BOOLEAN
  PROVE  Sound(CheckVariationSwitch(s, shift))
<1> DEFINE mode == IF s.variation_mode = VAR_AB THEN IF shift THEN VAR_B ELSE VAR_A
                   ELSE IF shift THEN VAR_AB
                   ELSE 1 - s.variation_mode
           t == CheckVariationSwitch(s, shift)
<1>1. /\ t.START = s.START /\ t.fill = s.fill /\ t.fill_index = s.fill_index
      /\ t.current_measure_auto_fill = s.current_measure_auto_fill
      /\ t.variation_mode = mode
      /\ (s.START /\ ~(s.variation_mode = VAR_A /\ shift) => t.variation_change)
  BY DEF CheckVariationSwitch, RamType
<1>2. s.variation_mode = VAR_A /\ shift => mode = VAR_AB BY DEF VAR_A, VAR_AB
<1> HIDE DEF t, mode
<1>3. FillEvery(t) = FillEvery(s) BY <1>1 DEF FillEvery
<1>4. Counted(t) BY <1>1, <1>3 DEF Sound, Counted
<1>5. Matched(t) BY <1>1, <1>2 DEF Matched
<1> QED BY <1>4, <1>5 DEF Sound, t

\* The rest of the panel leaves the fill and variation state alone,
LEMMA PanelKept ==
  ASSUME NEW s \in RamType
  PROVE  /\ Kept(s, ClearPattern(s)) /\ Kept(s, UpdatePrescale(s))
         /\ \A amount : Kept(s, UpdateShuffle(s, amount))
         /\ \A press : Kept(s, SetLength(s, press)) /\ Kept(s, ChooseNext(s, press))
         /\ \A press, copy, d : Kept(s, ChooseStopped(s, press, copy, d))
         /\ \A d : Kept(s, ChooseBankStopped(s, d))
<1>1. Kept(s, ClearPattern(s)) BY DEF Kept, ClearPattern, RamType
<1>2. Kept(s, UpdatePrescale(s)) BY DEF Kept, UpdatePrescale, RamType
<1>3. ASSUME NEW amount PROVE Kept(s, UpdateShuffle(s, amount))
  BY DEF Kept, UpdateShuffle, RamType
<1>4. ASSUME NEW press PROVE Kept(s, SetLength(s, press)) BY DEF Kept, SetLength, RamType
<1>5. ASSUME NEW press PROVE Kept(s, ChooseNext(s, press)) BY DEF Kept, ChooseNext, RamType
<1>6. ASSUME NEW press, NEW copy, NEW d PROVE Kept(s, ChooseStopped(s, press, copy, d))
  BY DEF Kept, ChooseStopped, ReadNextPattern, RamType
<1>7. ASSUME NEW d PROVE Kept(s, ChooseBankStopped(s, d))
  BY DEF Kept, ChooseBankStopped, ReadNextPattern, RamType
<1> QED BY <1>1, <1>2, <1>3, <1>4, <1>5, <1>6, <1>7

\* and so does a MIDI program change.
LEMMA ProgramChangeKept ==
  ASSUME NEW s \in RamType, NEW press, NEW bank
  PROVE  Kept(s, ProgramChange(s, press, bank))
<1> DEFINE change == s.pattern_change \/ bank
           banked == [s EXCEPT !.pattern_change = change]
<1>1. change \in BOOLEAN BY BoolType
<1>2. s.pattern_change => change OBVIOUS
<1>3. ProgramChange(s, press, bank) \in
        {ChooseNext(banked, press), [banked EXCEPT !.new_pattern = press, !.previous_pattern = press]}
  BY DEF ProgramChange
<1> HIDE DEF change
<1>4. banked \in RamType BY <1>1, ZenonT(60) DEF RamType
<1>5. Kept(s, banked) BY <1>2 DEF Kept, RamType
<1> HIDE DEF banked
<1>6. Kept(banked, [banked EXCEPT !.new_pattern = press, !.previous_pattern = press])
  BY <1>4 DEF Kept, RamType
<1>7. Kept(banked, ChooseNext(banked, press)) BY <1>4, PanelKept
<1> QED BY <1>3, <1>5, <1>6, <1>7, KeptTransitive

\* The main loop turns a measure or triggers a step only while running: a stop comes
\* from the panel, or from update_pattern, which then skips the step.
Busy == pc \in {"measure", "load", "trigger"} => ram.START

\* The inductive invariant.
IInv == TypeOK /\ Sound(ram) /\ Busy

\* The pass over the panel ends with check_tap of the stopped machine.
LEMMA ServeSound ==
  ASSUME NEW s \in RamType, Sound(s), Serve(s)
  PROVE  Sound(ram') /\ Busy'
<1>1. PICK d \in Stored : ram' = TapStopped(s, d) BY DEF Serve
<1>2. Sound(ram') BY <1>1, TapStoppedKept, KeptSound
<1>3. pc' = "step" BY DEF Serve
<1> QED BY <1>2, <1>3 DEF Busy

\* Every gesture keeps the invariant.
LEMMA PanelSound ==
  ASSUME IInv, Panel
  PROVE  Sound(ram') /\ Busy'
<1>1. ram \in RamType /\ Sound(ram) BY DEF IInv, TypeOK
<1>2. ASSUME NEW s \in RamType, Kept(ram, s), Serve(s) PROVE Sound(ram') /\ Busy'
  BY <1>1, <1>2, KeptSound, ServeSound
<1>3. Choices \subseteq Pattern BY TableAssumption DEF Choices
<1>4. CASE Idle BY <1>1, <1>4, ServeSound DEF Idle
<1>5. CASE Start
  <2> DEFINE s == [ram EXCEPT !.START = TRUE]
  <2>1. s \in RamType BY <1>1, ZenonT(60) DEF RamType
  <2>2. s.START BY <1>1 DEF RamType
  <2>3. s.current_measure_auto_fill = 0
    <3>1. ~ram.START BY <1>5 DEF Start
    <3>2. ram.current_measure_auto_fill = 0 BY <1>1, <3>1 DEF Sound, Counted
    <3> QED BY <1>1, <3>2 DEF RamType
  <2> HIDE DEF s
  <2>4. PICK shift \in BOOLEAN : Serve(ProcessStart(s, shift)) BY <1>5 DEF Start, s
  <2> QED BY <2>1, <2>2, <2>3, <2>4, ProcessStartType, StartSound, ServeSound
<1>6. CASE Stop
  <2> DEFINE s == [ram EXCEPT !.START = FALSE]
  <2>1. s \in RamType BY <1>1, ZenonT(60) DEF RamType
  <2>2. ~s.START BY <1>1 DEF RamType
  <2> HIDE DEF s
  <2>3. PICK d \in Stored : Serve(ProcessStop(s, d)) BY <1>6 DEF Stop, s
  <2> QED BY <2>1, <2>2, <2>3, ProcessStopType, StopSound, ServeSound
<1>7. CASE Tap
  <2>1. [ram EXCEPT !.tap = TRUE] \in RamType BY <1>1, ZenonT(60) DEF RamType
  <2>2. Kept(ram, [ram EXCEPT !.tap = TRUE]) BY <1>1 DEF Kept, RamType
  <2> QED BY <1>2, <1>7, <2>1, <2>2 DEF Tap
<1>8. CASE ModeSwitch
  <2>1. PICK shift \in BOOLEAN, alt \in BOOLEAN, d \in Stored :
           Serve(CheckModeSwitch(ram, shift, alt, d))
    BY <1>8 DEF ModeSwitch
  <2> QED BY <1>1, <1>2, <2>1, CheckModeSwitchType, CheckModeSwitchKept
<1>9. CASE FillSwitch
  BY <1>1, <1>9, CheckFillSwitchType, CheckFillSwitchSound, ServeSound DEF FillSwitch
<1>10. CASE ClearSwitch
  BY <1>1, <1>2, <1>10, ClearPatternType, PanelKept DEF ClearSwitch
<1>11. CASE IntroFillVarSwitch
  <2> DEFINE other == 1 - ram.intro_fill_var
  <2>1. other \in {VAR_A, VAR_B} BY <1>1, Fields DEF VAR_A, VAR_B
  <2>2. Serve([ram EXCEPT !.intro_fill_var = other]) BY <1>11 DEF IntroFillVarSwitch
  <2> HIDE DEF other
  <2>3. [ram EXCEPT !.intro_fill_var = other] \in RamType BY <1>1, <2>1, ZenonT(60) DEF RamType
  <2>4. Kept(ram, [ram EXCEPT !.intro_fill_var = other]) BY <1>1 DEF Kept, RamType
  <2> QED BY <1>2, <2>2, <2>3, <2>4
<1>12. CASE VariationSwitch
  BY <1>1, <1>12, CheckVariationSwitchType, CheckVariationSwitchSound, ServeSound
  DEF VariationSwitch
<1>13. CASE PrescaleSwitch
  BY <1>1, <1>2, <1>13, UpdatePrescaleType, PanelKept DEF PrescaleSwitch
<1>14. CASE ShuffleSwitch
  BY <1>1, <1>2, <1>14, UpdateShuffleType, PanelKept DEF ShuffleSwitch
<1>15. CASE LengthSwitch
  BY <1>1, <1>2, <1>15, SetLengthType, PanelKept DEF LengthSwitch
<1>16. CASE StepSwitch
  <2>1. [ram EXCEPT !.pattern_edit = TRUE] \in RamType BY <1>1, ZenonT(60) DEF RamType
  <2>2. Kept(ram, [ram EXCEPT !.pattern_edit = TRUE]) BY <1>1 DEF Kept, RamType
  <2> QED BY <1>2, <1>16, <2>1, <2>2 DEF StepSwitch
<1>17. CASE PatternSwitch
  <2>1. PICK press \in Pattern :
           \/ Serve(ChooseNext(ram, press))
           \/ \E copy \in BOOLEAN, d \in Stored : Serve(ChooseStopped(ram, press, copy, d))
    BY <1>3, <1>17 DEF PatternSwitch
  <2> QED BY <1>1, <1>2, <2>1, ChooseNextType, ChooseStoppedType, PanelKept
<1>18. CASE BankSwitch
  <2>1. [ram EXCEPT !.pattern_change = TRUE] \in RamType BY <1>1, ZenonT(60) DEF RamType
  <2>2. Kept(ram, [ram EXCEPT !.pattern_change = TRUE]) BY <1>1 DEF Kept, RamType
  <2> QED BY <1>1, <1>2, <1>18, <2>1, <2>2, ChooseBankStoppedType, PanelKept DEF BankSwitch
<1>19. CASE Program
  <2>1. PICK press \in Pattern, bank \in BOOLEAN : Serve(ProgramChange(ram, press, bank))
    BY <1>3, <1>19 DEF Program
  <2> QED BY <1>1, <1>2, <2>1, ProgramChangeType, ProgramChangeKept
<1> QED
  BY Panel, <1>4, <1>5, <1>6, <1>7, <1>8, <1>9, <1>10, <1>11, <1>12, <1>13, <1>14, <1>15,
     <1>16, <1>17, <1>18, <1>19
  DEF Panel

\* The invariant holds at power-up.
LEMMA InitSound == Init => Sound(ram) /\ Busy
<1> SUFFICES ASSUME Init PROVE Sound(ram) /\ Busy
  OBVIOUS
<1>1. PICK p \in EditPatterns, d \in Stored : ram = ReadNextPattern(PowerUp(p), d)
  BY DEF Init
<1>2. PowerUp(p) \in RamType BY <1>1, PowerUpType, TableAssumption
<1>3. /\ PowerUp(p).START = FALSE /\ PowerUp(p).fill = FALSE
      /\ PowerUp(p).current_measure_auto_fill = 0
  BY DEF PowerUp
<1>4. FillEvery(PowerUp(p)) \in 0..15 BY <1>2, FillEveryType
<1>5. Sound(PowerUp(p)) BY <1>3, <1>4 DEF Sound, Counted, Matched, MANUAL
<1>6. Sound(ram) BY <1>1, <1>2, <1>5, ReadKept, KeptSound
<1> QED BY <1>6 DEF Init, Busy

\* The invariant is inductive, given the types.
LEMMA Inductive == IInv /\ [Next]_vars => Sound(ram') /\ Busy'
<1> SUFFICES ASSUME IInv, [Next]_vars PROVE Sound(ram') /\ Busy'
  OBVIOUS
<1>1. ram \in RamType /\ Sound(ram) BY DEF IInv, TypeOK
<1>2. CASE Tick
  <2>1. ram' = ProcessTick(ram) /\ pc' = pc BY <1>2 DEF Tick
  <2>2. Kept(ram, ram') BY <1>1, <2>1, TickKept
  <2>3. Busy' BY <2>1, <2>2 DEF Kept, Busy, IInv
  <2> QED BY <1>1, <2>2, <2>3, KeptSound
<1>3. CASE Panel
  BY <1>3, PanelSound
<1>4. CASE StepDue
  <2>1. Kept(ram, ram') BY <1>1, <1>4 DEF StepDue, Kept, RamType
  <2>2. Busy' BY <1>4, <2>1 DEF StepDue, Kept, Busy
  <2> QED BY <1>1, <2>1, <2>2, KeptSound
<1>5. CASE Measure
  <2>1. Kept(ram, ram') BY <1>1, <1>5, CloseMeasureKept DEF Measure
  <2>2. Busy' BY <1>5, <2>1 DEF Measure, Kept, Busy, IInv
  <2> QED BY <1>1, <2>1, <2>2, KeptSound
<1>6. CASE Load
  <2>1. ram.START BY <1>6 DEF Load, IInv, Busy
  <2>2. Sound(ram') BY <1>1, <1>6, <2>1, LoadSound DEF Load
  <2>3. Busy' BY <1>6 DEF Load, Busy
  <2> QED BY <2>2, <2>3
<1>7. CASE Trigger
  <2>1. ram.START BY <1>7 DEF Trigger, IInv, Busy
  <2>2. Sound(ram') BY <1>1, <1>7, <2>1, TapRunningSound DEF Trigger
  <2>3. Busy' BY <1>7 DEF Trigger, Busy
  <2> QED BY <2>2, <2>3
<1>8. CASE UNCHANGED vars
  BY <1>8 DEF vars, IInv, Busy, Sound, Counted, Matched, FillEvery
<1> QED
  BY <1>2, <1>3, <1>4, <1>5, <1>6, <1>7, <1>8 DEF Next, MainLoop, ProcessStep

\* The fill and variation state is sound in every reachable state.
THEOREM Soundness == Spec => [](Sound(ram) /\ Busy)
<1>1. TypeOK /\ (Sound(ram) /\ Busy) /\ [Next]_vars => (Sound(ram) /\ Busy)'
  BY Inductive DEF IInv
<1> QED BY InitSound, TypeCorrect, <1>1, PTL DEF Spec

\* The auto-fill counter of MANUAL PLAY never passes the fill interval it is compared
\* with for equality (sequencer.c, update_fill and process_start): a fill that is due is
\* never missed, however starts, stops, fill-mode and mode changes interleave with measures.
THEOREM AutoFillCorrect == Spec => []AutoFillCounts
<1>1. Sound(ram) /\ Busy => AutoFillCounts
  BY DEF Sound, Counted, AutoFillCounts
<1> QED BY Soundness, <1>1, PTL

\* Outside A/B the variation that plays is the selected one as soon as no change is
\* pending: no request of check_variation_switches is lost by toggle_variation, by a change
\* of pattern or by a fill.
THEOREM VariationCorrect == Spec => []VariationMatches
<1>1. Sound(ram) /\ Busy => VariationMatches
  BY DEF Sound, Matched, VariationMatches
<1> QED BY Soundness, <1>1, PTL

-----------------------------------------------------------------------------
(* The pattern that plays: where the track is, and that a fill returns *)

\* Intro/fills are chosen in MANUAL PLAY only, and rhythm tracks play basic rhythms.
BasicOnly ==
  EditPatterns \subseteq 0..(NumBasic - 1) /\ \A i \in DOMAIN Track : Track[i] < NumBasic

\* TrackInStep, also while stopped, where the track is rewound.
InTrack(s) ==
  Mode(s) = "PLAY_RHYTHM" =>
    /\ s.current_pattern = Track[s.track_measure + 1]
    /\ ~s.START => s.track_measure = 0

\* FillReturns: a fill plays in MANUAL PLAY only, with the return booked, or, while stopped,
\* as the intro that the start will book the return of.
Filled(s) ==
  /\ s.new_pattern < NumBasic /\ s.previous_pattern < NumBasic
  /\ s.current_pattern >= NumBasic =>
       /\ Mode(s) = "MANUAL_PLAY"
       /\ IF s.START THEN s.pattern_change ELSE s.intro

Patterned(s) == InTrack(s) /\ (BasicOnly => Filled(s))

\* What most steps do to the pattern that plays.
Stays(s, t) ==
  /\ t.START = s.START /\ t.mode_index = s.mode_index /\ t.intro = s.intro
  /\ t.current_pattern = s.current_pattern /\ t.new_pattern = s.new_pattern
  /\ t.previous_pattern = s.previous_pattern /\ t.track_measure = s.track_measure
  /\ (s.pattern_change => t.pattern_change)

\* What leaves the pattern that plays alone keeps the invariant.
LEMMA StaysPatterned ==
  ASSUME NEW s, NEW t, Patterned(s), Stays(s, t)
  PROVE  Patterned(t)
<1>1. InTrack(t) BY DEF Patterned, InTrack, Stays, Mode
<1>2. Filled(s) => Filled(t) BY DEF Filled, Stays, Mode
<1> QED BY <1>1, <1>2 DEF Patterned

\* Two such steps are one.
LEMMA StaysTransitive ==
  ASSUME NEW s, NEW t, NEW u, Stays(s, t), Stays(t, u)
  PROVE  Stays(s, u)
BY DEF Stays

\* Reading, counting and turning: the pattern is the same.
LEMMA ReadStays == ASSUME NEW s \in RamType, NEW d \in Stored PROVE Stays(s, ReadNextPattern(s, d))
BY DEF Stays, ReadNextPattern, RamType

\* A tick is such a step,
LEMMA TickStays == ASSUME NEW s \in RamType PROVE Stays(s, ProcessTick(s))
BY DEF Stays, ProcessTick, ShuffleCount, StepMatch, RamType

\* so are the parts of a measure's end that do not choose a pattern,
LEMMA MeasureStays ==
  ASSUME NEW s \in RamType
  PROVE  /\ Stays(s, CloseMeasure(s)) /\ Stays(s, ApplyPreScale(s)) /\ Stays(s, TapRunning(s))
         /\ Stays(s, CountAutoFill(s)) /\ Stays(s, ToggleVariation(s))
<1>1. Stays(s, CloseMeasure(s)) BY DEF Stays, CloseMeasure, RamType
<1>2. Stays(s, ApplyPreScale(s)) BY DEF Stays, ApplyPreScale, RamType
<1>3. Stays(s, TapRunning(s)) BY DEF Stays, TapRunning, RamType
<1>4. Stays(s, CountAutoFill(s)) BY DEF Stays, CountAutoFill, RamType
<1>5. Stays(s, ToggleVariation(s)) BY DEF Stays, ToggleVariation, RamType
<1> QED BY <1>1, <1>2, <1>3, <1>4, <1>5

\* and so are the keys that do not choose one.
LEMMA PanelStays ==
  ASSUME NEW s \in RamType, NEW shift \in BOOLEAN, NEW n \in Step, NEW a \in 0..(ShuffleMax - 1),
         NEW source \in Part
  PROVE  /\ Stays(s, CheckFillSwitch(s)) /\ Stays(s, ClearPattern(s))
         /\ Stays(s, CheckVariationSwitch(s, shift)) /\ Stays(s, UpdatePrescale(s))
         /\ Stays(s, UpdateShuffle(s, a)) /\ Stays(s, SetLength(s, n))
         /\ Stays(s, CopyPart(s, source))
<1>1. Stays(s, CheckFillSwitch(s)) BY DEF Stays, CheckFillSwitch, RamType
<1>2. Stays(s, ClearPattern(s)) BY DEF Stays, ClearPattern, RamType
<1>3. Stays(s, CheckVariationSwitch(s, shift)) BY DEF Stays, CheckVariationSwitch, RamType
<1>4. Stays(s, UpdatePrescale(s)) BY DEF Stays, UpdatePrescale, RamType
<1>5. Stays(s, UpdateShuffle(s, a)) BY DEF Stays, UpdateShuffle, RamType
<1>6. Stays(s, SetLength(s, n)) BY DEF Stays, SetLength, RamType
<1>7. Stays(s, CopyPart(s, source)) BY DEF Stays, CopyPart, RamType
<1> QED BY <1>1, <1>2, <1>3, <1>4, <1>5, <1>6, <1>7

\* The first measure of a rhythm track.
LEMMA TrackHead == Track[1] \in Pattern /\ (BasicOnly => Track[1] < NumBasic)
BY TrackBegins, TableAssumption DEF BasicOnly

\* process_start rewinds the track, and books the return from the intro.
LEMMA StartPatterned ==
  ASSUME NEW r \in RamType, ~r.START, Patterned(r), NEW s \in RamType,
         s = [r EXCEPT !.START = TRUE], NEW shift \in BOOLEAN
  PROVE  Patterned(ProcessStart(s, shift))
<1> DEFINE p == Prime(s, shift)
           variation == IF p.intro THEN p.intro_fill_var ELSE p.current_variation
           change == p.pattern_change \/ p.intro
           c == [p EXCEPT !.intro = FALSE, !.current_variation = variation,
                          !.pattern_change = change]
<1>1. ProcessStart(s, shift) =
        IF Mode(s) = "MANUAL_PLAY" THEN CountAutoFill(c) ELSE p
  BY DEF ProcessStart, CueIntro
<1>2. p \in RamType /\ c \in RamType BY PrimeType, CueIntroType DEF CueIntro
<1>3. /\ s.START = TRUE /\ s.mode_index = r.mode_index /\ s.intro = r.intro
      /\ s.current_pattern = r.current_pattern /\ s.new_pattern = r.new_pattern
      /\ s.previous_pattern = r.previous_pattern /\ s.track_measure = r.track_measure
      /\ s.pattern_change = r.pattern_change
  BY DEF RamType
<1>4. /\ p.START = s.START /\ p.mode_index = s.mode_index /\ p.intro = s.intro
      /\ p.current_pattern = s.current_pattern /\ p.new_pattern = s.new_pattern
      /\ p.previous_pattern = s.previous_pattern
      /\ p.track_measure = IF Mode(s) = "COMPOSE_RHYTHM" THEN s.track_measure ELSE 0
      /\ p.pattern_change = s.pattern_change
  BY DEF Prime, RamType
<1> HIDE DEF p, variation
<1>5. change <=> (r.pattern_change \/ r.intro) BY <1>3, <1>4
<1> HIDE DEF change
<1>6. /\ c.START = p.START /\ c.mode_index = p.mode_index
      /\ c.current_pattern = p.current_pattern /\ c.new_pattern = p.new_pattern
      /\ c.previous_pattern = p.previous_pattern /\ c.track_measure = p.track_measure
      /\ c.pattern_change = change
  BY <1>2 DEF RamType
<1> HIDE DEF c
<1>7. CASE Mode(s) = "MANUAL_PLAY"
  <2>1. Mode(c) = "MANUAL_PLAY" /\ Mode(r) = "MANUAL_PLAY" BY <1>3, <1>4, <1>6, <1>7 DEF Mode
  <2>2. InTrack(c) BY <2>1 DEF InTrack
  <2>3. Filled(r) => Filled(c) BY <1>3, <1>4, <1>5, <1>6, <2>1 DEF Filled
  <2>4. Patterned(c) BY <2>2, <2>3 DEF Patterned
  <2> QED BY <1>1, <1>2, <1>7, <2>4, MeasureStays, StaysPatterned
<1>8. CASE Mode(s) # "MANUAL_PLAY"
  <2>1. Mode(p) = Mode(s) /\ Mode(r) = Mode(s) BY <1>3, <1>4 DEF Mode
  <2>2. InTrack(p) BY <1>3, <1>4, <2>1 DEF InTrack, Patterned
  <2>3. Filled(r) => Filled(p) BY <1>3, <1>4, <1>8, <2>1 DEF Filled
  <2>4. Patterned(p) BY <2>2, <2>3 DEF Patterned
  <2> QED BY <1>1, <1>8, <2>4
<1> QED BY <1>7, <1>8

\* process_stop returns to the pattern that is booked, or to the first of the track.
LEMMA StopPatterned ==
  ASSUME NEW s \in RamType, s.START = FALSE,
         BasicOnly => s.new_pattern < NumBasic /\ s.previous_pattern < NumBasic, NEW d \in Stored
  PROVE  LET t == ProcessStop(s, d)
         IN  /\ Patterned(t) /\ t.START = FALSE /\ t.mode_index = s.mode_index
             /\ t.track_measure = 0
             /\ BasicOnly => t.current_pattern < NumBasic
<1> DEFINE reset == [s EXCEPT
        !.track_measure = 0, !.track_loop = FALSE, !.part_playing = FIRST,
        !.current_pattern = s.new_pattern, !.current_measure_auto_fill = 0,
        !.pattern_change = FALSE, !.fill = FALSE]
           rewind == [reset EXCEPT
        !.current_pattern = Track[1], !.new_pattern = Track[1], !.pattern_change = TRUE]
           t == ProcessStop(s, d)
<1>2. reset \in RamType
  <2> DEFINE half == [s EXCEPT !.track_measure = 0, !.track_loop = FALSE,
                               !.part_playing = FIRST, !.current_pattern = s.new_pattern]
  <2>1. half \in RamType BY Zeros, Fields, ZenonT(60) DEF RamType
  <2> HIDE DEF half
  <2>2. [half EXCEPT !.current_measure_auto_fill = 0, !.pattern_change = FALSE, !.fill = FALSE]
          \in RamType
    BY <2>1, Zeros, ZenonT(60) DEF RamType
  <2> QED BY <2>2 DEF half
<1>3. t = IF Mode(s) = "MANUAL_PLAY" THEN ReadNextPattern(reset, d)
          ELSE IF TrackMode(s) THEN ReadNextPattern(rewind, d)
          ELSE reset
  BY DEF ProcessStop
<1>4. /\ reset.START = FALSE /\ reset.mode_index = s.mode_index
      /\ reset.current_pattern = s.new_pattern /\ reset.new_pattern = s.new_pattern
      /\ reset.previous_pattern = s.previous_pattern /\ reset.track_measure = 0
  BY DEF RamType
<1> HIDE DEF reset
<1>5. rewind \in RamType BY <1>2, TrackHead, ZenonT(60) DEF RamType
<1>6. /\ rewind.START = FALSE /\ rewind.mode_index = s.mode_index
      /\ rewind.current_pattern = Track[1] /\ rewind.new_pattern = Track[1]
      /\ rewind.previous_pattern = s.previous_pattern /\ rewind.track_measure = 0
  BY <1>2, <1>4 DEF RamType
<1> HIDE DEF rewind
<1>7. BasicOnly => /\ s.new_pattern < NumBasic /\ s.previous_pattern < NumBasic
                   /\ Track[1] < NumBasic
  BY TrackHead
<1>8. s.new_pattern \in Nat /\ Track[1] \in Nat /\ NumBasic \in Nat
  BY TrackHead, SizeAssumption, Fields DEF Pattern
<1>9. ASSUME NEW u \in RamType, u.START = FALSE, u.mode_index = s.mode_index,
             u.current_pattern \in {s.new_pattern, Track[1]},
             u.new_pattern = u.current_pattern, u.previous_pattern = s.previous_pattern,
             u.track_measure = 0, Mode(s) = "PLAY_RHYTHM" => u.current_pattern = Track[1]
      PROVE  /\ Patterned(u) /\ u.mode_index = s.mode_index
             /\ BasicOnly => u.current_pattern < NumBasic
  <2>1. Mode(u) = Mode(s) BY <1>9 DEF Mode
  <2>2. InTrack(u) BY <1>9, <2>1 DEF InTrack
  <2>3. BasicOnly => u.current_pattern < NumBasic BY <1>7, <1>9
  <2>4. BasicOnly => Filled(u)
    <3> SUFFICES ASSUME BasicOnly PROVE Filled(u)
      OBVIOUS
    <3>1. u.current_pattern < NumBasic /\ u.new_pattern < NumBasic
          /\ u.previous_pattern < NumBasic
      BY <1>7, <1>9, <2>3
    <3>2. ~(u.current_pattern >= NumBasic) BY <1>8, <1>9, <3>1
    <3> QED BY <3>1, <3>2 DEF Filled
  <2> QED BY <1>9, <2>2, <2>3, <2>4 DEF Patterned
<1>10. Mode(s) = "PLAY_RHYTHM" => TrackMode(s) /\ Mode(s) # "MANUAL_PLAY" BY DEF TrackMode
<1>11. ASSUME NEW u \in RamType, Stays(u, t), Patterned(u), u.START = FALSE, u.track_measure = 0,
              u.mode_index = s.mode_index, BasicOnly => u.current_pattern < NumBasic
       PROVE  /\ Patterned(t) /\ t.START = FALSE /\ t.mode_index = s.mode_index
              /\ t.track_measure = 0
              /\ BasicOnly => t.current_pattern < NumBasic
  BY <1>11, StaysPatterned DEF Stays
<1> HIDE DEF t
<1>12. CASE t = ReadNextPattern(rewind, d)
  <2>1. Patterned(rewind) /\ (BasicOnly => rewind.current_pattern < NumBasic)
    BY <1>5, <1>6, <1>9
  <2>2. Stays(rewind, t) BY <1>5, <1>12, ReadStays
  <2> QED BY <1>5, <1>6, <1>11, <2>1, <2>2 DEF t
<1>13. CASE t \in {reset, ReadNextPattern(reset, d)} /\ Mode(s) # "PLAY_RHYTHM"
  <2>1. Stays(reset, t) BY <1>2, <1>13, ReadStays DEF Stays
  <2>2. Patterned(reset) /\ (BasicOnly => reset.current_pattern < NumBasic)
    BY <1>2, <1>4, <1>9, <1>13
  <2> QED BY <1>2, <1>4, <1>11, <2>1, <2>2 DEF t
<1> QED BY <1>3, <1>10, <1>12, <1>13 DEF t

\* What update_pattern has after the track moved on: a new pattern that is the track's.
Cued(s) ==
  Mode(s) = "PLAY_RHYTHM" =>
    /\ s.new_pattern = Track[s.track_measure + 1]
    /\ ~s.pattern_change => s.current_pattern = Track[s.track_measure + 1]
    /\ ~s.START => s.track_measure = 0

\* The track moves on, or ends and is rewound.
LEMMA AdvanceCues ==
  ASSUME NEW s \in RamType, s.START, Mode(s) = "PLAY_RHYTHM", Patterned(s), NEW d \in Stored
  PROVE  LET t == AdvanceTrack(s, d)
         IN  Cued(t) /\ (BasicOnly => Filled(t)) /\ t.mode_index = s.mode_index
<1> DEFINE holds == s.variation_mode = VAR_AB /\ s.current_variation = VAR_A
           ends  == s.track_measure = Len(Track) - 1
           stopping == [s EXCEPT !.START = FALSE]
           over  == IF s.track_loop THEN s ELSE ProcessStop(stopping, d)
           ended == [over EXCEPT !.track_measure = 0, !.pattern_change = TRUE]
           next  == [s EXCEPT !.track_measure = s.track_measure + 1, !.pattern_change = TRUE]
           moved == IF holds THEN s ELSE IF ends THEN ended ELSE next
           pattern == Track[moved.track_measure + 1]
           t == [moved EXCEPT !.new_pattern = pattern]
<1>1. AdvanceTrack(s, d) = t BY DEF AdvanceTrack
<1>2. stopping \in RamType BY ZenonT(60) DEF RamType
<1>3. /\ stopping.START = FALSE /\ stopping.mode_index = s.mode_index
      /\ stopping.new_pattern = s.new_pattern
      /\ stopping.previous_pattern = s.previous_pattern
  BY DEF RamType
<1>4. Patterned(stopping) \/ TRUE OBVIOUS
<1>5. BasicOnly => /\ s.new_pattern < NumBasic /\ s.previous_pattern < NumBasic
                   /\ s.current_pattern < NumBasic
  <2>1. s.current_pattern \in Nat /\ NumBasic \in Nat
    BY Fields, SizeAssumption DEF Pattern
  <2> QED BY <2>1 DEF Patterned, Filled
<1> HIDE DEF stopping
<1>6. over \in RamType BY <1>2, ProcessStopType
<1>7. /\ over.mode_index = s.mode_index
      /\ BasicOnly => over.current_pattern < NumBasic /\ over.previous_pattern < NumBasic
  <2>1. CASE s.track_loop BY <1>5, <2>1
  <2>2. CASE ~s.track_loop
    <3>1. over = ProcessStop(stopping, d) BY <2>2
    <3> HIDE DEF over
    <3>2. Patterned(over) /\ over.mode_index = s.mode_index
          /\ (BasicOnly => over.current_pattern < NumBasic)
      BY <1>2, <1>3, <1>5, <3>1, StopPatterned
    <3> QED BY <3>2 DEF Patterned, Filled
  <2> QED BY <2>1, <2>2
<1> HIDE DEF over
<1>8. /\ ended \in RamType /\ ended.mode_index = s.mode_index /\ ended.track_measure = 0
      /\ ended.pattern_change = TRUE /\ ended.current_pattern = over.current_pattern
      /\ ended.previous_pattern = over.previous_pattern
  <2>1. 0 \in 0..(Len(Track) - 1) BY TrackBegins
  <2> QED BY <1>6, <1>7, <2>1, ZenonT(60) DEF RamType
<1>9. ~ends => /\ next \in RamType /\ next.mode_index = s.mode_index
               /\ next.pattern_change = TRUE /\ next.current_pattern = s.current_pattern
               /\ next.previous_pattern = s.previous_pattern /\ next.START = s.START
  <2>1. ~ends => s.track_measure + 1 \in 0..(Len(Track) - 1) BY Fields, TrackBegins
  <2> QED BY <2>1, ZenonT(60) DEF RamType
<1>10. /\ moved \in RamType /\ moved.mode_index = s.mode_index
       /\ BasicOnly => moved.current_pattern < NumBasic /\ moved.previous_pattern < NumBasic
       /\ ~moved.pattern_change => moved.current_pattern = Track[moved.track_measure + 1]
       /\ ~moved.START => moved.track_measure = 0
  <2>1. CASE holds BY <1>5, <2>1 DEF Patterned, InTrack
  <2>2. CASE ~holds /\ ends
    <3>1. moved = ended BY <2>2
    <3> HIDE DEF moved, ended
    <3> QED BY <1>7, <1>8, <3>1
  <2>3. CASE ~holds /\ ~ends
    <3>1. moved = next BY <2>3
    <3> HIDE DEF moved, next
    <3> QED BY <1>5, <1>9, <2>3, <3>1
  <2> HIDE DEF moved
  <2> QED BY <2>1, <2>2, <2>3
<1> HIDE DEF moved
<1>11. pattern \in Pattern /\ (BasicOnly => pattern < NumBasic)
  <2>1. moved.track_measure + 1 \in DOMAIN Track
    <3>1. moved.track_measure \in 0..(Len(Track) - 1) BY <1>10, Fields
    <3>2. DOMAIN Track = 1..Len(Track) BY TableAssumption
    <3> QED BY <3>1, <3>2, TrackBegins
  <2>2. Track[moved.track_measure + 1] \in Pattern BY <1>10, Fields, TrackType
  <2>3. BasicOnly => Track[moved.track_measure + 1] < NumBasic BY <2>1 DEF BasicOnly
  <2> QED BY <2>2, <2>3
<1>12. pattern = Track[moved.track_measure + 1] OBVIOUS
<1> HIDE DEF pattern
<1>13. /\ t.new_pattern = pattern /\ t.mode_index = moved.mode_index
       /\ t.current_pattern = moved.current_pattern
       /\ t.previous_pattern = moved.previous_pattern /\ t.track_measure = moved.track_measure
       /\ t.pattern_change = moved.pattern_change /\ t.START = moved.START
  BY <1>10 DEF RamType
<1>14. moved.current_pattern \in Nat /\ NumBasic \in Nat
  BY <1>10, Fields, SizeAssumption DEF Pattern
<1> HIDE DEF t
<1>15. Cued(t) BY <1>10, <1>12, <1>13 DEF Cued
<1>16. BasicOnly => Filled(t)
  <2> SUFFICES ASSUME BasicOnly PROVE Filled(t)
    OBVIOUS
  <2>1. t.current_pattern < NumBasic /\ t.new_pattern < NumBasic /\ t.previous_pattern < NumBasic
    BY <1>10, <1>11, <1>13
  <2>2. ~(t.current_pattern >= NumBasic) BY <1>13, <1>14, <2>1
  <2> QED BY <2>1, <2>2 DEF Filled
<1> QED BY <1>1, <1>10, <1>13, <1>15, <1>16

\* A change of pattern, if one is booked, is to the new pattern.
LEMMA ChangePatterned ==
  ASSUME NEW s \in RamType, Cued(s), BasicOnly => Filled(s),
         s.START \/ Mode(s) = "PLAY_RHYTHM", NEW d \in Stored
  PROVE  LET t == ChangePattern(s, d)
         IN  /\ Patterned(t) /\ t.START = s.START /\ t.mode_index = s.mode_index
             /\ BasicOnly => t.current_pattern < NumBasic
<1> DEFINE r == ReadNextPattern(s, d)
           variation == IF s.variation_mode = VAR_B THEN VAR_B ELSE VAR_A
           u == [r EXCEPT !.pattern_change = FALSE, !.pre_scale_change = TRUE,
                          !.current_pattern = s.new_pattern,
                          !.current_variation = variation, !.part_playing = FIRST]
           t == ChangePattern(s, d)
<1>1. t = IF ~s.pattern_change THEN s ELSE u BY DEF ChangePattern
<1>2. r \in RamType /\ Stays(s, r) BY ReadType, ReadStays
<1> HIDE DEF r, variation
<1>3. /\ u.START = r.START /\ u.mode_index = r.mode_index /\ u.new_pattern = r.new_pattern
      /\ u.previous_pattern = r.previous_pattern /\ u.track_measure = r.track_measure
      /\ u.current_pattern = s.new_pattern
  BY <1>2 DEF RamType
<1> HIDE DEF u, t
<1>4. s.current_pattern \in Nat /\ s.new_pattern \in Nat /\ NumBasic \in Nat
  BY Fields, SizeAssumption DEF Pattern
<1>5. CASE s.pattern_change
  <2>1. t = u BY <1>1, <1>5
  <2>2. InTrack(u) BY <1>2, <1>3 DEF Cued, InTrack, Stays, Mode
  <2>3. BasicOnly => u.current_pattern < NumBasic /\ Filled(u)
    <3> SUFFICES ASSUME BasicOnly PROVE u.current_pattern < NumBasic /\ Filled(u)
      OBVIOUS
    <3>1. /\ u.current_pattern < NumBasic /\ u.new_pattern < NumBasic
          /\ u.previous_pattern < NumBasic
      BY <1>2, <1>3 DEF Filled, Stays
    <3>2. ~(u.current_pattern >= NumBasic) BY <1>3, <1>4, <3>1
    <3> QED BY <3>1, <3>2 DEF Filled
  <2> QED BY <1>2, <1>3, <2>1, <2>2, <2>3 DEF Patterned, Stays, t
<1>6. CASE ~s.pattern_change
  <2>1. t = s BY <1>1, <1>6
  <2>2. InTrack(s) BY <1>6 DEF Cued, InTrack
  <2>3. BasicOnly => s.current_pattern < NumBasic BY <1>4, <1>6 DEF Filled
  <2> QED BY <2>1, <2>2, <2>3 DEF Patterned, t
<1> QED BY <1>5, <1>6

\* A fill is entered from a basic rhythm, and the return to it is booked.
LEMMA UpdateFillPatterned ==
  ASSUME NEW s \in RamType, s.START, Mode(s) = "MANUAL_PLAY", Patterned(s),
         BasicOnly => s.current_pattern < NumBasic, NEW d \in Stored
  PROVE  Patterned(UpdateFill(s, d))
<1> DEFINE r == ReadNextPattern(s, d)
           t == [r EXCEPT !.current_measure_auto_fill = 0, !.fill = FALSE,
                          !.pre_scale_change = TRUE, !.part_playing = FIRST,
                          !.new_pattern = s.current_pattern,
                          !.current_pattern = s.current_intro_fill,
                          !.current_variation = s.intro_fill_var,
                          !.pattern_change = TRUE]
<1>1. UpdateFill(s, d) = IF ~s.fill THEN CountAutoFill(s) ELSE t BY DEF UpdateFill
<1>2. r \in RamType /\ Stays(s, r) BY ReadType, ReadStays
<1> HIDE DEF r
<1>3. /\ t.START = r.START /\ t.mode_index = r.mode_index
      /\ t.previous_pattern = r.previous_pattern /\ t.new_pattern = s.current_pattern
      /\ t.pattern_change = TRUE
  BY <1>2 DEF RamType
<1> HIDE DEF t
<1>4. Mode(t) = "MANUAL_PLAY" /\ t.START BY <1>2, <1>3 DEF Stays, Mode
<1>5. InTrack(t) BY <1>4 DEF InTrack
<1>6. BasicOnly => Filled(t) BY <1>2, <1>3, <1>4 DEF Patterned, Filled, Stays
<1>7. Patterned(t) BY <1>5, <1>6 DEF Patterned
<1> QED BY <1>1, <1>7, MeasureStays, StaysPatterned

\* The end of a measure.
LEMMA LoadPatterned ==
  ASSUME NEW s \in RamType, s.START, Patterned(s),
         NEW a \in Stored, NEW b \in Stored, NEW c \in Stored
  PROVE  Patterned(ApplyPreScale(TurnPart(s, a, b, c)))
<1>1. ASSUME NEW u \in RamType, u.START, Patterned(u) PROVE Patterned(UpdatePattern(u, a, b, c))
  <2> DEFINE advanced == IF Mode(u) = "PLAY_RHYTHM" THEN AdvanceTrack(u, a) ELSE u
             toggled  == ToggleVariation(advanced)
             changed  == ChangePattern(toggled, b)
  <2>1. UpdatePattern(u, a, b, c) =
          IF Mode(u) = "MANUAL_PLAY" THEN UpdateFill(changed, c) ELSE changed
    BY DEF UpdatePattern
  <2>2. /\ advanced \in RamType /\ Cued(advanced) /\ (BasicOnly => Filled(advanced))
        /\ advanced.mode_index = u.mode_index /\ (advanced.START \/ Mode(u) = "PLAY_RHYTHM")
        /\ (Mode(u) # "PLAY_RHYTHM" => advanced.START)
    <3>1. CASE Mode(u) = "PLAY_RHYTHM" BY <1>1, <3>1, AdvanceTrackType, AdvanceCues
    <3>2. CASE Mode(u) # "PLAY_RHYTHM" BY <1>1, <3>2 DEF Cued, Patterned
    <3> QED BY <3>1, <3>2
  <2> HIDE DEF advanced
  <2>3. toggled \in RamType /\ Stays(advanced, toggled)
    BY <2>2, ToggleVariationType, MeasureStays
  <2>4. advanced.pattern_change = toggled.pattern_change
    BY <2>2 DEF ToggleVariation, RamType
  <2> HIDE DEF toggled
  <2>5. Mode(advanced) = Mode(u) /\ Mode(toggled) = Mode(u) BY <2>2, <2>3 DEF Stays, Mode
  <2>6. Cued(toggled) BY <2>2, <2>3, <2>4, <2>5 DEF Cued, Stays
  <2>7. BasicOnly => Filled(toggled) BY <2>2, <2>3, <2>5 DEF Filled, Stays
  <2>8. /\ changed \in RamType /\ Patterned(changed) /\ Mode(changed) = Mode(u)
        /\ BasicOnly => changed.current_pattern < NumBasic
        /\ Mode(u) # "PLAY_RHYTHM" => changed.START
    <3>1. toggled.START \/ Mode(toggled) = "PLAY_RHYTHM" BY <2>2, <2>3, <2>5 DEF Stays
    <3>2. /\ Patterned(changed) /\ changed.START = toggled.START
          /\ changed.mode_index = toggled.mode_index
          /\ BasicOnly => changed.current_pattern < NumBasic
      BY <2>3, <2>6, <2>7, <3>1, ChangePatterned
    <3>3. changed \in RamType BY <2>3, ChangePatternType
    <3> HIDE DEF changed
    <3> QED BY <2>2, <2>3, <2>5, <3>2, <3>3 DEF Stays, Mode
  <2> HIDE DEF changed
  <2>9. Mode(u) = "MANUAL_PLAY" => Patterned(UpdateFill(changed, c))
    BY <2>8, UpdateFillPatterned
  <2> QED BY <2>1, <2>8, <2>9
<1> DEFINE first  == [s EXCEPT !.part_playing = FIRST]
           second == [s EXCEPT !.part_playing = SECOND]
           t == TurnPart(s, a, b, c)
<1>2. first \in RamType /\ second \in RamType BY Zeros, ZenonT(60) DEF RamType
<1>3. Stays(s, first) /\ Stays(s, second) BY DEF Stays, RamType
<1>4. t \in {second, UpdatePattern(first, a, b, c)} BY DEF TurnPart
<1> HIDE DEF first, second
<1>5. Patterned(first) /\ Patterned(second) /\ first.START BY <1>3, StaysPatterned DEF Stays
<1>6. Patterned(t) BY <1>1, <1>2, <1>4, <1>5
<1>7. t \in RamType BY TurnPartType
<1> HIDE DEF t
<1> QED BY <1>6, <1>7, MeasureStays, StaysPatterned DEF t

\* check_tap while stopped: the intro and the basic rhythm change places.
LEMMA TapStoppedPatterned ==
  ASSUME NEW s \in RamType, Patterned(s), NEW d \in Stored
  PROVE  Patterned(TapStopped(s, d))
<1> DEFINE r == ReadNextPattern(s, d)
           other   == ~s.intro
           next    == IF s.intro THEN s.new_pattern ELSE s.current_pattern
           current == IF s.intro THEN s.new_pattern ELSE s.current_intro_fill
           t == [r EXCEPT !.tap = FALSE, !.intro = other,
                          !.new_pattern = next, !.current_pattern = current]
<1>1. r \in RamType /\ Stays(s, r) BY ReadType, ReadStays
<1>2. r.intro = s.intro /\ r.new_pattern = s.new_pattern BY <1>1 DEF Stays
<1>3. TapStopped(s, d) = IF s.START \/ ~s.tap \/ Mode(s) # "MANUAL_PLAY" THEN s ELSE t
  BY <1>2 DEF TapStopped
<1>4. (other <=> ~s.intro) /\ other \in BOOLEAN BY BoolType
<1> HIDE DEF r, other
<1>5. /\ t.START = r.START /\ t.mode_index = r.mode_index
      /\ t.previous_pattern = r.previous_pattern
      /\ t.intro = other /\ t.new_pattern = next /\ t.current_pattern = current
  BY <1>1 DEF RamType
<1> HIDE DEF t
<1>6. ASSUME ~s.START, Mode(s) = "MANUAL_PLAY" PROVE Patterned(t)
  <2>1. Mode(t) = "MANUAL_PLAY" /\ ~t.START BY <1>1, <1>5, <1>6 DEF Stays, Mode
  <2>2. InTrack(t) BY <2>1 DEF InTrack
  <2>3. s.current_pattern \in Nat /\ s.new_pattern \in Nat /\ NumBasic \in Nat
    BY Fields, SizeAssumption DEF Pattern
  <2>4. ASSUME Filled(s) PROVE Filled(t)
    <3>1. s.new_pattern < NumBasic /\ t.previous_pattern < NumBasic
      BY <1>1, <1>5, <2>4 DEF Filled, Stays
    <3>2. CASE s.intro
      <4>1. t.new_pattern = s.new_pattern /\ t.current_pattern = s.new_pattern BY <1>5, <3>2
      <4>2. ~(t.current_pattern >= NumBasic) BY <2>3, <3>1, <4>1
      <4> QED BY <3>1, <4>1, <4>2 DEF Filled
    <3>3. CASE ~s.intro
      <4>1. t.new_pattern = s.current_pattern /\ t.intro BY <1>4, <1>5, <3>3
      <4>2. s.current_pattern < NumBasic BY <1>6, <2>3, <2>4, <3>3 DEF Filled
      <4> QED BY <2>1, <3>1, <4>1, <4>2 DEF Filled
    <3> QED BY <3>2, <3>3
  <2> QED BY <2>2, <2>4 DEF Patterned
<1> QED BY <1>3, <1>6

\* A rhythm track is entered at its first measure.
LEMMA UpdateRhythmTrackPatterned ==
  ASSUME NEW s \in RamType, BasicOnly => s.previous_pattern < NumBasic, NEW d \in Stored
  PROVE  Patterned(UpdateRhythmTrack(s, d))
<1> DEFINE u == [s EXCEPT !.track_measure = 0, !.current_pattern = Track[1],
                          !.new_pattern = Track[1], !.pattern_change = TRUE]
<1>1. UpdateRhythmTrack(s, d) \in {u, ReadNextPattern(u, d)} BY DEF UpdateRhythmTrack
<1>2. u \in RamType
  <2>1. 0 \in 0..(Len(Track) - 1) BY TrackBegins
  <2> QED BY <2>1, TrackBegins, ZenonT(60) DEF RamType
<1>3. /\ u.track_measure = 0 /\ u.current_pattern = Track[1] /\ u.new_pattern = Track[1]
      /\ u.previous_pattern = s.previous_pattern
  BY TrackHead DEF RamType
<1> HIDE DEF u
<1>4. InTrack(u) BY <1>3 DEF InTrack
<1>5. ASSUME BasicOnly PROVE Filled(u)
  <2>1. Track[1] < NumBasic /\ Track[1] \in Nat /\ NumBasic \in Nat
    BY <1>5, TrackHead, SizeAssumption DEF Pattern
  <2>2. ~(u.current_pattern >= NumBasic) BY <1>3, <2>1
  <2> QED BY <1>3, <1>5, <2>1, <2>2 DEF Filled
<1>6. Patterned(u) BY <1>4, <1>5 DEF Patterned
<1> QED BY <1>1, <1>2, <1>6, ReadStays, StaysPatterned

\* A part mode returns to the last pattern that was chosen.
LEMMA EnterPartPatterned ==
  ASSUME NEW s \in RamType, PartMode(s), BasicOnly => s.previous_pattern < NumBasic,
         NEW d \in Stored
  PROVE  Patterned(EnterPartMode(s, d))
<1> DEFINE home == [s EXCEPT !.current_pattern = s.previous_pattern,
                             !.new_pattern = s.previous_pattern]
           read == IF s.pattern_edit THEN home ELSE ReadNextPattern(home, d)
           part == IF Mode(s) = "FIRST_PART" THEN FIRST ELSE SECOND
           length == read.step_num[part]
           t == [read EXCEPT !.part_editing = part, !.step_num_new = length]
<1>1. EnterPartMode(s, d) = t BY DEF EnterPartMode
<1>2. home \in RamType BY ZenonT(60) DEF RamType
<1>3. /\ home.current_pattern = s.previous_pattern /\ home.new_pattern = s.previous_pattern
      /\ home.previous_pattern = s.previous_pattern /\ home.mode_index = s.mode_index
  BY DEF RamType
<1> HIDE DEF home
<1>4. read \in RamType /\ Stays(home, read)
  BY <1>2, ReadType, ReadStays DEF Stays
<1> HIDE DEF read, part, length
<1>5. Stays(read, t) BY <1>4 DEF Stays, RamType
<1> HIDE DEF t
<1>6. InTrack(home) BY <1>3 DEF InTrack, PartMode, Mode
<1>7. ASSUME BasicOnly PROVE Filled(home)
  <2>1. s.previous_pattern \in Nat /\ NumBasic \in Nat BY Fields, SizeAssumption DEF Pattern
  <2>2. s.previous_pattern < NumBasic BY <1>7
  <2>3. ~(home.current_pattern >= NumBasic) BY <1>3, <2>1, <2>2
  <2> QED BY <1>3, <2>2, <2>3 DEF Filled
<1>8. Patterned(home) BY <1>6, <1>7 DEF Patterned
<1> QED BY <1>1, <1>4, <1>5, <1>8, StaysTransitive, StaysPatterned

\* The mode switch: MANUAL PLAY lets go of a fill, every other mode loads its own pattern.
LEMMA ModePatterned ==
  ASSUME NEW s \in RamType, Patterned(s), NEW shift \in BOOLEAN, NEW alt \in BOOLEAN,
         NEW d \in Stored
  PROVE  Patterned(CheckModeSwitch(s, shift, alt, d))
<1> DEFINE from   == IF shift THEN "SECOND_PART" ELSE "FIRST_PART"
           source == IF shift THEN SECOND ELSE FIRST
           copied == IF alt /\ Mode(s) = from THEN CopyPart(s, source) ELSE s
           index  == (copied.mode_index + IF shift THEN Len(ModeOrder) - 1 ELSE 1)
                       % Len(ModeOrder)
           u      == [copied EXCEPT !.mode_index = index]
           t      == CheckModeSwitch(s, shift, alt, d)
<1>1. t = SetMode(u, d) BY DEF CheckModeSwitch
<1>2. copied \in RamType /\ source \in Part BY CopyPartType DEF Part
<1>3. Stays(s, copied)
  <2>1. source \in Part BY DEF Part
  <2>2. Stays(s, CopyPart(s, source)) BY <2>1 DEF Stays, CopyPart, RamType
  <2> QED BY <2>2 DEF Stays
<1>4. index \in 0..(Len(ModeOrder) - 1) /\ (Mode(s) = "MANUAL_PLAY" => index \in {2, 4})
  <2> HIDE DEF copied
  <2>2. Len(ModeOrder) = 6 BY DEF ModeOrder
  <2>1. copied.mode_index \in 0..5 BY <1>2, <2>2, Fields
  <2>3. index \in 0..(Len(ModeOrder) - 1) BY <2>1, <2>2
  <2>4. Mode(s) = "MANUAL_PLAY" => copied.mode_index = 3
    <3>1. copied.mode_index = s.mode_index BY <1>3 DEF Stays
    <3> QED BY <2>1, <3>1 DEF Mode, ModeOrder
  <2>5. Mode(s) = "MANUAL_PLAY" => index \in {2, 4} BY <2>2, <2>4
  <2> QED BY <2>3, <2>5
<1> HIDE DEF copied, index
<1>5. u \in RamType BY <1>2, <1>4, ZenonT(60) DEF RamType
<1>6. /\ u.mode_index = index /\ u.previous_pattern = s.previous_pattern
      /\ u.current_pattern = s.current_pattern /\ u.new_pattern = s.new_pattern
  BY <1>2, <1>3 DEF Stays, RamType
<1> HIDE DEF u, t
<1>7. BasicOnly => s.previous_pattern < NumBasic /\ s.new_pattern < NumBasic
  BY DEF Patterned, Filled
<1>8. CASE PartMode(u)
  <2>1. t = EnterPartMode(u, d) BY <1>1, <1>8 DEF SetMode
  <2> QED BY <1>5, <1>6, <1>7, <1>8, <2>1, EnterPartPatterned DEF t
<1>9. CASE TrackMode(u)
  <2>1. t = UpdateRhythmTrack(u, d) BY <1>1, <1>9 DEF SetMode, TrackMode, PartMode
  <2> QED BY <1>5, <1>6, <1>7, <2>1, UpdateRhythmTrackPatterned DEF t
<1>10. CASE ~PartMode(u) /\ ~TrackMode(u)
  <2>1. Mode(s) # "MANUAL_PLAY"
    BY <1>4, <1>6, <1>10 DEF PartMode, TrackMode, Mode, ModeOrder
  <2>2. s.current_pattern \in Nat /\ NumBasic \in Nat BY Fields, SizeAssumption DEF Pattern
  <2>3. ASSUME BasicOnly PROVE u.current_pattern < NumBasic /\ Filled(u)
    <3>1. s.current_pattern < NumBasic BY <2>1, <2>2, <2>3 DEF Patterned, Filled
    <3>2. ~(u.current_pattern >= NumBasic) BY <1>6, <2>2, <3>1
    <3> QED BY <1>6, <1>7, <2>3, <3>1, <3>2 DEF Filled
  <2>4. InTrack(u) BY <1>10 DEF InTrack, TrackMode
  <2>5. Patterned(u) BY <2>3, <2>4 DEF Patterned
  <2>6. CASE t = u BY <2>5, <2>6 DEF t
  <2>7. CASE t = EnterManualPlay(u) /\ Mode(u) = "MANUAL_PLAY"
    <3> DEFINE m == [u EXCEPT !.previous_pattern = u.current_pattern,
                              !.new_pattern = NumBasic - 1, !.pattern_change = TRUE]
    <3>1. EnterManualPlay(u) = IF u.current_pattern < NumBasic THEN u ELSE m
      BY DEF EnterManualPlay
    <3>2. m.mode_index = u.mode_index BY <1>5 DEF RamType
    <3> HIDE DEF m
    <3>3. InTrack(m) BY <2>7, <3>2 DEF InTrack, Mode
    <3>4. BasicOnly => t = u BY <2>3, <2>7, <3>1
    <3>5. t \in {u, m} BY <2>7, <3>1
    <3>6. InTrack(t) BY <2>4, <3>3, <3>5
    <3>7. BasicOnly => Filled(t) BY <2>3, <3>4
    <3> QED BY <3>6, <3>7 DEF Patterned, t
  <2> QED BY <1>1, <1>10, <2>6, <2>7 DEF SetMode
<1> QED BY <1>8, <1>9, <1>10

\* The patterns that a switch or a program change can ask for.
Askable(s, press) == BasicOnly => press < NumBasic \/ Mode(s) = "MANUAL_PLAY"

\* Choosing a pattern, running,
LEMMA ChooseNextPatterned ==
  ASSUME NEW s \in RamType, Patterned(s), Mode(s) # "PLAY_RHYTHM", NEW press \in Pattern,
         Askable(s, press)
  PROVE  Patterned(ChooseNext(s, press))
<1> DEFINE change == s.pattern_change \/ press # s.current_pattern
           t == [s EXCEPT !.new_pattern = press, !.previous_pattern = press,
                          !.pattern_change = change]
           f == [s EXCEPT !.current_intro_fill = press]
<1>1. ChooseNext(s, press) =
        IF Mode(s) = "MANUAL_PLAY" /\ press >= NumBasic THEN f
        ELSE IF PartMode(s) /\ press = s.current_pattern THEN s
        ELSE t
  BY DEF ChooseNext
<1>2. s.pattern_change => change OBVIOUS
<1> HIDE DEF change
<1>3. Stays(s, f) BY DEF Stays, RamType
<1>4. /\ t.START = s.START /\ t.mode_index = s.mode_index /\ t.intro = s.intro
      /\ t.current_pattern = s.current_pattern
      /\ t.new_pattern = press /\ t.previous_pattern = press /\ t.pattern_change = change
  BY DEF RamType
<1> HIDE DEF t, f
<1>5. Mode(t) = Mode(s) BY <1>4 DEF Mode
<1>6. InTrack(t) BY <1>5 DEF InTrack
<1>7. ASSUME ~(Mode(s) = "MANUAL_PLAY" /\ press >= NumBasic) PROVE Patterned(t)
  <2>1. press \in Nat /\ NumBasic \in Nat BY SizeAssumption DEF Pattern
  <2>2. BasicOnly => press < NumBasic BY <1>7, <2>1 DEF Askable
  <2>3. BasicOnly => Filled(t) BY <1>2, <1>4, <1>5, <2>2 DEF Patterned, Filled
  <2> QED BY <1>6, <2>3 DEF Patterned
<1> QED BY <1>1, <1>3, <1>7, StaysPatterned

\* stopped,
LEMMA ChooseStoppedPatterned ==
  ASSUME NEW s \in RamType, Patterned(s), Mode(s) # "PLAY_RHYTHM", NEW press \in Pattern,
         Askable(s, press), NEW copy \in BOOLEAN, NEW d \in Stored
  PROVE  Patterned(ChooseStopped(s, press, copy, d))
<1> DEFINE r == IF copy THEN s ELSE ReadNextPattern(s, d)
           t == [r EXCEPT
                  !.current_pattern = press, !.new_pattern = press, !.previous_pattern = press,
                  !.part_playing = FIRST, !.current_step = 0, !.ppqn_counter = 0]
           f == [s EXCEPT !.current_intro_fill = press]
<1>1. ChooseStopped(s, press, copy, d) =
        IF Mode(s) = "MANUAL_PLAY" /\ press >= NumBasic THEN f ELSE t
  BY DEF ChooseStopped
<1>2. r \in RamType /\ Stays(s, r) BY ReadType, ReadStays DEF Stays
<1> HIDE DEF r
<1>3. Stays(s, f) BY DEF Stays, RamType
<1>4. /\ t.mode_index = r.mode_index /\ t.current_pattern = press
      /\ t.new_pattern = press /\ t.previous_pattern = press
  BY <1>2 DEF RamType
<1> HIDE DEF t, f
<1>5. Mode(t) = Mode(s) BY <1>2, <1>4 DEF Stays, Mode
<1>6. InTrack(t) BY <1>5 DEF InTrack
<1>7. ASSUME ~(Mode(s) = "MANUAL_PLAY" /\ press >= NumBasic) PROVE Patterned(t)
  <2>1. press \in Nat /\ NumBasic \in Nat BY SizeAssumption DEF Pattern
  <2>2. BasicOnly => press < NumBasic /\ ~(press >= NumBasic) BY <1>7, <2>1 DEF Askable
  <2>3. BasicOnly => Filled(t) BY <1>4, <2>2 DEF Filled
  <2> QED BY <1>6, <2>3 DEF Patterned
<1> QED BY <1>1, <1>3, <1>7, StaysPatterned

\* or by a MIDI program change, which a rhythm track overrules at the next measure.
LEMMA ProgramPatterned ==
  ASSUME NEW s \in RamType, Patterned(s), NEW press \in Pattern, Askable(s, press),
         NEW bank \in BOOLEAN
  PROVE  Patterned(ProgramChange(s, press, bank))
<1> DEFINE change == s.pattern_change \/ bank
           banked == [s EXCEPT !.pattern_change = change]
           t == [banked EXCEPT !.new_pattern = press, !.previous_pattern = press]
<1>1. change \in BOOLEAN /\ (s.pattern_change => change) BY BoolType
<1>2. ProgramChange(s, press, bank) =
        IF Mode(s) = "MANUAL_PLAY" THEN ChooseNext(banked, press) ELSE t
  BY DEF ProgramChange, Mode
<1> HIDE DEF change
<1>3. banked \in RamType BY <1>1, ZenonT(60) DEF RamType
<1>4. Stays(s, banked) BY <1>1 DEF Stays, RamType
<1> HIDE DEF banked
<1>5. /\ t.START = banked.START /\ t.mode_index = banked.mode_index
      /\ t.current_pattern = banked.current_pattern /\ t.track_measure = banked.track_measure
      /\ t.new_pattern = press /\ t.previous_pattern = press
  BY <1>3 DEF RamType
<1> HIDE DEF t
<1>6. Patterned(banked) /\ Mode(banked) = Mode(s) BY <1>4, StaysPatterned DEF Stays, Mode
<1>7. CASE Mode(s) = "MANUAL_PLAY"
  BY <1>2, <1>3, <1>6, <1>7, ChooseNextPatterned DEF Askable
<1>8. CASE Mode(s) # "MANUAL_PLAY"
  <2>1. Mode(t) = Mode(banked) BY <1>5 DEF Mode
  <2>2. InTrack(t) BY <1>5, <1>6, <2>1 DEF Patterned, InTrack
  <2>3. BasicOnly => Filled(t)
    BY <1>5, <1>6, <1>8, <2>1 DEF Askable, Patterned, Filled
  <2>4. Patterned(t) BY <2>2, <2>3 DEF Patterned
  <2> QED BY <1>2, <1>8, <2>4
<1> QED BY <1>7, <1>8

\* Every gesture leaves the right pattern playing.
LEMMA PanelPatterned ==
  ASSUME IInv, Patterned(ram), Panel
  PROVE  Patterned(ram')
<1>1. ram \in RamType BY DEF IInv, TypeOK
<1>2. ASSUME NEW s \in RamType, Patterned(s), Serve(s) PROVE Patterned(ram')
  <2>1. PICK d \in Stored : ram' = TapStopped(s, d) BY <1>2 DEF Serve
  <2> QED BY <1>2, <2>1, TapStoppedPatterned
<1>3. ASSUME NEW s \in RamType, Stays(ram, s), Serve(s) PROVE Patterned(ram')
  BY <1>2, <1>3, StaysPatterned
<1>4. Choices \subseteq Pattern /\ \A press \in Choices : Askable(ram, press)
  <2>1. Choices \subseteq Pattern BY TableAssumption DEF Choices
  <2>2. ASSUME NEW press \in Choices, BasicOnly PROVE press < NumBasic \/ Mode(ram) = "MANUAL_PLAY"
    <3>1. Mode(ram) # "MANUAL_PLAY" => press \in EditPatterns BY DEF Choices
    <3>2. EditPatterns \subseteq 0..(NumBasic - 1) BY <2>2 DEF BasicOnly
    <3>3. NumBasic \in Nat BY SizeAssumption
    <3>4. Mode(ram) # "MANUAL_PLAY" => press \in 0..(NumBasic - 1) BY <3>1, <3>2
    <3>5. CASE Mode(ram) # "MANUAL_PLAY" BY <3>3, <3>4, <3>5
    <3> QED BY <3>5
  <2> QED BY <2>1, <2>2 DEF Askable
<1>5. CASE Idle BY <1>1, <1>2, <1>5 DEF Idle
<1>6. CASE Start
  <2> DEFINE s == [ram EXCEPT !.START = TRUE]
  <2>1. s \in RamType /\ ~ram.START BY <1>1, <1>6, ZenonT(60) DEF RamType, Start
  <2>2. PICK shift \in BOOLEAN : Serve(ProcessStart(s, shift)) BY <1>6 DEF Start
  <2>3. s = [ram EXCEPT !.START = TRUE] OBVIOUS
  <2> HIDE DEF s
  <2>4. Patterned(ProcessStart(s, shift)) BY <1>1, <2>1, <2>3, StartPatterned
  <2> QED BY <1>2, <2>1, <2>2, <2>4, ProcessStartType
<1>7. CASE Stop
  <2> DEFINE s == [ram EXCEPT !.START = FALSE]
  <2>1. /\ s \in RamType /\ s.START = FALSE /\ s.new_pattern = ram.new_pattern
        /\ s.previous_pattern = ram.previous_pattern
    BY <1>1, ZenonT(60) DEF RamType
  <2>2. PICK d \in Stored : Serve(ProcessStop(s, d)) BY <1>7 DEF Stop
  <2> HIDE DEF s
  <2>3. Patterned(ProcessStop(s, d)) BY <2>1, StopPatterned DEF Patterned, Filled
  <2> QED BY <1>2, <2>1, <2>2, <2>3, ProcessStopType
<1>8. CASE Tap
  <2>1. [ram EXCEPT !.tap = TRUE] \in RamType BY <1>1, ZenonT(60) DEF RamType
  <2>2. Stays(ram, [ram EXCEPT !.tap = TRUE]) BY <1>1 DEF Stays, RamType
  <2> QED BY <1>3, <1>8, <2>1, <2>2 DEF Tap
<1>9. CASE ModeSwitch
  <2>1. PICK shift \in BOOLEAN, alt \in BOOLEAN, d \in Stored :
           Serve(CheckModeSwitch(ram, shift, alt, d))
    BY <1>9 DEF ModeSwitch
  <2> QED BY <1>1, <1>2, <2>1, CheckModeSwitchType, ModePatterned
<1>10. CASE FillSwitch
  <2>1. Stays(ram, CheckFillSwitch(ram)) BY <1>1 DEF Stays, CheckFillSwitch, RamType
  <2> QED BY <1>1, <1>3, <1>10, <2>1, CheckFillSwitchType DEF FillSwitch
<1>11. CASE ClearSwitch
  <2>1. Stays(ram, ClearPattern(ram)) BY <1>1 DEF Stays, ClearPattern, RamType
  <2> QED BY <1>1, <1>3, <1>11, <2>1, ClearPatternType DEF ClearSwitch
<1>12. CASE IntroFillVarSwitch
  <2> DEFINE other == 1 - ram.intro_fill_var
  <2>1. other \in {VAR_A, VAR_B} BY <1>1, Fields DEF VAR_A, VAR_B
  <2>2. Serve([ram EXCEPT !.intro_fill_var = other]) BY <1>12 DEF IntroFillVarSwitch
  <2> HIDE DEF other
  <2>3. [ram EXCEPT !.intro_fill_var = other] \in RamType BY <1>1, <2>1, ZenonT(60) DEF RamType
  <2>4. Stays(ram, [ram EXCEPT !.intro_fill_var = other]) BY <1>1 DEF Stays, RamType
  <2> QED BY <1>3, <2>2, <2>3, <2>4
<1>13. CASE VariationSwitch
  <2>1. PICK shift \in BOOLEAN : Serve(CheckVariationSwitch(ram, shift))
    BY <1>13 DEF VariationSwitch
  <2>2. Stays(ram, CheckVariationSwitch(ram, shift))
    BY <1>1 DEF Stays, CheckVariationSwitch, RamType
  <2> QED BY <1>1, <1>3, <2>1, <2>2, CheckVariationSwitchType
<1>14. CASE PrescaleSwitch
  <2>1. Stays(ram, UpdatePrescale(ram)) BY <1>1 DEF Stays, UpdatePrescale, RamType
  <2> QED BY <1>1, <1>3, <1>14, <2>1, UpdatePrescaleType DEF PrescaleSwitch
<1>15. CASE ShuffleSwitch
  <2>1. PICK amount \in 0..(ShuffleMax - 1) : Serve(UpdateShuffle(ram, amount))
    BY <1>15 DEF ShuffleSwitch
  <2>2. Stays(ram, UpdateShuffle(ram, amount)) BY <1>1 DEF Stays, UpdateShuffle, RamType
  <2> QED BY <1>1, <1>3, <2>1, <2>2, UpdateShuffleType
<1>16. CASE LengthSwitch
  <2>1. PICK press \in Step : Serve(SetLength(ram, press)) BY <1>16 DEF LengthSwitch
  <2>2. Stays(ram, SetLength(ram, press)) BY <1>1 DEF Stays, SetLength, RamType
  <2> QED BY <1>1, <1>3, <2>1, <2>2, SetLengthType
<1>17. CASE StepSwitch
  <2>1. [ram EXCEPT !.pattern_edit = TRUE] \in RamType BY <1>1, ZenonT(60) DEF RamType
  <2>2. Stays(ram, [ram EXCEPT !.pattern_edit = TRUE]) BY <1>1 DEF Stays, RamType
  <2> QED BY <1>3, <1>17, <2>1, <2>2 DEF StepSwitch
<1>18. CASE PatternSwitch
  <2>1. Mode(ram) # "PLAY_RHYTHM" BY <1>18 DEF PatternSwitch, PartMode
  <2>2. PICK press \in Choices :
           \/ Serve(ChooseNext(ram, press))
           \/ \E copy \in BOOLEAN, d \in Stored : Serve(ChooseStopped(ram, press, copy, d))
    BY <1>18 DEF PatternSwitch
  <2>3. press \in Pattern /\ Askable(ram, press) BY <1>4
  <2>4. CASE Serve(ChooseNext(ram, press))
    BY <1>1, <1>2, <2>1, <2>3, <2>4, ChooseNextType, ChooseNextPatterned
  <2>5. CASE \E copy \in BOOLEAN, d \in Stored : Serve(ChooseStopped(ram, press, copy, d))
    BY <1>1, <1>2, <2>1, <2>3, <2>5, ChooseStoppedType, ChooseStoppedPatterned
  <2> QED BY <2>2, <2>4, <2>5
<1>19. CASE BankSwitch
  <2>1. [ram EXCEPT !.pattern_change = TRUE] \in RamType BY <1>1, ZenonT(60) DEF RamType
  <2>2. Stays(ram, [ram EXCEPT !.pattern_change = TRUE]) BY <1>1 DEF Stays, RamType
  <2>3. ASSUME NEW d \in Stored PROVE Stays(ram, ChooseBankStopped(ram, d))
    BY <1>1 DEF Stays, ChooseBankStopped, ReadNextPattern, RamType
  <2> QED BY <1>1, <1>3, <1>19, <2>1, <2>2, <2>3, ChooseBankStoppedType DEF BankSwitch
<1>20. CASE Program
  <2>1. PICK press \in Choices, bank \in BOOLEAN : Serve(ProgramChange(ram, press, bank))
    BY <1>20 DEF Program
  <2>2. press \in Pattern /\ Askable(ram, press) BY <1>4
  <2> QED BY <1>1, <1>2, <2>1, <2>2, ProgramChangeType, ProgramPatterned
<1> QED
  BY Panel, <1>5, <1>6, <1>7, <1>8, <1>9, <1>10, <1>11, <1>12, <1>13, <1>14, <1>15, <1>16,
     <1>17, <1>18, <1>19, <1>20
  DEF Panel

\* The pattern of power-up is one that the user chose.
LEMMA InitPatterned == Init => Patterned(ram)
<1> SUFFICES ASSUME Init PROVE Patterned(ram)
  OBVIOUS
<1>1. PICK p \in EditPatterns, d \in Stored : ram = ReadNextPattern(PowerUp(p), d)
  BY DEF Init
<1> DEFINE s == PowerUp(p)
<1>2. s \in RamType BY <1>1, PowerUpType, TableAssumption
<1>3. /\ s.mode_index = 1 /\ s.current_pattern = p /\ s.new_pattern = p
      /\ s.previous_pattern = p
  BY DEF PowerUp
<1> HIDE DEF s
<1>4. InTrack(s) BY <1>3 DEF InTrack, Mode, ModeOrder
<1>5. ASSUME BasicOnly PROVE Filled(s)
  <2>1. p \in 0..(NumBasic - 1) /\ NumBasic \in Nat BY <1>5, SizeAssumption DEF BasicOnly
  <2>2. p < NumBasic /\ ~(p >= NumBasic) BY <2>1
  <2> QED BY <1>3, <2>2 DEF Filled
<1>6. Patterned(s) BY <1>4, <1>5 DEF Patterned
<1> QED BY <1>1, <1>2, <1>6, ReadStays, StaysPatterned DEF s

\* The invariant is inductive: a measure is turned only while running.
LEMMA PatternInductive == IInv /\ Patterned(ram) /\ [Next]_vars => Patterned(ram')
<1> SUFFICES ASSUME IInv, Patterned(ram), [Next]_vars PROVE Patterned(ram')
  OBVIOUS
<1>1. ram \in RamType BY DEF IInv, TypeOK
<1>2. CASE Tick BY <1>1, <1>2, TickStays, StaysPatterned DEF Tick
<1>3. CASE Panel BY <1>3, PanelPatterned
<1>4. CASE StepDue
  <2>1. Stays(ram, ram') BY <1>1, <1>4 DEF StepDue, Stays, RamType
  <2> QED BY <2>1, StaysPatterned
<1>5. CASE Measure BY <1>1, <1>5, MeasureStays, StaysPatterned DEF Measure
<1>6. CASE Load
  <2>1. ram.START BY <1>6 DEF Load, IInv, Busy
  <2> QED BY <1>1, <1>6, <2>1, LoadPatterned DEF Load
<1>7. CASE Trigger BY <1>1, <1>7, MeasureStays, StaysPatterned DEF Trigger
<1>8. CASE UNCHANGED vars BY <1>8 DEF vars
<1> QED
  BY <1>2, <1>3, <1>4, <1>5, <1>6, <1>7, <1>8 DEF Next, MainLoop, ProcessStep

\* The pattern that plays, and the one that is to return, are what the mode says in every
\* reachable state, running or stopped.
THEOREM PatternInvariant == Spec => []Patterned(ram)
<1>1. IInv /\ Patterned(ram) /\ [Next]_vars => Patterned(ram)' BY PatternInductive
<1> QED BY <1>1, InitPatterned, TypeCorrect, Soundness, PTL DEF Spec, IInv

\* RHYTHM PLAY: whatever the player does, the pattern that plays is the one of the track.
THEOREM TrackCorrect == Spec => []TrackInStep
<1>1. Patterned(ram) => TrackInStep BY DEF Patterned, InTrack, TrackInStep
<1> QED BY <1>1, PatternInvariant, PTL

\* A fill lasts one measure, where intro/fills are chosen in MANUAL PLAY only.
THEOREM FillCorrect ==
  ASSUME BasicOnly
  PROVE  Spec => []FillReturns
<1>1. Patterned(ram) => FillReturns BY DEF Patterned, Filled, FillReturns
<1> QED BY <1>1, PatternInvariant, PTL

-----------------------------------------------------------------------------
(* The end of a measure takes the edit *)

\* What process_new_measure leaves for its second half.
EditTaken == pc = "load" => ~ram.pattern_edit

\* The timer interrupt does not edit the pattern.
LEMMA TickEditsNot ==
  ASSUME NEW s \in RamType
  PROVE  ProcessTick(s).pattern_edit = s.pattern_edit
BY DEF ProcessTick, ShuffleCount, StepMatch, RamType

\* An edit is taken when the measure is closed; only the interrupt, which flags none, runs
\* between the two halves of process_new_measure.
LEMMA EditTakenInductive == TypeOK /\ EditTaken /\ [Next]_vars => EditTaken'
<1> SUFFICES ASSUME TypeOK, EditTaken, [Next]_vars PROVE EditTaken'
  OBVIOUS
<1>1. ram \in RamType BY DEF TypeOK
<1>2. CASE Tick BY <1>1, <1>2, TickEditsNot DEF Tick, EditTaken
<1>3. CASE Panel
  <2>1. pc' = "step"
    BY <1>3 DEF Panel, Idle, Start, Stop, Tap, ModeSwitch, FillSwitch, ClearSwitch,
      IntroFillVarSwitch, VariationSwitch, PrescaleSwitch, ShuffleSwitch, LengthSwitch,
      StepSwitch, PatternSwitch, BankSwitch, Program, Serve
  <2> QED BY <2>1 DEF EditTaken
<1>4. CASE StepDue BY <1>4 DEF StepDue, EditTaken
<1>5. CASE Measure
  <2>1. ~CloseMeasure(ram).pattern_edit BY <1>1 DEF CloseMeasure, RamType
  <2> QED BY <1>5, <2>1 DEF Measure, EditTaken
<1>6. CASE Load BY <1>6 DEF Load, EditTaken
<1>7. CASE Trigger BY <1>7 DEF Trigger, EditTaken
<1>8. CASE UNCHANGED vars BY <1>8 DEF vars, EditTaken
<1> QED
  BY <1>2, <1>3, <1>4, <1>5, <1>6, <1>7, <1>8 DEF Next, MainLoop, ProcessStep

\* Where every measure comes to its end, every edit made while running reaches the EEPROM
\* writer: process_new_measure looks at the flag at each end of a measure, the ones at which
\* the part, the pattern or the track changes included.
THEOREM EditsReachTheWriter == Spec /\ MeasuresEnd => EditsAreWritten
<1>1. Init => EditTaken BY DEF Init, EditTaken
<1>2. TypeOK /\ EditTaken /\ [Next]_vars => EditTaken' BY EditTakenInductive
<1>3. Spec => []EditTaken BY <1>1, <1>2, TypeCorrect, PTL DEF Spec
<1>4. EditTaken /\ (pc = "load" \/ ~ram.START) => ~ram.pattern_edit \/ ~ram.START
  BY DEF EditTaken
<1>5. ram.START /\ ram.pattern_edit => ram.START OBVIOUS
<1> QED BY <1>3, <1>4, <1>5, PTL DEF MeasuresEnd, EditsAreWritten
=============================================================================
