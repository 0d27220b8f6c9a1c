----------------------- MODULE SequencerOrderProofs ------------------------
(***************************************************************************)
(* The steps that a listener hears are those of PatternPlayer, for every   *)
(* value of the constants of Sequencer: the interrupt counts on while the  *)
(* main loop turns the measure, and no step is lost, repeated or played    *)
(* out of its part.                                                        *)
(*                                                                         *)
(* The invariant says in which of its phases each half is.  Between two    *)
(* steps the player is At its place; a step that is due, flagged or held   *)
(* back by the shuffle, is the next one or the end of the part; and while  *)
(* the loop serves it, the counter is too far from the shortest divider    *)
(* for the interrupt to match again.                                       *)
(***************************************************************************)
EXTENDS SequencerProofs, FiniteSetTheorems

\* The gestures that break the order, and a loop that is too slow, are left out.
Orderly ==
  KeepUp /\ Gestures \intersect {"race", "mode_running", "clear_running", "copy_null"} = {}

\* A step held back for this amount is released before the shortest step is over.
Fits(amount) == amount * ShuffleMult < MinDivider

\* "X2 is compatible with all shuffle levels for all pre-scales" (sequencer.c:88): those of
\* the panel and those stored.
ShuffleFits ==
  /\ \A amount \in 0..(ShuffleMax - 1) : Fits(amount)
  /\ \A d \in Stored : Fits(d.shuffle)

-----------------------------------------------------------------------------
(* The invariant *)

\* The divider is one of pre_scale[], and the amounts fit it, whichever it is.
Scaled(s) ==
  /\ \E i \in DOMAIN PreScale : s.divider = PreScale[i]
  /\ Fits(s.shuffle_amount) /\ Fits(s.new_shuffle_amount)

\* The first part has steps, now and from the next measure on; and what a part mode edits
\* is its own part.
FirstHasSteps(s) ==
  /\ s.step_num[FIRST] # NO_STEPS
  /\ s.part_editing = FIRST => s.step_num_new # NO_STEPS
  /\ Mode(s) = "FIRST_PART" => s.part_editing = FIRST
  /\ Mode(s) = "SECOND_PART" => s.part_editing = SECOND

Due(s) == s.next_step \/ s.shuffle_step

\* The counter: below its divider, far below it while a step is served, and counting in
\* step with the shuffle's while a step is held.
Timed(s, p) ==
  /\ s.ppqn_counter < s.divider
  /\ s.next_step \/ p # "rest" => s.ppqn_counter < MinDivider /\ ~s.shuffle_step
  /\ s.shuffle_step =>
       s.shuffle_ppqn_count = s.ppqn_counter /\ s.ppqn_counter < s.shuffle_amount * ShuffleMult

\* The step l was the last of the part that plays.
Ends(s, l) == l.last # NO_STEPS /\ l.step = l.last /\ l.part = s.part_playing

\* The next step: the downbeat, or the one after l.
Follows(s, l) ==
  \/ l = Silent /\ s.part_playing = FIRST /\ s.current_step = 0
  \/ /\ l.part = s.part_playing /\ l.last = s.step_num[s.part_playing] /\ l.last # NO_STEPS
     /\ l.step < l.last /\ s.current_step = l.step + 1

\* The first step of the part after that of l.
Turned(s, l) ==
  /\ l.last # NO_STEPS /\ l.step = l.last
  /\ s.current_step = 0 /\ (l.part = SECOND => s.part_playing = FIRST)

\* The step l was played last and nothing is due.
At(s, l) ==
  /\ l = [part |-> s.part_playing, step |-> s.current_step, last |-> s.step_num[s.part_playing]]
  /\ l.last # NO_STEPS /\ l.step <= l.last

\* Primed: the next pulse ends the part that has not begun.
Ready(s, l) ==
  l = Silent /\ s.part_playing = FIRST /\ s.current_step = s.step_num[FIRST]

\* Where the player is, by what the loop is doing: p is "measure", "load", "trigger" or,
\* between steps, "rest".
Placed(s, p, l) ==
  IF p = "rest"
    THEN IF Due(s) THEN ~s.primed /\ IF s.new_measure THEN Ends(s, l) ELSE Follows(s, l)
         ELSE ~s.new_measure /\ IF s.primed THEN Ready(s, l) ELSE At(s, l)
  ELSE /\ ~Due(s) /\ ~s.new_measure /\ ~s.primed
       /\ p = "measure" => Ends(s, l)
       /\ p = "load"    => Ends(s, l) /\ s.current_step = 0
       /\ p = "trigger" => Follows(s, l) \/ Turned(s, l)

\* A second part that plays has steps.
SecondSounds(s) == s.part_playing = SECOND => s.step_num[SECOND] # NO_STEPS

Phase(p) == IF p \in {"scan", "step"} THEN "rest" ELSE p

\* Running, and stopped.
Running(s, p, l) ==
  Timed(s, p) /\ Placed(s, p, l) /\ (p # "load" => SecondSounds(s))
Stopped(s) == s.part_playing = FIRST /\ ~s.new_measure

InOrder(s, p, l) ==
  /\ Scaled(s) /\ FirstHasSteps(s)
  /\ IF s.START THEN Running(s, p, l) ELSE Stopped(s)

OrderInv == InOrder(ram, Phase(pc), played)

-----------------------------------------------------------------------------
(* The shortest divider *)

\* A set of naturals has a least element: the intervals up to them are well-founded.
LEMMA LeastNatural ==
  ASSUME NEW T, T \subseteq Nat, T # {}
  PROVE  \E m \in T : \A n \in T : m <= n
<1> DEFINE R     == StrictSubsetOrdering(Nat)
           Below == {0..m : m \in T}
<1>1. IsWellFoundedOn(R, FiniteSubsetsOf(Nat)) BY FS_StrictSubsetOrderingWellFounded
<1>2. Below \subseteq FiniteSubsetsOf(Nat)
  <2>1. ASSUME NEW m \in T PROVE 0..m \in FiniteSubsetsOf(Nat)
    BY FS_Interval DEF FiniteSubsetsOf
  <2> QED BY <2>1
<1>3. Below # {} OBVIOUS
<1> HIDE DEF Below, R
<1>4. \E x \in Below : \A y \in Below : ~(<<y, x>> \in R)
  BY <1>1, <1>2, <1>3, WFMin
<1>5. PICK m \in T : \A n \in T : <<0..n, 0..m>> \notin R
  BY <1>4 DEF Below
<1>6. ASSUME NEW n \in T, n < m PROVE FALSE
  <2>1. 0..n \subseteq 0..m /\ 0..n # 0..m BY <1>6
  <2>2. <<0..n, 0..m>> \in (SUBSET Nat) \X (SUBSET Nat) BY <1>6
  <2>3. <<0..n, 0..m>> \in R BY <2>1, <2>2 DEF R, StrictSubsetOrdering
  <2> QED BY <1>5, <1>6, <2>3
<1> QED BY <1>6

\* The divider of the shortest step is the least of pre_scale[].
LEMMA MinDividerIsLeast ==
  /\ MinDivider \in 1..(PpqnWrap - 1)
  /\ \A i \in DOMAIN PreScale : MinDivider <= PreScale[i]
<1> DEFINE T == {PreScale[i] : i \in DOMAIN PreScale}
<1>1. T \subseteq 1..(PpqnWrap - 1) BY PreScaleType
<1>2. T # {}
  <2>1. PreScale[DefaultPreScale] \in T BY TableAssumption
  <2> QED BY <2>1
<1> HIDE DEF T
<1>3. T \subseteq Nat BY <1>1, SizeAssumption
<1>4. PICK m \in T : \A n \in T : m <= n BY <1>2, <1>3, LeastNatural
<1>5. \E n \in 1..(PpqnWrap - 1) :
         /\ \E i \in DOMAIN PreScale : PreScale[i] = n
         /\ \A i \in DOMAIN PreScale : n <= PreScale[i]
  BY <1>1, <1>4 DEF T
<1> QED BY <1>5 DEF MinDivider

\* What is below the shortest divider is below the divider.
LEMMA ScaledDivider ==
  ASSUME NEW s \in RamType, Scaled(s)
  PROVE  MinDivider <= s.divider /\ s.divider \in 1..(PpqnWrap - 1) /\ MinDivider \in Nat
BY MinDividerIsLeast, Fields, SizeAssumption DEF Scaled

\* A machine without shuffle holds no step back.
LEMMA NoShuffleFits == Fits(0)
BY MinDividerIsLeast DEF Fits, ShuffleMult

-----------------------------------------------------------------------------
(* Steps that leave the place of the player alone *)

\* The fields that Running and Stopped read,
Steady(s, t) ==
  /\ t.START = s.START /\ t.primed = s.primed /\ t.step_num = s.step_num
  /\ t.current_step = s.current_step /\ t.part_playing = s.part_playing
  /\ t.shuffle_amount = s.shuffle_amount /\ t.shuffle_ppqn_count = s.shuffle_ppqn_count
  /\ t.shuffle_step = s.shuffle_step /\ t.next_step = s.next_step
  /\ t.new_measure = s.new_measure
  /\ t.ppqn_counter = s.ppqn_counter /\ t.divider = s.divider

\* and those that Scaled and FirstHasSteps read besides.
Same(s, t) ==
  /\ Steady(s, t) /\ t.new_shuffle_amount = s.new_shuffle_amount
  /\ t.step_num_new = s.step_num_new /\ t.part_editing = s.part_editing
  /\ t.mode_index = s.mode_index

\* What leaves these fields alone keeps the invariant, if the new values are in scale.
LEMMA SteadyInOrder ==
  ASSUME NEW s, NEW t, NEW p, NEW l, InOrder(s, p, l), Steady(s, t), Scaled(t), FirstHasSteps(t)
  PROVE  InOrder(t, p, l)
BY DEF InOrder, Steady, Running, Stopped, Timed, Placed, Due, Ends, Follows, Turned, At, Ready,
       SecondSounds

\* What leaves all of them alone keeps it.
LEMMA SameInOrder ==
  ASSUME NEW s, NEW t, NEW p, NEW l, InOrder(s, p, l), Same(s, t)
  PROVE  InOrder(t, p, l)
<1>1. Scaled(t) BY DEF InOrder, Same, Steady, Scaled
<1>2. FirstHasSteps(t) BY DEF InOrder, Same, Steady, FirstHasSteps, Mode
<1> QED BY <1>1, <1>2, SteadyInOrder DEF Same

-----------------------------------------------------------------------------
(* Operations *)

\* read_next_pattern brings a first part with steps, a divider of pre_scale[] and an amount
\* that fits.
LEMMA ReadStatic ==
  ASSUME NEW s \in RamType, Scaled(s), FirstHasSteps(s), ShuffleFits, NEW d \in Stored
  PROVE  Scaled(ReadNextPattern(s, d)) /\ FirstHasSteps(ReadNextPattern(s, d))
<1> DEFINE t == ReadNextPattern(s, d)
<1>1. d.step_num[FIRST] # NO_STEPS /\ d.pre_scale \in DOMAIN PreScale
  BY TableAssumption DEF PatternData
<1>2. /\ t.divider = PreScale[d.pre_scale] /\ t.shuffle_amount = s.shuffle_amount
      /\ t.new_shuffle_amount = d.shuffle /\ t.step_num = d.step_num
      /\ t.step_num_new = d.step_num[s.part_editing] /\ t.part_editing = s.part_editing
      /\ t.mode_index = s.mode_index
  BY DEF ReadNextPattern, RamType
<1> HIDE DEF t
<1>3. Scaled(t) BY <1>1, <1>2 DEF Scaled, ShuffleFits
<1>4. FirstHasSteps(t) BY <1>1, <1>2 DEF FirstHasSteps, Mode
<1> QED BY <1>3, <1>4 DEF t

\* What the end of a measure leaves alone, and what every part of it keeps.
Turns(s, t) ==
  /\ t.primed = s.primed /\ t.current_step = s.current_step
  /\ t.shuffle_step = s.shuffle_step /\ t.next_step = s.next_step
  /\ t.new_measure = s.new_measure /\ t.ppqn_counter = s.ppqn_counter
  /\ (s.part_playing = FIRST => t.part_playing = FIRST)
  /\ (Scaled(s) /\ FirstHasSteps(s) => Scaled(t) /\ FirstHasSteps(t))

\* Two changes between measures are one.
LEMMA TurnsTransitive ==
  ASSUME NEW s, NEW t, NEW u, Turns(s, t), Turns(t, u)
  PROVE  Turns(s, u)
BY DEF Turns

\* What changes nothing of this is such a change.
LEMMA SameTurns ==
  ASSUME NEW s, NEW t, Same(s, t)
  PROVE  Turns(s, t)
<1>1. Scaled(s) => Scaled(t) BY DEF Same, Steady, Scaled
<1>2. FirstHasSteps(s) => FirstHasSteps(t) BY DEF Same, Steady, FirstHasSteps, Mode
<1> QED BY <1>1, <1>2 DEF Turns, Same, Steady

\* read_next_pattern is one, as the stored patterns fit.
LEMMA ReadTurns ==
  ASSUME NEW s \in RamType, ShuffleFits, NEW d \in Stored
  PROVE  Turns(s, ReadNextPattern(s, d)) /\ ReadNextPattern(s, d).START = s.START
<1>1. Scaled(s) /\ FirstHasSteps(s)
        => Scaled(ReadNextPattern(s, d)) /\ FirstHasSteps(ReadNextPattern(s, d))
  BY ReadStatic
<1> QED BY <1>1 DEF Turns, ReadNextPattern, RamType

\* process_stop is one, and goes back to the first part.
LEMMA StopTurns ==
  ASSUME NEW s \in RamType, ShuffleFits, NEW d \in Stored
  PROVE  /\ Turns(s, ProcessStop(s, d)) /\ ProcessStop(s, d).START = s.START
         /\ ProcessStop(s, d).part_playing = FIRST
<1> DEFINE reset == [s EXCEPT
        !.track_measure = 0, !.track_loop = FALSE, !.part_playing = FIRST,
        !.current_pattern = s.new_pattern, !.current_measure_auto_fill = 0,
        !.pattern_change = FALSE, !.fill = FALSE]
           rewind == [reset EXCEPT
        !.current_pattern = Track[1], !.new_pattern = Track[1], !.pattern_change = TRUE]
<1>1. reset \in RamType
  <2> DEFINE half == [s EXCEPT !.track_measure = 0, !.track_loop = FALSE,
                               !.part_playing = FIRST, !.current_pattern = s.new_pattern]
  <2>1. half \in RamType BY Zeros, Fields, ZenonT(60) DEF RamType
  <2> HIDE DEF half
  <2>2. [half EXCEPT !.current_measure_auto_fill = 0, !.pattern_change = FALSE, !.fill = FALSE]
          \in RamType
    BY <2>1, Zeros, ZenonT(60) DEF RamType
  <2> QED BY <2>2 DEF half
<1>2. Turns(s, reset) /\ reset.START = s.START /\ reset.part_playing = FIRST
  BY DEF Turns, Scaled, FirstHasSteps, Mode, RamType
<1>3. ProcessStop(s, d) = IF Mode(s) = "MANUAL_PLAY" THEN ReadNextPattern(reset, d)
                          ELSE IF TrackMode(s) THEN ReadNextPattern(rewind, d)
                          ELSE reset
  BY DEF ProcessStop
<1> HIDE DEF reset
<1>4. rewind \in RamType BY <1>1, TrackBegins, ZenonT(60) DEF RamType
<1>5. Turns(reset, rewind) /\ rewind.START = reset.START /\ rewind.part_playing = reset.part_playing
  BY <1>1 DEF Turns, Scaled, FirstHasSteps, Mode, RamType
<1> HIDE DEF rewind
<1>6. ASSUME NEW r \in RamType, Turns(s, r), r.START = s.START, r.part_playing = FIRST
      PROVE  /\ Turns(s, ReadNextPattern(r, d)) /\ ReadNextPattern(r, d).START = s.START
             /\ ReadNextPattern(r, d).part_playing = FIRST
  <2>1. Turns(r, ReadNextPattern(r, d)) /\ ReadNextPattern(r, d).START = r.START
    BY ReadTurns
  <2> QED BY <1>6, <2>1, TurnsTransitive DEF Turns
<1>7. Turns(s, rewind) /\ rewind.START = s.START /\ rewind.part_playing = FIRST
  BY <1>2, <1>5, TurnsTransitive
<1> QED BY <1>1, <1>2, <1>3, <1>4, <1>6, <1>7

\* The parts of update_pattern are such changes: the place in the track,
LEMMA AdvanceTrackTurns ==
  ASSUME NEW s \in RamType, ShuffleFits, NEW d \in Stored
  PROVE  Turns(s, AdvanceTrack(s, d))
<1> DEFINE holds == s.variation_mode = VAR_AB /\ s.current_variation = VAR_A
           ends  == s.track_measure = Len(Track) - 1
           stopping == [s EXCEPT !.START = FALSE]
           over  == IF s.track_loop THEN s ELSE ProcessStop(stopping, d)
           ended == [over EXCEPT !.track_measure = 0, !.pattern_change = TRUE]
           next  == [s EXCEPT !.track_measure = s.track_measure + 1, !.pattern_change = TRUE]
           moved == IF holds THEN s ELSE IF ends THEN ended ELSE next
           pattern == Track[moved.track_measure + 1]
<1>1. stopping \in RamType BY ZenonT(60) DEF RamType
<1>2. Turns(s, stopping) BY DEF Turns, Scaled, FirstHasSteps, Mode, RamType
<1>3. Turns(s, s) BY DEF Turns
<1> HIDE DEF stopping
<1>4. over \in RamType BY <1>1, ProcessStopType
<1>5. Turns(s, over) BY <1>1, <1>2, <1>3, StopTurns, TurnsTransitive
<1> HIDE DEF over
<1>6. Turns(over, ended) BY <1>4 DEF Turns, Scaled, FirstHasSteps, Mode, RamType
<1>7. Turns(s, next) BY DEF Turns, Scaled, FirstHasSteps, Mode, RamType
<1>8. Turns(s, moved) BY <1>3, <1>5, <1>6, <1>7, TurnsTransitive
<1>9. AdvanceTrack(s, d) = [moved EXCEPT !.new_pattern = pattern]
  BY DEF AdvanceTrack, over, stopping
<1>10. Turns(moved, [moved EXCEPT !.new_pattern = pattern])
  BY <1>4 DEF Turns, Scaled, FirstHasSteps, Mode, RamType
<1> HIDE DEF moved, pattern
<1> QED BY <1>8, <1>9, <1>10, TurnsTransitive

\* the variation,
LEMMA ToggleTurns ==
  ASSUME NEW s \in RamType
  PROVE  Same(s, ToggleVariation(s))
BY DEF Same, Steady, ToggleVariation, RamType

\* the pattern,
LEMMA ChangeTurns ==
  ASSUME NEW s \in RamType, ShuffleFits, NEW d \in Stored
  PROVE  Turns(s, ChangePattern(s, d))
<1> DEFINE r == ReadNextPattern(s, d)
           variation == IF s.variation_mode = VAR_B THEN VAR_B ELSE VAR_A
           t == [r EXCEPT !.pattern_change = FALSE, !.pre_scale_change = TRUE,
                          !.current_pattern = s.new_pattern,
                          !.current_variation = variation, !.part_playing = FIRST]
<1>1. r \in RamType /\ Turns(s, r) BY ReadType, ReadTurns
<1>2. ChangePattern(s, d) = IF ~s.pattern_change THEN s ELSE t
  BY DEF ChangePattern
<1> HIDE DEF r, variation
<1>3. Turns(r, t) BY <1>1 DEF Turns, Scaled, FirstHasSteps, Mode, RamType
<1>4. Turns(s, s) BY DEF Turns
<1> QED BY <1>1, <1>2, <1>3, <1>4, TurnsTransitive

\* the fill,
LEMMA UpdateFillTurns ==
  ASSUME NEW s \in RamType, ShuffleFits, NEW d \in Stored
  PROVE  Turns(s, UpdateFill(s, d))
<1> DEFINE r == ReadNextPattern(s, d)
           t == [r EXCEPT !.current_measure_auto_fill = 0, !.fill = FALSE,
                          !.pre_scale_change = TRUE, !.part_playing = FIRST,
                          !.new_pattern = s.current_pattern,
                          !.current_pattern = s.current_intro_fill,
                          !.current_variation = s.intro_fill_var,
                          !.pattern_change = TRUE]
<1>1. r \in RamType /\ Turns(s, r) BY ReadType, ReadTurns
<1>2. UpdateFill(s, d) = IF ~s.fill THEN CountAutoFill(s) ELSE t
  BY DEF UpdateFill
<1> HIDE DEF r
<1>3. Turns(r, t) BY <1>1 DEF Turns, Scaled, FirstHasSteps, Mode, RamType
<1>4. Turns(s, CountAutoFill(s))
  BY DEF Turns, Scaled, FirstHasSteps, Mode, RamType, CountAutoFill
<1> QED BY <1>1, <1>2, <1>3, <1>4, TurnsTransitive

\* and the whole of it.
LEMMA UpdatePatternTurns ==
  ASSUME NEW s \in RamType, ShuffleFits, NEW a \in Stored, NEW b \in Stored, NEW c \in Stored
  PROVE  Turns(s, UpdatePattern(s, a, b, c))
<1> DEFINE advanced == IF Mode(s) = "PLAY_RHYTHM" THEN AdvanceTrack(s, a) ELSE s
           toggled  == ToggleVariation(advanced)
           changed  == ChangePattern(toggled, b)
<1>1. Turns(s, s) BY DEF Turns
<1>2. advanced \in RamType /\ Turns(s, advanced)
  BY <1>1, AdvanceTrackType, AdvanceTrackTurns
<1> HIDE DEF advanced
<1>3. toggled \in RamType /\ Turns(advanced, toggled)
  BY <1>2, ToggleVariationType, ToggleTurns, SameTurns
<1> HIDE DEF toggled
<1>4. changed \in RamType /\ Turns(toggled, changed)
  BY <1>3, ChangePatternType, ChangeTurns
<1> HIDE DEF changed
<1>5. Turns(changed, UpdateFill(changed, c)) BY <1>4, UpdateFillTurns
<1> QED BY <1>2, <1>3, <1>4, <1>5, TurnsTransitive DEF UpdatePattern, changed, toggled, advanced

\* The part that follows is the second one, if it has steps, only after the first.
LEMMA LoadPlaces ==
  ASSUME NEW s \in RamType, ShuffleFits, NEW a \in Stored, NEW b \in Stored, NEW c \in Stored,
         Scaled(s), FirstHasSteps(s)
  PROVE  LET t == ApplyPreScale(TurnPart(s, a, b, c))
         IN  /\ Scaled(t) /\ FirstHasSteps(t) /\ SecondSounds(t)
             /\ t.primed = s.primed /\ t.current_step = s.current_step
             /\ t.shuffle_step = s.shuffle_step /\ t.next_step = s.next_step
             /\ t.new_measure = s.new_measure /\ t.ppqn_counter = s.ppqn_counter
             /\ (t.part_playing = SECOND => s.part_playing = FIRST /\ t.START = s.START)
<1> DEFINE first  == [s EXCEPT !.part_playing = FIRST]
           second == [s EXCEPT !.part_playing = SECOND]
           u == TurnPart(s, a, b, c)
           t == ApplyPreScale(u)
<1>1. first \in RamType /\ second \in RamType BY Zeros, ZenonT(60) DEF RamType
<1>2. Turns(s, first) /\ first.part_playing = FIRST
  BY DEF Turns, Scaled, FirstHasSteps, Mode, RamType
<1>3. s.part_playing = FIRST /\ s.step_num[SECOND] # NO_STEPS =>
        /\ u = second /\ Scaled(second) /\ FirstHasSteps(second) /\ SecondSounds(second)
        /\ second.primed = s.primed /\ second.current_step = s.current_step
        /\ second.shuffle_step = s.shuffle_step /\ second.next_step = s.next_step
        /\ second.new_measure = s.new_measure /\ second.ppqn_counter = s.ppqn_counter
        /\ second.START = s.START
  BY DEF TurnPart, Scaled, FirstHasSteps, SecondSounds, Mode, RamType
<1> HIDE DEF first, second
<1>4. Turns(first, UpdatePattern(first, a, b, c)) BY <1>1, UpdatePatternTurns
<1>5. ~(s.part_playing = FIRST /\ s.step_num[SECOND] # NO_STEPS) =>
        Turns(s, u) /\ u.part_playing = FIRST
  BY <1>2, <1>4, TurnsTransitive DEF TurnPart, Turns, first
<1>6. u \in RamType BY TurnPartType
<1>7. FIRST # SECOND BY DEF FIRST, SECOND
<1> HIDE DEF u
<1>8. /\ Scaled(u) /\ FirstHasSteps(u) /\ SecondSounds(u)
      /\ u.primed = s.primed /\ u.current_step = s.current_step
      /\ u.shuffle_step = s.shuffle_step /\ u.next_step = s.next_step
      /\ u.new_measure = s.new_measure /\ u.ppqn_counter = s.ppqn_counter
      /\ (u.part_playing = SECOND => s.part_playing = FIRST /\ u.START = s.START)
  BY <1>3, <1>5, <1>7 DEF Turns, SecondSounds
<1>9. u.pre_scale \in DOMAIN PreScale BY <1>6, Fields
<1>10. Scaled(t) BY <1>6, <1>8, <1>9, NoShuffleFits DEF Scaled, ApplyPreScale, RamType
<1>11. /\ FirstHasSteps(t) /\ SecondSounds(t) /\ t.primed = u.primed
       /\ t.current_step = u.current_step /\ t.shuffle_step = u.shuffle_step
       /\ t.next_step = u.next_step /\ t.new_measure = u.new_measure
       /\ t.ppqn_counter = u.ppqn_counter /\ t.part_playing = u.part_playing
       /\ t.START = u.START
  BY <1>6, <1>8 DEF FirstHasSteps, SecondSounds, Mode, ApplyPreScale, RamType
<1> QED BY <1>8, <1>10, <1>11 DEF t, u

-----------------------------------------------------------------------------
(* The timer interrupt *)

\* A pulse while a step is held: it is released when the count has reached its amount.
LEMMA ShuffleCounts ==
  ASSUME NEW s \in RamType
  PROVE  LET u   == ShuffleCount(s)
             due == (s.shuffle_ppqn_count + 1) % NibbleWrap = s.shuffle_amount * ShuffleMult
         IN  /\ u.shuffle_step <=> (s.shuffle_step /\ ~due)
             /\ u.next_step <=> (s.next_step \/ (s.shuffle_step /\ due))
             /\ s.shuffle_step =>
                  u.shuffle_ppqn_count = (s.shuffle_ppqn_count + 1) % NibbleWrap
             /\ u.START = s.START /\ u.primed = s.primed /\ u.step_num = s.step_num
             /\ u.current_step = s.current_step /\ u.part_playing = s.part_playing
             /\ u.shuffle_amount = s.shuffle_amount /\ u.new_measure = s.new_measure
             /\ u.new_shuffle_amount = s.new_shuffle_amount
             /\ u.step_num_new = s.step_num_new /\ u.part_editing = s.part_editing
             /\ u.mode_index = s.mode_index
             /\ u.ppqn_counter = s.ppqn_counter /\ u.divider = s.divider
             /\ ~s.shuffle_step => u = s
BY DEF ShuffleCount, RamType

\* A step: the fields that it sets.
LEMMA StepMatches ==
  ASSUME NEW s \in RamType
  PROVE  LET t     == StepMatch(s)
             end   == s.START /\ s.current_step = s.step_num[s.part_playing]
             delay == t.shuffle_amount # 0 /\ s.current_step % 2 = 0
         IN  /\ t.divider = IF s.pre_scale_change THEN PreScale[s.pre_scale] ELSE s.divider
             /\ t.shuffle_amount = IF s.shuffle_change THEN s.new_shuffle_amount
                                                       ELSE s.shuffle_amount
             /\ delay => t.shuffle_ppqn_count = 0
             /\ t.shuffle_step <=> (s.shuffle_step \/ delay)
             /\ t.next_step <=> (s.next_step \/ ~(s.shuffle_step \/ delay))
             /\ t.current_step = IF end /\ s.primed THEN 0 ELSE (s.current_step + 1) % NumSteps
             /\ t.primed <=> (s.primed /\ ~end)
             /\ t.new_measure <=> (s.new_measure \/ (end /\ ~s.primed))
             /\ t.ppqn_counter = 0
             /\ t.START = s.START /\ t.step_num = s.step_num /\ t.part_playing = s.part_playing
             /\ t.new_shuffle_amount = s.new_shuffle_amount
             /\ t.step_num_new = s.step_num_new /\ t.part_editing = s.part_editing
             /\ t.mode_index = s.mode_index
BY ZenonT(60) DEF StepMatch, RamType

\* The interrupt keeps what does not depend on the place of the player.
LEMMA TickStatic ==
  ASSUME NEW s \in RamType, Scaled(s), FirstHasSteps(s)
  PROVE  Scaled(ProcessTick(s)) /\ FirstHasSteps(ProcessTick(s))
<1> DEFINE u == ShuffleCount(s)
           w == [u EXCEPT !.ppqn_counter = (s.ppqn_counter + 1) % PpqnWrap]
<1>1. u \in RamType /\ Scaled(u) /\ FirstHasSteps(u)
  BY ShuffleCountType, ShuffleCounts DEF Scaled, FirstHasSteps, Mode
<1>2. ProcessTick(s) \in {StepMatch(u), w} BY DEF ProcessTick
<1> HIDE DEF u
<1>3. Scaled(w) /\ FirstHasSteps(w) BY <1>1 DEF Scaled, FirstHasSteps, Mode, RamType
<1>4. u.pre_scale \in DOMAIN PreScale BY <1>1, Fields
<1>5. Scaled(StepMatch(u)) BY <1>1, <1>4, StepMatches DEF Scaled
<1>6. FirstHasSteps(StepMatch(u)) BY <1>1, StepMatches DEF FirstHasSteps, Mode
<1> QED BY <1>2, <1>3, <1>5, <1>6

\* What Timed says of the numbers, in one place.
LEMMA Numbers ==
  ASSUME NEW s \in RamType, Scaled(s), NEW p, Timed(s, p)
  PROVE  /\ MinDivider \in Nat \ {0} /\ MinDivider <= s.divider
         /\ s.divider \in 1..(PpqnWrap - 1) /\ s.ppqn_counter \in Nat
         /\ s.ppqn_counter < s.divider
         /\ s.shuffle_amount * ShuffleMult \in 0..14
         /\ s.shuffle_amount * ShuffleMult < MinDivider
         /\ (s.ppqn_counter + 1) % PpqnWrap = s.ppqn_counter + 1
         /\ s.shuffle_step => /\ s.shuffle_ppqn_count = s.ppqn_counter
                              /\ s.ppqn_counter < s.shuffle_amount * ShuffleMult
                              /\ ~s.next_step /\ p = "rest"
                              /\ (s.shuffle_ppqn_count + 1) % NibbleWrap = s.ppqn_counter + 1
<1>1. /\ MinDivider <= s.divider /\ s.divider \in 1..(PpqnWrap - 1) /\ MinDivider \in Nat \ {0}
      /\ s.ppqn_counter \in 0..(PpqnWrap - 1) /\ s.shuffle_ppqn_count \in 0..(NibbleWrap - 1)
      /\ s.shuffle_amount \in 0..ShuffleMax /\ ShuffleMax \in 0..7 /\ PpqnWrap \in Nat
  BY ScaledDivider, Fields, SizeAssumption, MinDividerIsLeast
<1>2. s.ppqn_counter < s.divider BY DEF Timed
<1>3. (s.ppqn_counter + 1) % PpqnWrap = s.ppqn_counter + 1 BY <1>1, <1>2
<1>4. s.shuffle_amount * ShuffleMult < MinDivider BY DEF Scaled, Fits
<1>5. s.shuffle_amount * ShuffleMult \in 0..14 BY <1>1 DEF ShuffleMult
<1>6. s.shuffle_step => /\ s.shuffle_ppqn_count = s.ppqn_counter
                        /\ s.ppqn_counter < s.shuffle_amount * ShuffleMult
                        /\ ~s.next_step /\ p = "rest"
  BY DEF Timed
<1>7. s.shuffle_step => (s.shuffle_ppqn_count + 1) % NibbleWrap = s.ppqn_counter + 1
  BY <1>1, <1>5, <1>6 DEF NibbleWrap
<1> QED BY <1>1, <1>2, <1>3, <1>4, <1>5, <1>6, <1>7

\* A pulse that is not the last of its step, seen from the fields that Running reads.
LEMMA CountRunning ==
  ASSUME NEW s \in RamType, Scaled(s), NEW p, NEW l, Running(s, p, l), NEW t,
         s.next_step \/ p # "rest" => s.ppqn_counter + 1 < MinDivider,
         s.ppqn_counter + 1 # s.divider,
         t.ppqn_counter = s.ppqn_counter + 1, t.divider = s.divider, t.primed = s.primed,
         t.step_num = s.step_num, t.current_step = s.current_step,
         t.part_playing = s.part_playing, t.shuffle_amount = s.shuffle_amount,
         t.new_measure = s.new_measure,
         ~s.shuffle_step => (~t.shuffle_step /\ (t.next_step <=> s.next_step)),
         s.shuffle_step =>
           IF s.ppqn_counter + 1 = s.shuffle_amount * ShuffleMult
             THEN t.next_step /\ ~t.shuffle_step
             ELSE ~t.next_step /\ t.shuffle_step /\ t.shuffle_ppqn_count = s.ppqn_counter + 1
  PROVE  Running(t, p, l)
<1>1. Timed(s, p) BY DEF Running
<1>2. /\ MinDivider \in Nat \ {0} /\ MinDivider <= s.divider
      /\ s.divider \in 1..(PpqnWrap - 1) /\ s.ppqn_counter \in Nat
      /\ s.ppqn_counter < s.divider
      /\ s.shuffle_amount * ShuffleMult \in 0..14
      /\ s.shuffle_amount * ShuffleMult < MinDivider
      /\ s.shuffle_step => /\ s.ppqn_counter < s.shuffle_amount * ShuffleMult
                           /\ ~s.next_step /\ p = "rest"
  BY <1>1, Numbers
<1>3. t.ppqn_counter < t.divider BY <1>2
<1>4. t.next_step \/ p # "rest" => t.ppqn_counter < MinDivider /\ ~t.shuffle_step
  <2>1. CASE s.shuffle_step BY <1>2, <2>1
  <2>2. CASE ~s.shuffle_step BY <1>2, <2>2
  <2> QED BY <2>1, <2>2
<1>5. t.shuffle_step => /\ t.shuffle_ppqn_count = t.ppqn_counter
                        /\ t.ppqn_counter < t.shuffle_amount * ShuffleMult
  BY <1>2
<1>6. Timed(t, p) BY <1>3, <1>4, <1>5 DEF Timed
<1>7. Due(t) <=> Due(s)
  <2>1. CASE s.shuffle_step BY <2>1 DEF Due
  <2>2. CASE ~s.shuffle_step BY <2>2 DEF Due
  <2> QED BY <2>1, <2>2
<1>8. Placed(s, p, l) BY DEF Running
<1>9. Ends(t, l) <=> Ends(s, l) BY DEF Ends
<1>10. Follows(t, l) <=> Follows(s, l) BY DEF Follows
<1>11. Turned(t, l) <=> Turned(s, l) BY DEF Turned
<1>12. At(t, l) <=> At(s, l) BY DEF At
<1>13. Ready(t, l) <=> Ready(s, l) BY DEF Ready
<1>14. Placed(t, p, l)
  BY <1>7, <1>8, <1>9, <1>10, <1>11, <1>12, <1>13 DEF Placed
<1>15. p # "load" => SecondSounds(t) BY DEF Running, SecondSounds
<1> QED BY <1>6, <1>14, <1>15 DEF Running

\* The pulse that begins a step, of a machine that holds and serves none.
LEMMA MatchRunning ==
  ASSUME NEW s \in RamType, s.START, Scaled(s), NEW l, Running(s, "rest", l), ~Due(s)
  PROVE  Running(StepMatch(s), "rest", l) /\ StepMatch(s).START
<1> DEFINE t     == StepMatch(s)
           end   == s.current_step = s.step_num[s.part_playing]
           delay == t.shuffle_amount # 0 /\ s.current_step % 2 = 0
<1>1. /\ delay => t.shuffle_ppqn_count = 0
      /\ t.shuffle_step <=> delay
      /\ t.next_step <=> ~delay
      /\ t.current_step = IF end /\ s.primed THEN 0 ELSE (s.current_step + 1) % NumSteps
      /\ t.primed <=> (s.primed /\ ~end)
      /\ t.new_measure <=> (s.new_measure \/ (end /\ ~s.primed))
      /\ t.ppqn_counter = 0
      /\ t.START = s.START /\ t.step_num = s.step_num /\ t.part_playing = s.part_playing
  BY StepMatches DEF Due
<1>2. t \in RamType BY StepMatchType
<1>3. t.divider \in 1..(PpqnWrap - 1) /\ t.shuffle_amount \in 0..ShuffleMax BY <1>2, Fields
<1>4. delay => t.shuffle_amount # 0 OBVIOUS
<1> HIDE DEF t, delay
<1>5. t.shuffle_amount # 0 => 0 < t.shuffle_amount * ShuffleMult
  BY <1>3, SizeAssumption DEF ShuffleMult
<1>6. Timed(t, "rest") BY <1>1, <1>3, <1>4, <1>5, MinDividerIsLeast DEF Timed
<1>7. Due(t) BY <1>1 DEF Due
<1>8. ~s.new_measure /\ IF s.primed THEN Ready(s, l) ELSE At(s, l)
  BY DEF Running, Placed
<1>9. ASSUME s.primed PROVE ~t.primed /\ ~t.new_measure /\ Follows(t, l)
  <2>1. Ready(s, l) BY <1>8, <1>9
  <2>2. l = Silent /\ t.part_playing = FIRST /\ end BY <1>1, <2>1 DEF Ready
  <2>3. ~t.primed /\ ~t.new_measure /\ t.current_step = 0 BY <1>1, <1>8, <1>9, <2>2
  <2>4. Follows(t, l) BY <2>2, <2>3 DEF Follows
  <2> QED BY <2>3, <2>4
<1>10. ASSUME ~s.primed, end PROVE ~t.primed /\ t.new_measure /\ Ends(t, l)
  <2>1. ~t.primed /\ t.new_measure BY <1>1, <1>10
  <2>2. Ends(t, l) BY <1>1, <1>8, <1>10 DEF At, Ends
  <2> QED BY <2>1, <2>2
<1>11. ASSUME ~s.primed, ~end PROVE ~t.primed /\ ~t.new_measure /\ Follows(t, l)
  <2>1. ~t.primed /\ ~t.new_measure BY <1>1, <1>8, <1>11
  <2>2. /\ l = [part |-> s.part_playing, step |-> s.current_step,
                last |-> s.step_num[s.part_playing]]
        /\ l.last # NO_STEPS /\ l.step <= l.last
    BY <1>8, <1>11 DEF At
  <2>3. s.current_step \in Step /\ s.step_num[s.part_playing] \in Length
    BY Fields DEF Part
  <2>4. s.current_step < s.step_num[s.part_playing]
    BY <1>11, <2>2, <2>3, SizeAssumption DEF Step, Length
  <2>5. (s.current_step + 1) % NumSteps = s.current_step + 1
    BY <2>2, <2>3, <2>4, SizeAssumption DEF Step, Length, NO_STEPS
  <2>6. t.current_step = s.current_step + 1 BY <1>1, <1>11, <2>5
  <2>7. Follows(t, l) BY <1>1, <2>2, <2>4, <2>6 DEF Follows
  <2> QED BY <2>1, <2>7
<1>12. ~t.primed /\ IF t.new_measure THEN Ends(t, l) ELSE Follows(t, l)
  BY <1>9, <1>10, <1>11
<1>13. Placed(t, "rest", l) BY <1>7, <1>12 DEF Placed
<1>14. SecondSounds(t) BY <1>1 DEF Running, SecondSounds
<1> QED BY <1>1, <1>6, <1>13, <1>14 DEF Running, t

\* While the machine runs: a pulse that is not the last of a step moves the counter on, and
\* with it the shuffle's; no step is matched while one is served or held.
LEMMA TickRunning ==
  ASSUME NEW s \in RamType, s.START, Scaled(s), NEW p, NEW l,
         Running(s, p, l), s.next_step \/ p # "rest" => s.ppqn_counter + 1 < MinDivider
  PROVE  Running(ProcessTick(s), p, l) /\ ProcessTick(s).START
<1> DEFINE u == ShuffleCount(s)
           t == ProcessTick(s)
<1>1. Timed(s, p) BY DEF Running
<1>2. /\ MinDivider \in Nat \ {0} /\ MinDivider <= s.divider
      /\ s.divider \in 1..(PpqnWrap - 1) /\ s.ppqn_counter \in Nat
      /\ s.ppqn_counter < s.divider
      /\ s.shuffle_amount * ShuffleMult < MinDivider
      /\ (s.ppqn_counter + 1) % PpqnWrap = s.ppqn_counter + 1
      /\ s.shuffle_step => /\ s.ppqn_counter < s.shuffle_amount * ShuffleMult
                           /\ ~s.next_step
                           /\ (s.shuffle_ppqn_count + 1) % NibbleWrap = s.ppqn_counter + 1
      /\ s.shuffle_amount * ShuffleMult \in 0..14
  BY <1>1, Numbers
<1>3. u \in RamType BY ShuffleCountType
<1>4. CASE s.ppqn_counter + 1 # s.divider
  <2>1. t = [u EXCEPT !.ppqn_counter = s.ppqn_counter + 1]
    BY <1>2, <1>4 DEF ProcessTick
  <2>2. /\ u.START = s.START /\ u.primed = s.primed /\ u.step_num = s.step_num
        /\ u.current_step = s.current_step /\ u.part_playing = s.part_playing
        /\ u.shuffle_amount = s.shuffle_amount /\ u.new_measure = s.new_measure
        /\ u.divider = s.divider
        /\ ~s.shuffle_step => (~u.shuffle_step /\ (u.next_step <=> s.next_step))
        /\ s.shuffle_step =>
             IF s.ppqn_counter + 1 = s.shuffle_amount * ShuffleMult
               THEN u.next_step /\ ~u.shuffle_step
               ELSE ~u.next_step /\ u.shuffle_step /\ u.shuffle_ppqn_count = s.ppqn_counter + 1
    <3> DEFINE due == (s.shuffle_ppqn_count + 1) % NibbleWrap = s.shuffle_amount * ShuffleMult
    <3>1. /\ u.shuffle_step <=> (s.shuffle_step /\ ~due)
          /\ u.next_step <=> (s.next_step \/ (s.shuffle_step /\ due))
          /\ s.shuffle_step => u.shuffle_ppqn_count = (s.shuffle_ppqn_count + 1) % NibbleWrap
          /\ u.START = s.START /\ u.primed = s.primed /\ u.step_num = s.step_num
          /\ u.current_step = s.current_step /\ u.part_playing = s.part_playing
          /\ u.shuffle_amount = s.shuffle_amount /\ u.new_measure = s.new_measure
          /\ u.divider = s.divider
      BY ShuffleCounts
    <3>2. s.shuffle_step =>
            /\ due <=> s.ppqn_counter + 1 = s.shuffle_amount * ShuffleMult
            /\ ~s.next_step
            /\ (s.shuffle_ppqn_count + 1) % NibbleWrap = s.ppqn_counter + 1
      BY <1>2
    <3> HIDE DEF u, due
    <3>3. ~s.shuffle_step => (~u.shuffle_step /\ (u.next_step <=> s.next_step))
      BY <3>1
    <3>4. ASSUME s.shuffle_step
          PROVE  IF s.ppqn_counter + 1 = s.shuffle_amount * ShuffleMult
                   THEN u.next_step /\ ~u.shuffle_step
                   ELSE ~u.next_step /\ u.shuffle_step /\ u.shuffle_ppqn_count = s.ppqn_counter + 1
      BY <3>1, <3>2, <3>4
    <3> QED BY <3>1, <3>3, <3>4
  <2> HIDE DEF t, u
  <2>3. /\ t.ppqn_counter = s.ppqn_counter + 1
        /\ t.START = u.START /\ t.primed = u.primed /\ t.step_num = u.step_num
        /\ t.current_step = u.current_step /\ t.part_playing = u.part_playing
        /\ t.shuffle_amount = u.shuffle_amount /\ t.new_measure = u.new_measure
        /\ t.divider = u.divider /\ t.shuffle_step = u.shuffle_step
        /\ t.next_step = u.next_step /\ t.shuffle_ppqn_count = u.shuffle_ppqn_count
    BY <1>3, <2>1 DEF RamType
  <2>4. Running(t, p, l) BY <1>4, <2>2, <2>3, CountRunning
  <2> QED BY <2>2, <2>3, <2>4 DEF t
<1>5. CASE s.ppqn_counter + 1 = s.divider
  <2>1. ~Due(s) /\ p = "rest" BY <1>2, <1>5 DEF Due
  <2>2. u = s BY <2>1, ShuffleCounts DEF Due
  <2>3. t = StepMatch(s) BY <1>2, <1>5, <2>2 DEF ProcessTick
  <2> QED BY <2>1, <2>3, MatchRunning
<1> QED BY <1>4, <1>5

\* While it is stopped: no measure ends.
LEMMA TickStopped ==
  ASSUME NEW s \in RamType, ~s.START, Stopped(s)
  PROVE  Stopped(ProcessTick(s)) /\ ~ProcessTick(s).START
<1> DEFINE u == ShuffleCount(s)
           w == [u EXCEPT !.ppqn_counter = (s.ppqn_counter + 1) % PpqnWrap]
<1>1. u \in RamType /\ ~u.START /\ Stopped(u) BY ShuffleCountType, ShuffleCounts DEF Stopped
<1>2. ProcessTick(s) \in {StepMatch(u), w} BY DEF ProcessTick
<1> HIDE DEF u
<1>3. ~w.START /\ Stopped(w) BY <1>1 DEF Stopped, RamType
<1>4. ~StepMatch(u).START /\ Stopped(StepMatch(u)) BY <1>1, StepMatches DEF Stopped
<1> QED BY <1>2, <1>3, <1>4

\* process_tick keeps the order.
LEMMA TickInOrder ==
  ASSUME NEW s \in RamType, NEW p, NEW l, InOrder(s, p, l),
         s.next_step \/ p # "rest" => s.ppqn_counter + 1 < MinDivider
  PROVE  InOrder(ProcessTick(s), p, l)
BY TickStatic, TickRunning, TickStopped DEF InOrder
-----------------------------------------------------------------------------
(* The main loop *)

\* What TypeOK says of the history.
PlayedType == [part : Part, step : Length, last : Length]

\* process_step takes the flags of a step that is due.
LEMMA StepDueInOrder ==
  ASSUME NEW s \in RamType, NEW l, InOrder(s, "rest", l), NEW measure \in BOOLEAN,
         measure <=> s.new_measure /\ ~(s.next_step /\ s.START), NEW t,
         t = [s EXCEPT !.next_step = FALSE, !.new_measure = measure]
  PROVE  InOrder(t, IF ~(s.next_step /\ s.START) THEN "rest"
                    ELSE IF s.new_measure THEN "measure" ELSE "trigger", l)
<1>3. s.new_measure \in BOOLEAN /\ s.START \in BOOLEAN
  BY Fields DEF RamType
<1>4. /\ t.START = s.START /\ t.primed = s.primed /\ t.step_num = s.step_num
      /\ t.current_step = s.current_step /\ t.part_playing = s.part_playing
      /\ t.shuffle_amount = s.shuffle_amount /\ t.shuffle_ppqn_count = s.shuffle_ppqn_count
      /\ t.shuffle_step = s.shuffle_step /\ t.next_step = FALSE /\ t.new_measure = measure
      /\ t.ppqn_counter = s.ppqn_counter /\ t.divider = s.divider
      /\ t.new_shuffle_amount = s.new_shuffle_amount
      /\ t.step_num_new = s.step_num_new /\ t.part_editing = s.part_editing
      /\ t.mode_index = s.mode_index
  BY DEF RamType
<1>5. Scaled(t) /\ FirstHasSteps(t)
  BY <1>4 DEF InOrder, Scaled, FirstHasSteps, Mode
<1>6. CASE ~s.START
  <2>1. Stopped(s) BY <1>6 DEF InOrder
  <2>2. Stopped(t) BY <1>3, <1>4, <1>6, <2>1 DEF Stopped
  <2> QED BY <1>4, <1>5, <1>6, <2>2 DEF InOrder
<1>7. CASE s.START /\ ~s.next_step
  <2>1. Running(s, "rest", l) BY <1>7 DEF InOrder
  <2>2. measure <=> s.new_measure BY <1>3, <1>7
  <2>3. Timed(t, "rest") BY <1>4, <1>7, <2>1 DEF Running, Timed
  <2>4. Due(t) <=> Due(s) BY <1>4, <1>7 DEF Due
  <2>5. Placed(t, "rest", l)
    BY <1>4, <2>1, <2>2, <2>4 DEF Running, Placed, Ends, Follows, Turned, At, Ready
  <2>6. SecondSounds(t) BY <1>4, <2>1 DEF Running, SecondSounds
  <2> QED BY <1>4, <1>5, <1>7, <2>3, <2>5, <2>6 DEF InOrder, Running
<1>8. CASE s.START /\ s.next_step
  <2> DEFINE p == IF s.new_measure THEN "measure" ELSE "trigger"
  <2>1. Running(s, "rest", l) BY <1>8 DEF InOrder
  <2>2. Due(s) /\ ~s.shuffle_step /\ s.ppqn_counter < MinDivider
    BY <1>8, <2>1 DEF Running, Timed, Due
  <2>3. ~s.primed /\ IF s.new_measure THEN Ends(s, l) ELSE Follows(s, l)
    BY <2>1, <2>2 DEF Running, Placed
  <2>4. ~t.new_measure /\ ~t.primed /\ ~Due(t) BY <1>3, <1>4, <1>8, <2>2, <2>3 DEF Due
  <2>5. Timed(t, p) BY <1>4, <2>1, <2>2 DEF Running, Timed
  <2>6. (Ends(t, l) <=> Ends(s, l)) /\ (Follows(t, l) <=> Follows(s, l))
    BY <1>4 DEF Ends, Follows
  <2>7. Placed(t, p, l) BY <2>3, <2>4, <2>6 DEF Placed
  <2>8. SecondSounds(t) BY <1>4, <2>1 DEF Running, SecondSounds
  <2>9. InOrder(t, p, l) BY <1>4, <1>5, <1>8, <2>5, <2>7, <2>8 DEF InOrder, Running
  <2> QED BY <1>8, <2>9
<1> QED BY <1>6, <1>7, <1>8

\* process_new_measure: the edited length takes effect, the step counter starts again.
LEMMA MeasureInOrder ==
  ASSUME NEW s \in RamType, s.START, NEW l, InOrder(s, "measure", l)
  PROVE  InOrder(CloseMeasure(s), "load", l) /\ CloseMeasure(s).START
<1> DEFINE t == CloseMeasure(s)
           lengths == [s.step_num EXCEPT ![s.part_editing] = s.step_num_new]
<1>1. t = [s EXCEPT !.step_num = lengths, !.current_step = 0, !.pattern_edit = FALSE]
  BY DEF CloseMeasure
<1>2. s.step_num \in [Part -> Length] /\ s.part_editing \in Part /\ FIRST \in Part
  BY Fields DEF Part
<1>3. lengths[FIRST] # NO_STEPS BY <1>2 DEF InOrder, FirstHasSteps
<1> HIDE DEF t, lengths
<1>4. /\ t.START = s.START /\ t.primed = s.primed /\ t.step_num = lengths
      /\ t.current_step = 0 /\ t.part_playing = s.part_playing
      /\ t.shuffle_amount = s.shuffle_amount /\ t.shuffle_ppqn_count = s.shuffle_ppqn_count
      /\ t.shuffle_step = s.shuffle_step /\ t.next_step = s.next_step
      /\ t.new_measure = s.new_measure
      /\ t.ppqn_counter = s.ppqn_counter /\ t.divider = s.divider
      /\ t.new_shuffle_amount = s.new_shuffle_amount
      /\ t.step_num_new = s.step_num_new /\ t.part_editing = s.part_editing
      /\ t.mode_index = s.mode_index
  BY <1>1 DEF RamType
<1>5. Scaled(t) BY <1>4 DEF InOrder, Scaled
<1>6. FirstHasSteps(t) BY <1>3, <1>4 DEF InOrder, FirstHasSteps, Mode
<1>7. Running(s, "measure", l) BY DEF InOrder
<1>8. Timed(t, "load") BY <1>4, <1>7 DEF Running, Timed
<1>9. ~Due(s) /\ ~s.new_measure /\ ~s.primed /\ Ends(s, l) BY <1>7 DEF Running, Placed
<1>10. ~Due(t) /\ ~t.new_measure /\ ~t.primed BY <1>4, <1>9 DEF Due
<1>11. Ends(t, l) BY <1>4, <1>9 DEF Ends
<1>12. Placed(t, "load", l) BY <1>4, <1>10, <1>11 DEF Placed
<1> QED BY <1>4, <1>5, <1>6, <1>8, <1>12 DEF InOrder, Running, t

\* ... and the part or pattern that follows is loaded; the end of a rhythm track stops.
LEMMA LoadInOrder ==
  ASSUME NEW s \in RamType, s.START, NEW l, InOrder(s, "load", l), ShuffleFits,
         NEW a \in Stored, NEW b \in Stored, NEW c \in Stored
  PROVE  LET t == ApplyPreScale(TurnPart(s, a, b, c))
         IN  InOrder(t, IF t.START THEN "trigger" ELSE "rest", l)
<1> DEFINE t == ApplyPreScale(TurnPart(s, a, b, c))
<1>1. Scaled(s) /\ FirstHasSteps(s) /\ Running(s, "load", l) BY DEF InOrder
<1>2. /\ Scaled(t) /\ FirstHasSteps(t) /\ SecondSounds(t)
      /\ t.primed = s.primed /\ t.current_step = s.current_step
      /\ t.shuffle_step = s.shuffle_step /\ t.next_step = s.next_step
      /\ t.new_measure = s.new_measure /\ t.ppqn_counter = s.ppqn_counter
      /\ (t.part_playing = SECOND => s.part_playing = FIRST /\ t.START = s.START)
  BY <1>1, LoadPlaces
<1>3. t \in RamType BY TurnPartType, ApplyPreScaleType
<1>4. t.part_playing \in {FIRST, SECOND} BY <1>3, Fields DEF Part
<1>5. FIRST # SECOND BY DEF FIRST, SECOND
<1> HIDE DEF t
<1>6. /\ ~Due(s) /\ ~s.new_measure /\ ~s.primed /\ Ends(s, l) /\ s.current_step = 0
  BY <1>1 DEF Running, Placed
<1>7. ASSUME t.START PROVE InOrder(t, "trigger", l)
  <2>1. s.ppqn_counter < MinDivider /\ ~s.shuffle_step BY <1>1 DEF Running, Timed
  <2>2. /\ MinDivider <= t.divider /\ t.divider \in Nat /\ MinDivider \in Nat
        /\ t.ppqn_counter \in Nat
    BY <1>2, <1>3, ScaledDivider, Fields, SizeAssumption
  <2>3. Timed(t, "trigger") BY <1>2, <2>1, <2>2 DEF Timed
  <2>4. ~Due(t) /\ ~t.new_measure /\ ~t.primed BY <1>2, <1>6 DEF Due
  <2>5. Turned(t, l) BY <1>2, <1>4, <1>5, <1>6 DEF Turned, Ends
  <2>6. Placed(t, "trigger", l) BY <2>4, <2>5 DEF Placed
  <2> QED BY <1>2, <1>7, <2>3, <2>6 DEF InOrder, Running
<1>8. ASSUME ~t.START PROVE InOrder(t, "rest", l)
  <2>1. Stopped(t) BY <1>2, <1>4, <1>6, <1>8 DEF Stopped
  <2> QED BY <1>2, <1>8, <2>1 DEF InOrder
<1> QED BY <1>7, <1>8 DEF t

\* Hitting the tap switch while running is no concern of the order.
LEMMA TapRunningSame ==
  ASSUME NEW s \in RamType
  PROVE  Same(s, TapRunning(s))
<1> DEFINE tap  == s.tap /\ TrackMode(s)
           edit == s.pattern_edit \/ (s.tap /\ PartMode(s))
           fill == s.fill \/ (s.tap /\ Mode(s) = "MANUAL_PLAY" /\ FillEvery(s) = MANUAL)
<1>1. TapRunning(s) = [s EXCEPT !.tap = tap, !.pattern_edit = edit, !.fill = fill]
  BY DEF TapRunning
<1> HIDE DEF tap, edit, fill
<1> QED BY <1>1 DEF Same, Steady, RamType

\* The step that sounds: the place the player is at from then on.
Sounding(s) ==
  [part |-> s.part_playing, step |-> s.current_step, last |-> s.step_num[s.part_playing]]

\* A step that sounds begins the pattern, advances in the part, or begins the next part.
LEMMA TriggerPlaces ==
  ASSUME NEW s \in RamType, s.START, NEW l \in PlayedType, InOrder(s, "trigger", l)
  PROVE  /\ s.step_num[s.part_playing] # NO_STEPS /\ s.step_num[s.part_playing] \in Step
         /\ s.current_step <= s.step_num[s.part_playing]
         /\ Follows(s, l) \/ Turned(s, l)
<1>1. /\ s.part_playing \in {FIRST, SECOND} /\ s.current_step \in Step
      /\ s.step_num[s.part_playing] \in Length
  BY Fields DEF Part
<1>2. FirstHasSteps(s) /\ Running(s, "trigger", l) BY DEF InOrder
<1>3. SecondSounds(s) /\ (Follows(s, l) \/ Turned(s, l)) BY <1>2 DEF Running, Placed
<1>4. s.step_num[s.part_playing] # NO_STEPS BY <1>1, <1>2, <1>3 DEF FirstHasSteps, SecondSounds
<1>5. s.step_num[s.part_playing] \in Step
  BY <1>1, <1>4, SizeAssumption DEF Length, Step, NO_STEPS
<1>6. s.current_step <= s.step_num[s.part_playing]
  <2>1. CASE s.current_step = 0 BY <1>1, <2>1, SizeAssumption DEF Length
  <2>2. CASE s.current_step # 0
    <3>1. l.last = s.step_num[s.part_playing] /\ l.step < l.last /\ s.current_step = l.step + 1
      BY <1>3, <2>2 DEF Follows, Turned
    <3>2. l.step \in Length /\ l.last \in Length BY DEF PlayedType
    <3> QED BY <3>1, <3>2, SizeAssumption DEF Length
  <2> QED BY <2>1, <2>2
<1> QED BY <1>3, <1>4, <1>5, <1>6

\* process_step's end, the trigger, keeps the invariant.
LEMMA TriggerInOrder ==
  ASSUME NEW s \in RamType, s.START, NEW l \in PlayedType, InOrder(s, "trigger", l)
  PROVE  InOrder(TapRunning(s), "rest", Sounding(s))
<1>1. Running(s, "trigger", l) BY DEF InOrder
<1>2. At(s, Sounding(s)) BY TriggerPlaces DEF At, Sounding
<1>3. ~Due(s) /\ ~s.new_measure /\ ~s.primed BY <1>1 DEF Running, Placed
<1>4. Placed(s, "rest", Sounding(s)) BY <1>2, <1>3 DEF Placed
<1>5. Timed(s, "rest") BY <1>1, <1>3 DEF Running, Timed, Due
<1>6. InOrder(s, "rest", Sounding(s)) BY <1>1, <1>4, <1>5 DEF InOrder, Running
<1> QED BY <1>6, TapRunningSame, SameInOrder
-----------------------------------------------------------------------------
(* The front panel *)

\* A step of the stopped machine that it stays stopped after.
Idles(s, t) ==
  /\ ~t.START /\ (Stopped(s) => Stopped(t))
  /\ (Scaled(s) /\ FirstHasSteps(s) => Scaled(t) /\ FirstHasSteps(t))

\* What is done while the machine stands still keeps the invariant.
LEMMA IdlesInOrder ==
  ASSUME NEW s, NEW t, NEW p, NEW q, NEW l, ~s.START, InOrder(s, p, l), Idles(s, t)
  PROVE  InOrder(t, q, l)
BY DEF InOrder, Idles

\* A change between measures of a stopped machine is one of these.
LEMMA TurnsIdles ==
  ASSUME NEW s, NEW t, Turns(s, t), ~t.START
  PROVE  Idles(s, t)
BY DEF Turns, Idles, Stopped

\* The pass over the panel ends with check_tap of the stopped machine.
LEMMA TapStoppedTurns ==
  ASSUME NEW s \in RamType, ShuffleFits, NEW d \in Stored
  PROVE  /\ s.START => TapStopped(s, d) = s
         /\ ~s.START => Turns(s, TapStopped(s, d)) /\ ~TapStopped(s, d).START
<1> DEFINE r == ReadNextPattern(s, d)
           next    == IF s.intro THEN r.new_pattern ELSE s.current_pattern
           current == IF s.intro THEN s.new_pattern ELSE s.current_intro_fill
           t == [r EXCEPT !.tap = FALSE, !.intro = ~r.intro,
                          !.new_pattern = next, !.current_pattern = current]
<1>1. r \in RamType /\ Turns(s, r) /\ r.START = s.START BY ReadType, ReadTurns
<1>2. TapStopped(s, d) \in {s, t} /\ (s.START => TapStopped(s, d) = s) BY DEF TapStopped
<1> HIDE DEF r, next, current
<1>3. Turns(r, t) /\ t.START = r.START
  BY <1>1 DEF Turns, Scaled, FirstHasSteps, Mode, RamType
<1>4. Turns(s, t) /\ t.START = s.START BY <1>1, <1>3, TurnsTransitive
<1>5. Turns(s, s) BY DEF Turns
<1> HIDE DEF t
<1> QED BY <1>2, <1>4, <1>5

\* A handler that does so may serve START and STOP first.
LEMMA ServeInOrder ==
  ASSUME NEW s \in RamType, NEW l, InOrder(s, "rest", l), ShuffleFits, Serve(s), played' = l
  PROVE  OrderInv'
<1>1. PICK d \in Stored : ram' = TapStopped(s, d) BY DEF Serve
<1>2. pc' = "step" BY DEF Serve
<1>3. Phase(pc') = "rest" BY <1>2 DEF Phase
<1>4. CASE s.START
  <2>1. ram' = s BY <1>1, <1>4, TapStoppedTurns
  <2> QED BY <1>3, <2>1 DEF OrderInv
<1>5. CASE ~s.START
  <2>1. Idles(s, ram') BY <1>1, <1>5, TapStoppedTurns, TurnsIdles
  <2>2. InOrder(ram', "rest", l) BY <1>5, <2>1, IdlesInOrder
  <2> QED BY <1>3, <2>2 DEF OrderInv
<1> QED BY <1>4, <1>5

\* Most gestures change neither where the player is nor the lengths of the parts.
LEMMA PanelSame ==
  ASSUME NEW s \in RamType, NEW press \in Pattern
  PROVE  /\ Same(s, UpdatePrescale(s)) /\ Same(s, CheckFillSwitch(s))
         /\ Same(s, ChooseNext(s, press))
<1>1. Same(s, UpdatePrescale(s)) BY DEF UpdatePrescale, Same, Steady, RamType
<1>2. Same(s, CheckFillSwitch(s)) BY DEF CheckFillSwitch, Same, Steady, RamType
<1>3. Same(s, ChooseNext(s, press))
  <2> DEFINE change == s.pattern_change \/ press # s.current_pattern
             t == [s EXCEPT !.new_pattern = press, !.previous_pattern = press,
                            !.pattern_change = change]
             f == [s EXCEPT !.current_intro_fill = press]
  <2>1. ChooseNext(s, press) \in {s, t, f} BY DEF ChooseNext
  <2> HIDE DEF change
  <2>2. Same(s, s) /\ Same(s, t) /\ Same(s, f) BY DEF Same, Steady, RamType
  <2> HIDE DEF t, f
  <2> QED BY <2>1, <2>2
<1> QED BY <1>1, <1>2, <1>3

\* VARIATION leaves clock and player alone.
LEMMA VariationSame ==
  ASSUME NEW s \in RamType, NEW shift \in BOOLEAN
  PROVE  Same(s, CheckVariationSwitch(s, shift))
<1> DEFINE mode == IF s.variation_mode = VAR_AB THEN IF shift THEN VAR_B ELSE VAR_A
                   ELSE IF shift THEN VAR_AB
                   ELSE 1 - s.variation_mode
           change == s.variation_change \/ (s.START /\ ~(s.variation_mode = VAR_A /\ shift))
           variation == IF s.START \/ mode = VAR_AB THEN s.current_variation ELSE mode
<1>1. CheckVariationSwitch(s, shift) =
        [s EXCEPT !.variation_mode = mode, !.variation_change = change,
                  !.current_variation = variation]
  BY DEF CheckVariationSwitch
<1> HIDE DEF mode, change, variation
<1> QED BY <1>1 DEF Same, Steady, RamType

\* Two such steps are one.
LEMMA SameTransitive ==
  ASSUME NEW s, NEW t, NEW u, Same(s, t), Same(t, u)
  PROVE  Same(s, u)
BY DEF Same, Steady

\* So does a program change.
LEMMA ProgramSame ==
  ASSUME NEW s \in RamType, NEW press \in Pattern, NEW bank \in BOOLEAN
  PROVE  Same(s, ProgramChange(s, press, bank))
<1> DEFINE change == s.pattern_change \/ bank
           banked == [s EXCEPT !.pattern_change = change]
           t == [banked EXCEPT !.new_pattern = press, !.previous_pattern = press]
<1>1. change \in BOOLEAN BY BoolType
<1>2. ProgramChange(s, press, bank) \in {ChooseNext(banked, press), t} BY DEF ProgramChange
<1> HIDE DEF change
<1>3. banked \in RamType BY <1>1, ZenonT(60) DEF RamType
<1>4. Same(s, banked) BY DEF Same, Steady, RamType
<1> HIDE DEF banked
<1>5. Same(banked, ChooseNext(banked, press)) BY <1>3, PanelSame
<1>6. Same(banked, t) BY <1>3 DEF Same, Steady, RamType
<1> HIDE DEF t
<1> QED BY <1>2, <1>4, <1>5, <1>6, SameTransitive

\* A new shuffle amount waits for the next step; those of the panel fit.
LEMMA ShuffleSteady ==
  ASSUME NEW s \in RamType, ShuffleFits, NEW amount \in 0..(ShuffleMax - 1), Scaled(s),
         FirstHasSteps(s)
  PROVE  /\ Steady(s, UpdateShuffle(s, amount))
         /\ Scaled(UpdateShuffle(s, amount)) /\ FirstHasSteps(UpdateShuffle(s, amount))
<1> DEFINE edit == s.pattern_edit \/ PartMode(s)
           t == UpdateShuffle(s, amount)
<1>1. t = [s EXCEPT !.new_shuffle_amount = amount, !.shuffle_change = TRUE,
                    !.pattern_edit = edit]
  BY DEF UpdateShuffle
<1> HIDE DEF edit, t
<1>2. /\ t.divider = s.divider /\ t.shuffle_amount = s.shuffle_amount
      /\ t.new_shuffle_amount = amount /\ t.step_num = s.step_num
      /\ t.step_num_new = s.step_num_new /\ t.part_editing = s.part_editing
      /\ t.mode_index = s.mode_index
  BY <1>1 DEF RamType
<1>3. Scaled(t) BY <1>2 DEF Scaled, ShuffleFits
<1>4. FirstHasSteps(t) BY <1>2 DEF FirstHasSteps, Mode
<1>5. Steady(s, t) BY <1>1 DEF Steady, RamType
<1> QED BY <1>3, <1>4, <1>5 DEF t

\* A new length waits for the next measure; only the second part can be set to none.
LEMMA LengthSteady ==
  ASSUME NEW s \in RamType, NEW press \in Step, Scaled(s), FirstHasSteps(s)
  PROVE  /\ Steady(s, SetLength(s, press))
         /\ Scaled(SetLength(s, press)) /\ FirstHasSteps(SetLength(s, press))
<1> DEFINE null == press = 0 /\ s.step_num_new = 0 /\ Mode(s) = "SECOND_PART"
           new  == IF null THEN NO_STEPS ELSE press
           edit == s.pattern_edit \/ null \/ new # s.step_num[s.part_editing]
           t == SetLength(s, press)
<1>1. t = [s EXCEPT !.step_num_new = new, !.pattern_edit = edit]
  BY DEF SetLength
<1>2. new = NO_STEPS => Mode(s) = "SECOND_PART"
  BY SizeAssumption DEF Step, NO_STEPS
<1> HIDE DEF null, new, edit, t
<1>3. /\ t.divider = s.divider /\ t.shuffle_amount = s.shuffle_amount
      /\ t.new_shuffle_amount = s.new_shuffle_amount /\ t.step_num = s.step_num
      /\ t.step_num_new = new /\ t.part_editing = s.part_editing
      /\ t.mode_index = s.mode_index
  BY <1>1 DEF RamType
<1>4. Scaled(t) BY <1>3 DEF Scaled
<1>5. FirstHasSteps(t) BY <1>2, <1>3 DEF FirstHasSteps, Mode, FIRST, SECOND
<1>6. Steady(s, t) BY <1>1 DEF Steady, RamType
<1> QED BY <1>4, <1>5, <1>6 DEF t
\* What FirstHasSteps says of the lengths: between the switch and the entry of a mode.
LengthsFit(s) ==
  s.step_num[FIRST] # NO_STEPS /\ (s.part_editing = FIRST => s.step_num_new # NO_STEPS)

\* read_next_pattern and update_rhythm_track on entry of a mode that edits no part.
LEMMA EnterTrackIdles ==
  ASSUME NEW s \in RamType, ~PartMode(s), LengthsFit(s), Scaled(s), Stopped(s), ~s.START,
         ShuffleFits, NEW d \in Stored, NEW t \in {s, EnterManualPlay(s), UpdateRhythmTrack(s, d)}
  PROVE  Scaled(t) /\ FirstHasSteps(t) /\ Stopped(t) /\ ~t.START
<1>1. FirstHasSteps(s) BY DEF FirstHasSteps, LengthsFit, PartMode
<1>2. CASE t = s BY <1>1, <1>2
<1>3. CASE t = EnterManualPlay(s)
  <2> DEFINE u == [s EXCEPT !.previous_pattern = s.current_pattern,
                            !.new_pattern = NumBasic - 1, !.pattern_change = TRUE]
  <2>1. EnterManualPlay(s) \in {s, u} BY DEF EnterManualPlay
  <2>2. Same(s, u) BY DEF Same, Steady, RamType
  <2> HIDE DEF u
  <2>3. Turns(s, u) /\ u.START = s.START BY <2>2, SameTurns DEF Same, Steady
  <2>4. Scaled(u) /\ FirstHasSteps(u) /\ Stopped(u) /\ ~u.START
    BY <1>1, <2>3 DEF Turns, Stopped
  <2> QED BY <1>1, <1>3, <2>1, <2>4
<1>4. CASE t = UpdateRhythmTrack(s, d)
  <2> DEFINE u == [s EXCEPT !.track_measure = 0, !.current_pattern = Track[1],
                            !.new_pattern = Track[1], !.pattern_change = TRUE]
  <2>1. t = ReadNextPattern(u, d) BY <1>4 DEF UpdateRhythmTrack
  <2>2. u \in RamType
    <3>1. 0 \in 0..(Len(Track) - 1) BY TrackBegins
    <3> QED BY <3>1, TrackBegins, ZenonT(60) DEF RamType
  <2>3. Same(s, u) BY DEF Same, Steady, RamType
  <2> HIDE DEF u
  <2>4. Turns(s, u) /\ u.START = s.START BY <2>3, SameTurns DEF Same, Steady
  <2>5. Turns(u, t) /\ t.START = u.START BY <2>1, <2>2, ReadTurns
  <2>6. Turns(s, t) /\ t.START = s.START BY <2>4, <2>5, TurnsTransitive
  <2> QED BY <1>1, <2>6 DEF Turns, Stopped
<1> QED BY <1>2, <1>3, <1>4

\* The entry of a part mode makes its part the one that is edited.
LEMMA EnterPartIdles ==
  ASSUME NEW s \in RamType, PartMode(s), LengthsFit(s), Scaled(s), Stopped(s), ~s.START,
         ShuffleFits, NEW d \in Stored
  PROVE  LET t == EnterPartMode(s, d)
         IN  Scaled(t) /\ FirstHasSteps(t) /\ Stopped(t) /\ ~t.START
<1> DEFINE home == [s EXCEPT !.current_pattern = s.previous_pattern,
                             !.new_pattern = s.previous_pattern]
           read == IF s.pattern_edit THEN home ELSE ReadNextPattern(home, d)
           part == IF Mode(s) = "FIRST_PART" THEN FIRST ELSE SECOND
           length == read.step_num[part]
           t == [read EXCEPT !.part_editing = part, !.step_num_new = length]
<1>1. EnterPartMode(s, d) = t BY DEF EnterPartMode
<1>2. home \in RamType BY ZenonT(60) DEF RamType
<1>3. Same(s, home) BY DEF Same, Steady, RamType
<1> HIDE DEF home
<1>4. d.step_num[FIRST] # NO_STEPS /\ d.pre_scale \in DOMAIN PreScale
  BY TableAssumption DEF PatternData
<1>5. LET r == ReadNextPattern(home, d)
      IN  /\ r.divider = PreScale[d.pre_scale] /\ r.shuffle_amount = home.shuffle_amount
          /\ r.new_shuffle_amount = d.shuffle /\ r.step_num = d.step_num
          /\ r.START = home.START /\ r.new_measure = home.new_measure
          /\ r.part_playing = home.part_playing /\ r.mode_index = home.mode_index
  BY <1>2 DEF ReadNextPattern, RamType
<1>6. /\ Scaled(read) /\ read.step_num[FIRST] # NO_STEPS /\ ~read.START
      /\ Stopped(read) /\ Mode(read) = Mode(s)
  <2>1. CASE s.pattern_edit
    BY <1>3, <2>1 DEF Same, Steady, Scaled, Stopped, LengthsFit, Mode
  <2>2. CASE ~s.pattern_edit
    <3> DEFINE r == ReadNextPattern(home, d)
    <3>1. read = r BY <2>2
    <3>2. /\ r.divider = PreScale[d.pre_scale] /\ r.shuffle_amount = s.shuffle_amount
          /\ r.new_shuffle_amount = d.shuffle /\ r.step_num = d.step_num
          /\ r.START = s.START /\ r.new_measure = s.new_measure
          /\ r.part_playing = s.part_playing /\ r.mode_index = s.mode_index
      BY <1>3, <1>5 DEF Same, Steady
    <3> HIDE DEF r, read
    <3>3. Scaled(r) BY <1>4, <3>2 DEF Scaled, ShuffleFits
    <3>4. r.step_num[FIRST] # NO_STEPS /\ ~r.START /\ Stopped(r) /\ Mode(r) = Mode(s)
      BY <1>4, <3>2 DEF Stopped, Mode
    <3> QED BY <3>1, <3>3, <3>4
  <2> QED BY <2>1, <2>2
<1>7. read \in RamType BY <1>2, ReadType
<1> HIDE DEF read
<1>8. part = FIRST => length # NO_STEPS BY <1>6
<1>9. (Mode(s) = "FIRST_PART" => part = FIRST) /\ (Mode(s) = "SECOND_PART" => part = SECOND)
  OBVIOUS
<1> HIDE DEF part, length
<1>10. /\ t.START = read.START /\ t.new_measure = read.new_measure
       /\ t.part_playing = read.part_playing /\ t.mode_index = read.mode_index
       /\ t.divider = read.divider /\ t.shuffle_amount = read.shuffle_amount
       /\ t.new_shuffle_amount = read.new_shuffle_amount /\ t.step_num = read.step_num
       /\ t.part_editing = part /\ t.step_num_new = length
  BY <1>7 DEF RamType
<1> HIDE DEF t
<1>11. Scaled(t) BY <1>6, <1>10 DEF Scaled
<1>12. Mode(t) = Mode(s) BY <1>6, <1>10 DEF Mode
<1>13. FirstHasSteps(t) BY <1>6, <1>8, <1>9, <1>10, <1>12 DEF FirstHasSteps
<1>14. Stopped(t) /\ ~t.START BY <1>6, <1>10 DEF Stopped
<1> QED BY <1>1, <1>11, <1>13, <1>14

\* The mode switch of the stopped machine; the copy of a second part has steps.
LEMMA ModeIdles ==
  ASSUME NEW s \in RamType, ~s.START, Stopped(s), Scaled(s), FirstHasSteps(s), ShuffleFits,
         NEW shift \in BOOLEAN, NEW alt \in BOOLEAN, NEW d \in Stored,
         alt /\ shift => s.step_num[SECOND] # NO_STEPS
  PROVE  Idles(s, CheckModeSwitch(s, shift, alt, d))
<1> DEFINE from   == IF shift THEN "SECOND_PART" ELSE "FIRST_PART"
           source == IF shift THEN SECOND ELSE FIRST
           copied == IF alt /\ Mode(s) = from THEN CopyPart(s, source) ELSE s
           index  == (copied.mode_index + IF shift THEN Len(ModeOrder) - 1 ELSE 1)
                       % Len(ModeOrder)
           u      == [copied EXCEPT !.mode_index = index]
           t      == CheckModeSwitch(s, shift, alt, d)
<1>1. t = SetMode(u, d) BY DEF CheckModeSwitch
<1>2. copied \in RamType /\ source \in Part BY CopyPartType DEF Part
<1>3. LengthsFit(copied) /\ Scaled(copied) /\ Stopped(copied) /\ ~copied.START
  <2>1. CASE copied = s BY <2>1 DEF LengthsFit, FirstHasSteps
  <2>2. CASE alt /\ Mode(s) = from /\ copied = CopyPart(s, source)
    <3> DEFINE lengths == [s.step_num EXCEPT ![1 - source] = s.step_num[source]]
               c == [s EXCEPT !.step_num = lengths, !.pattern_edit = TRUE]
    <3>1. CopyPart(s, source) = c BY DEF CopyPart
    <3>2. s.step_num \in [Part -> Length] /\ s.step_num[FIRST] # NO_STEPS
      BY DEF RamType, FirstHasSteps
    <3>3. lengths[FIRST] # NO_STEPS
      <4>1. CASE shift BY <2>2, <3>2, <4>1 DEF Part, FIRST, SECOND
      <4>2. CASE ~shift BY <3>2, <4>2 DEF Part, FIRST, SECOND
      <4> QED BY <4>1, <4>2
    <3> HIDE DEF lengths
    <3>4. /\ c.step_num = lengths /\ c.part_editing = s.part_editing
          /\ c.step_num_new = s.step_num_new /\ c.divider = s.divider
          /\ c.shuffle_amount = s.shuffle_amount /\ c.START = s.START
          /\ c.new_shuffle_amount = s.new_shuffle_amount
          /\ c.new_measure = s.new_measure /\ c.part_playing = s.part_playing
      BY DEF RamType
    <3> HIDE DEF c
    <3>5. LengthsFit(c) BY <3>3, <3>4 DEF LengthsFit, FirstHasSteps
    <3>6. Scaled(c) /\ Stopped(c) /\ ~c.START BY <3>4 DEF Scaled, Stopped
    <3>7. copied = c BY <2>2, <3>1
    <3> HIDE DEF copied
    <3> QED BY <3>5, <3>6, <3>7
  <2> QED BY <2>1, <2>2
<1>4. index \in 0..(Len(ModeOrder) - 1)
  <2> HIDE DEF copied
  <2>1. copied.mode_index \in Nat BY <1>2, Fields
  <2>2. Len(ModeOrder) = 6 BY DEF ModeOrder
  <2> QED BY <2>1, <2>2
<1> HIDE DEF copied, index
<1>5. u \in RamType BY <1>2, <1>4, ZenonT(60) DEF RamType
<1>6. LengthsFit(u) /\ Scaled(u) /\ Stopped(u) /\ ~u.START
  BY <1>2, <1>3 DEF LengthsFit, Scaled, Stopped, RamType
<1> HIDE DEF u, t
<1>7. CASE PartMode(u)
  <2>1. t = EnterPartMode(u, d) BY <1>1, <1>7 DEF SetMode
  <2> QED BY <1>5, <1>6, <1>7, <2>1, EnterPartIdles DEF Idles, t
<1>8. CASE ~PartMode(u)
  <2>1. t \in {u, EnterManualPlay(u), UpdateRhythmTrack(u, d)} BY <1>1, <1>8 DEF SetMode
  <2> QED BY <1>5, <1>6, <1>8, <2>1, EnterTrackIdles DEF Idles, t
<1> QED BY <1>7, <1>8

\* PATTERN CLEAR leaves a first part of all steps.
LEMMA ClearIdles ==
  ASSUME NEW s \in RamType, ~s.START, Mode(s) = "PATTERN_CLEAR"
  PROVE  Idles(s, ClearPattern(s))
<1> DEFINE lengths == [p \in Part |-> IF p = FIRST THEN NumSteps - 1 ELSE NO_STEPS]
           divider == PreScale[DefaultPreScale]
           t == ClearPattern(s)
<1>1. t = [s EXCEPT !.step_num = lengths, !.pre_scale = DefaultPreScale, !.divider = divider]
  BY DEF ClearPattern
<1>2. lengths[FIRST] # NO_STEPS BY SizeAssumption DEF Part, NO_STEPS
<1>3. \E i \in DOMAIN PreScale : divider = PreScale[i] BY TableAssumption
<1> HIDE DEF lengths, divider, t
<1>4. /\ t.START = s.START /\ t.new_measure = s.new_measure
      /\ t.part_playing = s.part_playing /\ t.mode_index = s.mode_index
      /\ t.divider = divider /\ t.shuffle_amount = s.shuffle_amount
      /\ t.new_shuffle_amount = s.new_shuffle_amount /\ t.step_num = lengths
      /\ t.part_editing = s.part_editing /\ t.step_num_new = s.step_num_new
  BY <1>1 DEF RamType
<1>5. Scaled(s) => Scaled(t) BY <1>3, <1>4 DEF Scaled
<1>6. FirstHasSteps(s) => FirstHasSteps(t) BY <1>2, <1>4 DEF FirstHasSteps, Mode
<1> QED BY <1>4, <1>5, <1>6 DEF Idles, Stopped, t

\* Choosing a pattern or a bank while stopped rewinds to its first step.
LEMMA ChooseIdles ==
  ASSUME NEW s \in RamType, ~s.START, NEW press \in Pattern, NEW copy \in BOOLEAN,
         NEW d \in Stored, ShuffleFits
  PROVE  Idles(s, ChooseStopped(s, press, copy, d)) /\ Idles(s, ChooseBankStopped(s, d))
<1> DEFINE r == IF copy THEN s ELSE ReadNextPattern(s, d)
           t == [r EXCEPT
                  !.current_pattern = press, !.new_pattern = press, !.previous_pattern = press,
                  !.part_playing = FIRST, !.current_step = 0, !.ppqn_counter = 0]
           f == [s EXCEPT !.current_intro_fill = press]
           edit == s.pattern_edit /\ Mode(s) \in {"MANUAL_PLAY", "COMPOSE_RHYTHM"}
           e == [s EXCEPT !.pattern_edit = edit]
<1>1. ChooseStopped(s, press, copy, d) \in {f, t} BY DEF ChooseStopped
<1>2. ChooseBankStopped(s, d) = ReadNextPattern(e, d) BY DEF ChooseBankStopped
<1>3. r \in RamType /\ Turns(s, r) /\ r.START = s.START
  BY ReadType, ReadTurns DEF Turns
<1>4. edit \in BOOLEAN BY BoolType
<1> HIDE DEF r, edit
<1>5. ~t.START /\ t.part_playing = FIRST /\ t.new_measure = r.new_measure
  BY <1>3 DEF RamType
<1>6. Scaled(r) /\ FirstHasSteps(r) => Scaled(t) /\ FirstHasSteps(t)
  BY <1>3 DEF Scaled, FirstHasSteps, Mode, RamType
<1> HIDE DEF t
<1>7. Idles(s, t) BY <1>3, <1>5, <1>6 DEF Idles, Turns, Stopped
<1>8. Same(s, f) /\ Same(s, e) /\ e \in RamType BY <1>4, ZenonT(60) DEF Same, Steady, RamType
<1> HIDE DEF f, e
<1>9. Idles(s, f) BY <1>8, SameTurns, TurnsIdles DEF Same, Steady
<1>10. Turns(s, e) /\ ~e.START BY <1>8, SameTurns DEF Same, Steady
<1>11. Turns(e, ReadNextPattern(e, d)) /\ ~ReadNextPattern(e, d).START
  BY <1>8, <1>10, ReadTurns
<1>12. Idles(s, ReadNextPattern(e, d)) BY <1>10, <1>11, TurnsTransitive, TurnsIdles
<1> QED BY <1>1, <1>2, <1>7, <1>9, <1>12
\* process_start primes the machine: the next pulse ends a part that has not begun.
LEMMA PrimeReady ==
  ASSUME NEW s \in RamType, s.START, NEW shift \in BOOLEAN, Scaled(s), FirstHasSteps(s),
         ~s.new_measure, ~Due(s)
  PROVE  InOrder(Prime(s, shift), "rest", Silent) /\ Prime(s, shift) \in RamType
<1> DEFINE measure == IF Mode(s) = "COMPOSE_RHYTHM" THEN s.track_measure ELSE 0
           loop    == s.track_loop \/ (Mode(s) = "PLAY_RHYTHM" /\ shift)
           step    == s.step_num[FIRST] % NumSteps
           count   == s.divider - 1
           variation == IF s.variation_mode = VAR_B THEN VAR_B ELSE VAR_A
           t == Prime(s, shift)
<1>1. t = [s EXCEPT
            !.part_playing = FIRST, !.track_measure = measure, !.track_loop = loop,
            !.current_step = step, !.ppqn_counter = count, !.primed = TRUE,
            !.variation_change = FALSE, !.current_variation = variation]
  BY DEF Prime
<1>2. s.step_num[FIRST] \in Length /\ s.step_num[FIRST] # NO_STEPS
  BY Fields DEF FirstHasSteps
<1>3. step = s.step_num[FIRST] BY <1>2, SizeAssumption DEF Length, NO_STEPS
<1>4. count < s.divider /\ s.divider \in Nat BY Fields, SizeAssumption
<1>5. t \in RamType BY PrimeType
<1> HIDE DEF measure, loop, step, count, variation, t
<1>6. /\ t.START = s.START /\ t.primed = TRUE /\ t.step_num = s.step_num
      /\ t.current_step = step /\ t.part_playing = FIRST
      /\ t.shuffle_amount = s.shuffle_amount
      /\ t.shuffle_step = s.shuffle_step /\ t.next_step = s.next_step
      /\ t.new_measure = s.new_measure
      /\ t.ppqn_counter = count /\ t.divider = s.divider
      /\ t.new_shuffle_amount = s.new_shuffle_amount
      /\ t.step_num_new = s.step_num_new /\ t.part_editing = s.part_editing
      /\ t.mode_index = s.mode_index
  BY <1>1 DEF RamType
<1>7. Scaled(t) BY <1>6 DEF Scaled
<1>8. FirstHasSteps(t) BY <1>6 DEF FirstHasSteps, Mode
<1>9. ~Due(t) /\ ~t.new_measure BY <1>6 DEF Due
<1>10. Timed(t, "rest") BY <1>4, <1>6, <1>9 DEF Timed, Due
<1>11. Ready(t, Silent) BY <1>3, <1>6 DEF Ready
<1>12. Placed(t, "rest", Silent) BY <1>6, <1>9, <1>11 DEF Placed
<1>13. SecondSounds(t) BY <1>6 DEF SecondSounds, FIRST, SECOND
<1> QED BY <1>5, <1>6, <1>7, <1>8, <1>10, <1>12, <1>13 DEF InOrder, Running, t

\* START leaves the machine primed for the downbeat.
LEMMA StartReady ==
  ASSUME NEW s \in RamType, s.START, NEW shift \in BOOLEAN, Scaled(s), FirstHasSteps(s),
         ~s.new_measure, ~Due(s)
  PROVE  InOrder(ProcessStart(s, shift), "rest", Silent)
<1> DEFINE p == Prime(s, shift)
           variation == IF p.intro THEN p.intro_fill_var ELSE p.current_variation
           change == p.pattern_change \/ p.intro
           c == [p EXCEPT !.intro = FALSE, !.current_variation = variation,
                          !.pattern_change = change]
<1>1. InOrder(p, "rest", Silent) /\ p \in RamType BY PrimeReady
<1>2. ProcessStart(s, shift) \in {p, CountAutoFill(c)} BY DEF ProcessStart, CueIntro
<1>3. c \in RamType BY <1>1, CueIntroType DEF CueIntro
<1> HIDE DEF p, variation, change
<1>4. Same(p, c) BY <1>1 DEF Same, Steady, RamType
<1> HIDE DEF c
<1>5. Same(c, CountAutoFill(c)) BY <1>3 DEF Same, Steady, CountAutoFill, RamType
<1>6. InOrder(CountAutoFill(c), "rest", Silent)
  BY <1>1, <1>4, <1>5, SameTransitive, SameInOrder
<1> QED BY <1>1, <1>2, <1>6

\* Every gesture keeps the order.
LEMMA PanelInOrder ==
  ASSUME IInv, OrderInv, Orderly, ShuffleFits, Panel
  PROVE  OrderInv'
<1>1. ram \in RamType BY DEF IInv, TypeOK
<1>2. pc = "scan" BY DEF Panel, Idle, Start, Stop, Tap, ModeSwitch, FillSwitch, ClearSwitch,
    IntroFillVarSwitch, VariationSwitch, PrescaleSwitch, ShuffleSwitch, LengthSwitch, StepSwitch,
    PatternSwitch, BankSwitch, Program, Serve
<1>3. InOrder(ram, "rest", played) BY <1>2 DEF OrderInv, Phase
<1>4. Scaled(ram) /\ FirstHasSteps(ram) BY <1>3 DEF InOrder
<1>5. ASSUME NEW s \in RamType, Same(ram, s), Serve(s), played' = played PROVE OrderInv'
  BY <1>3, <1>5, SameInOrder, ServeInOrder
<1>6. ASSUME NEW s \in RamType, ~ram.START, Idles(ram, s), Serve(s), played' = played
      PROVE  OrderInv'
  BY <1>3, <1>6, IdlesInOrder, ServeInOrder
<1>7. ASSUME NEW s \in RamType, Steady(ram, s), Scaled(s), FirstHasSteps(s), Serve(s),
             played' = played
      PROVE  OrderInv'
  BY <1>3, <1>7, SteadyInOrder, ServeInOrder
<1>8. Choices \subseteq Pattern BY TableAssumption DEF Choices
<1>9. CASE Idle
  BY <1>1, <1>5, <1>9 DEF Idle, Same, Steady
<1>10. CASE Start
  <2> DEFINE s == [ram EXCEPT !.START = TRUE]
  <2>1. s \in RamType BY <1>1, ZenonT(60) DEF RamType
  <2>2. /\ ~ram.START /\ ~Due(ram) BY <1>10 DEF Start, Apart, Orderly, Due
  <2>3. Stopped(ram) BY <1>3, <2>2 DEF InOrder
  <2>4. PICK shift \in BOOLEAN : Serve(ProcessStart(s, shift)) BY <1>10 DEF Start
  <2>5. s.START /\ Scaled(s) /\ FirstHasSteps(s) /\ ~s.new_measure /\ ~Due(s)
    BY <1>1, <1>4, <2>2, <2>3 DEF Scaled, FirstHasSteps, Mode, Stopped, Due, RamType
  <2>6. played' = Silent BY <1>10 DEF Start
  <2> HIDE DEF s
  <2>7. InOrder(ProcessStart(s, shift), "rest", Silent) BY <2>1, <2>5, StartReady
  <2>8. ProcessStart(s, shift) \in RamType BY <2>1, ProcessStartType
  <2> QED BY <2>4, <2>6, <2>7, <2>8, ServeInOrder
<1>11. CASE Stop
  <2> DEFINE s == [ram EXCEPT !.START = FALSE]
  <2>1. s \in RamType /\ ~s.START BY <1>1, ZenonT(60) DEF RamType
  <2>2. Turns(ram, s) BY <1>1 DEF Turns, Scaled, FirstHasSteps, Mode, RamType
  <2>3. ram.START /\ ~Due(ram) BY <1>11 DEF Stop, Apart, Orderly, Due
  <2>4. ~ram.new_measure BY <1>3, <2>3 DEF InOrder, Running, Placed
  <2>5. PICK d \in Stored : Serve(ProcessStop(s, d)) BY <1>11 DEF Stop
  <2>6. played' = played BY <1>11 DEF Stop
  <2> HIDE DEF s
  <2> DEFINE t == ProcessStop(s, d)
  <2>7. t \in RamType BY <2>1, ProcessStopType
  <2>8. Turns(s, t) /\ t.START = s.START /\ t.part_playing = FIRST BY <2>1, StopTurns
  <2> HIDE DEF t
  <2>9. Turns(ram, t) /\ ~t.START /\ t.part_playing = FIRST BY <2>1, <2>2, <2>8, TurnsTransitive
  <2>10. InOrder(t, "rest", played) BY <1>4, <2>4, <2>9 DEF InOrder, Turns, Stopped
  <2> QED BY <2>5, <2>6, <2>7, <2>10, ServeInOrder DEF t
<1>12. CASE Tap
  <2>1. [ram EXCEPT !.tap = TRUE] \in RamType BY <1>1, ZenonT(60) DEF RamType
  <2>2. Same(ram, [ram EXCEPT !.tap = TRUE]) BY <1>1 DEF Same, Steady, RamType
  <2> QED BY <1>5, <1>12, <2>1, <2>2 DEF Tap
<1>13. CASE ModeSwitch
  <2>1. ~ram.START /\ played' = played BY <1>13 DEF ModeSwitch, Orderly
  <2>2. PICK shift \in BOOLEAN, alt \in BOOLEAN, d \in Stored :
           /\ alt /\ shift => ram.step_num[SECOND] # NO_STEPS
           /\ Serve(CheckModeSwitch(ram, shift, alt, d))
    BY <1>13 DEF ModeSwitch, Orderly
  <2>3. Stopped(ram) BY <1>3, <2>1 DEF InOrder
  <2>4. Idles(ram, CheckModeSwitch(ram, shift, alt, d))
    BY <1>1, <1>4, <2>1, <2>2, <2>3, ModeIdles
  <2> QED BY <1>1, <1>6, <2>1, <2>2, <2>4, CheckModeSwitchType
<1>14. CASE FillSwitch
  <2>1. Same(ram, CheckFillSwitch(ram)) BY <1>1, PanelSame, SizeAssumption DEF Pattern
  <2> QED BY <1>1, <1>5, <1>14, <2>1, CheckFillSwitchType DEF FillSwitch
<1>15. CASE ClearSwitch
  <2>1. ~ram.START /\ played' = played BY <1>15 DEF ClearSwitch, Orderly
  <2>2. Idles(ram, ClearPattern(ram)) BY <1>1, <1>15, <2>1, ClearIdles DEF ClearSwitch
  <2> QED BY <1>1, <1>6, <1>15, <2>1, <2>2, ClearPatternType DEF ClearSwitch
<1>16. CASE IntroFillVarSwitch
  <2> DEFINE other == 1 - ram.intro_fill_var
  <2>1. other \in {VAR_A, VAR_B} BY <1>1, Fields DEF VAR_A, VAR_B
  <2>2. Serve([ram EXCEPT !.intro_fill_var = other]) /\ played' = played
    BY <1>16 DEF IntroFillVarSwitch
  <2> HIDE DEF other
  <2>3. [ram EXCEPT !.intro_fill_var = other] \in RamType BY <1>1, <2>1, ZenonT(60) DEF RamType
  <2>4. Same(ram, [ram EXCEPT !.intro_fill_var = other]) BY <1>1 DEF Same, Steady, RamType
  <2> QED BY <1>5, <2>2, <2>3, <2>4
<1>17. CASE VariationSwitch
  BY <1>1, <1>5, <1>17, VariationSame, CheckVariationSwitchType DEF VariationSwitch
<1>18. CASE PrescaleSwitch
  <2>1. Same(ram, UpdatePrescale(ram)) BY <1>1, PanelSame, SizeAssumption DEF Pattern
  <2> QED BY <1>1, <1>5, <1>18, <2>1, UpdatePrescaleType DEF PrescaleSwitch
<1>19. CASE ShuffleSwitch
  <2>1. PICK amount \in 0..(ShuffleMax - 1) : Serve(UpdateShuffle(ram, amount))
    BY <1>19 DEF ShuffleSwitch
  <2>2. played' = played BY <1>19 DEF ShuffleSwitch
  <2> QED BY <1>1, <1>4, <1>7, <2>1, <2>2, ShuffleSteady, UpdateShuffleType
<1>20. CASE LengthSwitch
  <2>1. PICK press \in Step : Serve(SetLength(ram, press)) BY <1>20 DEF LengthSwitch
  <2>2. played' = played BY <1>20 DEF LengthSwitch
  <2> QED BY <1>1, <1>4, <1>7, <2>1, <2>2, LengthSteady, SetLengthType
<1>21. CASE StepSwitch
  <2>1. [ram EXCEPT !.pattern_edit = TRUE] \in RamType BY <1>1, ZenonT(60) DEF RamType
  <2>2. Same(ram, [ram EXCEPT !.pattern_edit = TRUE]) BY <1>1 DEF Same, Steady, RamType
  <2> QED BY <1>5, <1>21, <2>1, <2>2 DEF StepSwitch
<1>22. CASE PatternSwitch
  <2>1. PICK press \in Pattern :
           \/ Serve(ChooseNext(ram, press))
           \/ ~ram.START /\ \E copy \in BOOLEAN, d \in Stored :
                Serve(ChooseStopped(ram, press, copy, d))
    BY <1>8, <1>22 DEF PatternSwitch
  <2>2. played' = played BY <1>22 DEF PatternSwitch
  <2>3. CASE Serve(ChooseNext(ram, press))
    BY <1>1, <1>5, <2>2, <2>3, PanelSame, ChooseNextType
  <2>4. CASE ~ram.START /\ \E copy \in BOOLEAN, d \in Stored :
                Serve(ChooseStopped(ram, press, copy, d))
    BY <1>1, <1>6, <2>2, <2>4, ChooseIdles, ChooseStoppedType
  <2> QED BY <2>1, <2>3, <2>4
<1>23. CASE BankSwitch
  <2>1. [ram EXCEPT !.pattern_change = TRUE] \in RamType BY <1>1, ZenonT(60) DEF RamType
  <2>2. Same(ram, [ram EXCEPT !.pattern_change = TRUE]) BY <1>1 DEF Same, Steady, RamType
  <2>3. played' = played BY <1>23 DEF BankSwitch
  <2>4. CASE Serve([ram EXCEPT !.pattern_change = TRUE]) BY <1>5, <2>1, <2>2, <2>3, <2>4
  <2>5. CASE ~ram.START /\ \E d \in Stored : Serve(ChooseBankStopped(ram, d))
    <3>1. PICK d \in Stored : Serve(ChooseBankStopped(ram, d)) BY <2>5
    <3>2. 0 \in Pattern /\ FALSE \in BOOLEAN BY SizeAssumption DEF Pattern
    <3>3. Idles(ram, ChooseBankStopped(ram, d)) BY <1>1, <2>5, <3>2, ChooseIdles
    <3> QED BY <1>1, <1>6, <2>3, <2>5, <3>1, <3>3, ChooseBankStoppedType
  <2> QED BY <1>23, <2>4, <2>5 DEF BankSwitch
<1>24. CASE Program
  <2>1. PICK press \in Pattern, bank \in BOOLEAN : Serve(ProgramChange(ram, press, bank))
    BY <1>8, <1>24 DEF Program
  <2>2. played' = played BY <1>24 DEF Program
  <2> QED BY <1>1, <1>5, <2>1, <2>2, ProgramSame, ProgramChangeType
<1> QED
  BY <1>9, <1>10, <1>11, <1>12, <1>13, <1>14, <1>15, <1>16, <1>17, <1>18, <1>19, <1>20, <1>21,
     <1>22, <1>23, <1>24
  DEF Panel
-----------------------------------------------------------------------------
(* The invariant, and what it gives *)

\* The machine is switched on stopped, in order.
LEMMA InitInOrder ==
  ASSUME ShuffleFits, Init
  PROVE  OrderInv
<1>1. PICK p \in EditPatterns, d \in Stored : ram = ReadNextPattern(PowerUp(p), d)
  BY DEF Init
<1> DEFINE s == PowerUp(p)
<1>2. s \in RamType BY <1>1, PowerUpType, TableAssumption
<1>3. /\ s.START = FALSE /\ s.new_measure = FALSE /\ s.part_playing = FIRST
      /\ s.divider = PreScale[DefaultPreScale] /\ s.shuffle_amount = 0
      /\ s.new_shuffle_amount = 0 /\ s.step_num = [q \in Part |-> 0] /\ s.step_num_new = 0
      /\ s.part_editing = FIRST /\ s.mode_index = 1
  BY DEF PowerUp
<1>4. Mode(s) = "FIRST_PART" BY <1>3 DEF Mode, ModeOrder
<1> HIDE DEF s
<1>5. Scaled(s) BY <1>3, NoShuffleFits, TableAssumption DEF Scaled
<1>6. s.step_num[FIRST] = 0 BY <1>3 DEF Part
<1>7. FirstHasSteps(s) BY <1>3, <1>4, <1>6, SizeAssumption DEF FirstHasSteps, NO_STEPS
<1>8. Turns(s, ram) /\ ram.START = s.START BY <1>1, <1>2, ReadTurns DEF s
<1>9. Scaled(ram) /\ FirstHasSteps(ram) /\ Stopped(ram) /\ ~ram.START
  BY <1>3, <1>5, <1>7, <1>8 DEF Turns, Stopped
<1> QED BY <1>9 DEF OrderInv, InOrder

\* Every step of the interrupt and of the main loop keeps the order.
LEMMA OrderInductive ==
  ASSUME Orderly, ShuffleFits, IInv, OrderInv, [Next]_vars
  PROVE  OrderInv'
<1>1. ram \in RamType /\ played \in PlayedType BY DEF IInv, TypeOK, PlayedType
<1>2. CASE Tick
  <2>1. ram' = ProcessTick(ram) /\ pc' = pc /\ played' = played BY <1>2 DEF Tick
  <2>2. InOrder(ram, Phase(pc), played) BY DEF OrderInv
  <2>3. ram.next_step \/ Phase(pc) # "rest" => ram.ppqn_counter + 1 < MinDivider
    <3>1. Phase(pc) # "rest" => pc \in {"measure", "load", "trigger"} BY DEF Phase, IInv, TypeOK
    <3> QED BY <1>2, <3>1 DEF Tick, Orderly, Serving
  <2>4. InOrder(ProcessTick(ram), Phase(pc), played) BY <1>1, <2>2, <2>3, TickInOrder
  <2> QED BY <2>1, <2>4 DEF OrderInv
<1>3. CASE Panel BY <1>3, PanelInOrder
<1>4. CASE StepDue
  <2> DEFINE measure == ram.new_measure /\ ~(ram.next_step /\ ram.START)
             p == IF ~(ram.next_step /\ ram.START) THEN "rest"
                  ELSE IF ram.new_measure THEN "measure" ELSE "trigger"
  <2>1. measure \in BOOLEAN BY BoolType
  <2>2. ram' = [ram EXCEPT !.next_step = FALSE, !.new_measure = measure]
    BY <1>4 DEF StepDue
  <2>3. InOrder(ram, "rest", played) BY <1>4 DEF OrderInv, StepDue, Phase
  <2>4. measure <=> ram.new_measure /\ ~(ram.next_step /\ ram.START) OBVIOUS
  <2> HIDE DEF measure
  <2>5. InOrder(ram', p, played) BY <1>1, <2>1, <2>2, <2>3, <2>4, StepDueInOrder
  <2>6. Phase(pc') = p /\ played' = played BY <1>4 DEF StepDue, Phase
  <2> QED BY <2>5, <2>6 DEF OrderInv
<1>5. CASE Measure
  <2>1. ram.START BY <1>5 DEF Measure, IInv, Busy
  <2>2. InOrder(ram, "measure", played) BY <1>5 DEF OrderInv, Measure, Phase
  <2>3. InOrder(CloseMeasure(ram), "load", played) BY <1>1, <2>1, <2>2, MeasureInOrder
  <2> QED BY <1>5, <2>3 DEF OrderInv, Measure, Phase
<1>6. CASE Load
  <2>1. ram.START BY <1>6 DEF Load, IInv, Busy
  <2>2. InOrder(ram, "load", played) BY <1>6 DEF OrderInv, Load, Phase
  <2>3. PICK a \in Stored, b \in Stored, c \in Stored :
           ram' = ApplyPreScale(TurnPart(ram, a, b, c))
    BY <1>6 DEF Load
  <2>4. InOrder(ram', IF ram'.START THEN "trigger" ELSE "rest", played)
    BY <1>1, <2>1, <2>2, <2>3, LoadInOrder
  <2>5. Phase(pc') = (IF ram'.START THEN "trigger" ELSE "rest") /\ played' = played
    BY <1>6 DEF Load, Phase
  <2> QED BY <2>4, <2>5 DEF OrderInv
<1>7. CASE Trigger
  <2>1. ram.START BY <1>7 DEF Trigger, IInv, Busy
  <2>2. InOrder(ram, "trigger", played) BY <1>7 DEF OrderInv, Trigger, Phase
  <2>3. InOrder(TapRunning(ram), "rest", Sounding(ram)) BY <1>1, <2>1, <2>2, TriggerInOrder
  <2> QED BY <1>7, <2>3 DEF OrderInv, Trigger, Phase, Sounding
<1>8. CASE UNCHANGED vars BY <1>8 DEF vars, OrderInv
<1> QED
  BY <1>2, <1>3, <1>4, <1>5, <1>6, <1>7, <1>8 DEF Next, MainLoop, ProcessStep

\* A step that sounds is a step forward of the player.
LEMMA TriggerPlays ==
  ASSUME IInv, OrderInv, Trigger
  PROVE  Player!Begin \/ Player!Advance \/ Player!NextPart
<1>1. ram \in RamType /\ played \in PlayedType BY DEF IInv, TypeOK, PlayedType
<1>2. ram.START BY DEF Trigger, IInv, Busy
<1>3. InOrder(ram, "trigger", played) BY DEF OrderInv, Trigger, Phase
<1>4. /\ ram.step_num[ram.part_playing] # NO_STEPS /\ ram.step_num[ram.part_playing] \in Step
      /\ Follows(ram, played) \/ Turned(ram, played)
  BY <1>1, <1>2, <1>3, TriggerPlaces
<1>5. played' = Sounding(ram) BY DEF Trigger, Sounding
<1>6. ram.part_playing \in {FIRST, SECOND} /\ ram.current_step \in Step
  BY <1>1, Fields DEF Part
<1>7. played' \in Player!Place
  BY <1>4, <1>5, <1>6 DEF Player!Place, Sounding, Step, FIRST, SECOND, Player!FIRST,
     Player!SECOND
<1>8. /\ played'.part = ram.part_playing /\ played'.step = ram.current_step
      /\ played'.last = ram.step_num[ram.part_playing]
  BY <1>5 DEF Sounding
<1>9. Player!FIRST = FIRST /\ Player!SECOND = SECOND /\ Player!Silent = Silent
  BY DEF Player!FIRST, Player!SECOND, FIRST, SECOND, Player!Silent, Silent, NO_STEPS
<1>10. played.last # NO_STEPS => played # Silent BY DEF Silent
<1>11. CASE played = Silent /\ ram.part_playing = FIRST /\ ram.current_step = 0
  BY <1>7, <1>8, <1>9, <1>11 DEF Player!Begin
<1>12. CASE /\ played.part = ram.part_playing
            /\ played.last = ram.step_num[ram.part_playing] /\ played.last # NO_STEPS
            /\ played.step < played.last /\ ram.current_step = played.step + 1
  <2>1. played' = [played EXCEPT !.step = played.step + 1]
    BY <1>1, <1>5, <1>12 DEF Sounding, PlayedType
  <2> QED BY <1>9, <1>10, <1>12, <2>1 DEF Player!Advance
<1>13. CASE Turned(ram, played)
  BY <1>7, <1>8, <1>9, <1>10, <1>13 DEF Turned, Player!NextPart
<1> QED BY <1>4, <1>11, <1>12, <1>13 DEF Follows

\* Only a start and a step that sounds change what was played.
LEMMA StepPlays ==
  ASSUME IInv, OrderInv, [Next]_vars
  PROVE  [Player!Next]_played
<1>1. CASE Trigger BY <1>1, TriggerPlays DEF Player!Next
<1>2. CASE Start
  <2>1. played' = Silent BY <1>2 DEF Start
  <2> QED BY <2>1 DEF Player!Next, Player!Restart, Player!Silent, Silent, NO_STEPS, FIRST,
          Player!FIRST
<1>3. CASE Tick \/ StepDue \/ Measure \/ Load \/ UNCHANGED vars
  BY <1>3 DEF Tick, StepDue, Measure, Load, vars
<1>4. CASE Panel /\ ~Start
  BY <1>4 DEF Panel, Idle, Stop, Tap, ModeSwitch, FillSwitch, ClearSwitch, IntroFillVarSwitch,
     VariationSwitch, PrescaleSwitch, ShuffleSwitch, LengthSwitch, StepSwitch, PatternSwitch,
     BankSwitch, Program
<1> QED BY <1>1, <1>2, <1>3, <1>4 DEF Next, MainLoop, ProcessStep

\* The two concurrent halves stay in order, with a loop that keeps up, shuffle amounts that
\* fit the shortest divider, and without the gestures known to break it.
THEOREM OrderInvariant ==
  ASSUME Orderly, ShuffleFits
  PROVE  Spec => []OrderInv
<1>1. Init => OrderInv BY InitInOrder
<1>2. IInv /\ OrderInv /\ [Next]_vars => OrderInv' BY OrderInductive
<1> QED BY <1>1, <1>2, TypeCorrect, Soundness, PTL DEF Spec, IInv

\* While running, no step is lost to a wrap of the pulse counter.
THEOREM PulseCountBelowDivider ==
  ASSUME Orderly, ShuffleFits
  PROVE  Spec => []PpqnBelowDivider
<1>1. OrderInv => PpqnBelowDivider
  BY DEF OrderInv, InOrder, Running, Timed, PpqnBelowDivider
<1> QED BY <1>1, OrderInvariant, PTL

\* A second part that plays has an end.
THEOREM SecondPartEnds ==
  ASSUME Orderly, ShuffleFits
  PROVE  Spec => []SecondPartHasSteps
<1>1. OrderInv => SecondPartHasSteps
  BY DEF OrderInv, InOrder, Running, SecondSounds, Phase, SecondPartHasSteps
<1> QED BY <1>1, OrderInvariant, PTL

\* A step held back by the shuffle is released before the next one is due.
THEOREM HeldStepIsReleased ==
  ASSUME Orderly, ShuffleFits
  PROVE  Spec => []ShuffleReleases
<1>1. TypeOK /\ OrderInv => ShuffleReleases
  <2> SUFFICES ASSUME TypeOK, OrderInv, ram.START, ram.shuffle_step PROVE
        /\ ram.shuffle_ppqn_count < ram.shuffle_amount * ShuffleMult
        /\ ram.shuffle_amount * ShuffleMult - ram.shuffle_ppqn_count
             < ram.divider - ram.ppqn_counter
    BY DEF ShuffleReleases
  <2>1. ram \in RamType /\ Scaled(ram) /\ Timed(ram, Phase(pc))
    BY DEF TypeOK, OrderInv, InOrder, Running
  <2>2. /\ MinDivider \in Nat \ {0} /\ MinDivider <= ram.divider
        /\ ram.divider \in 1..(PpqnWrap - 1) /\ ram.ppqn_counter \in Nat
        /\ ram.shuffle_amount * ShuffleMult \in 0..14
        /\ ram.shuffle_amount * ShuffleMult < MinDivider
        /\ ram.shuffle_ppqn_count = ram.ppqn_counter
        /\ ram.ppqn_counter < ram.shuffle_amount * ShuffleMult
    BY <2>1, Numbers
  <2> QED BY <2>2, SizeAssumption
<1> QED BY <1>1, OrderInvariant, TypeCorrect, PTL

\* No step sounds twice: every trigger of process_step is a step forward.
THEOREM EveryTriggerAdvances ==
  ASSUME Orderly, ShuffleFits
  PROVE  Spec => StepsPlayOnce
<1>1. IInv /\ OrderInv /\ [Next]_vars
        => [Trigger => Player!Begin \/ Player!Advance \/ Player!NextPart]_vars
  BY TriggerPlays
<1> QED BY <1>1, OrderInvariant, TypeCorrect, Soundness, PTL DEF Spec, IInv, StepsPlayOnce

\* The interrupt and the main loop together implement the player that a listener is
\* promised: no step is skipped, none comes back, and the parts alternate.
THEOREM ImplementsPlayer ==
  ASSUME Orderly, ShuffleFits
  PROVE  Spec => PlaysInOrder
<1>1. Init => Player!Init
  BY DEF Init, Player!Init, Player!Silent, Silent, NO_STEPS, FIRST, Player!FIRST
<1>2. IInv /\ OrderInv /\ [Next]_vars => [Player!Next]_played BY StepPlays
<1> QED
  BY <1>1, <1>2, OrderInvariant, TypeCorrect, Soundness, PTL
  DEF Spec, IInv, PlaysInOrder, Player!Spec
=============================================================================
