------------------------- MODULE RhythmTrackProofs -------------------------
(***************************************************************************)
(* No index leaves a track and no unwritten entry is reached, whatever     *)
(* keys are pressed: for tracks of any size, any number of patterns, banks *)
(* and tracks, and every choice of gestures.                               *)
(*                                                                         *)
(* TypeOK and NoLooseEntry are inductive only together: an entry is shown  *)
(* as a pattern because it has been written, and it has been written       *)
(* because the measure stays within the track.                             *)
(*                                                                         *)
(* That the handlers implement TrackList needs three facts more: what is   *)
(* in RAM without an edit flagged is what is stored (Reloadable), SHIFT's  *)
(* press of WRITE has left the track where DELETE and INSERT expect it     *)
(* (Pressed), and a track is created at its end (Creating).                *)
(***************************************************************************)
EXTENDS RhythmTrack, SequenceTheorems, TLAPS

\* A track that can be shown, played and stored.
Sound(track) == track \in RhythmData /\ Filled(track)

\* The measure is one of the track, or while it is created the next.
Within(s, track) ==
  s.mode = "COMPOSE_RHYTHM" =>
    s.track_measure <= track.length + (IF s.track_mode = "EDIT" THEN 0 ELSE 1)

IInv == TypeOK /\ NoLooseEntry

\* The assumptions on the constants.
LEMMA Sizes ==
  /\ NumPatterns \in Nat \ {0} /\ NumBanks \in Nat \ {0} /\ NumTracks \in Nat \ {0}
  /\ MaxMeasures \in Nat \ {0} /\ MaxEdits \in Nat
  BY SizeAssumption

\* The invariant as a statement about the parts, which is how the lemmas below give it.
LEMMA Parts ==
  IInv <=> /\ Sound(rhythm_track)
           /\ seq \in Globals /\ Within(seq, rhythm_track)
           /\ stored \in [Track -> RhythmData] /\ \A t \in Track : Sound(stored[t])
           /\ shift \in {"up", "fresh", "held"} /\ edits \in 0..MaxEdits
  BY DEF IInv, TypeOK, NoLooseEntry, Sound, Within, Composing, Editing

\* Showing an entry of a sound track keeps the globals typed.
LEMMA ShowIsTyped ==
  ASSUME NEW s \in Globals, NEW track, Sound(track), NEW m \in 0..track.length
  PROVE  /\ Show(s, track, m) \in Globals
         /\ Show(s, track, m).track_measure = m
         /\ Show(s, track, m).mode = s.mode
         /\ Show(s, track, m).track_mode = s.track_mode
         /\ Show(s, track, m).last_pattern = s.last_pattern
         /\ Show(s, track, m).START = s.START
  <1>1. m \in Measure
    BY Sizes DEF Sound, RhythmData, Measure
  <1>2. track.patterns[m] \in Cell
    BY DEF Sound, Filled
  <1>3. track.patterns[m].pattern \in Pattern /\ track.patterns[m].bank \in Bank
    BY <1>2 DEF Cell
  <1> QED  BY <1>1, <1>3 DEF Show, Globals

\* What is stored of a sound track is sound: the entries left out lie past its length.
LEMMA WrittenIsSound ==
  ASSUME NEW track, Sound(track)
  PROVE  Sound(Written(track))
  <1>1. Written(track) \in RhythmData /\ Written(track).length = track.length
    BY DEF Sound, RhythmData, Written
  <1>2. ASSUME NEW i \in 0..track.length
        PROVE  Written(track).patterns[i] = track.patterns[i]
    BY Sizes DEF Sound, RhythmData, Written, Measure
  <1> QED  BY <1>1, <1>2 DEF Sound, Filled

\* Writing a sound track keeps the store sound.
LEMMA StoreStaysSound ==
  ASSUME IInv, NEW track, Sound(track),
         WriteRhythmTrack(track) \/ WriteIfEdited(track)
  PROVE  stored' \in [Track -> RhythmData] /\ \A t \in Track : Sound(stored'[t])
  <1>1. Sound(Written(track)) /\ Written(track) \in RhythmData
    BY WrittenIsSound DEF Sound
  <1>2. seq.current_rhythm_track \in Track
    BY Parts DEF Globals
  <1>3. stored \in [Track -> RhythmData] /\ \A t \in Track : Sound(stored[t])
    BY Parts
  <1>4. CASE UNCHANGED stored
    BY <1>3, <1>4
  <1>5. CASE stored' = [stored EXCEPT ![seq.current_rhythm_track] = Written(track)]
    BY <1>1, <1>2, <1>3, <1>5
  <1> QED  BY <1>4, <1>5 DEF WriteRhythmTrack, WriteIfEdited

\* Opening a stored track shows its first entry.
LEMMA OpenedIsSound ==
  ASSUME stored' \in [Track -> RhythmData], \A t \in Track : Sound(stored'[t]),
         NEW s \in Globals, NEW t \in Track, UpdateRhythmTrack(s, t)
  PROVE  Sound(rhythm_track') /\ seq' \in Globals /\ Within(seq', rhythm_track')
  <1> DEFINE track == stored'[t]
             shown == Show(s, track, 0)
  <1>1. Sound(track) /\ track.length \in Nat /\ 0 \in 0..track.length
    BY Sizes DEF Sound, RhythmData, Measure
  <1>2. shown \in Globals /\ shown.track_measure = 0
    BY <1>1, ShowIsTyped
  <1>3. track.patterns[0].pattern \in Pattern
    BY <1>1 DEF Sound, Filled, Cell
  <1>4. seq' = [shown EXCEPT
          !.current_rhythm_track = t, !.track_edit = FALSE,
          !.track_mode = IF track.length = 0 THEN "CREATE" ELSE "EDIT",
          !.current_pattern = track.patterns[0].pattern]
    BY DEF UpdateRhythmTrack
  <1>5. seq' \in Globals /\ seq'.track_measure = 0
    BY <1>2, <1>3, <1>4 DEF Globals
  <1>6. Sound(rhythm_track')
    BY <1>1 DEF UpdateRhythmTrack
  <1> QED  BY <1>5, <1>6 DEF Within, Sound, RhythmData, Measure

\* Removing an entry leaves a sound track, in which its place is an entry.
LEMMA DeletedIsSound ==
  ASSUME NEW track, Sound(track), NEW m \in 0..track.length
  PROVE  LET cut == DeleteTrackPattern(track, m)
         IN  /\ Sound(cut) /\ cut.length = Dec(track.length)
             /\ cut.patterns[m] \in Cell
  <1> DEFINE cut == DeleteTrackPattern(track, m)
             moves(i) == ~seq.last_pattern /\ i >= m /\ i < track.length
  <1>1. track.length \in Measure /\ track.length \in Nat
    BY Sizes DEF Sound, RhythmData, Measure
  <1>2. ASSUME NEW i \in Measure, moves(i)  PROVE i + 1 \in 0..track.length
    BY <1>1, <1>2, Sizes DEF Measure
  <1>3. ASSUME NEW i \in Measure
        PROVE  cut.patterns[i] = IF moves(i) THEN track.patterns[i + 1] ELSE track.patterns[i]
    BY DEF DeleteTrackPattern
  <1>4. cut.length = Dec(track.length) /\ Dec(track.length) \in Measure
    BY <1>1, Sizes DEF DeleteTrackPattern, Dec, Measure
  <1>5. ASSUME NEW i \in Measure  PROVE cut.patterns[i] \in Cell \union {Junk}
    <2>1. i + 1 \in Measure \/ ~moves(i)
      BY <1>1, <1>2, Sizes DEF Measure
    <2> QED  BY <2>1, <1>3 DEF Sound, RhythmData
  <1>6. cut \in RhythmData
    BY <1>4, <1>5 DEF DeleteTrackPattern, RhythmData
  <1>7. ASSUME NEW i \in 0..track.length  PROVE cut.patterns[i] \in Cell
    <2>1. i \in Measure
      BY <1>1, Sizes DEF Measure
    <2> QED  BY <2>1, <1>2, <1>3 DEF Sound, Filled
  <1>8. 0..cut.length \subseteq 0..track.length
    BY <1>1, <1>4 DEF Dec
  <1> QED  BY <1>4, <1>6, <1>7, <1>8 DEF Sound, Filled

\* Making room for an entry and filling it leaves a sound track.
LEMMA InsertedIsSound ==
  ASSUME NEW track, Sound(track), NEW m \in 0..track.length, NEW c \in Cell,
         NEW n \in Measure, n = track.length + 1 \/ n = track.length
  PROVE  Sound([InsertTrackPattern([track EXCEPT !.length = n], m)
                  EXCEPT !.patterns[m] = c])
  <1> DEFINE grown == [track EXCEPT !.length = n]
             moved == InsertTrackPattern(grown, m)
             new   == [moved EXCEPT !.patterns[m] = c]
  <1>1. track.length \in Measure /\ track.length \in Nat /\ m \in Measure
    BY Sizes DEF Sound, RhythmData, Measure
  <1>2. /\ grown \in [patterns : [Measure -> Cell \union {Junk}], length : Measure]
        /\ grown.patterns = track.patterns /\ grown.length = n
    BY DEF Sound, RhythmData
  <1>3. moved = [grown EXCEPT !.patterns = [i \in Measure |->
          IF i > m /\ i <= n THEN track.patterns[i - 1] ELSE track.patterns[i]]]
    BY <1>2 DEF InsertTrackPattern
  <1>4. ASSUME NEW i \in Measure, i > m  PROVE i - 1 \in Measure
    BY <1>1, <1>4, Sizes DEF Measure
  <1>5. new.length = n /\ new.patterns = [i \in Measure |->
          IF i = m THEN c
          ELSE IF i > m /\ i <= n THEN track.patterns[i - 1] ELSE track.patterns[i]]
    <2>1. moved.length = n /\ moved.patterns = [i \in Measure |->
            IF i > m /\ i <= n THEN track.patterns[i - 1] ELSE track.patterns[i]]
      BY <1>2, <1>3
    <2>2. new.length = moved.length /\ new.patterns = [moved.patterns EXCEPT ![m] = c]
      BY <1>2, <1>3
    <2> QED  BY <1>1, <2>1, <2>2
  <1>6. track.patterns \in [Measure -> Cell \union {Junk}]
    BY DEF Sound, RhythmData
  <1>7. new.patterns \in [Measure -> Cell \union {Junk}]
    BY <1>4, <1>5, <1>6, ZenonT(60)
  <1>8. new \in RhythmData
    BY <1>2, <1>3, <1>5, <1>7 DEF RhythmData
  <1>9. ASSUME NEW i \in 0..n  PROVE new.patterns[i] \in Cell
    <2>1. i \in Measure
      BY Sizes DEF Measure
    <2>2. i \in 0..track.length \/ i - 1 \in 0..track.length
      BY <1>1, Sizes DEF Measure
    <2>3. i > m => i - 1 \in 0..track.length
      BY <1>1, Sizes DEF Measure
    <2>4. i <= m => i \in 0..track.length
      BY <1>1
    <2>5. \A j \in 0..track.length : track.patterns[j] \in Cell
      BY DEF Sound, Filled
    <2>6. i > m \/ i <= m
      BY <1>1
    <2> QED  BY <1>5, <2>1, <2>3, <2>4, <2>5, <2>6
  <1> QED  BY <1>5, <1>8, <1>9 DEF Sound, Filled

\* Replacing an entry leaves a sound track.
LEMMA ReplacedIsSound ==
  ASSUME NEW track, Sound(track), NEW m \in Measure, NEW n \in Measure, NEW c \in Cell,
         m <= n, n <= track.length \/ (n = m /\ m = track.length + 1)
  PROVE  Sound([track EXCEPT !.patterns[m] = c, !.length = n])
  <1> DEFINE new == [track EXCEPT !.patterns[m] = c, !.length = n]
  <1>1. /\ new \in RhythmData /\ new.length = n
        /\ new.patterns = [track.patterns EXCEPT ![m] = c]
    BY DEF Sound, RhythmData
  <1>2. ASSUME NEW i \in 0..n  PROVE new.patterns[i] \in Cell
    <2>1. i \in Measure
      BY Sizes DEF Measure
    <2>2. i = m \/ i \in 0..track.length
      BY Sizes DEF Measure, Sound, RhythmData
    <2> QED  BY <1>1, <2>1, <2>2 DEF Sound, RhythmData, Filled
  <1> QED  BY <1>1, <1>2 DEF Sound, Filled

-----------------------------------------------------------------------------

\* It holds when the machine is switched on.
LEMMA InitInv == Init => IInv
  <1> SUFFICES ASSUME Init PROVE IInv
    OBVIOUS
  <1>1. Blank \in Cell
    BY Sizes DEF Blank, Cell, Pattern, Bank
  <1>2. 0 \in Measure /\ 0 \in Track /\ 0 \in Pattern /\ 0 \in Bank /\ 0 \in 0..MaxEdits
    BY Sizes DEF Measure, Track, Pattern, Bank
  <1>3. Empty \in RhythmData /\ Filled(Empty)
    BY <1>1, <1>2, Sizes DEF Empty, RhythmData, Filled, Measure
  <1>4. seq \in Globals /\ ~Composing
    BY <1>2 DEF Init, Globals, Composing
  <1>5. stored \in [Track -> RhythmData] /\ \A t \in Track : Filled(stored[t])
    BY BegunAssumption DEF Init
  <1> QED  BY <1>2, <1>3, <1>4, <1>5 DEF Init, IInv, TypeOK, NoLooseEntry

\* Every handler keeps it.
LEMMA NextInv == IInv /\ [Next]_vars => IInv'
  <1> SUFFICES ASSUME IInv, [Next]_vars PROVE IInv'
    OBVIOUS
  <1>t. /\ Sound(rhythm_track) /\ rhythm_track \in RhythmData
        /\ seq \in Globals /\ Within(seq, rhythm_track)
        /\ stored \in [Track -> RhythmData] /\ \A t \in Track : Sound(stored[t])
        /\ shift \in {"up", "fresh", "held"} /\ edits \in 0..MaxEdits
    BY Parts DEF Sound
  <1>g. SUFFICES /\ Sound(rhythm_track')
                 /\ seq' \in Globals /\ Within(seq', rhythm_track')
                 /\ stored' \in [Track -> RhythmData] /\ \A t \in Track : Sound(stored'[t])
                 /\ shift' \in {"up", "fresh", "held"} /\ edits' \in 0..MaxEdits
    BY DEF IInv, TypeOK, NoLooseEntry, Sound, Within, Composing, Editing
  <1> DEFINE L == rhythm_track.length
             m == seq.track_measure
  <1>m. /\ L \in Measure /\ m \in Measure /\ L \in Nat /\ m \in Nat /\ 0 \in Measure
        /\ \A i \in 0..L : i \in Measure
        /\ Dec(L) \in 0..L
    BY <1>t, Sizes DEF RhythmData, Globals, Measure, Dec
  <1>e. Count => edits' \in 0..MaxEdits
    BY <1>t, Sizes DEF Count
  <1>c. Chosen \in Cell
    BY <1>t DEF Chosen, Cell, Globals
  <1>w. ASSUME Composing  PROVE m <= L + 1 /\ Dec(m) \in 0..L /\ (Editing => m \in 0..L)
    BY <1>w, <1>t, <1>m DEF Within, Composing, Editing, Dec
  <1>1. CASE WriteSwitch
    <2>1. CASE UNCHANGED <<rhythm_track, seq, edits>> /\ shift' = "held"
      BY <1>1, <1>t, <2>1 DEF WriteSwitch
    <2>2. CASE Composing /\ Editing /\ Advance /\ shift' = "fresh"
      <3> DEFINE past == m + 1 > L
                 next == IF past THEN L ELSE m + 1
                 shown == Show(seq, rhythm_track, next)
      <3>1. next \in 0..L
        BY <1>m, <1>w, <2>2
      <3>2. shown \in Globals /\ shown.track_measure = next
        BY <3>1, <1>t, ShowIsTyped
      <3>3. seq' = [shown EXCEPT !.last_pattern = past]
        BY <2>2 DEF Advance
      <3>4. seq' \in Globals /\ seq'.track_measure = next
        <4>1. past \in BOOLEAN
          BY <1>m
        <4> HIDE DEF past, next, shown
        <4> QED  BY <3>2, <3>3, <4>1 DEF Globals
      <3> QED  BY <1>1, <1>t, <1>m, <2>2, <3>1, <3>4 DEF WriteSwitch, Advance, Within
    <2>3. CASE Composing /\ ~Editing /\ Stage /\ shift' = "fresh"
      <3> DEFINE next == IF m + 1 = MaxMeasures THEN m ELSE m + 1
      <3>1. next \in Measure /\ next <= m + 1
        BY <1>m, Sizes DEF Measure
      <3>2. rhythm_track' = [rhythm_track EXCEPT !.patterns[m] = Chosen, !.length = m]
        BY <2>3 DEF Stage
      <3>3. Sound(rhythm_track') /\ rhythm_track'.length = m
        <4>1. m <= m /\ (m <= L \/ (m = m /\ m = L + 1))
          BY <1>m, <1>w, <2>3
        <4>2. Sound([rhythm_track EXCEPT !.patterns[m] = Chosen, !.length = m])
          BY <4>1, <1>t, <1>c, <1>m, ReplacedIsSound, Zenon
        <4> QED  BY <3>2, <4>2, <1>t DEF RhythmData
      <3>4. /\ seq' \in Globals /\ seq'.track_measure = next
            /\ seq'.track_mode # "EDIT"
        BY <1>t, <2>3, <3>1 DEF Stage, Globals, Editing
      <3> QED  BY <1>1, <1>t, <1>e, <2>3, <3>1, <3>3, <3>4 DEF WriteSwitch, Stage, Within
    <2> QED  BY <1>1, <2>1, <2>2, <2>3 DEF WriteSwitch
  <1>2. CASE ReleaseShift
    BY <1>2, <1>t DEF ReleaseShift
  <1>3. CASE Delete
    <2> DEFINE at == Dec(m)
               cut == DeleteTrackPattern(rhythm_track, at)
               shown == Show(seq, cut, at)
    <2>1. at \in 0..L /\ m <= L + 1 /\ (Editing => m <= L)
      BY <1>3, <1>w, <1>m DEF Delete
    <2>2. Sound(cut) /\ cut.length = Dec(L) /\ cut.patterns[at] \in Cell
      BY <2>1, <1>t, DeletedIsSound
    <2>3. /\ cut.patterns[at].pattern \in Pattern /\ cut.patterns[at].bank \in Bank
          /\ at \in Measure
      BY <2>1, <2>2, <1>m DEF Cell
    <2>4. seq' = [shown EXCEPT !.track_edit = TRUE]
      BY <1>3 DEF Delete
    <2>5. /\ seq' \in Globals /\ seq'.track_measure = at
          /\ seq'.track_mode = seq.track_mode
      BY <2>3, <2>4, <1>t DEF Show, Globals
    <2>6. at <= Dec(L) + (IF seq.track_mode = "EDIT" THEN 0 ELSE 1)
      BY <2>1, <1>m DEF Dec, Editing
    <2>7. Within(seq', cut)
      BY <2>2, <2>5, <2>6 DEF Within
    <2> QED  BY <1>3, <1>t, <1>e, <2>2, <2>5, <2>7 DEF Delete
  <1>4. CASE Insert
    <2> DEFINE n     == IF L + 1 = MaxMeasures THEN MaxMeasures - 1 ELSE L + 1
               grown == [rhythm_track EXCEPT
                           !.length = IF @ + 1 = MaxMeasures THEN MaxMeasures - 1 ELSE @ + 1]
               at    == IF seq.last_pattern THEN grown.length ELSE Dec(m)
               shown == IF seq.last_pattern THEN [seq EXCEPT !.track_measure = at]
                                            ELSE Show(seq, rhythm_track, at)
               moved == IF seq.last_pattern THEN grown ELSE InsertTrackPattern(grown, at)
               entry == [pattern |-> shown.new_pattern, bank |-> shown.pattern_bank]
    <2>1. n \in Measure /\ (n = L + 1 \/ n = L) /\ n \in Nat /\ L <= n
      BY <1>m, Sizes DEF Measure
    <2>2. /\ grown.length = n /\ grown.patterns = rhythm_track.patterns
          /\ grown = [rhythm_track EXCEPT !.length = n]
      BY <1>t DEF RhythmData
    <2>3. Dec(m) \in 0..L
      BY <1>4, <1>w DEF Insert
    <2>4. shown \in Globals /\ shown.track_measure = at /\ at \in 0..n
      <3>1. CASE seq.last_pattern
        BY <3>1, <2>1, <2>2, <1>t DEF Globals
      <3>2. CASE ~seq.last_pattern
        <4>1. at \in 0..L /\ at \in 0..n
          BY <3>2, <2>1, <2>3, <1>m
        <4> QED  BY <3>2, <4>1, <1>t, ShowIsTyped
      <3> QED  BY <3>1, <3>2
    <2>5. entry \in Cell
      BY <2>4 DEF Globals, Cell
    <2>6. rhythm_track' = [moved EXCEPT !.patterns[at] = entry]
          /\ seq' = [shown EXCEPT !.track_edit = TRUE]
      BY <1>4 DEF Insert
    <2>7. Sound(rhythm_track') /\ rhythm_track'.length = n
      <3>1. CASE seq.last_pattern
        <4>1. rhythm_track' = [rhythm_track EXCEPT !.patterns[n] = entry, !.length = n]
          BY <3>1, <2>2, <2>6, <1>t, ZenonT(60) DEF RhythmData
        <4>2. (n <= L \/ n = L + 1) /\ n <= n
          BY <2>1, <1>m
        <4>3. Sound([rhythm_track EXCEPT !.patterns[n] = entry, !.length = n])
          <5> HIDE DEF n, entry
          <5> QED  BY <4>2, <2>1, <2>5, <1>t, ReplacedIsSound, Zenon
        <4> QED  BY <4>1, <4>3, <1>t DEF RhythmData
      <3>2. CASE ~seq.last_pattern
        <4>1. rhythm_track' =
                [InsertTrackPattern([rhythm_track EXCEPT !.length = n], at)
                   EXCEPT !.patterns[at] = entry]
          BY <3>2, <2>2, <2>6
        <4>2. at \in 0..L
          BY <3>2, <2>3
        <4>3. Sound(rhythm_track')
          BY <4>1, <4>2, <2>1, <2>5, <1>t, InsertedIsSound, SMTT(40)
        <4>4. rhythm_track'.length = n
          BY <4>1, <2>2, <1>t DEF InsertTrackPattern, RhythmData
        <4> QED  BY <4>3, <4>4
      <3> QED  BY <3>1, <3>2
    <2>8. seq' \in Globals /\ seq'.track_measure = at
      BY <2>4, <2>6 DEF Globals
    <2>9. Within(seq', rhythm_track')
      BY <2>1, <2>4, <2>7, <2>8 DEF Within
    <2> QED  BY <1>4, <1>t, <1>e, <2>7, <2>8, <2>9 DEF Insert
  <1>5. CASE StepRunning
    <2> PICK p \in Pattern :
          LET enter == p # seq.current_pattern /\ Editing
          IN  /\ seq' = [seq EXCEPT !.new_pattern = p, !.track_edit = @ \/ enter]
              /\ IF enter
                   THEN /\ Count
                        /\ rhythm_track' = [rhythm_track EXCEPT !.patterns[m].pattern = p]
                   ELSE UNCHANGED <<rhythm_track, edits>>
      BY <1>5 DEF StepRunning
    <2>1. seq' \in Globals /\ seq'.track_measure = m /\ seq'.track_mode = seq.track_mode
      BY <1>t DEF Globals
    <2>2. Sound(rhythm_track') /\ rhythm_track'.length = L
      <3>1. CASE UNCHANGED rhythm_track
        BY <3>1, <1>t
      <3>2. CASE Editing /\ rhythm_track' = [rhythm_track EXCEPT !.patterns[m].pattern = p]
        <4> DEFINE c == [rhythm_track.patterns[m] EXCEPT !.pattern = p]
        <4>1. m \in 0..L /\ c \in Cell
          BY <3>2, <1>5, <1>t, <1>w DEF StepRunning, Sound, Filled, Cell
        <4>2. rhythm_track' = [rhythm_track EXCEPT !.patterns[m] = c, !.length = L]
          BY <3>2, <1>t DEF RhythmData
        <4>3. m <= L /\ L <= L
          BY <4>1, <1>m
        <4>4. Sound([rhythm_track EXCEPT !.patterns[m] = c, !.length = L])
          BY <4>1, <4>3, <1>t, <1>m, ReplacedIsSound, Zenon
        <4> QED  BY <4>2, <4>4, <1>t DEF RhythmData
      <3> QED  BY <3>1, <3>2
    <2>3. edits' \in 0..MaxEdits
      BY <1>e, <1>t
    <2> QED  BY <1>5, <1>t, <2>1, <2>2, <2>3 DEF StepRunning, Within, Composing
  <1>6. CASE BankRunning
    <2> PICK b \in Bank \ {seq.pattern_bank} :
          /\ seq' = [seq EXCEPT !.pattern_bank = b]
          /\ rhythm_track' = IF Editing THEN [rhythm_track EXCEPT !.patterns[m].bank = b]
                                        ELSE rhythm_track
      BY <1>6 DEF BankRunning
    <2>1. seq' \in Globals /\ seq'.track_measure = m /\ seq'.track_mode = seq.track_mode
      BY <1>t DEF Globals
    <2>2. Sound(rhythm_track') /\ rhythm_track'.length = L
      <3>1. CASE ~Editing
        BY <3>1, <1>t
      <3>2. CASE Editing
        <4> DEFINE c == [rhythm_track.patterns[m] EXCEPT !.bank = b]
        <4>1. m \in 0..L /\ c \in Cell
          BY <3>2, <1>6, <1>t, <1>w DEF BankRunning, Sound, Filled, Cell
        <4>2. rhythm_track' = [rhythm_track EXCEPT !.patterns[m] = c, !.length = L]
          BY <3>2, <1>t DEF RhythmData
        <4>3. m <= L /\ L <= L
          BY <4>1, <1>m
        <4>4. Sound([rhythm_track EXCEPT !.patterns[m] = c, !.length = L])
          BY <4>1, <4>3, <1>t, <1>m, ReplacedIsSound, Zenon
        <4> QED  BY <4>2, <4>4, <1>t DEF RhythmData
      <3> QED  BY <3>1, <3>2
    <2> QED  BY <1>6, <1>t, <1>e, <2>1, <2>2 DEF BankRunning, Within, Composing
  <1>7. CASE StepStopped
    <2>1. /\ seq' \in Globals /\ seq'.track_measure = m
          /\ seq'.track_mode = seq.track_mode /\ seq'.mode = seq.mode
      BY <1>7, <1>t DEF StepStopped, Globals
    <2> QED  BY <1>7, <1>t, <2>1 DEF StepStopped, Within
  <1>8. CASE ModeSwitch
    <2> DEFINE turned == [seq EXCEPT !.mode = Turn(@)]
    <2>1. Sound(Unstaged)
      <3> DEFINE len == Dec(Dec(m))
      <3>1. CASE UNCHANGED <<>> /\ Unstaged = rhythm_track
        BY <3>1, <1>t
      <3>2. CASE Composing /\ Unstaged = [rhythm_track EXCEPT !.length = len]
        <4>1. len \in 0..L /\ len \in Measure
          BY <3>2, <1>w, <1>m DEF Dec
        <4>2. [rhythm_track EXCEPT !.length = len] \in RhythmData
          BY <4>1, <1>t DEF RhythmData
        <4>3. 0..len \subseteq 0..L
          BY <4>1, <1>m
        <4> QED  BY <3>2, <4>2, <4>3, <1>t DEF Sound, Filled, RhythmData
      <3> QED  BY <3>1, <3>2 DEF Unstaged
    <2>2. stored' \in [Track -> RhythmData] /\ \A t \in Track : Sound(stored'[t])
      BY <1>8, <2>1, StoreStaysSound DEF ModeSwitch
    <2>3. Turn(seq.mode) \in {"PLAY_RHYTHM", "COMPOSE_RHYTHM", "PATTERN"}
      BY <1>t DEF Turn, Globals
    <2>4. turned \in Globals
      BY <2>3, <1>t DEF Globals
    <2>5. Sound(rhythm_track') /\ seq' \in Globals /\ Within(seq', rhythm_track')
      <3>1. CASE turned.mode = "PATTERN"
        <4>1. seq' = [turned EXCEPT !.track_edit = FALSE] /\ rhythm_track' = Unstaged
          BY <1>8, <3>1 DEF ModeSwitch
        <4>2. seq' \in Globals /\ seq'.mode = "PATTERN"
          BY <4>1, <3>1, <2>4 DEF Globals
        <4> QED  BY <4>1, <4>2, <2>1 DEF Within
      <3>2. CASE turned.mode # "PATTERN"
        <4>1. UpdateRhythmTrack(turned, seq.current_rhythm_track)
          BY <1>8, <3>2 DEF ModeSwitch
        <4>2. seq.current_rhythm_track \in Track
          BY <1>t DEF Globals
        <4> QED  BY <4>1, <4>2, <2>2, <2>4, OpenedIsSound
      <3> QED  BY <3>1, <3>2
    <2> QED  BY <1>8, <1>t, <2>2, <2>5 DEF ModeSwitch
  <1>9. CASE TrackSwitch
    <2> PICK t \in Track :
          /\ WriteIfEdited(rhythm_track)
          /\ IF t # seq.current_rhythm_track
               THEN /\ UpdateRhythmTrack(seq, t)
                    /\ shift' = IF shift = "up" THEN "up" ELSE "held"
               ELSE /\ seq' = [seq EXCEPT !.track_edit = FALSE]
                    /\ UNCHANGED <<rhythm_track, shift>>
      BY <1>9 DEF TrackSwitch
    <2>1. stored' \in [Track -> RhythmData] /\ \A u \in Track : Sound(stored'[u])
      BY <1>t, StoreStaysSound
    <2>2. CASE t # seq.current_rhythm_track
      <3>1. Sound(rhythm_track') /\ seq' \in Globals /\ Within(seq', rhythm_track')
        BY <2>1, <2>2, <1>t, OpenedIsSound
      <3> QED  BY <1>9, <1>t, <2>1, <2>2, <3>1 DEF TrackSwitch
    <2>3. CASE t = seq.current_rhythm_track
      <3>1. /\ seq' \in Globals /\ seq'.track_measure = m
            /\ seq'.track_mode = seq.track_mode /\ seq'.mode = seq.mode
        BY <2>3, <1>t, ZenonT(60) DEF Globals
      <3> QED  BY <1>9, <1>t, <2>1, <2>3, <3>1 DEF TrackSwitch, Within
    <2> QED  BY <2>2, <2>3
  <1>10. CASE ClearSwitch
    <2>1. Blank \in Cell /\ 0 \in Measure /\ 0 \in Bank
      BY Sizes DEF Blank, Cell, Pattern, Bank, Measure
    <2>2. Sound(Empty) /\ Empty.length = 0
      BY <2>1, Sizes DEF Empty, Sound, RhythmData, Filled, Measure
    <2>3. rhythm_track' = Empty /\ WriteRhythmTrack(Empty)
      BY <1>10 DEF ClearSwitch, WriteRhythmTrack
    <2>4. seq' \in Globals /\ seq'.track_measure = 0 /\ seq'.track_mode = "CREATE"
      BY <1>10, <1>t, <2>1 DEF ClearSwitch, Globals
    <2>5. stored' \in [Track -> RhythmData] /\ \A t \in Track : Sound(stored'[t])
      BY <2>2, <2>3, StoreStaysSound
    <2> QED  BY <1>10, <1>t, <1>e, <2>2, <2>3, <2>4, <2>5 DEF ClearSwitch, Within
  <1>11. CASE Start
    <2>1. /\ seq' \in Globals /\ seq'.mode = seq.mode /\ seq'.track_mode = seq.track_mode
          /\ Composing => seq'.track_measure = m
      BY <1>11, <1>t, <1>m DEF Start, Globals
    <2> QED  BY <1>11, <1>t, <2>1 DEF Start, Within, Composing
  <1>12. CASE Stop
    <2> DEFINE stopped == [seq EXCEPT !.START = FALSE, !.track_measure = 0,
                                      !.current_pattern = seq.new_pattern]
               shown   == Show(stopped, rhythm_track, 0)
               rewound == [shown EXCEPT !.current_pattern = rhythm_track.patterns[0].pattern]
    <2>1. stopped \in Globals /\ stopped.track_measure = 0
      BY <1>t, <1>m DEF Globals
    <2>2. 0 \in 0..L /\ rhythm_track.patterns[0] \in Cell
      BY <1>t, <1>m DEF Sound, Filled
    <2>3. rhythm_track.patterns[0].pattern \in Pattern
      BY <2>2 DEF Cell
    <2>4. shown \in Globals /\ shown.track_measure = 0
      BY <2>1, <2>2, <1>t, ShowIsTyped
    <2>5. rewound \in Globals /\ rewound.track_measure = 0
      BY <2>3, <2>4 DEF Globals
    <2>6. seq' \in Globals /\ seq'.track_measure = 0
      <3>1. seq' \in {stopped, rewound, [rewound EXCEPT !.track_mode = "EDIT"]}
        BY <1>12 DEF Stop
      <3>2. LET edited == [rewound EXCEPT !.track_mode = "EDIT"]
            IN  edited \in Globals /\ edited.track_measure = 0
        BY <2>5 DEF Globals
      <3> QED  BY <3>1, <3>2, <2>1, <2>5
    <2> QED  BY <1>12, <1>t, <1>m, <2>6 DEF Stop, Within
  <1>13. CASE MeasureEnds
    <2>1. /\ seq' \in Globals /\ seq'.track_measure = m
          /\ seq'.track_mode = seq.track_mode /\ seq'.mode = seq.mode
      BY <1>13, <1>t DEF MeasureEnds, Globals
    <2> QED  BY <1>13, <1>t, <2>1 DEF MeasureEnds, Within
  <1>14. CASE UNCHANGED vars
    BY <1>14, <1>t DEF vars
  <1> QED  BY <1>1, <1>2, <1>3, <1>4, <1>5, <1>6, <1>7, <1>8, <1>9, <1>10, <1>11,
              <1>12, <1>13, <1>14 DEF Next

\* It holds in every state that is reached.
LEMMA Invariance == Spec => []IInv
  <1>1. Init => IInv
    BY InitInv
  <1>2. IInv /\ [Next]_vars => IInv'
    BY NextInv
  <1> QED  BY <1>1, <1>2, PTL DEF Spec

\* Every index into a track stays within it and every field within its width, for each
\* order in which the keys can be pressed.
THEOREM TypeCorrect == Spec => []TypeOK
  <1>1. IInv => TypeOK
    BY DEF IInv
  <1> QED  BY <1>1, Invariance, PTL

\* No handler shows, plays or stores an entry that has not been written, although
\* write_rhythm_track stores a local array of which only a part is filled.
THEOREM EntriesAreWritten == Spec => []NoLooseEntry
  <1>1. IInv => NoLooseEntry
    BY DEF IInv
  <1> QED  BY <1>1, Invariance, PTL

-----------------------------------------------------------------------------
(* The lists that tracks are *)

\* The list of a sound track has one element for each of its entries, and fits.
LEMMA ListFits ==
  ASSUME NEW track, Sound(track)
  PROVE  /\ ListOf(track) \in Seq(Cell)
         /\ Len(ListOf(track)) = track.length + 1
         /\ track.length + 1 \in 1..MaxMeasures
         /\ ListOf(track) \in [1..(track.length + 1) -> Cell]
         /\ \A i \in 0..track.length : ListOf(track)[i + 1] = track.patterns[i]
  <1> DEFINE n == track.length + 1
  <1>1. track.length \in Nat /\ n \in Nat /\ n \in 1..MaxMeasures
    BY Sizes DEF Sound, RhythmData, Measure
  <1>2. ASSUME NEW i \in 1..n  PROVE track.patterns[i - 1] \in Cell
    <2>1. i - 1 \in 0..track.length
      BY <1>1
    <2> QED  BY <2>1 DEF Sound, Filled
  <1>3. ListOf(track) \in [1..n -> Cell]
    BY <1>2 DEF ListOf
  <1>4. ListOf(track) \in Seq(Cell)
    BY <1>1, <1>3, SeqDef
  <1>5. Len(ListOf(track)) = n
    BY <1>1, <1>3, <1>4, LenProperties
  <1>6. ASSUME NEW i \in 0..track.length  PROVE ListOf(track)[i + 1] = track.patterns[i]
    <2>1. i + 1 \in 1..n /\ (i + 1) - 1 = i
      BY <1>1
    <2> QED  BY <2>1 DEF ListOf
  <1> QED  BY <1>1, <1>3, <1>4, <1>5, <1>6

\* A list is the track's when it has the track's length and its entries.
LEMMA ListIs ==
  ASSUME NEW track, Sound(track), NEW s \in Seq(Cell), Len(s) = track.length + 1,
         \A i \in 0..track.length : s[i + 1] = track.patterns[i]
  PROVE  ListOf(track) = s
  <1>1. /\ ListOf(track) \in Seq(Cell) /\ Len(ListOf(track)) = Len(s) /\ track.length \in Nat
        /\ \A i \in 0..track.length : ListOf(track)[i + 1] = track.patterns[i]
    BY ListFits DEF Sound, RhythmData, Measure
  <1>2. ASSUME NEW k \in 1..Len(s)  PROVE ListOf(track)[k] = s[k]
    <2>1. k - 1 \in 0..track.length /\ (k - 1) + 1 = k
      BY <1>1
    <2> QED  BY <1>1, <2>1
  <1> QED  BY <1>1, <1>2, SeqEqual

\* Entries past the length do not count.
LEMMA SameList ==
  ASSUME NEW a, Sound(a), NEW b, Sound(b), a.length = b.length,
         \A i \in 0..a.length : a.patterns[i] = b.patterns[i]
  PROVE  ListOf(a) = ListOf(b)
  <1>1. /\ ListOf(b) \in Seq(Cell) /\ Len(ListOf(b)) = a.length + 1
        /\ \A i \in 0..a.length : ListOf(b)[i + 1] = a.patterns[i]
    BY ListFits
  <1> QED  BY <1>1, ListIs

\* Storing a track keeps its list.
LEMMA WrittenList ==
  ASSUME NEW track, Sound(track)
  PROVE  ListOf(Written(track)) = ListOf(track)
  <1>1. Sound(Written(track)) /\ Written(track).length = track.length
    BY WrittenIsSound DEF Sound, RhythmData, Written
  <1>2. ASSUME NEW i \in 0..track.length
        PROVE  Written(track).patterns[i] = track.patterns[i]
    BY Sizes DEF Sound, RhythmData, Written, Measure
  <1> QED  BY <1>1, <1>2, SameList

\* A measure more is an element appended.
LEMMA AppendedList ==
  ASSUME NEW a, Sound(a), NEW b, Sound(b), b.length = a.length + 1,
         \A i \in 0..a.length : b.patterns[i] = a.patterns[i]
  PROVE  /\ b.patterns[b.length] \in Cell
         /\ ListOf(b) = Append(ListOf(a), b.patterns[b.length])
  <1> DEFINE s == ListOf(a)
             c == b.patterns[b.length]
             t == Append(s, c)
  <1>1. a.length \in Nat /\ b.length \in Nat
    BY DEF Sound, RhythmData, Measure
  <1>2. c \in Cell
    BY <1>1 DEF Sound, Filled
  <1>3. /\ s \in Seq(Cell) /\ Len(s) = a.length + 1
        /\ \A i \in 0..a.length : s[i + 1] = a.patterns[i]
    BY ListFits
  <1>4. /\ t \in Seq(Cell) /\ Len(t) = Len(s) + 1
        /\ \A k \in 1..Len(s) : t[k] = s[k]
        /\ t[Len(s) + 1] = c
    <2> HIDE DEF s, c
    <2> QED  BY <1>2, <1>3, AppendProperties
  <1>5. ASSUME NEW i \in 0..b.length  PROVE t[i + 1] = b.patterns[i]
    <2>1. CASE i = b.length
      BY <2>1, <1>1, <1>3, <1>4
    <2>2. CASE i # b.length
      <3>1. i \in 0..a.length /\ i + 1 \in 1..Len(s)
        BY <2>2, <1>1, <1>3
      <3> HIDE DEF s, c, t
      <3> QED  BY <3>1, <1>3, <1>4
    <2> QED  BY <2>1, <2>2
  <1>6. Len(t) = b.length + 1
    <2> HIDE DEF s, c, t
    <2> QED  BY <1>3, <1>4
  <1> HIDE DEF t
  <1>7. ListOf(b) = t
    BY <1>4, <1>5, <1>6, ListIs
  <1> QED  BY <1>2, <1>7 DEF t

\* One entry changed is one element changed.
LEMMA ReplacedList ==
  ASSUME NEW a, Sound(a), NEW b, Sound(b), b.length = a.length, NEW m \in 0..a.length,
         \A i \in 0..a.length : i # m => b.patterns[i] = a.patterns[i]
  PROVE  /\ b.patterns[m] \in Cell
         /\ ListOf(b) = [ListOf(a) EXCEPT ![m + 1] = b.patterns[m]]
  <1> DEFINE s == ListOf(a)
             c == b.patterns[m]
             t == [s EXCEPT ![m + 1] = c]
  <1>1. a.length \in Nat /\ m \in Nat
    BY DEF Sound, RhythmData, Measure
  <1>2. c \in Cell
    BY DEF Sound, Filled
  <1>3. /\ s \in Seq(Cell) /\ Len(s) = a.length + 1
        /\ \A i \in 0..a.length : s[i + 1] = a.patterns[i]
    BY ListFits
  <1>4. /\ t \in Seq(Cell) /\ Len(t) = Len(s)
        /\ \A j \in 1..Len(s) : t[j] = IF j = m + 1 THEN c ELSE s[j]
    <2>1. m + 1 \in 1..Len(s)
      BY <1>1, <1>3
    <2> HIDE DEF s, c
    <2> QED  BY <1>2, <1>3, <2>1, ExceptSeq
  <1>5. ASSUME NEW i \in 0..b.length  PROVE t[i + 1] = b.patterns[i]
    <2>1. i + 1 \in 1..Len(s) /\ (i + 1 = m + 1 <=> i = m) /\ i \in 0..a.length
      BY <1>1, <1>3
    <2> HIDE DEF s, t
    <2> QED  BY <2>1, <1>3, <1>4
  <1> HIDE DEF t
  <1>6. ListOf(b) = t
    BY <1>3, <1>4, <1>5, ListIs
  <1> QED  BY <1>2, <1>6 DEF t

\* The entries after the m-th moved down: its element is removed.
LEMMA RemovedList ==
  ASSUME NEW a, Sound(a), NEW b, Sound(b), b.length = a.length - 1, NEW m \in 0..a.length,
         \A i \in 0..b.length :
           b.patterns[i] = IF i < m THEN a.patterns[i] ELSE a.patterns[i + 1]
  PROVE  ListOf(b) = Promised!RemoveAt(ListOf(a), m + 1)
  <1> DEFINE s == ListOf(a)
             n == a.length + 1
             u == SubSeq(s, 1, m)
             v == SubSeq(s, m + 2, n)
  <1>1. a.length \in Nat /\ m \in Nat /\ b.length \in Nat /\ n \in Nat /\ m < n
    BY DEF Sound, RhythmData, Measure
  <1>2. /\ s \in Seq(Cell) /\ Len(s) = n /\ s \in [1..n -> Cell]
        /\ \A i \in 0..a.length : s[i + 1] = a.patterns[i]
    BY ListFits
  <1>3. /\ u \in Seq(Cell) /\ Len(u) = m
        /\ \A k \in 1..m : u[k] = s[k]
    <2> HIDE DEF s, n
    <2> QED  BY <1>1, <1>2, SubSeqProperties
  <1>4. /\ v \in Seq(Cell) /\ Len(v) = a.length - m
        /\ \A k \in 1..(a.length - m) : v[k] = s[m + 1 + k]
    <2> HIDE DEF s
    <2>1. \A i \in (m + 2)..n : s[i] \in Cell
      BY <1>1, <1>2
    <2>2. /\ v \in Seq(Cell)
          /\ Len(v) = IF m + 2 <= n THEN n - (m + 2) + 1 ELSE 0
          /\ \A k \in 1..(n - (m + 2) + 1) : v[k] = s[(m + 2) + k - 1]
      <3> HIDE DEF n
      <3> QED  BY <1>1, <2>1, SubSeqProperties
    <2> QED  BY <1>1, <2>2
  <1>5. Promised!RemoveAt(s, m + 1) = u \o v
    <2>1. (m + 1) - 1 = m /\ (m + 1) + 1 = m + 2
      BY <1>1
    <2> HIDE DEF s
    <2> QED  BY <1>2, <2>1 DEF Promised!RemoveAt
  <1> DEFINE t == u \o v
  <1>6. /\ t \in Seq(Cell) /\ Len(t) = a.length
        /\ \A k \in 1..a.length : t[k] = IF k <= m THEN u[k] ELSE v[k - m]
    <2> HIDE DEF s, n, u, v
    <2>1. /\ t \in Seq(Cell) /\ Len(t) = Len(u) + Len(v)
          /\ \A k \in 1..(Len(u) + Len(v)) : t[k] = IF k <= Len(u) THEN u[k] ELSE v[k - Len(u)]
      <3>1. u \in Seq(Cell) /\ v \in Seq(Cell)
        BY <1>3, <1>4
      <3> QED  BY <3>1, ConcatProperties
    <2>2. Len(u) = m /\ Len(u) + Len(v) = a.length
      BY <1>1, <1>3, <1>4
    <2> QED  BY <2>1, <2>2
  <1>7. ASSUME NEW i \in 0..b.length  PROVE t[i + 1] = b.patterns[i]
    <2>1. i + 1 \in 1..a.length /\ i \in 0..a.length /\ i + 1 \in 0..a.length
      BY <1>1
    <2> HIDE DEF s, u, v, t
    <2>2. CASE i < m
      <3>1. i + 1 \in 1..m
        BY <1>1, <2>2
      <3> QED  BY <3>1, <2>1, <2>2, <1>2, <1>3, <1>6
    <2>3. CASE i >= m
      <3>1. (i + 1) - m \in 1..(a.length - m) /\ m + 1 + ((i + 1) - m) = (i + 1) + 1
            /\ ~(i + 1 <= m) /\ ~(i < m)
        BY <1>1, <2>3
      <3>2. t[i + 1] = v[(i + 1) - m]
        BY <3>1, <2>1, <1>6
      <3>3. v[(i + 1) - m] = s[(i + 1) + 1]
        BY <3>1, <1>4
      <3> QED  BY <3>1, <3>2, <3>3, <2>1, <1>2
    <2> QED  BY <1>1, <2>2, <2>3
  <1>8. Len(t) = b.length + 1
    BY <1>1, <1>6
  <1> HIDE DEF t
  <1>9. ListOf(b) = t
    BY <1>6, <1>7, <1>8, ListIs
  <1> QED  BY <1>5, <1>9 DEF t

\* Making room for an entry's copy; in a full track the last one is lost.
LEMMA InsertedList ==
  ASSUME NEW a, Sound(a), NEW b, Sound(b), NEW m \in 0..a.length,
         b.length = IF a.length + 1 = MaxMeasures THEN a.length ELSE a.length + 1,
         \A i \in 0..b.length :
           b.patterns[i] = IF i <= m THEN a.patterns[i] ELSE a.patterns[i - 1]
  PROVE  ListOf(b) =
           Promised!Bounded(Promised!InsertAt(ListOf(a), m + 1, ListOf(a)[m + 1]))
  <1> DEFINE s == ListOf(a)
             n == a.length + 1
             c == s[m + 1]
             u == SubSeq(s, 1, m)
             w == u \o <<c>>
             v == SubSeq(s, m + 1, n)
             x == w \o v
  <1>1. a.length \in Nat /\ m \in Nat /\ b.length \in Nat /\ n \in Nat /\ m < n
    BY DEF Sound, RhythmData, Measure
  <1>2. /\ s \in Seq(Cell) /\ Len(s) = n /\ s \in [1..n -> Cell] /\ n \in 1..MaxMeasures
        /\ \A i \in 0..a.length : s[i + 1] = a.patterns[i]
    BY ListFits
  <1>3. /\ u \in Seq(Cell) /\ Len(u) = m
        /\ \A k \in 1..m : u[k] = s[k]
    <2> HIDE DEF s, n
    <2> QED  BY <1>1, <1>2, SubSeqProperties
  <1>4. /\ v \in Seq(Cell) /\ Len(v) = n - m
        /\ \A k \in 1..(n - m) : v[k] = s[m + k]
    <2> HIDE DEF s
    <2>1. \A i \in (m + 1)..n : s[i] \in Cell
      BY <1>1, <1>2
    <2>2. /\ v \in Seq(Cell)
          /\ Len(v) = IF m + 1 <= n THEN n - (m + 1) + 1 ELSE 0
          /\ \A k \in 1..(n - (m + 1) + 1) : v[k] = s[(m + 1) + k - 1]
      <3> HIDE DEF n
      <3> QED  BY <1>1, <2>1, SubSeqProperties
    <2> QED  BY <1>1, <2>2
  <1>5. w \in Seq(Cell) /\ Len(w) = m + 1 /\ \A k \in 1..(m + 1) : w[k] = s[k]
    <2>1. c \in Cell
      BY <1>1, <1>2
    <2>2. /\ <<c>> \in Seq(Cell) /\ Len(<<c>>) = 1 /\ <<c>>[1] = c
      <3> HIDE DEF c
      <3> QED  BY <2>1
    <2> DEFINE y == <<c>>
    <2>3. /\ w \in Seq(Cell) /\ Len(w) = Len(u) + Len(y)
          /\ \A k \in 1..(Len(u) + Len(y)) : w[k] = IF k <= Len(u) THEN u[k] ELSE y[k - Len(u)]
      <3> HIDE DEF u, y
      <3> QED  BY <1>3, <2>2, ConcatProperties DEF y
    <2>4. ASSUME NEW k \in 1..(m + 1)  PROVE w[k] = s[k]
      <3> HIDE DEF s, u, w, y
      <3>1. CASE k = m + 1
        BY <3>1, <1>1, <1>3, <2>2, <2>3 DEF y
      <3>2. CASE k # m + 1
        BY <3>2, <1>1, <1>3, <2>2, <2>3 DEF y
      <3> QED  BY <3>1, <3>2
    <2> HIDE DEF w, u, s
    <2> QED  BY <1>1, <1>3, <2>2, <2>3, <2>4
  <1>6. Promised!InsertAt(s, m + 1, c) = x
    <2>1. (m + 1) - 1 = m
      BY <1>1
    <2> HIDE DEF s, c
    <2> QED  BY <1>2, <2>1 DEF Promised!InsertAt
  <1>7. /\ x \in Seq(Cell) /\ Len(x) = n + 1
        /\ \A k \in 1..(n + 1) : x[k] = IF k <= m + 1 THEN s[k] ELSE s[k - 1]
    <2> HIDE DEF s, n, w, v
    <2>1. /\ x \in Seq(Cell) /\ Len(x) = Len(w) + Len(v)
          /\ \A k \in 1..(Len(w) + Len(v)) : x[k] = IF k <= Len(w) THEN w[k] ELSE v[k - Len(w)]
      BY <1>4, <1>5, ConcatProperties
    <2>2. Len(w) = m + 1 /\ Len(w) + Len(v) = n + 1
      BY <1>1, <1>4, <1>5
    <2>3. ASSUME NEW k \in 1..(n + 1)
          PROVE  x[k] = IF k <= m + 1 THEN s[k] ELSE s[k - 1]
      <3> HIDE DEF x
      <3>1. CASE k <= m + 1
        BY <3>1, <1>1, <1>5, <2>1, <2>2
      <3>2. CASE ~(k <= m + 1)
        <4>1. k - (m + 1) \in 1..(n - m) /\ m + (k - (m + 1)) = k - 1
          BY <3>2, <1>1
        <4>2. x[k] = v[k - (m + 1)]
          BY <3>2, <2>1, <2>2
        <4> QED  BY <3>2, <4>1, <4>2, <1>4
      <3> QED  BY <3>1, <3>2
    <2> HIDE DEF x
    <2> QED  BY <2>1, <2>2, <2>3
  <1> DEFINE t == Promised!Bounded(x)
  <1>8. t \in Seq(Cell) /\ Len(t) = b.length + 1 /\ \A k \in 1..Len(t) : t[k] = x[k]
    <2> HIDE DEF x, s
    <2>1. CASE n = MaxMeasures
      <3>1. t = SubSeq(x, 1, n)
        BY <2>1, <1>1, <1>7 DEF Promised!Bounded
      <3>2. /\ \A i \in 1..n : x[i] \in Cell
        BY <1>1, <1>7, ElementOfSeq
      <3>3. /\ SubSeq(x, 1, n) \in Seq(Cell) /\ Len(SubSeq(x, 1, n)) = n
            /\ \A k \in 1..n : SubSeq(x, 1, n)[k] = x[k]
        <4> HIDE DEF n
        <4> QED  BY <1>1, <1>2, <3>2, SubSeqProperties
      <3> HIDE DEF t
      <3> QED  BY <2>1, <1>1, <3>1, <3>3
    <2>2. CASE n # MaxMeasures
      <3>1. t = x
        BY <2>2, <1>1, <1>2, <1>7, Sizes DEF Promised!Bounded
      <3> HIDE DEF t
      <3> QED  BY <2>2, <1>1, <1>7, <3>1
    <2> QED  BY <2>1, <2>2
  <1>9. ASSUME NEW i \in 0..b.length  PROVE t[i + 1] = b.patterns[i]
    <2> HIDE DEF s, t, x
    <2>1. i + 1 \in 1..(n + 1) /\ i + 1 \in 1..Len(t)
      BY <1>1, <1>8
    <2>2. CASE i <= m
      <3>1. i \in 0..a.length /\ i + 1 <= m + 1
        BY <1>1, <2>2
      <3> QED  BY <2>1, <2>2, <3>1, <1>2, <1>7, <1>8
    <2>3. CASE ~(i <= m)
      <3>1. i - 1 \in 0..a.length /\ ~(i + 1 <= m + 1) /\ (i + 1) - 1 = (i - 1) + 1
        BY <1>1, <2>3
      <3>2. t[i + 1] = s[(i + 1) - 1]
        BY <2>1, <3>1, <1>7, <1>8
      <3> QED  BY <2>3, <3>1, <3>2, <1>2
    <2> QED  BY <2>2, <2>3
  <1> HIDE DEF t
  <1>10. ListOf(b) = t
    BY <1>8, <1>9, ListIs
  <1> HIDE DEF s, x
  <1> QED  BY <1>6, <1>10 DEF t, c, s

-----------------------------------------------------------------------------
(* TrackList's variables and steps, and the invariant that relates them to the track *)

\* The keys are used as the manual has them: what is undone is undone once, and only an
\* edited track has banks chosen.
Undoing == {"unstage", "bank_only"} \intersect Gestures = {}

\* The track in RAM, when no edit is flagged, is the stored one; an edit is flagged only
\* while a track is open.
Reloadable ==
  /\ Composing /\ ~seq.track_edit =>
       ListOf(rhythm_track) = ListOf(stored[seq.current_rhythm_track])
  /\ seq.track_edit => Composing

\* What SHIFT has done to an open track and can be undone: it has moved on by a measure,
\* or has found the last one.
Pressed ==
  /\ shift = "fresh" => Composing
  /\ shift = "fresh" /\ Editing =>
       IF seq.last_pattern THEN seq.track_measure = rhythm_track.length
                           ELSE seq.track_measure >= 1

\* A track is created at its end.
Creating ==
  Composing /\ ~Editing => seq.track_measure \in {rhythm_track.length, rhythm_track.length + 1}

Kept == Reloadable /\ Pressed /\ Creating

ListInv == IInv /\ Kept

\* The abstract variables.
List     == ListOf(IF Composing THEN rhythm_track ELSE stored[seq.current_rhythm_track])
Selected == SelectedEntry + 1
Saved    == [t \in Track |-> ListOf(stored[t])]
Number   == seq.current_rhythm_track

Step == [Promised!Next]_<<List, Selected, Saved, Number>>

\* A handler that leaves the list, the selection and the store alone stutters.
LEMMA QuietStep ==
  ASSUME List' = List, Selected' = Selected, Saved' = Saved, Number' = Number
  PROVE  Step
  BY DEF Step

\* The nine steps of TrackList, each from what it does to the four variables.
LEMMA SelectStep ==
  ASSUME Selected' \in 1..(Len(List) + 1), List' = List, Saved' = Saved, Number' = Number
  PROVE  Step
  BY DEF Step, Promised!Next, Promised!Select, List, Selected, Saved, Number

\* An entry is put at the selected place.
LEMMA PutStep ==
  ASSUME NEW c \in Cell,
         List' = IF Selected > Len(List) THEN Append(List, c)
                                         ELSE [List EXCEPT ![Selected] = c],
         Len(List') <= MaxMeasures,
         Selected' = Selected, Saved' = Saved, Number' = Number
  PROVE  Step
  BY DEF Step, Promised!Next, Promised!Put, List, Selected, Saved, Number

\* The selected entry is removed.
LEMMA DeleteStep ==
  ASSUME Selected <= Len(List), Len(List) > 1,
         List' = Promised!RemoveAt(List, Selected),
         Selected' = Selected \/ Selected' = Len(List'), Saved' = Saved, Number' = Number
  PROVE  Step
  BY DEF Step, Promised!Next, Promised!Delete, Promised!Removed, List, Selected, Saved, Number

\* The selected entry is duplicated.
LEMMA InsertStep ==
  ASSUME Selected <= Len(List),
         List' = Promised!Bounded(Promised!InsertAt(List, Selected, List[Selected])),
         Selected' = Selected, Saved' = Saved, Number' = Number
  PROVE  Step
  BY DEF Step, Promised!Next, Promised!Insert, List, Selected, Saved, Number

\* An entry is appended behind the last.
LEMMA AppendStep ==
  ASSUME Selected = Len(List), Len(List) < MaxMeasures, NEW c \in Cell,
         List' = Append(List, c), Selected' = Len(List'), Saved' = Saved, Number' = Number
  PROVE  Step
  BY DEF Step, Promised!Next, Promised!AppendOne, List, Selected, Saved, Number

\* The track is stored.
LEMMA SaveStep ==
  ASSUME Saved' = [Saved EXCEPT ![Number] = List],
         List' = List, Selected' = Selected, Number' = Number
  PROVE  Step
  BY DEF Step, Promised!Next, Promised!Save, Promised!SaveAs, List, Selected, Saved, Number

\* The track is closed, perhaps without the entry that is selected.
LEMMA CloseStep ==
  ASSUME List' = List \/ (Selected <= Len(List) /\
           List' = IF Len(List) > 1 THEN Promised!RemoveAt(List, Selected) ELSE List),
         Saved' = [Saved EXCEPT ![Number] = List'], Selected' = 1, Number' = Number
  PROVE  Step
  BY DEF Step, Promised!Next, Promised!Close, Promised!Removed, Promised!SaveAs,
         List, Selected, Saved, Number

\* Another track is opened.
LEMMA OpenStep ==
  ASSUME NEW t \in Track, Saved' = [Saved EXCEPT ![Number] = List],
         List' = Saved'[t], Selected' = 1, Number' = t
  PROVE  Step
  BY DEF Step, Promised!Next, Promised!Open, Promised!SaveAs, List, Selected, Saved, Number

\* The track is cleared.
LEMMA ClearStep ==
  ASSUME List' = <<Blank>>, Saved' = [Saved EXCEPT ![Number] = List'],
         Selected' = 1, Number' = Number
  PROVE  Step
  BY DEF Step, Promised!Next, Promised!Clear, Promised!SaveAs, List, Selected, Saved, Number

-----------------------------------------------------------------------------

\* What the invariant of the track says of the parts, in the forms used below.
LEMMA Basics ==
  ASSUME IInv
  PROVE  /\ Sound(rhythm_track) /\ rhythm_track \in RhythmData
         /\ seq \in Globals /\ seq.current_rhythm_track \in Track
         /\ stored \in [Track -> RhythmData] /\ \A t \in Track : Sound(stored[t])
         /\ rhythm_track.length \in Nat /\ seq.track_measure \in Nat
         /\ rhythm_track.length + 1 <= MaxMeasures /\ MaxMeasures \in Nat
         /\ seq.track_edit \in BOOLEAN /\ seq.last_pattern \in BOOLEAN
         /\ Composing => seq.track_measure <= rhythm_track.length + (IF Editing THEN 0 ELSE 1)
         /\ Composing => List = ListOf(rhythm_track) /\ Len(List) = rhythm_track.length + 1
         /\ Composing /\ shift # "fresh" => SelectedEntry = seq.track_measure
         /\ ~Composing => SelectedEntry = 0
  <1>1. /\ Sound(rhythm_track) /\ rhythm_track \in RhythmData
        /\ seq \in Globals /\ Within(seq, rhythm_track)
        /\ stored \in [Track -> RhythmData] /\ \A t \in Track : Sound(stored[t])
    BY Parts DEF Sound
  <1>2. /\ rhythm_track.length \in Measure /\ seq.track_measure \in Measure
        /\ seq.current_rhythm_track \in Track
        /\ seq.track_edit \in BOOLEAN /\ seq.last_pattern \in BOOLEAN
    BY <1>1 DEF RhythmData, Globals
  <1>3. /\ rhythm_track.length \in Nat /\ seq.track_measure \in Nat
        /\ rhythm_track.length + 1 <= MaxMeasures /\ MaxMeasures \in Nat
    BY <1>2, Sizes DEF Measure
  <1>4. Composing => List = ListOf(rhythm_track) /\ Len(List) = rhythm_track.length + 1
    BY <1>1, ListFits DEF List
  <1> QED  BY <1>1, <1>2, <1>3, <1>4 DEF Within, Composing, Editing, SelectedEntry

\* The same of the state that a step leads to, as far as the steps below need it.
LEMMA Follows ==
  ASSUME IInv'
  PROVE  /\ Sound(rhythm_track')
         /\ Composing' => Len(List') = rhythm_track'.length + 1
         /\ rhythm_track'.length + 1 <= MaxMeasures
  <1>1. Sound(rhythm_track')
    BY DEF IInv, TypeOK, NoLooseEntry, Sound
  <1>2. rhythm_track'.length + 1 <= MaxMeasures
    BY <1>1, Sizes DEF Sound, RhythmData, Measure
  <1>3. Len(ListOf(rhythm_track')) = rhythm_track'.length + 1
    BY <1>1, ListFits
  <1> QED  BY <1>1, <1>2, <1>3 DEF List

\* What is written to the EEPROM is the list of the track.
LEMMA WriteSaves ==
  ASSUME IInv, NEW track, Sound(track), WriteRhythmTrack(track)
  PROVE  /\ Saved' = [Saved EXCEPT ![Number] = ListOf(track)]
         /\ ListOf(stored'[Number]) = ListOf(track)
  <1>1. /\ stored \in [Track -> RhythmData] /\ Number \in Track
        /\ stored' = [stored EXCEPT ![Number] = Written(track)]
    BY Basics DEF Number, WriteRhythmTrack
  <1>2. ListOf(Written(track)) = ListOf(track)
    BY WrittenList
  <1>3. \A t \in Track : stored'[t] = IF t = Number THEN Written(track) ELSE stored[t]
    BY <1>1
  <1>4. Saved' = [t \in Track |-> ListOf(stored'[t])]
    BY DEF Saved
  <1>5. Saved' = [t \in Track |-> IF t = Number THEN ListOf(track) ELSE ListOf(stored[t])]
    BY <1>2, <1>3, <1>4
  <1> QED  BY <1>1, <1>2, <1>3, <1>5 DEF Saved

\* A track that need not be written is stored already.
LEMMA NoWriteSaves ==
  ASSUME IInv, NEW track, ListOf(track) = ListOf(stored[Number]), UNCHANGED stored
  PROVE  /\ Saved' = [Saved EXCEPT ![Number] = ListOf(track)]
         /\ ListOf(stored'[Number]) = ListOf(track)
  <1>1. Number \in Track
    BY Basics DEF Number
  <1>2. Saved' = Saved
    BY DEF Saved
  <1> QED  BY <1>1, <1>2 DEF Saved

\* A track that is opened is shown from its first entry.
LEMMA Opened ==
  ASSUME IInv, NEW s \in Globals, NEW t \in Track,
         stored' \in [Track -> RhythmData],
         UpdateRhythmTrack(s, t), shift' # "fresh"
  PROVE  /\ Kept' /\ List' = ListOf(stored'[t]) /\ Selected' = 1 /\ Number' = t
  <1>1. /\ rhythm_track' = stored'[t] /\ seq'.mode = s.mode
        /\ seq'.track_measure = 0 /\ seq'.current_rhythm_track = t /\ seq'.track_edit = FALSE
        /\ seq'.track_mode = IF stored'[t].length = 0 THEN "CREATE" ELSE "EDIT"
    BY DEF UpdateRhythmTrack, Show, Globals
  <1>2. Kept'
    BY <1>1 DEF Kept, Reloadable, Pressed, Creating, Composing, Editing
  <1>3. List' = ListOf(stored'[t]) /\ Number' = t
    BY <1>1 DEF List, Number
  <1>4. SelectedEntry' = 0
    BY <1>1 DEF SelectedEntry
  <1> QED  BY <1>2, <1>3, <1>4 DEF Selected

-----------------------------------------------------------------------------
(* Each handler is a step of TrackList *)

\* WRITE puts the chosen pattern while a track is created; its advance in an existing
\* track selects nothing new until SHIFT is released.
LEMMA WriteSwitchLists ==
  ASSUME ListInv, IInv', WriteSwitch
  PROVE  Kept' /\ Step
  <1> DEFINE L == rhythm_track.length
             m == seq.track_measure
  <1>b. IInv /\ Kept
    BY DEF ListInv
  <1>1. UNCHANGED stored
    BY DEF WriteSwitch
  <1>2. CASE UNCHANGED <<rhythm_track, seq>> /\ shift' = "held" /\ shift = "up"
    <2>1. Kept'
      BY <1>b, <1>1, <1>2 DEF Kept, Reloadable, Pressed, Creating, Composing, Editing
    <2>2. List' = List /\ Selected' = Selected /\ Saved' = Saved /\ Number' = Number
      BY <1>1, <1>2 DEF List, Selected, Saved, Number, SelectedEntry, Composing, Editing
    <2> QED  BY <2>1, <2>2, QuietStep
  <1>3. CASE Composing /\ Editing /\ Advance /\ shift' = "fresh" /\ shift = "up"
    <2> DEFINE past == m + 1 > L
               next == IF past THEN L ELSE m + 1
    <2>1. L \in Nat /\ m \in Nat /\ m <= L /\ seq \in Globals
      BY <1>b, <1>3, Basics
    <2>2. /\ seq'.track_measure = next /\ seq'.last_pattern = past
          /\ seq'.mode = seq.mode /\ seq'.track_mode = seq.track_mode
          /\ seq'.track_edit = seq.track_edit
          /\ seq'.current_rhythm_track = seq.current_rhythm_track
      BY <1>3, <2>1 DEF Advance, Show, Globals
    <2>3. rhythm_track' = rhythm_track
      BY <1>3 DEF Advance
    <2>4. Composing' /\ Editing'
      BY <1>3, <2>2 DEF Composing, Editing
    <2>5. SelectedEntry = m
      BY <1>3 DEF SelectedEntry
    <2>6. SelectedEntry' = IF ~past THEN next - 1 ELSE L
      BY <1>3, <2>2, <2>3, <2>4 DEF SelectedEntry
    <2>7. SelectedEntry' = m /\ (IF past THEN next = L ELSE next >= 1)
      BY <2>1, <2>6
    <2>8. Kept'
      BY <1>b, <1>1, <2>2, <2>3, <2>4, <2>7
         DEF Kept, Reloadable, Pressed, Creating, Composing, Editing
    <2>9. List' = List /\ Selected' = Selected /\ Saved' = Saved /\ Number' = Number
      BY <1>1, <1>3, <2>2, <2>3, <2>4, <2>5, <2>7 DEF List, Selected, Saved, Number
    <2> QED  BY <2>8, <2>9, QuietStep
  <1>4. CASE Composing /\ ~Editing /\ Stage /\ shift' = "fresh" /\ shift = "up"
    <2> DEFINE next == IF m + 1 = MaxMeasures THEN m ELSE m + 1
    <2>1. /\ L \in Nat /\ m \in Nat /\ (m = L \/ m = L + 1) /\ seq \in Globals
          /\ rhythm_track \in RhythmData
          /\ Sound(rhythm_track) /\ Sound(rhythm_track')
      BY <1>b, <1>4, Basics, Follows DEF Kept, Creating
    <2>2. /\ seq'.track_measure = next /\ seq'.track_edit = TRUE
          /\ seq'.mode = seq.mode /\ seq'.track_mode = seq.track_mode
          /\ seq'.current_rhythm_track = seq.current_rhythm_track
      BY <1>4, <2>1 DEF Stage, Globals
    <2>3. /\ rhythm_track'.length = m
          /\ \A i \in 0..L : i # m => rhythm_track'.patterns[i] = rhythm_track.patterns[i]
      BY <1>4, <2>1 DEF Stage, RhythmData
    <2>4. Composing' /\ ~Editing'
      BY <1>4, <2>2 DEF Composing, Editing
    <2>5. SelectedEntry = m /\ SelectedEntry' = m
      BY <1>4, <2>3, <2>4 DEF SelectedEntry
    <2>6. next = m \/ next = m + 1
      OBVIOUS
    <2>7. Kept'
      BY <1>4, <2>2, <2>3, <2>4, <2>6 DEF Kept, Reloadable, Pressed, Creating
    <2>8. Len(List) = L + 1 /\ List = ListOf(rhythm_track) /\ List' = ListOf(rhythm_track')
      BY <1>4, <1>b, <2>4, Basics DEF List
    <2>9. Len(List') = m + 1 /\ m + 1 <= MaxMeasures
      BY <1>b, <2>3, <2>4, Follows
    <2>10. PICK c \in Cell :
             List' = IF Selected > Len(List) THEN Append(List, c)
                                             ELSE [List EXCEPT ![Selected] = c]
      <3>1. CASE m = L + 1
        <4>1. /\ rhythm_track'.patterns[rhythm_track'.length] \in Cell
              /\ List' = Append(List, rhythm_track'.patterns[rhythm_track'.length])
          BY <2>1, <2>3, <2>8, <3>1, AppendedList
        <4>2. Selected > Len(List)
          BY <2>1, <2>5, <2>8, <3>1 DEF Selected
        <4> QED  BY <4>1, <4>2
      <3>2. CASE m = L
        <4>1. m \in 0..L
          BY <2>1, <3>2
        <4>2. /\ rhythm_track'.patterns[m] \in Cell
              /\ List' = [List EXCEPT ![m + 1] = rhythm_track'.patterns[m]]
          BY <2>1, <2>3, <2>8, <3>2, <4>1, ReplacedList
        <4>3. Selected = m + 1 /\ ~(Selected > Len(List))
          BY <2>1, <2>5, <2>8, <3>2 DEF Selected
        <4> QED  BY <4>2, <4>3
      <3> QED  BY <2>1, <3>1, <3>2
    <2>11. Selected' = Selected /\ Saved' = Saved /\ Number' = Number
      BY <1>1, <2>2, <2>5 DEF Selected, Saved, Number
    <2> QED  BY <2>7, <2>9, <2>10, <2>11, PutStep
  <1> QED  BY <1>2, <1>3, <1>4 DEF WriteSwitch

\* When SHIFT is released the measure that WRITE went on to is selected.
LEMMA ReleaseShiftLists ==
  ASSUME ListInv, ReleaseShift
  PROVE  Kept' /\ Step
  <1> DEFINE L == rhythm_track.length
             m == seq.track_measure
  <1>1. shift' = "up" /\ UNCHANGED <<rhythm_track, seq, stored>>
    BY DEF ReleaseShift
  <1>2. Kept' /\ List' = List /\ Saved' = Saved /\ Number' = Number
    BY <1>1 DEF ListInv, Kept, Reloadable, Pressed, Creating, Composing, Editing,
                List, Saved, Number
  <1>3. CASE Composing
    <2>1. SelectedEntry' = m
      BY <1>1, <1>3 DEF SelectedEntry, Composing
    <2>2. m \in Nat /\ L \in Nat /\ m <= L + 1 /\ Len(List) = L + 1
      BY <1>3, Basics DEF ListInv
    <2>3. Selected' \in 1..(Len(List) + 1)
      BY <2>1, <2>2 DEF Selected
    <2> QED  BY <1>2, <2>3, SelectStep
  <1>4. CASE ~Composing
    <2>1. Selected' = Selected
      BY <1>1, <1>4 DEF Selected, SelectedEntry, Composing
    <2> QED  BY <1>2, <2>1, QuietStep
  <1> QED  BY <1>3, <1>4

\* DELETE removes the selected entry; the only entry of a track stays.
LEMMA DeleteLists ==
  ASSUME Undoing, ListInv, IInv', Delete
  PROVE  Kept' /\ Step
  <1> DEFINE L   == rhythm_track.length
             m   == seq.track_measure
             at  == Dec(m)
             cut == DeleteTrackPattern(rhythm_track, at)
             k   == SelectedEntry
  <1>b. IInv /\ Kept
    BY DEF ListInv
  <1>1. /\ Composing /\ shift = "fresh" /\ (Editing \/ m = L + 1)
        /\ rhythm_track' = cut /\ shift' = "held" /\ UNCHANGED stored
        /\ seq' = [Show(seq, rhythm_track', at) EXCEPT !.track_edit = TRUE]
    BY DEF Delete, Undoable, Undoing
  <1>2. /\ L \in Nat /\ m \in Nat /\ seq \in Globals /\ rhythm_track \in RhythmData
        /\ Editing => m <= L
        /\ Len(List) = L + 1 /\ List = ListOf(rhythm_track)
        /\ Sound(rhythm_track) /\ Sound(rhythm_track') /\ MaxMeasures \in Nat
        /\ L + 1 <= MaxMeasures /\ seq.last_pattern \in BOOLEAN
    BY <1>b, <1>1, Basics, Follows
  <1>3. /\ seq'.track_measure = at /\ seq'.track_edit = TRUE
        /\ seq'.mode = seq.mode /\ seq'.track_mode = seq.track_mode
        /\ seq'.current_rhythm_track = seq.current_rhythm_track
    BY <1>1, <1>2 DEF Show, Globals
  <1>4. Composing' /\ (Editing' <=> Editing) /\ List' = ListOf(rhythm_track')
    BY <1>1, <1>3 DEF Composing, Editing, List
  <1>5. /\ rhythm_track'.length = Dec(L)
        /\ \A i \in 0..L :
             rhythm_track'.patterns[i] =
               IF ~seq.last_pattern /\ i >= at /\ i < L THEN rhythm_track.patterns[i + 1]
                                                       ELSE rhythm_track.patterns[i]
    BY <1>1, <1>2 DEF DeleteTrackPattern, Measure
  <1>6. /\ Selected = k + 1 /\ k \in 0..L
        /\ ~Editing => at = L /\ k = L
        /\ Editing /\ seq.last_pattern => m = L /\ k = L
        /\ Editing /\ ~seq.last_pattern => k = at /\ at = m - 1 /\ L >= 1
    BY <1>b, <1>1, <1>2 DEF Selected, SelectedEntry, Kept, Pressed, Dec
  <1>7. SelectedEntry' = at
    BY <1>1, <1>3, <1>4 DEF SelectedEntry
  <1>8. Kept'
    <2>1. ~Editing => at \in {Dec(L), Dec(L) + 1}
      BY <1>2, <1>6 DEF Dec
    <2> QED  BY <1>1, <1>3, <1>4, <1>5, <2>1 DEF Kept, Reloadable, Pressed, Creating
  <1>9. Saved' = Saved /\ Number' = Number
    BY <1>1, <1>3 DEF Saved, Number
  <1>10. CASE L = 0
    <2>1. rhythm_track'.length = L
          /\ \A i \in 0..L : rhythm_track'.patterns[i] = rhythm_track.patterns[i]
      BY <1>2, <1>5, <1>10 DEF Dec
    <2>2. List' = List
      BY <1>2, <1>4, <2>1, SameList
    <2>3. at = k
      BY <1>2, <1>6, <1>10 DEF Dec
    <2> QED  BY <1>6, <1>7, <1>8, <1>9, <2>2, <2>3, QuietStep DEF Selected
  <1>11. CASE L # 0
    <2>1. Dec(L) = L - 1 /\ rhythm_track'.length = L - 1
      BY <1>2, <1>5, <1>11 DEF Dec
    <2>2. ASSUME NEW i \in 0..(L - 1)
          PROVE  rhythm_track'.patterns[i] =
                   IF i < k THEN rhythm_track.patterns[i] ELSE rhythm_track.patterns[i + 1]
      <3>1. i \in 0..L /\ i < L /\ i \in Nat
        BY <1>2
      <3>2. (~seq.last_pattern /\ i >= at /\ i < L) <=> ~(i < k)
        BY <1>2, <1>6, <3>1
      <3> QED  BY <1>5, <3>1, <3>2
    <2>3. List' = Promised!RemoveAt(List, k + 1)
      <3> HIDE DEF k
      <3>1. ListOf(rhythm_track') = Promised!RemoveAt(ListOf(rhythm_track), k + 1)
        BY <1>2, <1>6, <2>1, <2>2, RemovedList
      <3> QED  BY <1>2, <1>4, <3>1
    <2>4. Len(List') = L
      BY <1>4, <1>2, <2>1, ListFits
    <2>5. at = k \/ at + 1 = L
      BY <1>2, <1>6, <1>11 DEF Dec
    <2>6. Selected' = Selected \/ Selected' = Len(List')
      BY <1>6, <1>7, <2>4, <2>5 DEF Selected
    <2>7. Selected <= Len(List) /\ Len(List) > 1
      BY <1>2, <1>6, <1>11
    <2> QED  BY <1>6, <1>8, <1>9, <2>3, <2>6, <2>7, DeleteStep
  <1> QED  BY <1>10, <1>11

\* A step that changes neither the tracks nor what is selected of them.
LEMMA IdleLists ==
  ASSUME ListInv, UNCHANGED <<rhythm_track, stored, shift>>,
         seq'.mode = seq.mode, seq'.track_mode = seq.track_mode,
         seq'.track_edit = seq.track_edit, seq'.last_pattern = seq.last_pattern,
         seq'.current_rhythm_track = seq.current_rhythm_track,
         Composing => seq'.track_measure = seq.track_measure
  PROVE  Kept' /\ Step
  <1>1. (Composing' <=> Composing) /\ (Editing' <=> Editing)
    BY DEF Composing, Editing
  <1>2. Kept'
    BY <1>1 DEF ListInv, Kept, Reloadable, Pressed, Creating
  <1>3. List' = List /\ Selected' = Selected /\ Saved' = Saved /\ Number' = Number
    BY <1>1 DEF List, Selected, SelectedEntry, Saved, Number
  <1> QED  BY <1>2, <1>3, QuietStep

\* The shown entry of a track is changed and the edit flagged.
LEMMA ShownEntryLists ==
  ASSUME ListInv, IInv', Composing, Editing, shift = "up",
         UNCHANGED <<stored, shift>>,
         rhythm_track'.length = rhythm_track.length,
         \A i \in 0..rhythm_track.length :
           i # seq.track_measure => rhythm_track'.patterns[i] = rhythm_track.patterns[i],
         seq'.mode = seq.mode, seq'.track_mode = seq.track_mode, seq'.track_edit = TRUE,
         seq'.current_rhythm_track = seq.current_rhythm_track,
         seq'.track_measure = seq.track_measure
  PROVE  Kept' /\ Step
  <1> DEFINE L == rhythm_track.length
             m == seq.track_measure
             c == rhythm_track'.patterns[m]
  <1>1. Composing' /\ Editing'
    BY DEF Composing, Editing
  <1>2. Kept'
    BY <1>1 DEF Kept, Reloadable, Pressed, Creating
  <1>3. /\ L \in Nat /\ m \in 0..L /\ L + 1 <= MaxMeasures
        /\ Sound(rhythm_track) /\ Sound(rhythm_track')
        /\ List = ListOf(rhythm_track) /\ Len(List) = L + 1 /\ Len(List') = L + 1
    BY <1>1, Basics, Follows DEF ListInv
  <1>4. c \in Cell /\ ListOf(rhythm_track') = [ListOf(rhythm_track) EXCEPT ![m + 1] = c]
    BY <1>3, ReplacedList
  <1>5. List' = ListOf(rhythm_track')
    BY <1>1 DEF List
  <1>6. Selected = m + 1 /\ Selected' = Selected /\ Saved' = Saved /\ Number' = Number
    BY <1>1 DEF Selected, SelectedEntry, Saved, Number
  <1>7. List' = IF Selected > Len(List) THEN Append(List, c) ELSE [List EXCEPT ![Selected] = c]
    <2>1. ~(Selected > Len(List))
      BY <1>3, <1>6
    <2> HIDE DEF c
    <2> QED  BY <2>1, <1>3, <1>4, <1>5, <1>6
  <1> QED  BY <1>2, <1>3, <1>4, <1>6, <1>7, PutStep

\* INSERT duplicates the selected entry, or behind the last one appends.
LEMMA InsertLists ==
  ASSUME Undoing, ListInv, IInv', Insert
  PROVE  Kept' /\ Step
  <1> DEFINE L     == rhythm_track.length
             m     == seq.track_measure
             n     == IF L + 1 = MaxMeasures THEN MaxMeasures - 1 ELSE L + 1
             grown == [rhythm_track EXCEPT
                         !.length = IF @ + 1 = MaxMeasures THEN MaxMeasures - 1 ELSE @ + 1]
             at    == IF seq.last_pattern THEN grown.length ELSE Dec(m)
             shown == IF seq.last_pattern THEN [seq EXCEPT !.track_measure = at]
                                          ELSE Show(seq, rhythm_track, at)
             moved == IF seq.last_pattern THEN grown ELSE InsertTrackPattern(grown, at)
             entry == [pattern |-> shown.new_pattern, bank |-> shown.pattern_bank]
  <1>b. IInv /\ Kept
    BY DEF ListInv
  <1>1. /\ Composing /\ shift = "fresh" /\ Editing /\ shift' = "held" /\ UNCHANGED stored
        /\ rhythm_track' = [moved EXCEPT !.patterns[at] = entry]
        /\ seq' = [shown EXCEPT !.track_edit = TRUE]
    BY DEF Insert, Undoable, Undoing
  <1>2. /\ L \in Nat /\ m \in Nat /\ seq \in Globals /\ rhythm_track \in RhythmData
        /\ m <= L /\ Len(List) = L + 1 /\ List = ListOf(rhythm_track)
        /\ Sound(rhythm_track) /\ Sound(rhythm_track')
        /\ MaxMeasures \in Nat /\ L + 1 <= MaxMeasures /\ seq.last_pattern \in BOOLEAN
    BY <1>b, <1>1, Basics, Follows
  <1>3. n \in Nat /\ n \in Measure /\ n = IF L + 1 = MaxMeasures THEN L ELSE L + 1
    BY <1>2 DEF Measure
  <1>4. /\ grown.length = n /\ grown.patterns = rhythm_track.patterns
        /\ grown \in RhythmData
    BY <1>2, <1>3 DEF RhythmData
  <1>5. /\ seq'.track_measure = at /\ seq'.track_edit = TRUE
        /\ seq'.mode = seq.mode /\ seq'.track_mode = seq.track_mode
        /\ seq'.current_rhythm_track = seq.current_rhythm_track
    <2> HIDE DEF at
    <2> QED  BY <1>1, <1>2 DEF Show, Globals
  <1>6. Composing' /\ Editing' /\ List' = ListOf(rhythm_track')
    BY <1>1, <1>5 DEF Composing, Editing, List
  <1>7. Kept'
    BY <1>1, <1>5, <1>6 DEF Kept, Reloadable, Pressed, Creating
  <1>8. Saved' = Saved /\ Number' = Number /\ SelectedEntry' = at
    BY <1>1, <1>5, <1>6 DEF Saved, Number, SelectedEntry
  <1>9. CASE seq.last_pattern
    <2>1. at = n /\ rhythm_track' = [grown EXCEPT !.patterns[n] = entry]
      BY <1>1, <1>4, <1>9
    <2>2. /\ rhythm_track'.length = n
          /\ \A i \in 0..L : i # n => rhythm_track'.patterns[i] = rhythm_track.patterns[i]
      <3> HIDE DEF n, entry, grown
      <3> QED  BY <2>1, <1>4 DEF RhythmData
    <2>3. m = L /\ SelectedEntry = L
      BY <1>b, <1>1, <1>9 DEF SelectedEntry, Kept, Pressed
    <2>4. CASE L + 1 = MaxMeasures
      <3>1. n = L /\ n \in 0..L
        BY <1>2, <1>3, <2>4
      <3>2. /\ rhythm_track'.patterns[L] \in Cell
            /\ List' = [List EXCEPT ![L + 1] = rhythm_track'.patterns[L]]
        BY <1>2, <1>6, <2>2, <3>1, ReplacedList
      <3>3. ~(Selected > Len(List)) /\ Selected = L + 1
        BY <1>2, <2>3 DEF Selected
      <3>4. Len(List') <= MaxMeasures
        BY <1>2, <1>6, <2>2, <3>1, Follows
      <3>5. Selected' = Selected
        BY <1>8, <2>1, <2>3, <3>1 DEF Selected
      <3> QED  BY <1>7, <1>8, <3>2, <3>3, <3>4, <3>5, PutStep
    <2>5. CASE L + 1 # MaxMeasures
      <3>1. n = L + 1
        BY <1>2, <1>3, <2>5
      <3>2. \A i \in 0..L : rhythm_track'.patterns[i] = rhythm_track.patterns[i]
        BY <1>2, <2>2, <3>1
      <3>3. /\ rhythm_track'.patterns[rhythm_track'.length] \in Cell
            /\ List' = Append(List, rhythm_track'.patterns[rhythm_track'.length])
        BY <1>2, <1>6, <2>2, <3>1, <3>2, AppendedList
      <3>4. Selected = Len(List) /\ Len(List) < MaxMeasures
        BY <1>2, <2>3, <2>5 DEF Selected
      <3>5. Selected' = Len(List')
        BY <1>6, <1>8, <2>1, <2>2, Follows DEF Selected
      <3> QED  BY <1>7, <1>8, <3>3, <3>4, <3>5, AppendStep
    <2> QED  BY <2>4, <2>5
  <1>10. CASE ~seq.last_pattern
    <2>1. m >= 1 /\ at = m - 1 /\ SelectedEntry = at
      BY <1>b, <1>1, <1>2, <1>10 DEF SelectedEntry, Kept, Pressed, Dec
    <2>2. at \in 0..L /\ at \in Measure /\ at \in Nat
      BY <1>2, <2>1 DEF Measure
    <2>3. entry = rhythm_track.patterns[at]
      <3>1. rhythm_track.patterns[at] \in Cell
        BY <1>2, <2>2 DEF Sound, Filled
      <3>2. /\ shown.new_pattern = rhythm_track.patterns[at].pattern
            /\ shown.pattern_bank = rhythm_track.patterns[at].bank
        <4> HIDE DEF at
        <4> QED  BY <1>2, <1>10 DEF Show, Globals
      <3> HIDE DEF shown
      <3> QED  BY <3>1, <3>2 DEF Cell
    <2>4. moved = [grown EXCEPT !.patterns = [i \in Measure |->
            IF i > at /\ i <= n THEN grown.patterns[i - 1] ELSE grown.patterns[i]]]
      <3> HIDE DEF at
      <3> QED  BY <1>4, <1>10 DEF InsertTrackPattern, RhythmData
    <2>5. moved.length = n /\ moved.patterns = [i \in Measure |->
            IF i > at /\ i <= n THEN rhythm_track.patterns[i - 1] ELSE rhythm_track.patterns[i]]
      <3> HIDE DEF at, moved, n, grown
      <3> QED  BY <1>4, <2>4 DEF RhythmData
    <2>6. rhythm_track'.length = n /\ rhythm_track'.patterns = [moved.patterns EXCEPT ![at] = entry]
      <3>1. moved \in [patterns : {moved.patterns}, length : {n}]
        <4> HIDE DEF at, n, grown
        <4> QED  BY <1>4, <2>4 DEF RhythmData
      <3> HIDE DEF at, moved, n, entry
      <3> QED  BY <1>1, <3>1
    <2>7. ASSUME NEW i \in 0..n
          PROVE  rhythm_track'.patterns[i] =
                   IF i <= at THEN rhythm_track.patterns[i] ELSE rhythm_track.patterns[i - 1]
      <3> HIDE DEF at, moved, n, entry
      <3>1. i \in Measure /\ i \in Nat /\ i <= n
        BY <1>2, <1>3 DEF Measure
      <3>2. rhythm_track'.patterns[i] = IF i = at THEN entry ELSE moved.patterns[i]
        BY <2>2, <2>5, <2>6, <3>1
      <3>3. moved.patterns[i] = IF i > at THEN rhythm_track.patterns[i - 1]
                                          ELSE rhythm_track.patterns[i]
        BY <2>5, <3>1
      <3> QED  BY <2>2, <2>3, <3>1, <3>2, <3>3
    <2>8. List' = Promised!Bounded(Promised!InsertAt(List, at + 1, List[at + 1]))
      <3> HIDE DEF at, entry, moved, grown, n
      <3>1. rhythm_track'.length =
              IF rhythm_track.length + 1 = MaxMeasures THEN rhythm_track.length
                                                       ELSE rhythm_track.length + 1
        BY <1>3, <2>6
      <3>2. \A i \in 0..rhythm_track'.length :
              rhythm_track'.patterns[i] =
                IF i <= at THEN rhythm_track.patterns[i] ELSE rhythm_track.patterns[i - 1]
        BY <2>6, <2>7
      <3>3. ListOf(rhythm_track') = Promised!Bounded(
              Promised!InsertAt(ListOf(rhythm_track), at + 1, ListOf(rhythm_track)[at + 1]))
        BY <1>2, <2>2, <3>1, <3>2, InsertedList
      <3> QED  BY <1>2, <1>6, <3>3
    <2>9. Selected = at + 1 /\ Selected' = Selected /\ Selected <= Len(List)
      <3> HIDE DEF at
      <3> QED  BY <1>2, <1>8, <2>1, <2>2 DEF Selected
    <2> HIDE DEF at
    <2> QED  BY <1>7, <1>8, <2>8, <2>9, InsertStep
  <1> QED  BY <1>2, <1>9, <1>10

\* A step key puts a pattern in the shown entry.
LEMMA StepRunningLists ==
  ASSUME ListInv, IInv', StepRunning
  PROVE  Kept' /\ Step
  <1>1. PICK p \in Pattern :
          LET enter == p # seq.current_pattern /\ Editing
          IN  /\ seq' = [seq EXCEPT !.new_pattern = p, !.track_edit = @ \/ enter]
              /\ IF enter
                   THEN /\ Count
                        /\ rhythm_track' =
                             [rhythm_track EXCEPT !.patterns[seq.track_measure].pattern = p]
                   ELSE UNCHANGED <<rhythm_track, edits>>
    BY DEF StepRunning
  <1>2. Composing /\ shift = "up" /\ UNCHANGED <<stored, shift>>
    BY DEF StepRunning
  <1>3. seq \in Globals /\ rhythm_track \in RhythmData /\ seq.track_edit \in BOOLEAN
    BY Basics DEF ListInv
  <1>4. /\ seq'.mode = seq.mode /\ seq'.track_mode = seq.track_mode
        /\ seq'.current_rhythm_track = seq.current_rhythm_track
        /\ seq'.track_measure = seq.track_measure /\ seq'.last_pattern = seq.last_pattern
        /\ seq'.track_edit = (seq.track_edit \/ (p # seq.current_pattern /\ Editing))
    BY <1>1, <1>3 DEF Globals
  <1>5. CASE p # seq.current_pattern /\ Editing
    <2>1. seq'.track_edit = TRUE
      BY <1>4, <1>5
    <2> DEFINE c == [rhythm_track.patterns[seq.track_measure] EXCEPT !.pattern = p]
    <2>2. rhythm_track' = [rhythm_track EXCEPT !.patterns[seq.track_measure] = c]
      BY <1>1, <1>5
    <2>3. /\ rhythm_track'.length = rhythm_track.length
          /\ \A i \in 0..rhythm_track.length :
               i # seq.track_measure => rhythm_track'.patterns[i] = rhythm_track.patterns[i]
      <3> HIDE DEF c
      <3> QED  BY <1>3, <2>2 DEF RhythmData
    <2> QED  BY <1>2, <1>4, <1>5, <2>1, <2>3, ShownEntryLists
  <1>6. CASE ~(p # seq.current_pattern /\ Editing)
    <2>1. seq'.track_edit = seq.track_edit
      BY <1>3, <1>4, <1>6, Zenon
    <2>2. UNCHANGED rhythm_track
      BY <1>1, <1>6
    <2> QED  BY <1>2, <1>4, <2>1, <2>2, IdleLists
  <1> QED  BY <1>5, <1>6

\* ALT and a step key put a bank in the shown entry.
LEMMA BankRunningLists ==
  ASSUME Undoing, ListInv, IInv', BankRunning
  PROVE  Kept' /\ Step
  <1>1. PICK b \in Bank \ {seq.pattern_bank} :
          /\ seq' = [seq EXCEPT !.pattern_bank = b]
          /\ rhythm_track' =
               IF Editing THEN [rhythm_track EXCEPT !.patterns[seq.track_measure].bank = b]
                          ELSE rhythm_track
    BY DEF BankRunning
  <1>2. Composing /\ shift = "up" /\ UNCHANGED <<stored, shift>> /\ (Editing => seq.track_edit)
    BY DEF BankRunning, Undoing
  <1>3. seq \in Globals /\ rhythm_track \in RhythmData /\ seq.track_edit \in BOOLEAN
    BY Basics DEF ListInv
  <1>4. /\ seq'.mode = seq.mode /\ seq'.track_mode = seq.track_mode
        /\ seq'.current_rhythm_track = seq.current_rhythm_track
        /\ seq'.track_measure = seq.track_measure /\ seq'.last_pattern = seq.last_pattern
        /\ seq'.track_edit = seq.track_edit
    BY <1>1, <1>3 DEF Globals
  <1>5. CASE Editing
    <2>1. seq'.track_edit = TRUE
      BY <1>2, <1>3, <1>4, <1>5
    <2> DEFINE c == [rhythm_track.patterns[seq.track_measure] EXCEPT !.bank = b]
    <2>2. rhythm_track' = [rhythm_track EXCEPT !.patterns[seq.track_measure] = c]
      BY <1>1, <1>5
    <2>3. /\ rhythm_track'.length = rhythm_track.length
          /\ \A i \in 0..rhythm_track.length :
               i # seq.track_measure => rhythm_track'.patterns[i] = rhythm_track.patterns[i]
      <3> HIDE DEF c
      <3> QED  BY <1>3, <2>2 DEF RhythmData
    <2> QED  BY <1>2, <1>4, <1>5, <2>1, <2>3, ShownEntryLists
  <1>6. CASE ~Editing
    BY <1>1, <1>2, <1>4, <1>6, IdleLists
  <1> QED  BY <1>5, <1>6

\* While stopped the step keys change no track.
LEMMA StepStoppedLists ==
  ASSUME ListInv, StepStopped
  PROVE  Kept' /\ Step
  <1>1. seq \in Globals
    BY Basics DEF ListInv
  <1>2. /\ seq'.mode = seq.mode /\ seq'.track_mode = seq.track_mode
        /\ seq'.current_rhythm_track = seq.current_rhythm_track
        /\ seq'.track_measure = seq.track_measure /\ seq'.last_pattern = seq.last_pattern
        /\ seq'.track_edit = seq.track_edit
    BY <1>1 DEF StepStopped, Globals
  <1> QED  BY <1>2, IdleLists DEF StepStopped

\* SHIFT + MODE in a track that is being created takes back its last entry, which is the
\* selected one; everywhere else it leaves the track alone.
LEMMA UnstagedList ==
  ASSUME Undoing, ListInv,
         Composing /\ ~Editing /\ shift # "up" => Undoable \/ seq.track_measure = 0
  PROVE  /\ Sound(Unstaged)
         /\ \/ ListOf(Unstaged) = ListOf(rhythm_track)
            \/ /\ Composing /\ Selected <= Len(List) /\ Len(List) > 1
               /\ ListOf(Unstaged) = Promised!RemoveAt(List, Selected)
  <1> DEFINE L   == rhythm_track.length
             m   == seq.track_measure
             len == Dec(Dec(m))
  <1>1. /\ L \in Nat /\ m \in Nat /\ rhythm_track \in RhythmData /\ Sound(rhythm_track)
        /\ Composing => List = ListOf(rhythm_track) /\ Len(List) = L + 1
    BY Basics DEF ListInv
  <1>2. CASE ~(Composing /\ ~Editing /\ shift # "up")
    BY <1>1, <1>2 DEF Unstaged
  <1>3. CASE Composing /\ ~Editing /\ shift # "up"
    <2>1. Unstaged = [rhythm_track EXCEPT !.length = len]
      BY <1>3 DEF Unstaged
    <2>2. (m = L \/ m = L + 1) /\ (m = 0 \/ (shift = "fresh" /\ m = L + 1))
      BY <1>3 DEF ListInv, Kept, Creating, Undoable, Undoing
    <2>3. len = Dec(L)
      BY <1>1, <2>2 DEF Dec
    <2>4. /\ Unstaged \in RhythmData /\ Unstaged.length = Dec(L)
          /\ Unstaged.patterns = rhythm_track.patterns
      <3>1. Dec(L) \in Measure
        BY <1>1, Sizes DEF RhythmData, Measure, Dec
      <3> QED  BY <1>1, <2>1, <2>3, <3>1 DEF RhythmData
    <2>5. Sound(Unstaged)
      <3>1. 0..Dec(L) \subseteq 0..L
        BY <1>1 DEF Dec
      <3> QED  BY <1>1, <2>4, <3>1 DEF Sound, Filled
    <2>6. CASE L = 0
      <3>1. Dec(L) = L
        BY <2>6 DEF Dec
      <3> QED  BY <1>1, <2>4, <2>5, <3>1, SameList
    <2>7. CASE L # 0
      <3>1. Dec(L) = L - 1 /\ L > 0 /\ L \in 0..L
        BY <1>1, <2>7 DEF Dec
      <3>2. SelectedEntry = L
        BY <1>1, <1>3, <2>2, <3>1 DEF SelectedEntry
      <3>3. \A i \in 0..Unstaged.length :
              Unstaged.patterns[i] =
                IF i < L THEN rhythm_track.patterns[i] ELSE rhythm_track.patterns[i + 1]
        BY <1>1, <2>4, <3>1
      <3>4. ListOf(Unstaged) = Promised!RemoveAt(ListOf(rhythm_track), L + 1)
        BY <1>1, <2>4, <2>5, <3>1, <3>3, RemovedList
      <3> QED  BY <1>1, <1>3, <2>5, <3>1, <3>2, <3>4 DEF Selected
    <2> QED  BY <2>6, <2>7
  <1> QED  BY <1>2, <1>3

\* MODE closes the open track, or opens the one that is chosen.
LEMMA ModeSwitchLists ==
  ASSUME Undoing, ListInv, ModeSwitch
  PROVE  Kept' /\ Step
  <1> DEFINE turned == [seq EXCEPT !.mode = Turn(@)]
             kept   == ListOf(stored'[Number])
  <1>b. IInv /\ Kept
    BY DEF ListInv
  <1>1. /\ Composing /\ ~Editing /\ shift # "up" => Undoable \/ seq.track_measure = 0
        /\ WriteIfEdited(Unstaged) /\ shift' # "fresh"
    BY DEF ModeSwitch
  <1>2. /\ seq \in Globals /\ Number \in Track /\ seq.track_edit \in BOOLEAN
        /\ stored \in [Track -> RhythmData]
        /\ Composing => List = ListOf(rhythm_track)
    BY <1>b, Basics DEF Number
  <1>3. /\ Sound(Unstaged)
        /\ \/ ListOf(Unstaged) = ListOf(rhythm_track)
           \/ /\ Composing /\ Selected <= Len(List) /\ Len(List) > 1
              /\ ListOf(Unstaged) = Promised!RemoveAt(List, Selected)
    BY <1>1, UnstagedList
  <1>4. stored' \in [Track -> RhythmData]
    BY <1>b, <1>1, <1>3, StoreStaysSound
  <1>5. /\ Saved' = [Saved EXCEPT ![Number] = kept]
        /\ kept = List \/ (Selected <= Len(List) /\
             kept = IF Len(List) > 1 THEN Promised!RemoveAt(List, Selected) ELSE List)
    <2>1. CASE seq.track_edit
      <3>1. Composing
        BY <1>b, <2>1 DEF Kept, Reloadable
      <3>2. WriteRhythmTrack(Unstaged)
        BY <1>1, <2>1 DEF WriteIfEdited
      <3>3. Saved' = [Saved EXCEPT ![Number] = ListOf(Unstaged)] /\ kept = ListOf(Unstaged)
        BY <1>b, <1>3, <3>2, WriteSaves
      <3> HIDE DEF kept
      <3> QED  BY <1>2, <1>3, <3>1, <3>3
    <2>2. CASE ~seq.track_edit
      <3>1. UNCHANGED stored
        BY <1>1, <2>2 DEF WriteIfEdited
      <3>2. ListOf(stored[Number]) = List
        BY <1>b, <2>2 DEF Kept, Reloadable, List, Number
      <3>3. Saved' = [Saved EXCEPT ![Number] = kept] /\ kept = List
        BY <1>b, <3>1, <3>2, NoWriteSaves
      <3> QED  BY <3>3
    <2> QED  BY <1>2, <2>1, <2>2
  <1>6. Kept' /\ List' = kept /\ Selected' = 1 /\ Number' = Number
    <2>1. CASE turned.mode = "PATTERN"
      <3>1. seq' = [turned EXCEPT !.track_edit = FALSE]
        BY <2>1 DEF ModeSwitch
      <3>2. /\ seq'.mode = "PATTERN" /\ seq'.track_edit = FALSE
            /\ seq'.current_rhythm_track = seq.current_rhythm_track
        BY <1>2, <2>1, <3>1 DEF Globals
      <3>3. ~Composing'
        BY <3>2 DEF Composing
      <3> QED
        BY <1>1, <3>2, <3>3 DEF Kept, Reloadable, Pressed, Creating, List, Selected,
                                SelectedEntry, Number
    <2>2. CASE turned.mode # "PATTERN"
      <3>1. UpdateRhythmTrack(turned, Number)
        BY <2>2 DEF ModeSwitch, Number
      <3>2. turned \in Globals
        <4>1. Turn(seq.mode) \in {"PLAY_RHYTHM", "COMPOSE_RHYTHM", "PATTERN"}
          BY <1>2 DEF Turn, Globals
        <4> QED  BY <1>2, <4>1 DEF Globals
      <3> HIDE DEF turned
      <3> QED  BY <1>b, <1>1, <1>2, <1>4, <3>1, <3>2, Opened
    <2> QED  BY <2>1, <2>2
  <1> HIDE DEF kept
  <1> QED  BY <1>5, <1>6, CloseStep

\* A track key stores the open track and opens another, or the same.
LEMMA TrackSwitchLists ==
  ASSUME ListInv, TrackSwitch
  PROVE  Kept' /\ Step
  <1>b. IInv /\ Kept
    BY DEF ListInv
  <1>1. PICK t \in Track :
          /\ WriteIfEdited(rhythm_track)
          /\ IF t # seq.current_rhythm_track
               THEN /\ UpdateRhythmTrack(seq, t)
                    /\ shift' = IF shift = "up" THEN "up" ELSE "held"
               ELSE /\ seq' = [seq EXCEPT !.track_edit = FALSE]
                    /\ UNCHANGED <<rhythm_track, shift>>
    BY DEF TrackSwitch
  <1>2. /\ seq \in Globals /\ Number \in Track /\ seq.track_edit \in BOOLEAN
        /\ stored \in [Track -> RhythmData] /\ Sound(rhythm_track)
        /\ Composing => List = ListOf(rhythm_track)
    BY <1>b, Basics DEF Number
  <1>3. stored' \in [Track -> RhythmData]
    BY <1>b, <1>1, <1>2, StoreStaysSound
  <1>4. Saved' = [Saved EXCEPT ![Number] = List] /\ ListOf(stored'[Number]) = List
    <2>1. CASE seq.track_edit
      <3>1. Composing
        BY <1>b, <2>1 DEF Kept, Reloadable
      <3>2. WriteRhythmTrack(rhythm_track)
        BY <1>1, <2>1 DEF WriteIfEdited
      <3> QED  BY <1>b, <1>2, <3>1, <3>2, WriteSaves
    <2>2. CASE ~seq.track_edit
      <3>1. UNCHANGED stored
        BY <1>1, <2>2 DEF WriteIfEdited
      <3>2. ListOf(stored[Number]) = List
        BY <1>b, <2>2 DEF Kept, Reloadable, List, Number
      <3> QED  BY <1>b, <3>1, <3>2, NoWriteSaves
    <2> QED  BY <1>2, <2>1, <2>2
  <1>5. CASE t # seq.current_rhythm_track
    <2>1. shift' # "fresh" /\ UpdateRhythmTrack(seq, t)
      BY <1>1, <1>5
    <2>2. Kept' /\ List' = ListOf(stored'[t]) /\ Selected' = 1 /\ Number' = t
      BY <1>b, <1>2, <1>3, <2>1, Opened
    <2>3. Saved'[t] = ListOf(stored'[t])
      BY DEF Saved
    <2> QED  BY <1>4, <2>2, <2>3, OpenStep
  <1>6. CASE t = seq.current_rhythm_track
    <2>1. /\ seq'.mode = seq.mode /\ seq'.track_mode = seq.track_mode
          /\ seq'.track_edit = FALSE /\ seq'.last_pattern = seq.last_pattern
          /\ seq'.track_measure = seq.track_measure
          /\ seq'.current_rhythm_track = seq.current_rhythm_track
          /\ UNCHANGED <<rhythm_track, shift>>
      BY <1>1, <1>2, <1>6 DEF Globals
    <2>2. (Composing' <=> Composing) /\ (Editing' <=> Editing)
      BY <2>1 DEF Composing, Editing
    <2>3. Number' = Number /\ Selected' = Selected
      BY <2>1, <2>2 DEF Number, Selected, SelectedEntry
    <2>4. List' = List
      BY <1>2, <1>4, <2>1, <2>2 DEF List, Number
    <2>5. Kept'
      BY <1>b, <1>2, <1>4, <2>1, <2>2 DEF Kept, Reloadable, Pressed, Creating, Number
    <2> QED  BY <1>4, <2>3, <2>4, <2>5, SaveStep
  <1> QED  BY <1>5, <1>6

\* CLEAR leaves a blank track, in RAM and stored.
LEMMA ClearSwitchLists ==
  ASSUME ListInv, IInv', ClearSwitch
  PROVE  Kept' /\ Step
  <1>b. IInv /\ Kept
    BY DEF ListInv
  <1>1. /\ Composing /\ shift = "up" /\ shift' = "up"
        /\ rhythm_track' = Empty /\ WriteRhythmTrack(Empty)
    BY DEF ClearSwitch, WriteRhythmTrack
  <1>2. Sound(Empty) /\ seq \in Globals
    BY <1>b, <1>1, Basics, Follows
  <1>3. /\ seq'.mode = seq.mode /\ seq'.track_mode = "CREATE" /\ seq'.track_measure = 0
        /\ seq'.track_edit = seq.track_edit
        /\ seq'.current_rhythm_track = seq.current_rhythm_track
    BY <1>2 DEF ClearSwitch, Globals
  <1>4. Composing' /\ Number' = Number
    BY <1>1, <1>3 DEF Composing, Number
  <1>5. ListOf(Empty) = <<Blank>>
    <2>1. Blank \in Cell
      BY Sizes DEF Blank, Cell, Pattern, Bank
    <2> DEFINE one == <<Blank>>
    <2>2. one \in Seq(Cell) /\ Len(one) = 1 /\ one[1] = Blank
      BY <2>1
    <2>3. Empty.length = 0 /\ Empty.patterns[0] = Blank
      BY Sizes DEF Empty, Measure
    <2> HIDE DEF one
    <2>4. Len(one) = Empty.length + 1 /\ \A i \in 0..Empty.length : one[i + 1] = Empty.patterns[i]
      BY <2>2, <2>3
    <2>5. ListOf(Empty) = one
      BY <1>2, <2>2, <2>4, ListIs
    <2> QED  BY <2>5 DEF one
  <1>6. Saved' = [Saved EXCEPT ![Number] = ListOf(Empty)] /\ ListOf(stored'[Number]) = ListOf(Empty)
    BY <1>b, <1>1, <1>2, WriteSaves
  <1>7. List' = ListOf(Empty)
    BY <1>1, <1>4 DEF List
  <1>8. Selected' = 1
    BY <1>1, <1>3, <1>4 DEF Selected, SelectedEntry
  <1>9. Kept'
    <2>1. Empty.length = 0
      BY DEF Empty
    <2> QED
      BY <1>1, <1>3, <1>4, <1>6, <2>1 DEF Kept, Reloadable, Pressed, Creating, Number
  <1> QED  BY <1>4, <1>5, <1>6, <1>7, <1>8, <1>9, ClearStep

\* START changes no track.
LEMMA StartLists ==
  ASSUME ListInv, Start
  PROVE  Kept' /\ Step
  <1>1. seq \in Globals
    BY Basics DEF ListInv
  <1>2. /\ seq'.mode = seq.mode /\ seq'.track_mode = seq.track_mode
        /\ seq'.current_rhythm_track = seq.current_rhythm_track
        /\ Composing => seq'.track_measure = seq.track_measure
        /\ seq'.last_pattern = seq.last_pattern /\ seq'.track_edit = seq.track_edit
    BY <1>1 DEF Start, Globals
  <1> QED  BY <1>2, IdleLists DEF Start

\* STOP selects the first entry.
LEMMA StopLists ==
  ASSUME ListInv, Stop
  PROVE  Kept' /\ Step
  <1> DEFINE L == rhythm_track.length
  <1>b. IInv /\ Kept
    BY DEF ListInv
  <1>2. seq \in Globals /\ L \in Nat
    BY <1>b, Basics
  <1>3. UNCHANGED <<rhythm_track, stored>> /\ shift' # "fresh"
    BY DEF Stop
  <1>4. /\ seq'.mode = seq.mode /\ seq'.track_edit = seq.track_edit
        /\ seq'.current_rhythm_track = seq.current_rhythm_track /\ seq'.track_measure = 0
        /\ seq'.track_mode = IF Composing /\ L > 0 THEN "EDIT" ELSE seq.track_mode
    BY <1>2 DEF Stop, Show, Globals, Composing
  <1>5. Composing' <=> Composing
    BY <1>4 DEF Composing
  <1>6. List' = List /\ Saved' = Saved /\ Number' = Number
    BY <1>3, <1>4, <1>5 DEF List, Saved, Number
  <1>7. Selected' = 1
    BY <1>3, <1>4 DEF Selected, SelectedEntry
  <1>8. Kept'
    BY <1>b, <1>2, <1>3, <1>4, <1>5
       DEF Kept, Reloadable, Pressed, Creating, Editing
  <1>9. CASE Composing
    <2>1. Len(List) \in Nat
      BY <1>b, <1>2, <1>9, Basics
    <2> QED  BY <1>6, <1>7, <1>8, <2>1, SelectStep
  <1>10. CASE ~Composing
    <2>1. Selected = 1
      BY <1>10 DEF Selected, SelectedEntry
    <2> QED  BY <1>6, <1>7, <1>8, <2>1, QuietStep
  <1> QED  BY <1>9, <1>10

\* The end of a measure changes no track.
LEMMA MeasureEndsLists ==
  ASSUME ListInv, MeasureEnds
  PROVE  Kept' /\ Step
  <1>1. seq \in Globals
    BY Basics DEF ListInv
  <1>2. /\ seq'.mode = seq.mode /\ seq'.track_mode = seq.track_mode
        /\ seq'.current_rhythm_track = seq.current_rhythm_track
        /\ seq'.track_measure = seq.track_measure
        /\ seq'.last_pattern = seq.last_pattern /\ seq'.track_edit = seq.track_edit
    BY <1>1 DEF MeasureEnds, Globals
  <1> QED  BY <1>2, IdleLists DEF MeasureEnds

\* Switched on, no track is open.
LEMMA InitLists == Init => Kept /\ Promised!Init
  <1> SUFFICES ASSUME Init PROVE Kept /\ Promised!Init
    OBVIOUS
  <1>1. ~Composing /\ seq.track_edit = FALSE /\ shift = "up"
    BY DEF Init, Composing
  <1>2. Kept
    BY <1>1 DEF Kept, Reloadable, Pressed, Creating
  <1>3. IInv
    BY InitInv
  <1>4. /\ \A t \in Track : Sound(stored[t])
        /\ seq.current_rhythm_track \in Track /\ SelectedEntry = 0
    BY <1>1, <1>3, Basics
  <1>5. ASSUME NEW t \in Track  PROVE ListOf(stored[t]) \in Promised!Lists
    <2>1. Sound(stored[t])
      BY <1>4
    <2> QED  BY <2>1, ListFits DEF Promised!Lists
  <1>6. Saved \in [Track -> Promised!Lists] /\ List = Saved[Number] /\ Number \in Track
    BY <1>1, <1>4, <1>5 DEF Saved, List, Number
  <1> QED  BY <1>2, <1>4, <1>6 DEF Promised!Init, Saved, List, Number

\* Every step is one of TrackList, or none.
LEMMA NextLists ==
  ASSUME Undoing, ListInv, IInv', [Next]_vars
  PROVE  Kept' /\ Step
  <1>1. CASE WriteSwitch    BY <1>1, WriteSwitchLists
  <1>2. CASE ReleaseShift   BY <1>2, ReleaseShiftLists
  <1>3. CASE Delete         BY <1>3, DeleteLists
  <1>4. CASE Insert         BY <1>4, InsertLists
  <1>5. CASE StepRunning    BY <1>5, StepRunningLists
  <1>6. CASE BankRunning    BY <1>6, BankRunningLists
  <1>7. CASE StepStopped    BY <1>7, StepStoppedLists
  <1>8. CASE ModeSwitch     BY <1>8, ModeSwitchLists
  <1>9. CASE TrackSwitch    BY <1>9, TrackSwitchLists
  <1>10. CASE ClearSwitch   BY <1>10, ClearSwitchLists
  <1>11. CASE Start         BY <1>11, StartLists
  <1>12. CASE Stop          BY <1>12, StopLists
  <1>13. CASE MeasureEnds   BY <1>13, MeasureEndsLists
  <1>14. CASE UNCHANGED vars
    BY <1>14, IdleLists DEF vars
  <1> QED  BY <1>1, <1>2, <1>3, <1>4, <1>5, <1>6, <1>7, <1>8, <1>9, <1>10, <1>11,
              <1>12, <1>13, <1>14 DEF Next

\* Whatever keys are pressed, the player sees the list of patterns that TrackList
\* promises: DELETE and INSERT undo the WRITE that their SHIFT was and are about the
\* entry it came from, nothing else moves, and no edit is lost when another track or
\* mode is chosen.
THEOREM ImplementsTrackList ==
  ASSUME Undoing
  PROVE  Spec => TracksAreLists
  <1>1. Init => IInv /\ Kept /\ Promised!Init
    BY InitInv, InitLists
  <1>2. IInv /\ Kept /\ [Next]_vars => IInv' /\ Kept' /\ Step
    BY NextInv, NextLists DEF ListInv
  <1>3. IInv /\ Kept /\ [Next]_vars =>
          [Promised!Next]_<<List, Selected, Saved, Number>>
    BY <1>2 DEF Step
  <1> QED
    BY <1>1, <1>2, <1>3, PTL DEF Spec, TracksAreLists, Promised!Spec,
       List, Selected, Saved, Number
=============================================================================
