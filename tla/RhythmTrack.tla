---------------------------- MODULE RhythmTrack ----------------------------
(***************************************************************************)
(* Composing rhythm tracks: what WRITE, the step keys, MODE, CLEAR, START, *)
(* STOP and the track keys do to the track in RAM, and the track's way to  *)
(* the EEPROM and back.                                                    *)
(*                                                                         *)
(* WRITE and SHIFT are one key: whoever holds SHIFT has pressed WRITE,     *)
(* which in this mode advances the track or, while a track is created,     *)
(* stages a pattern; DELETE, INSERT and SHIFT + MODE undo that first.      *)
(***************************************************************************)
EXTENDS Integers

CONSTANTS
  NumPatterns,  \* patterns (16 in the code)
  NumBanks,     \* NUM_BANKS
  NumTracks,    \* NUM_TRACKS
  MaxMeasures,  \* NUM_PATTERNS: measures in a track (64)
  Begun,        \* what the EEPROM may hold at first
  MaxEdits,     \* bound on the changes of a track
  Gestures      \* the gestures this instance's player makes

ASSUME SizeAssumption ==
  /\ NumPatterns \in Nat \ {0} /\ NumBanks \in Nat \ {0} /\ NumTracks \in Nat \ {0}
  /\ MaxMeasures \in Nat \ {0} /\ MaxEdits \in Nat

Pattern == 0..(NumPatterns - 1)
Bank    == 0..(NumBanks - 1)
Measure == 0..(MaxMeasures - 1)
Track   == 0..(NumTracks - 1)
Cell    == [pattern : Pattern, bank : Bank]
Blank   == [pattern |-> 0, bank |-> 0]
Junk    == [pattern |-> NumPatterns, bank |-> NumBanks]  \* an uninitialised entry

RhythmData == [patterns : [Measure -> Cell \union {Junk}], length : Measure]

\* Every entry of the track has been written.
Filled(track) == \A i \in 0..track.length : track.patterns[i] \in Cell

ASSUME BegunAssumption ==
  /\ Begun \subseteq [Track -> RhythmData]
  /\ \A kept \in Begun, t \in Track : Filled(kept[t])

Empty == [patterns |-> [i \in Measure |-> Blank], length |-> 0]

VARIABLES
  rhythm_track,  \* the track in RAM; its last measure is number length
  seq,           \* the sequencer's globals
  stored,        \* the tracks in the EEPROM
  shift,         \* SHIFT is "up"; or "fresh", its press of WRITE not yet used; or "held"
  edits          \* changes of a track made

vars == <<rhythm_track, seq, stored, shift, edits>>

Composing == seq.mode = "COMPOSE_RHYTHM"
Editing   == seq.track_mode = "EDIT"
Dec(n)    == IF n > 0 THEN n - 1 ELSE 0

Chosen == [pattern |-> seq.new_pattern, bank |-> seq.pattern_bank]

\* The measure's entry becomes the pattern that is chosen.
Show(s, track, measure) ==
  [s EXCEPT !.track_measure = measure,
            !.new_pattern = track.patterns[measure].pattern,
            !.pattern_bank = track.patterns[measure].bank]

Count == edits < MaxEdits /\ edits' = edits + 1

-----------------------------------------------------------------------------
(* The EEPROM *)

\* Mutant of Written: the last entry is not copied.
WrittenShort(track) ==
  [track EXCEPT !.patterns = [i \in Measure |-> IF i < track.length THEN @[i] ELSE Junk]]

\* Entries past the length come from a local that is not initialised.
Written(track) ==
  [track EXCEPT !.patterns = [i \in Measure |-> IF i <= track.length THEN @[i] ELSE Junk]]

WriteRhythmTrack(track) ==
  stored' = [stored EXCEPT ![seq.current_rhythm_track] = Written(track)]

WriteIfEdited(track) ==
  IF seq.track_edit THEN WriteRhythmTrack(track) ELSE UNCHANGED stored

\* Also while running the first entry becomes the pattern that plays.
UpdateRhythmTrack(s, t) ==
  LET track == stored'[t]
  IN  /\ rhythm_track' = track
      /\ seq' = [Show(s, track, 0) EXCEPT
           !.current_rhythm_track = t,
           !.track_edit = FALSE,
           !.track_mode = IF track.length = 0 THEN "CREATE" ELSE "EDIT",
           !.current_pattern = track.patterns[0].pattern]

-----------------------------------------------------------------------------
(* WRITE, alias SHIFT *)

\* In an existing track: on to the next measure.
Advance ==
  LET past == seq.track_measure + 1 > rhythm_track.length
      next == IF past THEN rhythm_track.length ELSE seq.track_measure + 1
  IN  /\ seq' = [Show(seq, rhythm_track, next) EXCEPT !.last_pattern = past]
      /\ UNCHANGED <<rhythm_track, edits>>

\* Mutant of Stage: the measure is not held at the last one.
StageUncapped ==
  /\ Count
  /\ rhythm_track' = [rhythm_track EXCEPT
       !.patterns[seq.track_measure] = Chosen, !.length = seq.track_measure]
  /\ seq' = [seq EXCEPT !.track_measure = @ + 1, !.track_edit = TRUE]

\* In a track being created: the chosen pattern becomes the entry of this measure.
Stage ==
  /\ Count
  /\ rhythm_track' = [rhythm_track EXCEPT
       !.patterns[seq.track_measure] = Chosen, !.length = seq.track_measure]
  /\ seq' = [seq EXCEPT
       !.track_measure = IF @ + 1 = MaxMeasures THEN @ ELSE @ + 1, !.track_edit = TRUE]

\* With ALT, or in another mode, the key is SHIFT only.
WriteSwitch ==
  /\ shift = "up"
  /\ \/ UNCHANGED <<rhythm_track, seq, edits>> /\ shift' = "held"
     \/ Composing /\ (IF Editing THEN Advance ELSE Stage) /\ shift' = "fresh"
  /\ UNCHANGED stored

ReleaseShift ==
  /\ shift # "up" /\ shift' = "up"
  /\ UNCHANGED <<rhythm_track, seq, stored, edits>>

\* Each press of WRITE is undone by what is done with SHIFT.  Without the "unstage"
\* gesture that happens once a press, and not in a full track that is being created.
Undoable ==
  "unstage" \in Gestures
    \/ (shift = "fresh" /\ (Editing \/ seq.track_measure = rhythm_track.length + 1))

-----------------------------------------------------------------------------
(* DELETE and INSERT *)

\* Mutant of DeleteTrackPattern: the entries are moved by one too many.
DeleteTrackPatternNext(track, measure) ==
  [patterns |-> [i \in Measure |->
     IF ~seq.last_pattern /\ i > measure /\ i < track.length
       THEN track.patterns[i + 1] ELSE track.patterns[i]],
   length |-> Dec(track.length)]

DeleteTrackPattern(track, measure) ==
  [patterns |-> [i \in Measure |->
     IF ~seq.last_pattern /\ i >= measure /\ i < track.length
       THEN track.patterns[i + 1] ELSE track.patterns[i]],
   length |-> Dec(track.length)]

InsertTrackPattern(track, measure) ==
  [track EXCEPT !.patterns = [i \in Measure |->
     IF i > measure /\ i <= track.length THEN track.patterns[i - 1] ELSE @[i]]]

Delete ==
  /\ Composing /\ seq.START /\ shift # "up" /\ Undoable
  /\ Count
  /\ rhythm_track' = DeleteTrackPattern(rhythm_track, Dec(seq.track_measure))
  /\ seq' = [Show(seq, rhythm_track', Dec(seq.track_measure)) EXCEPT !.track_edit = TRUE]
  /\ shift' = "held"
  /\ UNCHANGED stored

\* At the last measure a copy of its entry is appended.  Without the "unstage" gesture
\* only an existing track is inserted into.
Insert ==
  /\ Composing /\ seq.START /\ shift # "up" /\ Undoable
  /\ Editing \/ "unstage" \in Gestures
  /\ Count
  /\ LET grown == [rhythm_track EXCEPT
           !.length = IF @ + 1 = MaxMeasures THEN MaxMeasures - 1 ELSE @ + 1]
         at    == IF seq.last_pattern THEN grown.length ELSE Dec(seq.track_measure)
         shown == IF seq.last_pattern THEN [seq EXCEPT !.track_measure = at]
                                      ELSE Show(seq, rhythm_track, at)
         moved == IF seq.last_pattern THEN grown ELSE InsertTrackPattern(grown, at)
     IN  /\ seq' = [shown EXCEPT !.track_edit = TRUE]
         /\ rhythm_track' = [moved EXCEPT !.patterns[at] =
              [pattern |-> shown.new_pattern, bank |-> shown.pattern_bank]]
  /\ shift' = "held"
  /\ UNCHANGED stored

-----------------------------------------------------------------------------
(* The step keys *)

\* Running: the pattern of the shown entry, unless it is the one that plays.
StepRunning ==
  /\ Composing /\ seq.START /\ shift = "up"
  /\ \E p \in Pattern :
       LET enter == p # seq.current_pattern /\ Editing
       IN  /\ seq' = [seq EXCEPT !.new_pattern = p, !.track_edit = @ \/ enter]
           /\ IF enter
                THEN /\ Count
                     /\ rhythm_track' =
                          [rhythm_track EXCEPT !.patterns[seq.track_measure].pattern = p]
                ELSE UNCHANGED <<rhythm_track, edits>>
  /\ UNCHANGED <<stored, shift>>

\* ALT: the bank of the shown entry; the edit is not flagged.  Without the "bank_only"
\* gesture an existing track has been edited before.
BankRunning ==
  /\ Composing /\ seq.START /\ shift = "up"
  /\ Editing => seq.track_edit \/ "bank_only" \in Gestures
  /\ Count
  /\ \E b \in Bank \ {seq.pattern_bank} :
       /\ seq' = [seq EXCEPT !.pattern_bank = b]
       /\ rhythm_track' =
            IF Editing THEN [rhythm_track EXCEPT !.patterns[seq.track_measure].bank = b]
                       ELSE rhythm_track
  /\ UNCHANGED <<stored, shift>>

\* Stopped: the pattern is only listened to, or staged next.
StepStopped ==
  /\ Composing /\ ~seq.START
  /\ \/ \E p \in Pattern : seq' = [seq EXCEPT !.current_pattern = p, !.new_pattern = p]
     \/ shift = "up" /\ \E b \in Bank : seq' = [seq EXCEPT !.pattern_bank = b]
  /\ UNCHANGED <<rhythm_track, stored, shift, edits>>

-----------------------------------------------------------------------------
(* MODE, track keys, CLEAR, START and STOP *)

\* MODE goes through the modes in order, SHIFT + MODE backwards.
Turn(mode) == [PLAY_RHYTHM    |-> IF shift = "up" THEN "COMPOSE_RHYTHM" ELSE "PATTERN",
               COMPOSE_RHYTHM |-> IF shift = "up" THEN "PATTERN" ELSE "PLAY_RHYTHM",
               PATTERN        |-> IF shift = "up" THEN "PLAY_RHYTHM" ELSE "COMPOSE_RHYTHM"][mode]

\* SHIFT + MODE takes back the pattern that SHIFT has staged.
Unstaged ==
  IF Composing /\ ~Editing /\ shift # "up"
    THEN [rhythm_track EXCEPT !.length = Dec(Dec(seq.track_measure))]
    ELSE rhythm_track

\* The four other modes count as one, PATTERN; they use nothing of this state.
ModeSwitch ==
  /\ Composing /\ ~Editing /\ shift # "up" => Undoable \/ seq.track_measure = 0
  /\ WriteIfEdited(Unstaged)
  /\ LET turned == [seq EXCEPT !.mode = Turn(@)]
     IN  IF turned.mode = "PATTERN"
           THEN /\ rhythm_track' = Unstaged
                /\ seq' = [turned EXCEPT !.track_edit = FALSE]
           ELSE UpdateRhythmTrack(turned, seq.current_rhythm_track)
  /\ shift' = IF shift = "up" THEN "up" ELSE "held"
  /\ UNCHANGED edits

\* The accent key opens track 0 whether or not SHIFT is held.  (SHIFT + accent while
\* running locks SHIFT, which is left out.)
TrackSwitch ==
  /\ seq.mode # "PATTERN"
  /\ \E t \in Track :
       /\ shift = "up" \/ (t = 0 /\ ~seq.START)
       /\ WriteIfEdited(rhythm_track)
       /\ IF t # seq.current_rhythm_track
            THEN /\ UpdateRhythmTrack(seq, t)
                 /\ shift' = IF shift = "up" THEN "up" ELSE "held"
            ELSE /\ seq' = [seq EXCEPT !.track_edit = FALSE]
                 /\ UNCHANGED <<rhythm_track, shift>>
  /\ UNCHANGED edits

\* track_edit is left as it is.
ClearSwitch ==
  /\ Composing /\ shift = "up"
  /\ Count
  /\ rhythm_track' = Empty
  /\ seq' = [seq EXCEPT !.track_measure = 0, !.track_mode = "CREATE", !.pattern_bank = 0]
  /\ WriteRhythmTrack(rhythm_track')
  /\ UNCHANGED shift

Start ==
  /\ ~seq.START
  /\ seq' = [seq EXCEPT !.START = TRUE, !.track_measure = IF Composing THEN @ ELSE 0]
  /\ UNCHANGED <<rhythm_track, stored, shift, edits>>

\* process_stop returns to the first entry of the track.
Stop ==
  /\ seq.START
  /\ LET stopped == [seq EXCEPT !.START = FALSE, !.track_measure = 0,
                                !.current_pattern = seq.new_pattern]
         rewound == [Show(stopped, rhythm_track, 0) EXCEPT
                       !.current_pattern = rhythm_track.patterns[0].pattern]
     IN  seq' = IF seq.mode = "PATTERN" THEN stopped
                ELSE IF Composing /\ rhythm_track.length > 0
                  THEN [rewound EXCEPT !.track_mode = "EDIT"]
                ELSE rewound
  /\ shift' = IF shift = "up" THEN "up" ELSE "held"
  /\ UNCHANGED <<rhythm_track, stored, edits>>

\* The end of a measure: the chosen pattern plays.
MeasureEnds ==
  /\ Composing /\ seq.START
  /\ seq' = [seq EXCEPT !.current_pattern = seq.new_pattern]
  /\ UNCHANGED <<rhythm_track, stored, shift, edits>>

\* Every track has been cleared or written: the EEPROM is not blank.
Init ==
  /\ stored \in Begun
  /\ rhythm_track = Empty
  /\ seq = [mode |-> "PATTERN", START |-> FALSE, track_mode |-> "CREATE",
            track_measure |-> 0, new_pattern |-> 0, current_pattern |-> 0,
            pattern_bank |-> 0, current_rhythm_track |-> 0,
            last_pattern |-> FALSE, track_edit |-> FALSE]
  /\ shift = "up" /\ edits = 0

Next ==
  \/ WriteSwitch \/ ReleaseShift \/ Delete \/ Insert
  \/ StepRunning \/ BankRunning \/ StepStopped
  \/ ModeSwitch \/ TrackSwitch \/ ClearSwitch
  \/ Start \/ Stop \/ MeasureEnds

Spec == Init /\ [][Next]_vars

-----------------------------------------------------------------------------
(* Correctness *)

Globals ==
  [mode : {"PLAY_RHYTHM", "COMPOSE_RHYTHM", "PATTERN"}, START : BOOLEAN,
   track_mode : {"CREATE", "EDIT"}, track_measure : Measure, new_pattern : Pattern,
   current_pattern : Pattern, pattern_bank : Bank, current_rhythm_track : Track,
   last_pattern : BOOLEAN, track_edit : BOOLEAN]

\* Every variable holds what its C type can hold, and no index leaves the track.
TypeOK ==
  /\ rhythm_track \in RhythmData
  /\ seq \in Globals
  /\ stored \in [Track -> RhythmData]
  /\ shift \in {"up", "fresh", "held"}
  /\ edits \in 0..MaxEdits

\* The measure that is shown is one of the track, or the next to be created, and no
\* entry of a track, in RAM or stored, is one that nobody has written.
NoLooseEntry ==
  /\ Composing => seq.track_measure <= rhythm_track.length + (IF Editing THEN 0 ELSE 1)
  /\ Filled(rhythm_track)
  /\ \A t \in Track : Filled(stored[t])

\* The keys work on the list of patterns that the player is promised: WRITE's advance
\* is undone to the entry it came from, nothing else moves, and no edit is lost when
\* another track or mode is chosen.
ListOf(track) == [i \in 1..(track.length + 1) |-> track.patterns[i - 1]]

SelectedEntry ==
  IF ~Composing THEN 0
  ELSE IF shift # "fresh" THEN seq.track_measure
  ELSE IF Editing /\ ~seq.last_pattern THEN seq.track_measure - 1
  ELSE rhythm_track.length

Promised == INSTANCE TrackList WITH
  list <- ListOf(IF Composing THEN rhythm_track ELSE stored[seq.current_rhythm_track]),
  selected <- SelectedEntry + 1,
  saved <- [t \in Track |-> ListOf(stored[t])],
  number <- seq.current_rhythm_track
TracksAreLists == Promised!Spec
=============================================================================
