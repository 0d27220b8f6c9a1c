------------------------------- MODULE Drums -------------------------------
(***************************************************************************)
(* Hits and their triggers.  A hit comes from a MIDI note, from a pad, an  *)
(* input of the expander, or a step of the sequencer; it sets trigger bits *)
(* in spi_data, which spi_read_write shifts out once per pass of the main  *)
(* loop.  Timer 0 ends the triggers: trigger_drum waits for its interrupt, *)
(* trigger_step does not.  The common TRIG line and the LEDs are left out; *)
(* the accent is a bit like a drum's.                                      *)
(***************************************************************************)
EXTENDS Integers

CONSTANTS
  Drum,          \* the drums that are hit, by their index in drum_hit
  Assigned,      \* sequencer.trigger_1, trigger_2: the drum at each trigger output
  DrumGestures   \* what happens in this instance

AC == 16
Output == {1, 2}

ASSUME DrumAssumption == Drum \subseteq 0..15 /\ Assigned \in [Output -> 0..AC]

\* LC, MC, HC and CL share the voice and the trigger bit of LT, MT, HT and RS.
SW_DRUM_OFFSET == 9
Bit(drum) == IF drum \in 11..14 THEN drum - SW_DRUM_OFFSET ELSE drum
Switched  == {2, 3, 4, 5}
Value(drum) == IF drum \in {2, 3, 4, 14} THEN 1 ELSE 0     \* switch_value
CONGAS_OFF == [bit \in Switched |-> 1]

VARIABLES
  trig,          \* the trigger bits in spi_data
  switch,        \* LATCH_3 of spi_data: which of two drums each shared voice is
  outputs,       \* TRIGGER_OUT: the trigger outputs that are high
  timer,         \* timer 0: off, started in this pass (young), or before (old)
  trig_finished,
  current_drum_hit,
  hit,           \* the arguments of trigger_drum, and where it returns to
  START,
  midi_slave,    \* clock_mode is MIDI_SLAVE
  drum_pc,       \* where the main loop is
  struck         \* history: the hits since the last shift

drumVars == <<trig, switch, outputs, timer, trig_finished, current_drum_hit, hit,
              START, midi_slave, drum_pc, struck>>
wires == <<trig, switch, outputs>>

\* LATCH_3 with the switch of a drum set.
Switch(sw, drum) ==
  IF Bit(drum) \in Switched THEN [sw EXCEPT ![Bit(drum)] = Value(drum)] ELSE sw

-----------------------------------------------------------------------------
(* Hits *)

\* Without the "same_pass" gesture a pass of the loop, a millisecond at most, has one
\* hit; without "early" none comes while a timer that nothing waits for still runs.
Alone == struck = {} \/ "same_pass" \in DrumGestures
Settled == timer = "off" \/ "early" \in DrumGestures

\* The call of trigger_drum: it clears all triggers, then it waits.
TriggerDrum(drum, accent, back) ==
  /\ Alone /\ (Settled \/ ~trig_finished)
  /\ trig' = {} /\ outputs' = {}
  /\ hit' = [drum |-> drum, accent |-> accent, back |-> back]
  /\ drum_pc' = "wait"

\* note_on_event: ignored while the sequencer runs.
NoteOn ==
  /\ drum_pc = "midi" /\ "notes" \in DrumGestures /\ ~START
  /\ \E drum \in Drum, accent \in BOOLEAN : TriggerDrum(drum, accent, "midi")
  /\ UNCHANGED <<switch, timer, trig_finished, current_drum_hit, START, midi_slave, struck>>

NoMoreNotes ==
  /\ drum_pc = "midi" /\ drum_pc' = "panel"
  /\ UNCHANGED <<timer, trig_finished, current_drum_hit, hit, START, midi_slave, struck>>
  /\ UNCHANGED wires

\* process_start and process_stop.
StartStop ==
  /\ drum_pc = "panel" /\ "transport" \in DrumGestures /\ Alone
  /\ START' = ~START
  /\ switch' = [bit \in Switched |-> IF bit = 5 THEN switch[bit] ELSE CONGAS_OFF[bit]]
  /\ drum_pc' = "pads"
  /\ UNCHANGED <<trig, outputs, timer, trig_finished, current_drum_hit, hit, midi_slave, struck>>

NoStartStop ==
  /\ drum_pc = "panel" /\ drum_pc' = "pads"
  /\ UNCHANGED <<timer, trig_finished, current_drum_hit, hit, START, midi_slave, struck>>
  /\ UNCHANGED wires

\* live_hits, one button at a time; the second drum of a button with intro_fill_var.
LiveHits ==
  /\ drum_pc = "pads" /\ "pads" \in DrumGestures
  /\ \E drum \in Drum : TriggerDrum(drum, FALSE, "pads")
  /\ UNCHANGED <<switch, timer, trig_finished, current_drum_hit, START, midi_slave, struck>>

\* process_external_triggers, when the trigger inputs rose: ASSIGN_2 selects the second
\* drum of a voice, ASSIGN_1 the accent; the mute of the CB to CH inputs is not looked at.
ExternalTriggers ==
  /\ drum_pc = "pads" /\ "expander" \in DrumGestures /\ ~START
  /\ Alone /\ (Settled \/ ~midi_slave)
  /\ \E rising \in SUBSET (Drum \ 11..14) \ {{}}, muted \in SUBSET Drum, second, accent \in BOOLEAN :
       LET heard == rising \ (muted \ 7..10)
           drum(i) == IF second /\ i \in Switched THEN i + SW_DRUM_OFFSET ELSE i
           hits == {drum(i) : i \in heard} \union (IF accent THEN {AC} ELSE {})
       IN  /\ trig' = {Bit(d) : d \in hits}
           /\ struck' = hits
           /\ switch' = [bit \in Switched |->
                IF bit \in heard THEN Value(drum(bit)) ELSE switch[bit]]
  /\ outputs' = {} /\ drum_pc' = "step"
  /\ UNCHANGED <<timer, trig_finished, current_drum_hit, hit, START, midi_slave>>

NoMorePads ==
  /\ drum_pc = "pads" /\ drum_pc' = "step"
  /\ UNCHANGED <<timer, trig_finished, current_drum_hit, hit, START, midi_slave, struck>>
  /\ UNCHANGED wires

-----------------------------------------------------------------------------
(* trigger_drum *)

Start(t) == IF t = "off" THEN "young" ELSE t

\* Mutant of Arm: nothing is waited for.
ArmUnwaiting ==
  /\ drum_pc = "wait"
  /\ current_drum_hit' = hit.drum
  /\ trig' = trig \union {Bit(hit.drum)} \union (IF hit.accent THEN {AC} ELSE {})
  /\ switch' = Switch(switch, hit.drum)
  /\ struck' = struck \union {hit.drum} \union (IF hit.accent THEN {AC} ELSE {})
  /\ timer' = Start(timer)
  /\ drum_pc' = "armed"
  /\ UNCHANGED <<outputs, trig_finished, hit, START, midi_slave>>

\* The wait is over: the bits are set and the timer is started.
Arm ==
  /\ drum_pc = "wait" /\ trig_finished
  /\ current_drum_hit' = hit.drum
  /\ trig' = trig \union {Bit(hit.drum)} \union (IF hit.accent THEN {AC} ELSE {})
  /\ switch' = Switch(switch, hit.drum)
  /\ struck' = struck \union {hit.drum} \union (IF hit.accent THEN {AC} ELSE {})
  /\ timer' = Start(timer)
  /\ drum_pc' = "armed"
  /\ UNCHANGED <<outputs, trig_finished, hit, START, midi_slave>>

\* trig_finished is cleared when the timer already runs.
Armed ==
  /\ drum_pc = "armed" /\ drum_pc' = hit.back
  /\ trig_finished' = FALSE
  /\ UNCHANGED <<timer, current_drum_hit, hit, START, midi_slave, struck>> /\ UNCHANGED wires

-----------------------------------------------------------------------------
(* Steps of the sequencer *)

\* Mutant of TriggerStep: the timer is left to the first hit.
TriggerStepUntimed ==
  /\ drum_pc = "step" /\ START /\ "steps" \in DrumGestures
  /\ Alone /\ Settled
  /\ trig' = {} /\ outputs' = {}
  /\ drum_pc' = "fill"
  /\ UNCHANGED <<switch, timer, trig_finished, current_drum_hit, hit, START, midi_slave, struck>>

\* trigger_step, for a step, or for a half step when the second part has none: all
\* triggers are cleared and the timer is started.
TriggerStep ==
  /\ drum_pc = "step" /\ START /\ "steps" \in DrumGestures
  /\ Alone /\ Settled
  /\ trig' = {} /\ outputs' = {}
  /\ timer' = Start(timer)
  /\ drum_pc' = "fill"
  /\ UNCHANGED <<switch, trig_finished, current_drum_hit, hit, START, midi_slave, struck>>

\* A roll hits the current instrument; then the drums of the step in the order of their
\* index, those that are muted only at the outputs; then the accent.
FillStep ==
  /\ drum_pc = "fill" /\ drum_pc' = "shift"
  /\ \E roll, drums \in SUBSET Drum, muted \in SUBSET Drum, accent \in BOOLEAN :
       LET heard  == drums \ muted
           hits   == roll \union heard \union (IF accent THEN {AC} ELSE {})
           last(bit) == LET of == {d \in heard : Bit(d) = bit}
                        IN  CHOOSE d \in of : \A e \in of : d >= e
       IN  /\ \A d, e \in roll : d = e
           /\ trig' = trig \union {Bit(d) : d \in hits}
           /\ struck' = struck \union hits
           /\ switch' = [bit \in Switched |->
                IF \E d \in heard : Bit(d) = bit THEN Value(last(bit))
                ELSE IF \E d \in roll : Bit(d) = bit
                  THEN Value(CHOOSE d \in roll : Bit(d) = bit)
                ELSE switch[bit]]
           /\ outputs' = outputs \union
                {o \in Output : Assigned[o] \in drums \union (IF accent THEN {AC} ELSE {})}
  /\ UNCHANGED <<timer, trig_finished, current_drum_hit, hit, START, midi_slave>>

\* The half step of a 32nd roll, when the second part has steps.
RollHit ==
  /\ drum_pc = "step" /\ START /\ "steps" \in DrumGestures
  /\ \E drum \in Drum \union {AC} : TriggerDrum(drum, FALSE, "shift")
  /\ UNCHANGED <<switch, timer, trig_finished, current_drum_hit, START, midi_slave, struck>>

NoStep ==
  /\ drum_pc = "step" /\ drum_pc' = "shift"
  /\ UNCHANGED <<timer, trig_finished, current_drum_hit, hit, START, midi_slave, struck>>
  /\ UNCHANGED wires

-----------------------------------------------------------------------------
(* Output *)

\* spi_read_write; the pass ends.
Shift ==
  /\ drum_pc = "shift" /\ drum_pc' = "midi"
  /\ struck' = {}
  /\ timer' = IF timer = "off" THEN "off" ELSE "old"
  /\ UNCHANGED <<trig_finished, current_drum_hit, hit, START, midi_slave>> /\ UNCHANGED wires

\* Timer 0 has reached its goal, a millisecond after a note, 15 after a step.  Without
\* the "slow_pass" gesture the pass that started it is over by then, or waits for it.
Elapsed == timer = "old" \/ (timer = "young" /\ (drum_pc = "wait" \/ "slow_pass" \in DrumGestures))

\* Mutant of TriggerEnds: only a slave has its triggers finished.
TriggerEndsSlave ==
  /\ Elapsed
  /\ timer' = "off" /\ outputs' = {}
  /\ trig_finished' = (trig_finished \/ midi_slave)
  /\ trig' = IF midi_slave THEN trig \ {Bit(current_drum_hit), AC} ELSE trig
  /\ UNCHANGED <<switch, current_drum_hit, hit, START, midi_slave, drum_pc, struck>>

\* The interrupt of timer 0.
TriggerEnds ==
  /\ Elapsed
  /\ timer' = "off" /\ outputs' = {}
  /\ trig_finished' = TRUE
  /\ trig' = IF midi_slave THEN trig \ {Bit(current_drum_hit), AC} ELSE trig
  /\ UNCHANGED <<switch, current_drum_hit, hit, START, midi_slave, drum_pc, struck>>

-----------------------------------------------------------------------------
DrumInit ==
  /\ trig = {} /\ switch = [CONGAS_OFF EXCEPT ![5] = 0] /\ outputs = {}
  /\ timer = "off" /\ trig_finished = TRUE
  /\ current_drum_hit = 0
  /\ hit = [drum |-> 0, accent |-> FALSE, back |-> "midi"]
  /\ START = FALSE /\ midi_slave \in BOOLEAN
  /\ drum_pc = "midi" /\ struck = {}

DrumLoop ==
  \/ NoteOn \/ NoMoreNotes \/ StartStop \/ NoStartStop \/ LiveHits \/ ExternalTriggers \/ NoMorePads
  \/ Arm \/ Armed \/ TriggerStep \/ FillStep \/ RollHit \/ NoStep \/ Shift

DrumNext == DrumLoop \/ TriggerEnds

DrumSpec == DrumInit /\ [][DrumNext]_drumVars

\* The loop goes on unless it waits; a running timer reaches its goal.
DrumFairness == WF_drumVars(DrumLoop) /\ WF_drumVars(TriggerEnds)

-----------------------------------------------------------------------------
(* Correctness *)

\* Every index is one of drum_hit's, every line one that exists.
DrumTypeOK ==
  /\ trig \subseteq 0..AC
  /\ switch \in [Switched -> 0..1]
  /\ outputs \subseteq Output
  /\ timer \in {"off", "young", "old"}
  /\ trig_finished \in BOOLEAN
  /\ current_drum_hit \in 0..AC
  /\ hit \in [drum : 0..AC, accent : BOOLEAN, back : {"midi", "pads", "shift"}]
  /\ START \in BOOLEAN /\ midi_slave \in BOOLEAN
  /\ drum_pc \in {"midi", "panel", "pads", "step", "fill", "wait", "armed", "shift"}
  /\ struck \subseteq 0..AC

\* Every hit of a pass is still set when the triggers are shifted out, and its voice is
\* switched to it, unless both drums of the voice are hit: "need to wait until trigger
\* interrupt is complete before triggering new drum sound, otherwise new hits come and
\* and 'overwrite' old hits" (drums.c:47).
HitsSound ==
  drum_pc = "shift" =>
    \A d \in struck :
      /\ Bit(d) \in trig
      /\ Bit(d) \in Switched =>
           switch[Bit(d)] = Value(d) \/ \E e \in struck \ {d} : Bit(e) = Bit(d)

\* trig_finished is never left cleared when no interrupt is to come that sets it
\* (drums.c:83 against interrupts.c:73): trigger_drum would wait until the watchdog bites.
WaitIsFounded == trig_finished \/ timer # "off"

\* A trigger output that a step has raised falls again.
OutputsFall == outputs # {} ~> outputs = {}
=============================================================================
