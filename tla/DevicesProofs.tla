--------------------------- MODULE DevicesProofs ----------------------------
(***************************************************************************)
(* The parts of MCDevices, for any sets of switches, buttons and drums.    *)
(*                                                                         *)
(* SwitchScan: every press is served once.  Instruments: a press selects   *)
(* what is printed on its key; the proofs leave out the press that solos   *)
(* the accent (the "ac_cowbell" gesture).  Drums: no hit is lost, for any  *)
(* assignment of the trigger outputs, as long as hits do not come in the   *)
(* same pass of the loop, nor while a timer still runs that nothing waits  *)
(* for, and a pass is over before the timer that it has started.  Under    *)
(* fairness outputs fall and LEDs come to show what they should.           *)
(***************************************************************************)
EXTENDS MCDevices, TLAPS

-----------------------------------------------------------------------------
(* The scan of the switches *)

\* PressServedOnce needs to know where the loop is; before the first pass has parsed what
\* it sampled nothing else is in the way.
ScanInv == ScanTypeOK /\ PressServedOnce

\* Before the first pass of the loop no press is due.
LEMMA ScanStart == ScanInit => ScanInv
  BY DEF ScanInit, ScanInv, ScanTypeOK, PressServedOnce

\* The edges that spi_read_write keeps are the presses: what is down and was not.
LEMMA EdgesArePresses ==
  ASSUME NEW read, NEW previous
  PROVE  /\ Debounce(read, previous).current = read \ previous
         /\ Debounce(read, previous).previous = read
  BY DEF Debounce, Exclusive

\* The main loop and the contacts keep the invariant.
LEMMA ScanStep == ScanInv /\ [ScanNext]_scanVars => ScanInv'
  <1> SUFFICES ASSUME ScanInv, [ScanNext]_scanVars PROVE ScanInv'
    OBVIOUS
  <1> USE DEF ScanInv, ScanTypeOK, PressServedOnce
  <1>1. CASE Contact
    BY <1>1 DEF Contact, Exclusive
  <1>2. CASE parse_switch_data
    BY <1>2 DEF parse_switch_data, Exclusive
  <1>3. CASE Serve
    BY <1>3 DEF Serve
  <1>4. CASE spi_read_write
    <2>1. /\ spi_current_switch_data' = down \ spi_previous_switch_data
          /\ spi_previous_switch_data' = down
      BY <1>4, EdgesArePresses DEF spi_read_write
    <2>2. due = button
      BY <1>4 DEF spi_read_write
    <2> QED
      BY <1>4, <2>1, <2>2 DEF spi_read_write, Exclusive
  <1>5. CASE UNCHANGED scanVars
    BY <1>5 DEF scanVars
  <1> QED
    BY <1>1, <1>2, <1>3, <1>4, <1>5 DEF ScanNext

\* Every press that is sampled is served once, and nothing else is (spi.c:124,
\* switches.c:78).
THEOREM PressesServedOnce == ScanSpec => []PressServedOnce
  <1>1. ScanInv => PressServedOnce
    BY DEF ScanInv
  <1> QED
    BY ScanStart, ScanStep, <1>1, PTL DEF ScanSpec

\* The bytes of the switch data stay in range.
THEOREM SwitchesTyped == ScanSpec => []ScanTypeOK
  <1>1. ScanInv => ScanTypeOK
    BY DEF ScanInv
  <1> QED
    BY ScanStart, ScanStep, <1>1, PTL DEF ScanSpec

-----------------------------------------------------------------------------
(* The instruments: what the proofs keep *)

InstStates == [current : Instrument, isSolo : BOOLEAN, secondary : Instrument \union {EMPTY}]

\* A soloed instrument is a drum, never the accent.
Soloable(state) == state.isSolo => state.current \in BD..MA

\* The accent is neither soloed nor muted.
InstInv == InstTypeOK /\ solo \subseteq BD..MA

-----------------------------------------------------------------------------
(* The transition *)

\* The other drum of a voice is on the same button, and is a drum.
LEMMA OtherOnButton ==
  ASSUME NEW key \in BD..CH, NEW inst \in Instrument, Again(inst, key)
  PROVE  Other(inst) \in BD..MA /\ OnButton(Other(inst), key)
BY DEF Again, isUnswitchedInstrument, OnButton, Other, Instrument,
       BD, SD, CB, CH, MA, ACCENT_INST, OFFSET

\* SecondaryTransition keeps the types, and selects a drum of the button.
LEMMA SecondarySelects ==
  ASSUME NEW state \in InstStates, Soloable(state), state.isSolo, state.secondary \in Instrument,
         NEW key \in BD..CH, NEW clear \in BOOLEAN
  PROVE  LET new == SecondaryTransition(state, key, clear)
         IN  /\ new \in InstStates /\ Soloable(new)
             /\ clear => new.isSolo /\ new.secondary = EMPTY
             /\ OnButton(IF new.isSolo /\ new.secondary # EMPTY THEN new.secondary ELSE new.current, key)
<1> DEFINE chosen == IF Again(state.secondary, key) THEN Other(state.secondary) ELSE key
<1>1. chosen \in BD..MA /\ OnButton(chosen, key)
  BY OtherOnButton DEF OnButton, BD, CH, MA
<1>2. chosen \in Instrument /\ chosen # EMPTY
  BY <1>1 DEF Instrument, BD, MA, ACCENT_INST, EMPTY
<1> HIDE DEF chosen
<1>3. SecondaryTransition(state, key, clear) =
        IF clear THEN [current |-> chosen, isSolo |-> TRUE, secondary |-> EMPTY]
        ELSE IF key = state.current
          THEN [state EXCEPT !.isSolo = FALSE, !.secondary = EMPTY]
        ELSE [state EXCEPT !.secondary = chosen]
  BY DEF SecondaryTransition, chosen
<1>4. CASE clear
  BY <1>1, <1>2, <1>3, <1>4 DEF InstStates, Soloable
<1>5. CASE ~clear /\ key = state.current
  BY <1>3, <1>5 DEF InstStates, Soloable, OnButton
<1>6. CASE ~clear /\ key # state.current
  BY <1>1, <1>2, <1>3, <1>6 DEF InstStates, Soloable
<1> QED
  BY <1>4, <1>5, <1>6

\* PrimaryTransition does the same, unless the accent is to be soloed.
LEMMA PrimarySelects ==
  ASSUME NEW state \in InstStates, Soloable(state), state.secondary = EMPTY,
         NEW key \in BD..CH, NEW clear \in BOOLEAN,
         ~(clear /\ ~state.isSolo /\ state.current = ACCENT_INST /\ OnButton(ACCENT_INST, key))
  PROVE  LET new == PrimaryTransition(state, key, clear)
         IN  /\ new \in InstStates /\ Soloable(new)
             /\ clear => new.isSolo /\ new.secondary = EMPTY
             /\ OnButton(IF new.isSolo /\ new.secondary # EMPTY THEN new.secondary ELSE new.current, key)
<1> DEFINE again  == Again(state.current, key)
           chosen == IF again THEN Other(state.current) ELSE key
<1>1. chosen \in BD..MA /\ OnButton(chosen, key)
  BY OtherOnButton DEF OnButton, BD, CH, MA, InstStates
<1>2. chosen \in Instrument /\ chosen # EMPTY /\ key \in BD..MA /\ key \in Instrument
      /\ key # EMPTY /\ OnButton(key, key)
  BY <1>1 DEF Instrument, OnButton, BD, CH, MA, ACCENT_INST, EMPTY
<1>3. again => OnButton(state.current, key)
  BY DEF Again
<1>4. clear /\ ~state.isSolo /\ again => state.current \in BD..MA
  BY <1>3 DEF InstStates, Instrument, BD, MA, ACCENT_INST
<1> HIDE DEF chosen, again
<1>5. PrimaryTransition(state, key, clear) =
        IF state.isSolo
        THEN IF clear THEN [state EXCEPT !.current = chosen]
             ELSE IF again \/ key = state.current THEN [state EXCEPT !.isSolo = FALSE]
             ELSE [state EXCEPT !.secondary = key]
        ELSE IF clear
             THEN [state EXCEPT !.current = IF again THEN @ ELSE key, !.isSolo = TRUE]
             ELSE [state EXCEPT !.current = chosen]
  BY DEF PrimaryTransition, chosen, again
<1> QED
  BY <1>1, <1>2, <1>3, <1>4, <1>5 DEF InstStates, Soloable

\* The transition from any state of the panel selects a drum of the button pressed.
LEMMA TransitionSelects ==
  ASSUME NEW state \in InstStates, Soloable(state), ~state.isSolo => state.secondary = EMPTY,
         NEW key \in BD..CH, NEW clear \in BOOLEAN,
         ~(clear /\ ~state.isSolo /\ state.current = ACCENT_INST /\ OnButton(ACCENT_INST, key))
  PROVE  LET new == handleInstrumentTransition(state, key, clear)
         IN  /\ new \in InstStates /\ Soloable(new)
             /\ clear => new.isSolo /\ new.secondary = EMPTY
             /\ OnButton(IF new.isSolo /\ new.secondary # EMPTY THEN new.secondary ELSE new.current, key)
<1> DEFINE start == IF state.current = state.secondary
                     THEN [state EXCEPT !.secondary = EMPTY] ELSE state
<1>1. /\ start \in InstStates /\ Soloable(start) /\ start.isSolo = state.isSolo
      /\ start.current = state.current /\ (~start.isSolo => start.secondary = EMPTY)
  BY DEF InstStates, Soloable
<1> HIDE DEF start
<1>2. handleInstrumentTransition(state, key, clear) =
        IF start.secondary # EMPTY THEN SecondaryTransition(start, key, clear)
        ELSE PrimaryTransition(start, key, clear)
  BY DEF handleInstrumentTransition, start
<1>3. CASE start.secondary # EMPTY
  <2>1. start.isSolo /\ start.secondary \in Instrument
    BY <1>1, <1>3 DEF InstStates
  <2> QED
    BY <1>1, <1>2, <1>3, <2>1, SecondarySelects
<1>4. CASE start.secondary = EMPTY
  BY <1>1, <1>2, <1>4, PrimarySelects
<1> QED
  BY <1>3, <1>4

-----------------------------------------------------------------------------
(* The invariant *)

\* What the loop reads from drum_hit is a state of the transition.
LEMMA SoloStateTyped ==
  ASSUME InstInv
  PROVE  /\ SoloState \in InstStates /\ Soloable(SoloState)
         /\ SoloState.isSolo = (solo # {})
         /\ ~SoloState.isSolo => SoloState.secondary = EMPTY /\ SoloState.current = current_inst
<1>1. Soloed = solo
  <2>1. \A j \in solo : j < NUM_INST
    BY DEF InstInv, BD, MA, NUM_INST
  <2> QED
    BY <2>1 DEF Soloed
<1>2. CASE solo = {}
  BY <1>1, <1>2 DEF SoloState, InstStates, Soloable, InstInv, InstTypeOK
<1>3. CASE solo # {}
  <2>1. PICK i \in solo : TRUE
    BY <1>3
  <2>2. solo = {i} /\ i \in BD..MA
    BY <2>1 DEF InstInv, InstTypeOK
  <2>3. (CHOOSE j \in Soloed : \A k \in Soloed : j <= k) = i
    BY <1>1, <2>2 DEF BD, MA
  <2> HIDE DEF Soloed
  <2> QED
    BY <1>1, <1>3, <2>2, <2>3 DEF SoloState, InstStates, Soloable, InstInv, InstTypeOK,
       Instrument, BD, MA, ACCENT_INST
<1> QED
  BY <1>2, <1>3

\* At power up nothing is soloed.
LEMMA InstStart == InstInit => InstInv
<1> SUFFICES ASSUME InstInit PROVE InstInv
  OBVIOUS
<1>1. BD \in Instrument /\ CB \in Instrument /\ ACCENT_INST \in Instrument
  BY DEF Instrument, BD, CB, ACCENT_INST
<1>2. triggers \in [{0, 1} -> Instrument]
  BY <1>1 DEF InstInit
<1> QED
  BY <1>1, <1>2 DEF InstInit, InstInv, InstTypeOK

\* A press that selects keeps the invariant, and selects what it should.
LEMMA SelectStep ==
  ASSUME InstInv, "ac_cowbell" \notin InstGestures,
         NEW key \in Buttons, NEW clear \in BOOLEAN, SelectPress(key, clear)
  PROVE  /\ InstInv'
         /\ OnButton(current_inst', key)
         /\ clear => (BD..MA) \ muted' = {current_inst'}
         /\ solo # {} /\ solo' = {} => muted' = {}
<1> DEFINE new == handleInstrumentTransition(SoloState, key, clear)
<1>1. key \in BD..CH
  BY InstAssumption
<1>2. ~(clear /\ ~SoloState.isSolo /\ SoloState.current = ACCENT_INST
          /\ OnButton(ACCENT_INST, key))
  BY SoloStateTyped DEF SelectPress, Soloed
<1>3. /\ new \in InstStates /\ Soloable(new)
      /\ clear => new.isSolo /\ new.secondary = EMPTY
      /\ OnButton(IF new.isSolo /\ new.secondary # EMPTY THEN new.secondary ELSE new.current, key)
  BY <1>1, <1>2, SoloStateTyped, TransitionSelects
<1>4. /\ IF new.isSolo
           THEN /\ assign_solo(new.current)
                /\ current_inst' = IF new.secondary # EMPTY THEN new.secondary ELSE new.current
           ELSE /\ current_inst' = new.current
                /\ solo'  = IF new.current \in solo THEN solo \intersect {NUM_INST} ELSE solo
                /\ muted' = IF new.current \in solo THEN {} ELSE muted
      /\ UNCHANGED <<triggers, shift_lock>>
  BY DEF SelectPress, select_instrument
<1> HIDE DEF new
<1>5. CASE new.isSolo
  <2>1. /\ new.current \in BD..MA /\ new.secondary \in Instrument \union {EMPTY}
        /\ muted' = (BD..MA) \ {new.current}
        /\ solo' = {new.current}
    BY <1>3, <1>4, <1>5 DEF assign_solo, InstStates, Soloable, InstInv
  <2> QED
    BY <1>3, <1>4, <1>5, <2>1 DEF InstInv, InstTypeOK, Instrument, BD, MA, ACCENT_INST
<1>6. CASE ~new.isSolo
  BY <1>3, <1>4, <1>6 DEF InstStates, InstInv, InstTypeOK, BD, MA, NUM_INST
<1> QED
  BY <1>5, <1>6

\* The mutes of a button are mutes of drums.
LEMMA MutesTyped ==
  ASSUME NEW mutes \in SUBSET (BD..MA), NEW key \in BD..CH
  PROVE  assign_mutes(mutes, key) \subseteq BD..MA
<1>1. ToggledByBit(key) \/ key = CP => {key, key + OFFSET} \subseteq BD..MA
  BY DEF ToggledByBit, BD, RS, CP, CH, MA, OFFSET
<1>2. key \in BD..MA
  BY DEF BD, CH, MA
<1>3. CASE ToggledByBit(key) \/ key = CP
  <2> DEFINE both == {key, key + OFFSET}
             now  == mutes \intersect both
             next == CASE now = {} -> {key}
                       [] now = {key} -> {key + OFFSET}
                       [] now = {key + OFFSET} -> both
                       [] now = both -> {}
  <2>1. now = {} \/ now = {key} \/ now = {key + OFFSET} \/ now = both
    OBVIOUS
  <2>2. next \subseteq both
    BY <2>1
  <2>3. assign_mutes(mutes, key) = (mutes \ both) \union next
    BY <1>3 DEF assign_mutes
  <2> HIDE DEF next
  <2> QED
    BY <1>1, <1>3, <2>2, <2>3
<1>4. CASE ~(ToggledByBit(key) \/ key = CP)
  BY <1>2, <1>4 DEF assign_mutes
<1> QED
  BY <1>3, <1>4

\* A trigger output follows an instrument.
LEMMA TriggersTyped ==
  ASSUME InstInv, NEW key \in BD..CH, NEW var \in {0, 1}
  PROVE  assign_triggers(key, var) \in [{0, 1} -> Instrument]
<1>1. key \in Instrument /\ (ToggledByBit(key) \/ key = CP => key + OFFSET \in Instrument)
  BY DEF ToggledByBit, Instrument, BD, RS, CP, CH, ACCENT_INST, OFFSET
<1> QED
  BY <1>1 DEF assign_triggers, InstInv, InstTypeOK

\* Every press keeps the invariant and, when it ends a solo, leaves no mutes.
LEMMA InstStep ==
  ASSUME InstInv, "ac_cowbell" \notin InstGestures, [InstNext]_instVars
  PROVE  InstInv' /\ (solo # {} /\ solo' = {} => muted' = {})
<1> DEFINE Goal == InstInv' /\ (solo # {} /\ solo' = {} => muted' = {})
<1>1. ASSUME NEW key \in Buttons, MutePress(key) PROVE Goal
  <2>1. assign_mutes(muted, key) \subseteq BD..MA
    BY <1>1, MutesTyped, InstAssumption DEF InstInv, InstTypeOK
  <2> QED
    BY <1>1, <2>1 DEF MutePress, InstInv, InstTypeOK
<1>2. ASSUME NEW key \in Buttons, RhythmMutePress(key) PROVE Goal
  <2>1. assign_mutes(muted, key) \subseteq BD..MA
    BY MutesTyped, InstAssumption DEF InstInv, InstTypeOK
  <2>2. assign_mutes(assign_mutes(muted, key), key) \subseteq BD..MA
    BY <2>1, MutesTyped, InstAssumption
  <2> QED
    BY <1>2, <2>2 DEF RhythmMutePress, InstInv, InstTypeOK
<1>3. ASSUME NEW key \in Buttons, NEW var \in IntroFillVar, AssignPress(key, var) PROVE Goal
  <2>1. assign_mutes(muted, key) \subseteq BD..MA
    BY MutesTyped, InstAssumption DEF InstInv, InstTypeOK
  <2>2. assign_triggers(key, var) \in [{0, 1} -> Instrument]
    BY TriggersTyped, InstAssumption
  <2> QED
    BY <1>3, <2>1, <2>2 DEF AssignPress, InstInv, InstTypeOK
<1>4. ASSUME NEW key \in Buttons, NEW clear \in BOOLEAN, SelectPress(key, clear) PROVE Goal
  BY <1>4, SelectStep
<1>5. CASE ClearMutes
  BY <1>5 DEF ClearMutes, InstInv, InstTypeOK
<1>6. CASE ShiftLock
  BY <1>6 DEF ShiftLock, InstInv, InstTypeOK
<1>7. CASE SelectAccent
  <2>1. ACCENT_INST \in Instrument
    BY DEF Instrument, BD, ACCENT_INST
  <2> QED
    BY <1>7, <2>1 DEF SelectAccent, InstInv, InstTypeOK
<1>8. ASSUME NEW var \in IntroFillVar, AssignAccent(var) PROVE Goal
  <2>1. ACCENT_INST \in Instrument /\ var \in {0, 1}
    BY InstAssumption DEF Instrument, BD, ACCENT_INST
  <2> QED
    BY <1>8, <2>1 DEF AssignAccent, InstInv, InstTypeOK
<1>9. CASE UNCHANGED instVars
  BY <1>9 DEF instVars, InstInv, InstTypeOK
<1> QED
  BY <1>1, <1>2, <1>3, <1>4, <1>5, <1>6, <1>7, <1>8, <1>9 DEF InstNext

-----------------------------------------------------------------------------
(* The theorems about the instruments *)

\* The invariant holds in every state.
LEMMA InstInvariant ==
  ASSUME "ac_cowbell" \notin InstGestures PROVE InstSpec => []InstInv
<1>1. InstInv /\ [InstNext]_instVars => InstInv'
  BY InstStep
<1> QED
  BY InstStart, <1>1, PTL DEF InstSpec

\* Every instrument is an index of drum_hit, and one drum at most is soloed
\* (switches.c:754, select_instrument_with_soloing.c:55).
THEOREM InstrumentsTyped ==
  ASSUME "ac_cowbell" \notin InstGestures PROVE InstSpec => []InstTypeOK
<1>1. InstInv => InstTypeOK
  BY DEF InstInv
<1> QED
  BY InstInvariant, <1>1, PTL

\* A press selects a drum of its button, with CLEAR the only one to sound
\* (switches.c:763).
THEOREM PressesSelect ==
  ASSUME "ac_cowbell" \notin InstGestures PROVE InstSpec => PressSelects
<1>1. InstInv /\ [InstNext]_instVars =>
        [\A key \in Buttons, clear \in BOOLEAN :
           SelectPress(key, clear) =>
             /\ OnButton(current_inst', key)
             /\ clear => (BD..MA) \ muted' = {current_inst'}]_instVars
  BY SelectStep
<1> QED
  BY InstInvariant, <1>1, PTL DEF InstSpec, PressSelects

\* The end of a solo takes its mutes with it (switches.c:787).
THEOREM UnsoloUnmutes ==
  ASSUME "ac_cowbell" \notin InstGestures PROVE InstSpec => UnsoloRestores
<1>1. InstInv /\ [InstNext]_instVars => [solo # {} /\ solo' = {} => muted' = {}]_instVars
  BY InstStep
<1> QED
  BY InstInvariant, <1>1, PTL DEF InstSpec, UnsoloRestores

-----------------------------------------------------------------------------
(* The drums: what the proofs keep *)

Apart == {"same_pass", "early", "slow_pass"} \intersect DrumGestures = {}

Lines == 0..AC

\* The bits of the hits of a pass are set, and the switches follow them.
Sounding ==
  \A d \in struck :
    /\ Bit(d) \in trig
    /\ Bit(d) \in Switched =>
         switch[Bit(d)] = Value(d) \/ \E e \in struck \ {d} : Bit(e) = Bit(d)

\* Between the hit and the shift of a pass the timer of a slave cannot end, because it has
\* been started in this pass or does not run; and no hit is made while an older one waits.
TimerInv ==
  /\ drum_pc \in {"armed", "fill"} => timer = "young"
  /\ struck # {} => drum_pc # "wait" /\ (timer \in {"young", "off"} \/ ~midi_slave)
  /\ drum_pc \in {"wait", "fill"} => struck = {}
  /\ drum_pc = "wait" /\ trig_finished => timer = "off"
  /\ WaitIsFounded

DrumInv == DrumTypeOK /\ TimerInv /\ Sounding

-----------------------------------------------------------------------------
(* Drums, bits and switches *)

\* The bit of a drum is a line, and the two drums of a voice share it.
LEMMA BitIsLine ==
  ASSUME NEW drum \in Lines
  PROVE  Bit(drum) \in Lines /\ Value(drum) \in 0..1
BY DEF Lines, Bit, Value, AC, SW_DRUM_OFFSET

\* Every drum, and the accent, has a line.
LEMMA DrumIsLine == Drum \subseteq Lines /\ AC \in Lines
BY DrumAssumption DEF Lines, AC

\* A single hit, with or without the accent, switches its own voice.
LEMMA SwitchFollows ==
  ASSUME NEW sw \in [Switched -> 0..1], NEW drum \in Lines
  PROVE  /\ Switch(sw, drum) \in [Switched -> 0..1]
         /\ Bit(drum) \in Switched => Switch(sw, drum)[Bit(drum)] = Value(drum)
BY BitIsLine DEF Switch

\* The accent's line is its own.
LEMMA AccentUnswitched == Bit(AC) = AC /\ AC \notin Switched
BY DEF Bit, AC, Switched

-----------------------------------------------------------------------------
(* Initial states and steps *)

\* At first no drum is armed.
LEMMA DrumStart == DrumInit => DrumInv
<1> SUFFICES ASSUME DrumInit PROVE DrumInv
  OBVIOUS
<1>1. switch \in [Switched -> 0..1]
  BY DEF DrumInit, CONGAS_OFF, Switched
<1>2. 0 \in 0..AC
  BY DEF AC
<1> QED
  BY <1>1, <1>2 DEF DrumInit, DrumInv, DrumTypeOK, TimerInv, Sounding, WaitIsFounded

\* trigger_drum is called when the pass has had no hit.
LEMMA TriggerDrumStep ==
  ASSUME Apart, DrumInv,
         NEW drum \in Lines, NEW accent \in BOOLEAN, NEW back \in {"midi", "pads", "shift"},
         TriggerDrum(drum, accent, back),
         UNCHANGED <<switch, timer, trig_finished, current_drum_hit, START, midi_slave, struck>>
  PROVE  DrumInv'
<1>1. struck = {} /\ (timer = "off" \/ ~trig_finished)
  BY DEF TriggerDrum, Alone, Settled, Apart
<1>2. /\ trig' = {} /\ outputs' = {} /\ drum_pc' = "wait"
      /\ hit' = [drum |-> drum, accent |-> accent, back |-> back]
  BY DEF TriggerDrum
<1>3. DrumTypeOK'
  BY <1>2 DEF DrumInv, DrumTypeOK, Lines
<1>4. TimerInv' /\ Sounding'
  BY <1>1, <1>2 DEF DrumInv, TimerInv, Sounding, WaitIsFounded
<1> QED
  BY <1>3, <1>4 DEF DrumInv

\* The hit of trigger_drum.
LEMMA ArmStep == ASSUME DrumInv, Arm PROVE DrumInv'
<1> DEFINE accents == IF hit.accent THEN {AC} ELSE {}
<1>1. /\ timer = "off" /\ struck = {} /\ hit.drum \in Lines
      /\ switch \in [Switched -> 0..1]
  BY DEF Arm, DrumInv, TimerInv, DrumTypeOK, Lines
<1>2. /\ trig' = trig \union {Bit(hit.drum)} \union accents
      /\ struck' = {hit.drum} \union accents
      /\ switch' = Switch(switch, hit.drum)
      /\ timer' = "young" /\ drum_pc' = "armed" /\ current_drum_hit' = hit.drum
      /\ UNCHANGED <<outputs, trig_finished, hit, START, midi_slave>>
  BY <1>1 DEF Arm, Start
<1>3. accents \subseteq {AC} /\ AC \in Lines /\ Bit(hit.drum) \in Lines
  BY <1>1, BitIsLine, DrumIsLine
<1> HIDE DEF accents
<1>4. DrumTypeOK'
  BY <1>1, <1>2, <1>3, SwitchFollows DEF DrumInv, DrumTypeOK, Lines
<1>5. TimerInv'
  BY <1>2 DEF TimerInv, WaitIsFounded
<1>6. Sounding'
  <2> SUFFICES ASSUME NEW d \in struck'
               PROVE  /\ Bit(d) \in trig'
                      /\ Bit(d) \in Switched => switch'[Bit(d)] = Value(d)
    BY DEF Sounding
  <2>1. CASE d = hit.drum
    BY <1>1, <1>2, <2>1, SwitchFollows
  <2>2. CASE d \in accents
    <3>1. d = AC /\ Bit(d) = AC
      BY <1>3, <2>2, AccentUnswitched
    <3> QED
      BY <1>2, <2>2, <3>1, AccentUnswitched
  <2> QED
    BY <1>2, <2>1, <2>2
<1> QED
  BY <1>4, <1>5, <1>6 DEF DrumInv

\* A rise at the inputs of the expander.
LEMMA ExternalStep == ASSUME Apart, DrumInv, ExternalTriggers PROVE DrumInv'
<1>1. PICK rising \in SUBSET (Drum \ 11..14) \ {{}}, silent \in SUBSET Drum,
           second \in BOOLEAN, accent \in BOOLEAN :
        LET heard == rising \ (silent \ 7..10)
            drum(i) == IF second /\ i \in Switched THEN i + SW_DRUM_OFFSET ELSE i
            hits == {drum(i) : i \in heard} \union (IF accent THEN {AC} ELSE {})
        IN  /\ trig' = {Bit(d) : d \in hits}
            /\ struck' = hits
            /\ switch' = [bit \in Switched |->
                 IF bit \in heard THEN Value(drum(bit)) ELSE switch[bit]]
  BY DEF ExternalTriggers
<1> DEFINE heard == rising \ (silent \ 7..10)
           drum(i) == IF second /\ i \in Switched THEN i + SW_DRUM_OFFSET ELSE i
           accents == IF accent THEN {AC} ELSE {}
           hits == {drum(i) : i \in heard} \union accents
<1>2. /\ trig' = {Bit(d) : d \in hits}
      /\ struck' = hits
      /\ switch' = [bit \in Switched |-> IF bit \in heard THEN Value(drum(bit)) ELSE switch[bit]]
  BY <1>1
<1>3. /\ outputs' = {} /\ drum_pc' = "step" /\ drum_pc = "pads"
      /\ timer = "off" \/ ~midi_slave
      /\ UNCHANGED <<timer, trig_finished, current_drum_hit, hit, START, midi_slave>>
  BY DEF ExternalTriggers, Settled, Apart
<1>4. \A i \in heard : drum(i) \in Lines /\ Bit(drum(i)) = i
  <2> TAKE i \in heard
  <2>1. i \in 0..15 /\ i \notin 11..14
    BY DrumAssumption
  <2> QED
    BY <2>1 DEF Bit, Switched, Lines, SW_DRUM_OFFSET, AC
<1>5. accents \subseteq {AC} /\ AC \in Lines
  BY DrumIsLine
<1>6. hits \subseteq Lines
  BY <1>4, <1>5
<1>7. \A bit \in Switched : bit \in heard => Value(drum(bit)) \in 0..1
  BY <1>4, BitIsLine
<1>8. \A d \in hits : Bit(d) \in Switched => Bit(d) \in heard /\ d = drum(Bit(d))
  <2> TAKE d \in hits
  <2>1. CASE d \in accents
    BY <1>5, <2>1, AccentUnswitched
  <2>2. ASSUME NEW i \in heard, d = drum(i) PROVE Bit(d) = i
    BY <1>4, <2>2
  <2> QED
    BY <2>1, <2>2
<1> HIDE DEF heard, drum, accents, hits
<1>9. DrumTypeOK'
  <2>1. {Bit(d) : d \in hits} \subseteq Lines
    BY <1>6, BitIsLine
  <2>2. switch' \in [Switched -> 0..1]
    BY <1>2, <1>7 DEF DrumInv, DrumTypeOK
  <2> QED
    BY <1>2, <1>3, <1>6, <2>1, <2>2 DEF DrumInv, DrumTypeOK, Lines
<1>10. TimerInv'
  BY <1>3 DEF DrumInv, TimerInv, WaitIsFounded
<1>11. Sounding'
  <2> SUFFICES ASSUME NEW d \in hits
               PROVE  /\ Bit(d) \in trig'
                      /\ Bit(d) \in Switched => switch'[Bit(d)] = Value(d)
    BY <1>2 DEF Sounding
  <2>1. ASSUME Bit(d) \in Switched PROVE switch'[Bit(d)] = Value(d)
    BY <1>2, <1>8, <2>1
  <2> QED
    BY <1>2, <2>1
<1> QED
  BY <1>9, <1>10, <1>11 DEF DrumInv

\* The hits of a step.
LEMMA FillStepStep == ASSUME DrumInv, FillStep PROVE DrumInv'
<1>1. PICK roll \in SUBSET Drum, drums \in SUBSET Drum, silent \in SUBSET Drum, accent \in BOOLEAN :
        LET heard  == drums \ silent
            hits   == roll \union heard \union (IF accent THEN {AC} ELSE {})
            last(bit) == LET of == {d \in heard : Bit(d) = bit}
                         IN  CHOOSE d \in of : \A e \in of : d >= e
        IN  /\ \A d, e \in roll : d = e
            /\ trig' = trig \union {Bit(d) : d \in hits}
            /\ struck' = struck \union hits
            /\ switch' = [bit \in Switched |->
                 IF \E d \in heard : Bit(d) = bit THEN Value(last(bit))
                 ELSE IF \E d \in roll : Bit(d) = bit
                   THEN Value(CHOOSE d \in roll : Bit(d) = bit)
                 ELSE switch[bit]]
            /\ outputs' = outputs \union
                 {o \in Output : Assigned[o] \in drums \union (IF accent THEN {AC} ELSE {})}
  BY DEF FillStep
<1> DEFINE heard == drums \ silent
           accents == IF accent THEN {AC} ELSE {}
           hits == roll \union heard \union accents
           of(bit) == {d \in heard : Bit(d) = bit}
           last(bit) == CHOOSE d \in of(bit) : \A e \in of(bit) : d >= e
           rolled(bit) == CHOOSE d \in roll : Bit(d) = bit
<1>2. /\ \A d, e \in roll : d = e
      /\ trig' = trig \union {Bit(d) : d \in hits}
      /\ struck' = struck \union hits
      /\ switch' = [bit \in Switched |->
           IF \E d \in heard : Bit(d) = bit THEN Value(last(bit))
           ELSE IF \E d \in roll : Bit(d) = bit THEN Value(rolled(bit)) ELSE switch[bit]]
      /\ outputs' \subseteq outputs \union Output
  BY <1>1
<1>3. /\ struck = {} /\ timer = "young" /\ drum_pc' = "shift"
      /\ UNCHANGED <<timer, trig_finished, current_drum_hit, hit, START, midi_slave>>
  BY DEF FillStep, DrumInv, TimerInv
<1>4. accents \subseteq {AC} /\ hits \subseteq Lines /\ roll \subseteq Lines /\ heard \subseteq Lines
  BY DrumIsLine
<1> HIDE DEF heard, accents
<1>5. \A value : Value(value) \in 0..1
  BY DEF Value
<1>6. DrumTypeOK'
  <2>1. {Bit(d) : d \in hits} \subseteq Lines
    BY <1>4, BitIsLine
  <2>2. switch' \in [Switched -> 0..1]
    BY <1>2, <1>5 DEF DrumInv, DrumTypeOK
  <2> QED
    BY <1>2, <1>3, <1>4, <2>1, <2>2 DEF DrumInv, DrumTypeOK, Lines
<1>7. TimerInv'
  BY <1>3 DEF DrumInv, TimerInv, WaitIsFounded
<1>8. Sounding'
  <2> SUFFICES ASSUME NEW d \in hits
               PROVE  /\ Bit(d) \in trig'
                      /\ Bit(d) \in Switched =>
                           switch'[Bit(d)] = Value(d) \/ \E e \in hits \ {d} : Bit(e) = Bit(d)
    BY <1>2, <1>3 DEF Sounding
  <2>1. Bit(d) \in trig'
    BY <1>2
  <2>2. ASSUME Bit(d) \in Switched, ~\E e \in hits \ {d} : Bit(e) = Bit(d)
        PROVE  switch'[Bit(d)] = Value(d)
    <3>1. d \notin accents
      BY <1>4, <2>2, AccentUnswitched
    <3>2. CASE d \in heard
      <4>1. of(Bit(d)) = {d}
        BY <2>2, <3>2
      <4>2. d \in Int
        BY <1>4 DEF Lines, AC
      <4>3. last(Bit(d)) = d
        BY <4>1, <4>2
      <4> HIDE DEF last
      <4> QED
        BY <1>2, <2>2, <3>2, <4>3
    <3>3. CASE d \in roll /\ d \notin heard
      <4>1. ~\E e \in heard : Bit(e) = Bit(d)
        BY <2>2, <3>3
      <4>2. rolled(Bit(d)) = d
        BY <1>2, <3>3
      <4> HIDE DEF rolled
      <4> QED
        BY <1>2, <2>2, <3>3, <4>1, <4>2
    <3> QED
      BY <3>1, <3>2, <3>3
  <2> QED
    BY <2>1, <2>2
<1> QED
  BY <1>6, <1>7, <1>8 DEF DrumInv

\* The interrupt of the trigger timer.
LEMMA TriggerEndsStep == ASSUME Apart, DrumInv, TriggerEnds PROVE DrumInv'
<1>1. /\ timer = "old" \/ drum_pc = "wait"
      /\ drum_pc \notin {"armed", "fill"}
      /\ struck # {} => ~midi_slave
  BY DEF TriggerEnds, Elapsed, Apart, DrumInv, TimerInv
<1>2. /\ timer' = "off" /\ outputs' = {} /\ trig_finished' = TRUE
      /\ trig' = IF midi_slave THEN trig \ {Bit(current_drum_hit), AC} ELSE trig
      /\ UNCHANGED <<switch, current_drum_hit, hit, START, midi_slave, drum_pc, struck>>
  BY DEF TriggerEnds
<1>3. DrumTypeOK'
  BY <1>2 DEF DrumInv, DrumTypeOK
<1>4. TimerInv'
  BY <1>1, <1>2 DEF DrumInv, TimerInv, WaitIsFounded
<1>5. Sounding'
  BY <1>1, <1>2 DEF DrumInv, Sounding
<1> QED
  BY <1>3, <1>4, <1>5 DEF DrumInv

\* Every step keeps the invariant.
LEMMA DrumStep == ASSUME Apart, DrumInv, [DrumNext]_drumVars PROVE DrumInv'
<1> USE DEF wires
<1>1. CASE NoteOn
  BY <1>1, TriggerDrumStep, DrumIsLine DEF NoteOn
<1>2. CASE LiveHits
  BY <1>2, TriggerDrumStep, DrumIsLine DEF LiveHits
<1>3. CASE RollHit
  BY <1>3, TriggerDrumStep, DrumIsLine DEF RollHit
<1>4. CASE NoMoreNotes \/ NoStartStop \/ NoMorePads \/ NoStep
  <2>1. /\ drum_pc' \in {"panel", "pads", "step", "shift"} /\ drum_pc # "wait"
        /\ UNCHANGED <<trig, switch, outputs, timer, trig_finished, current_drum_hit, hit,
                       START, midi_slave, struck>>
    BY <1>4 DEF NoMoreNotes, NoStartStop, NoMorePads, NoStep
  <2> QED
    BY <2>1 DEF DrumInv, DrumTypeOK, TimerInv, Sounding, WaitIsFounded
<1>5. CASE StartStop
  <2>1. struck = {} /\ switch' \in [Switched -> 0..1]
    BY <1>5 DEF StartStop, Alone, Apart, DrumInv, DrumTypeOK, CONGAS_OFF
  <2> QED
    BY <1>5, <2>1 DEF StartStop, DrumInv, DrumTypeOK, TimerInv, Sounding, WaitIsFounded
<1>6. CASE TriggerStep
  <2>1. struck = {} /\ timer = "off"
    BY <1>6 DEF TriggerStep, Alone, Settled, Apart
  <2> QED
    BY <1>6, <2>1 DEF TriggerStep, Start, DrumInv, DrumTypeOK, TimerInv, Sounding, WaitIsFounded
<1>7. CASE Armed
  <2>1. timer = "young" /\ hit.back \in {"midi", "pads", "shift"}
    BY <1>7 DEF Armed, DrumInv, DrumTypeOK, TimerInv
  <2> QED
    BY <1>7, <2>1 DEF Armed, DrumInv, DrumTypeOK, TimerInv, Sounding, WaitIsFounded
<1>8. CASE Shift
  BY <1>8 DEF Shift, DrumInv, DrumTypeOK, TimerInv, Sounding, WaitIsFounded
<1>9. CASE UNCHANGED drumVars
  BY <1>9 DEF drumVars, DrumInv, DrumTypeOK, TimerInv, Sounding, WaitIsFounded
<1> QED
  BY <1>1, <1>2, <1>3, <1>4, <1>5, <1>6, <1>7, <1>8, <1>9, ArmStep, ExternalStep,
     FillStepStep, TriggerEndsStep DEF DrumNext, DrumLoop

-----------------------------------------------------------------------------
(* The theorems about the drums *)

\* The invariant holds in every state that is reached.
LEMMA DrumInvariant == ASSUME Apart PROVE DrumSpec => []DrumInv
<1>1. DrumInv /\ [DrumNext]_drumVars => DrumInv'
  BY DrumStep
<1> QED
  BY DrumStart, <1>1, PTL DEF DrumSpec

\* Every hit of a pass is still set, and its voice switched to it, when the triggers are
\* shifted out (drums.c:47).
THEOREM EveryHitSounds == ASSUME Apart PROVE DrumSpec => []HitsSound
<1>1. DrumInv => HitsSound
  BY DEF DrumInv, Sounding, HitsSound
<1> QED
  BY DrumInvariant, <1>1, PTL

\* A hit that waits for trig_finished waits for a timer that runs (drums.c:83).
THEOREM NoHitHangs == ASSUME Apart PROVE DrumSpec => []WaitIsFounded
<1>1. DrumInv => WaitIsFounded
  BY DEF DrumInv, TimerInv
<1> QED
  BY DrumInvariant, <1>1, PTL

\* The indices and lines of the drums exist.
THEOREM DrumsTyped == ASSUME Apart PROVE DrumSpec => []DrumTypeOK
<1>1. DrumInv => DrumTypeOK
  BY DEF DrumInv
<1> QED
  BY DrumInvariant, <1>1, PTL

-----------------------------------------------------------------------------
(* The LEDs *)

Strips ==
  [mode : RowMode, START : BOOLEAN, SHIFT : BOOLEAN, ALT : BOOLEAN, TAP_HELD : BOOLEAN,
   led_mask : SUBSET Led, new_pattern : Led, current_pattern : Led, current_intro_fill : Led]

\* Inverting an LED of the row stays in the row.
LEMMA FlipInRow ==
  ASSUME NEW leds \in SUBSET Led, NEW led \in Led
  PROVE  Flip(leds, led) \in SUBSET Led
BY DEF Flip

\* What process_step writes is in the row.
LEMMA RowWritten ==
  ASSUME strip \in Strips, row \in SUBSET Led, led_state \in SUBSET Led, PlayStep \/ HalfStep
  PROVE  row' \in SUBSET Led /\ led_state' \in SUBSET Led /\ strip' = strip
<1>1. strip.new_pattern \in Led /\ strip.current_intro_fill \in Led /\ strip.led_mask \in SUBSET Led
  BY DEF Strips
<1>2. ASSUME NEW leds \in SUBSET Led, Write(leds) \/ Light(leds)
      PROVE  row' \in SUBSET Led /\ led_state' \in SUBSET Led
  BY <1>2 DEF Write, Light
<1>3. CASE PlayStep
  <2>1. PICK step \in Led : StepRow(step)
    BY <1>3 DEF PlayStep
  <2>2. \A leds \in SUBSET Led : Flip(leds, step) \in SUBSET Led
    BY FlipInRow
  <2>3. \/ \E leds \in SUBSET Led : Write(Flip(leds, step))
        \/ UNCHANGED rowVars
    BY <1>1, <2>1 DEF StepRow
  <2>4. strip' = strip
    BY <1>3 DEF PlayStep
  <2> QED
    BY <1>2, <2>2, <2>3, <2>4 DEF rowVars
<1>4. CASE HalfStep
  <2>1. PICK early \in BOOLEAN, view \in SUBSET Led :
          IF strip.START THEN HalfStepRow(view) ELSE StoppedRow(view, early)
    BY <1>4 DEF HalfStep
  <2>2. \E leds \in SUBSET Led : Write(leds) \/ Light(leds)
    <3>1. CASE strip.START
      BY <1>1, <2>1, <3>1 DEF HalfStepRow
    <3>2. CASE ~strip.START
      <4>1. \/ Light(view) \/ Light({strip.new_pattern}) \/ Light({})
            \/ Light({strip.new_pattern, strip.current_intro_fill})
            \/ Light({strip.current_intro_fill})
        BY <2>1, <3>2 DEF StoppedRow
      <4> QED
        BY <1>1, <4>1
    <3> QED
      BY <3>1, <3>2
  <2>3. strip' = strip
    BY <1>4 DEF HalfStep
  <2> QED
    BY <1>2, <2>2, <2>3
<1> QED
  BY <1>3, <1>4

\* What buttons, keys and modes write is in the row.
LEMMA RowStep == LedTypeOK /\ [LedNext]_ledVars => LedTypeOK'
<1> SUFFICES ASSUME LedTypeOK, [LedNext]_ledVars PROVE LedTypeOK'
  OBVIOUS
<1>1. strip \in Strips /\ row \in SUBSET Led /\ led_state \in SUBSET Led
  BY DEF LedTypeOK, Strips
<1> SUFFICES strip' \in Strips /\ row' \in SUBSET Led /\ led_state' \in SUBSET Led
  BY DEF LedTypeOK, Strips
<1>2. CASE PlayStep \/ HalfStep
  BY <1>1, <1>2, RowWritten
<1>3. CASE EditStep
  <2>1. PICK step \in Led : strip' = [strip EXCEPT !.led_mask = Flip(@, step)] /\ toggle(step)
    BY <1>3 DEF EditStep
  <2>2. Flip(strip.led_mask, step) \in SUBSET Led
    BY <1>1, FlipInRow DEF Strips
  <2>3. strip' \in Strips
    BY <1>1, <2>1, <2>2 DEF Strips
  <2> QED
    BY <1>1, <2>1, <2>3 DEF toggle
<1>4. CASE ChooseLed
  <2>1. PICK press \in Led :
          \/ Write({}) /\ strip' = strip
          \/ /\ strip' = [strip EXCEPT !.new_pattern = press]
             /\ row' = {press}
             /\ led_state' = (led_state \ {strip.current_pattern}) \union {press}
    BY <1>4 DEF ChooseLed
  <2>2. strip' \in Strips
    BY <1>1, <2>1 DEF Strips
  <2> QED
    BY <1>1, <2>1, <2>2 DEF Write
<1>5. CASE ShowColumn
  <2>1. PICK mask \in SUBSET Led, mode \in RowMode :
          strip' = [strip EXCEPT !.led_mask = mask, !.mode = mode]
    BY <1>5 DEF ShowColumn
  <2>2. strip' \in Strips
    BY <1>1, <2>1 DEF Strips
  <2> QED
    BY <1>1, <1>5, <2>2 DEF ShowColumn, rowVars
<1>6. CASE HoldKey
  <2>1. \/ strip' = [strip EXCEPT !.SHIFT = ~@]
        \/ strip' = [strip EXCEPT !.ALT = ~@]
        \/ strip' = [strip EXCEPT !.TAP_HELD = ~@]
    BY <1>6 DEF HoldKey
  <2>2. strip' \in Strips
    BY <1>1, <2>1 DEF Strips
  <2> QED
    BY <1>1, <1>6, <2>2 DEF HoldKey, rowVars
<1>7. CASE StartStopRow
  <2>1. strip.new_pattern \in Led /\ strip.current_intro_fill \in Led
    BY <1>1 DEF Strips
  <2>2. CASE strip.START
    <3>1. PICK pattern \in Led :
            strip' = [strip EXCEPT !.START = FALSE, !.new_pattern = pattern,
                                   !.current_pattern = pattern]
      BY <1>7, <2>1, <2>2 DEF StartStopRow
    <3>2. strip' \in Strips
      BY <1>1, <3>1 DEF Strips
    <3>3. Light({strip.new_pattern} \union
                 (IF strip.mode = "MANUAL_PLAY" THEN {strip.current_intro_fill} ELSE {}))
      BY <1>7, <2>2 DEF StartStopRow
    <3> QED
      BY <1>1, <2>1, <3>2, <3>3 DEF Light
  <2>3. CASE ~strip.START
    <3>1. strip' = [strip EXCEPT !.START = TRUE] /\ UNCHANGED rowVars
      BY <1>7, <2>3 DEF StartStopRow
    <3>2. strip' \in Strips
      BY <1>1, <3>1 DEF Strips
    <3> QED
      BY <1>1, <3>1, <3>2 DEF rowVars
  <2> QED
    BY <2>2, <2>3
<1>9. CASE ChooseShuffle \/ ChooseSetting
  <2>1. strip' = strip
    BY <1>9 DEF ChooseShuffle, ChooseSetting
  <2>2. row' \in SUBSET Led /\ led_state' \in SUBSET Led
    BY <1>1, <1>9 DEF ChooseShuffle, ChooseSetting, Light
  <2> QED
    BY <1>1, <2>1, <2>2
<1>10. CASE TurnPattern
  <2>1. strip.current_pattern \in Led /\ strip.current_intro_fill \in Led
    BY <1>1 DEF Strips
  <2>2. PICK pattern \in Led, current \in Led :
          \/ strip' = [strip EXCEPT !.new_pattern = pattern]
          \/ strip' = [strip EXCEPT !.current_intro_fill = pattern]
          \/ strip' = [strip EXCEPT !.new_pattern = pattern, !.current_pattern = current]
    BY <1>10, <2>1 DEF TurnPattern
  <2>3. strip' \in Strips
    BY <1>1, <2>2 DEF Strips
  <2> QED
    BY <1>1, <1>10, <2>3 DEF TurnPattern, rowVars
<1>8. CASE UNCHANGED ledVars
  BY <1>1, <1>8 DEF ledVars
<1> QED
  BY <1>2, <1>3, <1>4, <1>5, <1>6, <1>7, <1>8, <1>9, <1>10 DEF LedNext

\* At power-up the first pattern is lit.
LEMMA RowStart == LedInit => LedTypeOK
<1>1. 0 \in Led /\ RowLength - 1 \in Led
  BY RowAssumption DEF Led
<1> QED
  BY <1>1 DEF LedInit, LedTypeOK, RowMode, EditMode

Turns ==
  [START : BOOLEAN, external : BOOLEAN, variation_mode : VariationMode,
   current_variation : Variation, variation_change : BOOLEAN]

\* A change waits only if it was asked for in this measure: it is never left over from
\* another one, or from the run before.
VarLedInv == VarLedTypeOK /\ (turn.variation_change => asked)

\* The operators of Variations keep their types; a change waits only after a press while
\* running, and neither a measure's end nor a start leaves one waiting.
LEMMA TurnTypes ==
  ASSUME NEW s \in Turns, NEW shift \in BOOLEAN
  PROVE  /\ SwitchVariation(s, shift) \in Turns
         /\ SwitchVariation(s, shift).variation_change => s.variation_change \/ s.START
         /\ toggle_variation(s) \in Turns /\ ~toggle_variation(s).variation_change
         /\ StartVariation(s) \in Turns /\ ~StartVariation(s).variation_change
<1>1. \A m \in VariationMode : First(m) \in Variation
  BY DEF First, Variation
<1>2. \A v \in Variation : Opposite(v) \in Variation
  BY DEF Opposite, Variation
<1>3. StartVariation(s) \in Turns /\ ~StartVariation(s).variation_change
  <2> DEFINE f == First(s.variation_mode)
  <2>1. f \in Variation
    BY <1>1 DEF Turns
  <2>2. StartVariation(s) = [s EXCEPT !.START = TRUE, !.variation_change = FALSE, !.current_variation = f]
    BY DEF StartVariation
  <2> HIDE DEF f
  <2> QED
    BY <2>1, <2>2 DEF Turns
<1>4. toggle_variation(s) \in Turns /\ ~toggle_variation(s).variation_change
  <2> DEFINE f == First(s.variation_mode)
             o == Opposite(s.current_variation)
  <2>1. f \in Variation /\ o \in Variation
    BY <1>1, <1>2 DEF Turns
  <2>2. \/ toggle_variation(s) = [s EXCEPT !.variation_change = FALSE, !.current_variation = f]
        \/ /\ ~s.variation_change
           /\ \/ toggle_variation(s) = [s EXCEPT !.current_variation = o]
              \/ toggle_variation(s) = s
    BY DEF toggle_variation
  <2> HIDE DEF f, o
  <2> QED
    BY <2>1, <2>2 DEF Turns
<1>5. /\ SwitchVariation(s, shift) \in Turns
      /\ SwitchVariation(s, shift).variation_change => s.variation_change \/ s.START
  <2> DEFINE from == s.variation_mode
             to == IF from = "VAR_AB" THEN IF shift THEN "VAR_B" ELSE "VAR_A"
                   ELSE IF shift THEN "VAR_AB" ELSE Opposite(from)
             change == s.variation_change \/ (s.START /\ ~(from = "VAR_A" /\ shift))
             current == IF s.START \/ to = "VAR_AB" THEN s.current_variation ELSE to
  <2>1. to \in VariationMode /\ change \in BOOLEAN /\ current \in Variation
    BY <1>2 DEF Turns, VariationMode, Variation, Opposite
  <2>2. SwitchVariation(s, shift)
          = [s EXCEPT !.variation_mode = to, !.variation_change = change, !.current_variation = current]
    BY DEF SwitchVariation
  <2>3. change => s.variation_change \/ s.START
    OBVIOUS
  <2> HIDE DEF to, change, current
  <2> QED
    BY <2>1, <2>2, <2>3 DEF Turns
<1> QED
  BY <1>3, <1>4, <1>5

\* The passes of the loop and the panel keep the invariant.
LEMMA VarLedStep == VarLedInv /\ [VarLedNext]_varLedVars => VarLedInv'
<1> SUFFICES ASSUME VarLedInv, [VarLedNext]_varLedVars PROVE VarLedInv'
  OBVIOUS
<1> DEFINE Founded == turn.variation_change => asked
<1>1. /\ turn \in Turns /\ var_led_mask \in SUBSET Variation /\ var_lit \in SUBSET Variation
      /\ asked \in BOOLEAN /\ Founded
  BY DEF VarLedInv, VarLedTypeOK, Turns
<1> SUFFICES /\ turn' \in Turns /\ var_led_mask' \in SUBSET Variation
             /\ var_lit' \in SUBSET Variation /\ asked' \in BOOLEAN /\ Founded'
  BY DEF VarLedInv, VarLedTypeOK, Turns
<1>0. TRUE \in BOOLEAN
  OBVIOUS
<1>2. CASE VarHalfStep
  <2>1. PICK early \in BOOLEAN, held \in BOOLEAN :
          var_led_mask' = IF turn.START THEN RunningVariation(turn, early)
                          ELSE StoppedVariation(turn, early, held)
    BY <1>2 DEF VarHalfStep
  <2>2. RunningVariation(turn, early) \in SUBSET Variation
    BY <1>1 DEF RunningVariation, Opposite, Variation, Turns
  <2>3. StoppedVariation(turn, early, held) \in SUBSET Variation
    BY <1>1 DEF StoppedVariation, First, Variation
  <2> QED
    BY <1>1, <1>2, <2>1, <2>2, <2>3 DEF VarHalfStep
<1>3. CASE OtherPass
  <2>1. WaitingVariation(turn) \in SUBSET Variation
    BY <1>1 DEF WaitingVariation, Turns, VariationMode
  <2> QED
    BY <1>1, <1>3, <2>1 DEF OtherPass
<1>4. CASE PressVariation
  <2>1. PICK shift \in BOOLEAN : turn' = SwitchVariation(turn, shift)
    BY <1>4 DEF PressVariation
  <2>2. turn' \in Turns /\ (turn'.variation_change => turn.variation_change \/ turn.START)
    BY <1>1, <2>1, TurnTypes
  <2>3. turn.START \in BOOLEAN
    BY <1>1 DEF Turns
  <2> QED
    BY <1>1, <1>4, <2>2, <2>3 DEF PressVariation
<1>5. CASE VarMeasure
  <2> DEFINE t == toggle_variation(turn)
  <2>1. t \in Turns /\ ~t.variation_change
    BY <1>0, <1>1, TurnTypes
  <2>2. PICK v \in Variation, start \in BOOLEAN :
          turn' = t \/ turn' = [t EXCEPT !.START = start, !.current_variation = v]
    <3>1. First(turn.variation_mode) \in Variation
      BY DEF First, Variation
    <3>2. \A v \in Variation :
            [t EXCEPT !.current_variation = v] = [t EXCEPT !.START = t.START, !.current_variation = v]
      BY <2>1 DEF Turns
    <3>3. t.START \in BOOLEAN
      BY <2>1 DEF Turns
    <3> QED
      BY <1>5, <3>1, <3>2, <3>3 DEF VarMeasure
  <2> HIDE DEF t
  <2>3. turn' \in Turns /\ ~turn'.variation_change
    BY <2>1, <2>2 DEF Turns
  <2> QED
    BY <1>1, <1>5, <2>3 DEF VarMeasure
<1>6. CASE VarStop \/ VarStartAwaited
  <2>1. PICK start \in BOOLEAN : turn' = [turn EXCEPT !.START = start]
    BY <1>6 DEF VarStop, VarStartAwaited
  <2>2. turn' \in Turns /\ turn'.variation_change = turn.variation_change
    BY <1>1, <2>1 DEF Turns
  <2> QED
    BY <1>1, <1>6, <2>2 DEF VarStop, VarStartAwaited
<1>7. CASE VarStart
  <2> DEFINE t == StartVariation(turn)
  <2>1. t \in Turns /\ ~t.variation_change
    BY <1>0, <1>1, TurnTypes
  <2>2. turn' = t \/ \E v \in Variation : turn' = [t EXCEPT !.current_variation = v]
    BY <1>7 DEF VarStart
  <2> HIDE DEF t
  <2>3. turn' \in Turns /\ ~turn'.variation_change
    BY <2>1, <2>2 DEF Turns
  <2> QED
    BY <1>1, <1>7, <2>3 DEF VarStart
<1>8. CASE VarSource
  <2>1. turn' = [turn EXCEPT !.external = ~@]
    BY <1>8 DEF VarSource
  <2>2. turn' \in Turns /\ turn'.variation_change = turn.variation_change
    BY <1>1, <2>1 DEF Turns
  <2> QED
    BY <1>1, <1>8, <2>2 DEF VarSource
<1>9. CASE UNCHANGED varLedVars
  BY <1>1, <1>9 DEF varLedVars
<1> QED
  BY <1>2, <1>3, <1>4, <1>5, <1>6, <1>7, <1>8, <1>9 DEF VarLedNext

\* At power-up A is chosen and plays.
LEMMA VarLedStart == VarLedInit => VarLedInv
<1> SUFFICES ASSUME VarLedInit PROVE VarLedInv
  OBVIOUS
<1>1. ~turn.variation_change
  BY DEF VarLedInit
<1>2. turn \in Turns
  BY DEF VarLedInit, Turns, Variation, VariationMode
<1>3. var_led_mask \subseteq Variation /\ var_lit \subseteq Variation
  BY DEF VarLedInit, Variation
<1>4. asked \in BOOLEAN
  BY DEF VarLedInit
<1> QED
  BY <1>1, <1>2, <1>3, <1>4 DEF VarLedInv, VarLedTypeOK, Turns

\* Of a variation that plays, the mask of a half step has the LED, if it is not B that has
\* been asked for.
LEMMA PlayingInMask ==
  ASSUME VarLedInv, turn.START, NEW early \in BOOLEAN
  PROVE  turn.current_variation \in RunningVariation(turn, early) \/ BAskedFor
<1>1. turn.current_variation \in {"VAR_A", "VAR_B"} /\ turn.variation_change \in BOOLEAN
  BY DEF VarLedInv, VarLedTypeOK, Variation
<1> QED
  BY <1>1 DEF RunningVariation, VarLedInv, BAskedFor

\* While the sequencer runs every half step leaves the LED of the variation that plays lit
\* (sequencer.c:775), but for B from a press that asks for it until the measure ends or
\* process_start is called.
THEOREM PlayingVariationIsLit == VarLedSpec => PlayingVariationLit
<1>1. VarLedSpec => []VarLedInv
  BY VarLedStart, VarLedStep, PTL DEF VarLedSpec
<1>2. VarLedInv =>
        [VarHalfStep /\ turn.START =>
           turn.current_variation \in var_lit' \/ BAskedFor]_varLedVars
  BY PlayingInMask DEF VarHalfStep
<1> QED
  BY <1>1, <1>2, PTL DEF VarLedSpec, PlayingVariationLit

Panels ==
  [mode : PanelMode, START : BOOLEAN, SHIFT : BOOLEAN, ALT : BOOLEAN,
   TAP_HELD : BOOLEAN, live_hits : BOOLEAN, current_inst : InstLed,
   current_rhythm_track : InstLed, trigger : InstLed]

\* Only LEDs of instruments are lit, and only drums are muted.
LEMMA InstLedStep == InstLedTypeOK /\ [InstLedNext]_instLedVars => InstLedTypeOK'
<1> SUFFICES ASSUME InstLedTypeOK, [InstLedNext]_instLedVars PROVE InstLedTypeOK'
  OBVIOUS
<1>1. /\ panel \in Panels /\ muted_insts \in SUBSET PanelInst /\ inst_lit \in SUBSET InstLed
      /\ muted_insts \in SUBSET InstLed
      /\ panel.current_inst \in InstLed /\ panel.current_rhythm_track \in InstLed
      /\ panel.trigger \in InstLed
  BY DEF InstLedTypeOK, Panels, InstLed
<1> SUFFICES panel' \in Panels /\ muted_insts' \in SUBSET PanelInst /\ inst_lit' \in SUBSET InstLed
  BY DEF InstLedTypeOK, Panels
<1>2. CASE update_inst_leds
  <2>1. UNCHANGED <<panel, muted_insts>>
    BY <1>2 DEF update_inst_leds
  <2>2. CASE panel.SHIFT /\ panel.mode = "PATTERN_CLEAR" /\ panel.TAP_HELD
    BY <1>1, <1>2, <2>1, <2>2 DEF update_inst_leds
  <2>3. CASE panel.SHIFT /\ panel.mode = "MANUAL_PLAY" /\ panel.ALT
    BY <1>1, <1>2, <2>1, <2>3 DEF update_inst_leds
  <2>4. CASE /\ panel.SHIFT /\ ~(panel.mode = "PATTERN_CLEAR" /\ panel.TAP_HELD)
             /\ ~(panel.mode = "MANUAL_PLAY" /\ panel.ALT)
    BY <1>1, <1>2, <2>1, <2>4 DEF update_inst_leds, show_mutes
  <2>5. CASE ~panel.SHIFT
    BY <1>1, <1>2, <2>1, <2>5 DEF update_inst_leds
  <2> QED
    BY <2>2, <2>3, <2>4, <2>5
<1>3. CASE InstHalfStep
  BY <1>1, <1>3 DEF InstHalfStep
<1>4. CASE InstStartStop
  <2>1. panel' = [panel EXCEPT !.START = ~@]
    BY <1>4 DEF InstStartStop
  <2>2. panel' \in Panels
    BY <1>1, <2>1 DEF Panels
  <2> QED
    BY <1>1, <1>4, <2>2 DEF InstStartStop
<1>5. CASE LightHit
  BY <1>1, <1>5 DEF LightHit, InstLed
<1>6. CASE HitEnds
  BY <1>1, <1>6 DEF HitEnds
<1>7. CASE ShowSelected
  <2>1. PICK track \in InstLed :
          \/ SelectInstrument(track)
          \/ /\ panel' = [panel EXCEPT !.current_rhythm_track = track]
             /\ inst_lit' = (inst_lit \ {panel.current_rhythm_track}) \union {track}
             /\ UNCHANGED muted_insts
    BY <1>1, <1>7 DEF ShowSelected, InstLed
  <2>2. CASE SelectInstrument(track)
    <3>1. PICK i \in InstLed :
            panel' = [panel EXCEPT !.current_rhythm_track = track, !.current_inst = i]
      BY <2>2 DEF SelectInstrument
    <3>2. panel' \in Panels
      BY <1>1, <3>1 DEF Panels
    <3> QED
      BY <1>1, <2>2, <3>2 DEF SelectInstrument
  <2>3. CASE ~SelectInstrument(track)
    <3>1. panel' \in Panels
      BY <1>1, <2>1, <2>3 DEF Panels
    <3> QED
      BY <1>1, <2>1, <2>3, <3>1
  <2> QED
    BY <2>2, <2>3
<1>8. CASE ShowMute \/ AccentClears
  BY <1>1, <1>8 DEF ShowMute, AccentClears, InstLed
<1>9. CASE ShowTrigger
  <2>1. PICK i \in InstLed : panel' = [panel EXCEPT !.trigger = i]
    BY <1>9 DEF ShowTrigger, InstLed
  <2>2. panel' \in Panels
    BY <1>1, <2>1 DEF Panels
  <2> QED
    BY <1>1, <1>9, <2>2 DEF ShowTrigger
<1>12. CASE ShowAccent
  <2>1. AccentLed \in InstLed
    BY DEF InstLed
  <2>2. \/ panel' = [panel EXCEPT !.current_inst = AccentLed]
        \/ panel' = [panel EXCEPT !.current_rhythm_track = AccentLed]
        \/ panel' = [panel EXCEPT !.trigger = AccentLed]
    BY <1>12 DEF ShowAccent
  <2>3. panel' \in Panels
    BY <1>1, <2>1, <2>2 DEF Panels
  <2>4. inst_lit' \in SUBSET InstLed
    BY <1>1, <1>12, <2>1 DEF ShowAccent
  <2> QED
    BY <1>1, <1>12, <2>3, <2>4 DEF ShowAccent
<1>10. CASE PanelMoves
  <2>1. \/ panel' = [panel EXCEPT !.SHIFT = ~@] \/ panel' = [panel EXCEPT !.ALT = ~@]
        \/ panel' = [panel EXCEPT !.TAP_HELD = ~@] \/ panel' = [panel EXCEPT !.live_hits = ~@]
        \/ \E mode \in PanelMode : panel' = [panel EXCEPT !.mode = mode]
        \/ \E i \in InstLed : panel' = [panel EXCEPT !.trigger = i]
    BY <1>10 DEF PanelMoves
  <2>2. panel' \in Panels
    BY <1>1, <2>1 DEF Panels
  <2> QED
    BY <1>1, <1>10, <2>2 DEF PanelMoves
<1>11. CASE UNCHANGED instLedVars
  BY <1>1, <1>11 DEF instLedVars
<1> QED
  BY <1>2, <1>3, <1>4, <1>5, <1>6, <1>7, <1>8, <1>9, <1>10, <1>11, <1>12
     DEF InstLedNext

\* At power-up nothing is lit.
LEMMA InstLedStart == InstLedInit => InstLedTypeOK
BY DEF InstLedInit, InstLedTypeOK, InstLed, PanelMode

-----------------------------------------------------------------------------
(* What comes to be, under the fairness of each part *)

\* ENABLED is beyond the provers: that the fair action can happen while it is waited for is
\* a hypothesis of each theorem here.  It is plain from the guards: HalfStep and
\* update_inst_leds have none, and the value that they give the LEDs is not the one that is
\* there; a timer that is old has elapsed; and a pass that is about to shift does so.
RowOff   == EditingRow /\ row # strip.led_mask
MutesOff == ShowingMutes /\ inst_lit \intersect PanelInst # muted_insts
HighYoung == outputs # {} /\ timer = "young" /\ drum_pc = "shift"
HighOld   == outputs # {} /\ timer = "old"

\* RowSettles: while a part is edited and the sequencer runs, the row of LEDs comes to show
\* the hits of the selected instrument, whatever has been left on it (leds.c:98).
THEOREM RowComesToSettle ==
  (LedSpec /\ LedFairness /\ [](RowOff => ENABLED <<HalfStep>>_ledVars)) => RowSettles
<1>1. RowOff /\ [LedNext]_ledVars => RowOff' \/ (row = strip.led_mask \/ ~EditingRow)'
  BY DEF RowOff
<1>2. RowOff /\ <<HalfStep>>_ledVars => (row = strip.led_mask \/ ~EditingRow)'
  <2> SUFFICES ASSUME RowOff, HalfStep
               PROVE  (row = strip.led_mask)'
    OBVIOUS
  <2> QED
    BY DEF RowOff, HalfStep, HalfStepRow, EditingRow, EditMode, Write, Held
<1> QED
  BY <1>1, <1>2, PTL DEF LedSpec, LedFairness, RowSettles, RowOff

\* MutesSettle: with SHIFT held over a part, the LEDs of the drums come to show the mutes,
\* for any drums, whatever hits and half steps have left lit (leds.c:190).
THEOREM MutesComeToSettle ==
  (InstLedSpec /\ InstLedFairness /\ [](MutesOff => ENABLED <<update_inst_leds>>_instLedVars))
    => MutesSettle
<1> DEFINE Shown == inst_lit \intersect PanelInst = muted_insts \/ ~ShowingMutes
<1>1. ShowingMutes => Shown \/ MutesOff
  BY DEF MutesOff
<1>2. MutesOff /\ [InstLedNext]_instLedVars => MutesOff' \/ Shown'
  BY DEF MutesOff
<1>3. InstLedTypeOK /\ MutesOff /\ <<update_inst_leds>>_instLedVars => Shown'
  <2> SUFFICES ASSUME InstLedTypeOK, MutesOff, update_inst_leds
               PROVE  (inst_lit \intersect PanelInst = muted_insts)'
    OBVIOUS
  <2>1. inst_lit' = show_mutes /\ muted_insts' = muted_insts
    BY DEF MutesOff, ShowingMutes, update_inst_leds
  <2>2. muted_insts \subseteq PanelInst
    BY DEF InstLedTypeOK
  <2> QED
    BY <2>1, <2>2 DEF show_mutes
<1>4. InstLedSpec => []InstLedTypeOK
  BY InstLedStart, InstLedStep, PTL DEF InstLedSpec
<1> QED
  BY <1>1, <1>2, <1>3, <1>4, PTL DEF InstLedSpec, InstLedFairness, MutesSettle

\* An output that is high has the timer running: since this pass, which is about to end, or
\* since an earlier one.
OutputsTimed == outputs # {} => HighYoung \/ HighOld

\* Only the end of a step raises an output, and the timer was started with the step.
LEMMA OutputsTimedStep ==
  ASSUME DrumInv, OutputsTimed, [DrumNext]_drumVars
  PROVE  OutputsTimed'
<1> USE DEF OutputsTimed, HighYoung, HighOld
<1>1. CASE NoteOn \/ LiveHits \/ RollHit
  BY <1>1 DEF NoteOn, LiveHits, RollHit, TriggerDrum
<1>2. CASE ExternalTriggers \/ TriggerStep
  BY <1>2 DEF ExternalTriggers, TriggerStep
<1>3. CASE NoMoreNotes \/ StartStop \/ NoStartStop \/ NoMorePads \/ NoStep
  BY <1>3 DEF NoMoreNotes, StartStop, NoStartStop, NoMorePads, NoStep, wires
<1>4. CASE Arm \/ Armed
  BY <1>4 DEF Arm, Armed, Start, wires
<1>5. CASE FillStep
  BY <1>5 DEF FillStep, DrumInv, TimerInv
<1>6. CASE Shift
  BY <1>6 DEF Shift, wires
<1>7. CASE TriggerEnds
  BY <1>7 DEF TriggerEnds
<1>8. CASE UNCHANGED drumVars
  BY <1>8 DEF drumVars
<1> QED
  BY <1>1, <1>2, <1>3, <1>4, <1>5, <1>6, <1>7, <1>8 DEF DrumNext, DrumLoop

\* An output stays high only while its timer runs on.
LEMMA HighOutputs ==
  ASSUME [DrumNext]_drumVars
  PROVE  /\ HighYoung => HighYoung' \/ HighOld' \/ (outputs = {})'
         /\ HighYoung /\ DrumLoop => HighOld'
         /\ HighOld => HighOld' \/ (outputs = {})'
         /\ HighOld /\ TriggerEnds => (outputs = {})'
<1>1. HighYoung /\ DrumLoop => HighOld'
  <2> SUFFICES ASSUME HighYoung, DrumLoop PROVE HighOld'
    OBVIOUS
  <2>1. Shift
    BY DEF HighYoung, DrumLoop, NoteOn, LiveHits, RollHit, ExternalTriggers, TriggerStep,
      NoMoreNotes, StartStop, NoStartStop, NoMorePads, NoStep, Arm, Armed, FillStep
  <2> QED
    BY <2>1 DEF Shift, wires, HighYoung, HighOld
<1>2. HighOld /\ DrumLoop => HighOld' \/ (outputs = {})'
  <2> SUFFICES ASSUME HighOld, DrumLoop PROVE HighOld' \/ (outputs = {})'
    OBVIOUS
  <2> USE DEF HighOld
  <2>1. CASE NoteOn \/ LiveHits \/ RollHit \/ ExternalTriggers \/ TriggerStep
    BY <2>1 DEF NoteOn, LiveHits, RollHit, TriggerDrum, ExternalTriggers, TriggerStep
  <2>2. CASE NoMoreNotes \/ StartStop \/ NoStartStop \/ NoMorePads \/ NoStep \/ Shift
    <3>1. (outputs' # {}) => outputs' = outputs /\ timer' = "old"
      BY <2>2 DEF NoMoreNotes, StartStop, NoStartStop, NoMorePads, NoStep, Shift, wires
    <3> QED
      BY <3>1
  <2>3. CASE Arm \/ Armed
    BY <2>3 DEF Arm, Armed, Start, wires
  <2>4. CASE FillStep
    BY <2>4 DEF FillStep
  <2> QED
    BY <2>1, <2>2, <2>3, <2>4 DEF DrumLoop
<1>3. TriggerEnds => (outputs = {})'
  BY DEF TriggerEnds
<1>4. UNCHANGED drumVars => (HighYoung => HighYoung') /\ (HighOld => HighOld')
  BY DEF drumVars, HighYoung, HighOld
<1> QED
  BY <1>1, <1>2, <1>3, <1>4 DEF DrumNext

\* OutputsFall: a trigger output that a step has raised falls again, for any drums and any
\* assignment of the outputs, since the interrupt of the timer that every step starts is
\* still to come (interrupts.c:73).
THEOREM OutputsComeToFall ==
  ASSUME Apart
  PROVE  (/\ DrumSpec /\ DrumFairness
          /\ [](HighYoung => ENABLED <<DrumLoop>>_drumVars)
          /\ [](HighOld => ENABLED <<TriggerEnds>>_drumVars)) => OutputsFall
<1>1. DrumInit => OutputsTimed
  BY DEF DrumInit, OutputsTimed
<1>2. DrumInv /\ OutputsTimed /\ [DrumNext]_drumVars => OutputsTimed'
  BY OutputsTimedStep
<1>3. DrumSpec => []OutputsTimed
  BY DrumInvariant, <1>1, <1>2, PTL DEF DrumSpec
<1>4. outputs # {} /\ OutputsTimed => HighYoung \/ HighOld
  BY DEF OutputsTimed
<1>5. HighYoung /\ [DrumNext]_drumVars => HighYoung' \/ HighOld' \/ (outputs = {})'
  BY HighOutputs
<1>6. HighYoung /\ <<DrumLoop>>_drumVars => HighOld'
  BY HighOutputs DEF DrumNext
<1>7. HighOld /\ [DrumNext]_drumVars => HighOld' \/ (outputs = {})'
  BY HighOutputs
<1>8. HighOld /\ <<TriggerEnds>>_drumVars => (outputs = {})'
  BY HighOutputs DEF DrumNext
<1> QED
  BY <1>3, <1>4, <1>5, <1>6, <1>7, <1>8, PTL DEF DrumSpec, DrumFairness, OutputsFall

-----------------------------------------------------------------------------
(* All parts together *)

\* The gestures that the proofs leave out.
Handled == Apart /\ "ac_cowbell" \notin InstGestures

DevicesInv ==
  /\ ScanInv /\ InstInv /\ DrumInv /\ LedTypeOK /\ VarLedInv /\ InstLedTypeOK

\* A step of MCDevices is a step of each part, or leaves it alone.
LEMMA PartsStep ==
  ASSUME [MCNext]_allVars
  PROVE  /\ [ScanNext]_scanVars /\ [InstNext]_instVars /\ [DrumNext]_drumVars
         /\ [LedNext]_ledVars /\ [VarLedNext]_varLedVars /\ [InstLedNext]_instLedVars
<1> HIDE DEF scanVars, instVars, drumVars, ledVars, varLedVars, instLedVars
<1> QED
  BY DEF MCNext, allVars, OnSwitches, OnInst, OnDrums, OnRow, OnVarLeds, OnInstLeds

\* Every part stays within its types and ranges, for any switches, drums, buttons and LEDs,
\* and no hit waits for an interrupt that does not come (drums.c:83).
THEOREM DevicesTyped == ASSUME Handled PROVE MCSpec => []DevicesTypeOK
<1>1. MCInit => DevicesInv
  BY ScanStart, InstStart, DrumStart, RowStart, VarLedStart, InstLedStart DEF MCInit, DevicesInv
<1>2. DevicesInv /\ [MCNext]_allVars => DevicesInv'
  BY PartsStep, ScanStep, InstStep, DrumStep, RowStep, VarLedStep, InstLedStep
     DEF Handled, DevicesInv
<1>3. DevicesInv => DevicesTypeOK
  BY DEF DevicesInv, DevicesTypeOK, ScanInv, InstInv, DrumInv, TimerInv, VarLedInv
<1> QED
  BY <1>1, <1>2, <1>3, PTL DEF MCSpec

\* MCDevices is each of its parts: out of focus a part takes no step.
LEMMA EachPart ==
  MCSpec => ScanSpec /\ InstSpec /\ DrumSpec /\ LedSpec /\ VarLedSpec /\ InstLedSpec
<1>1. MCInit => ScanInit /\ InstInit /\ DrumInit /\ LedInit /\ VarLedInit /\ InstLedInit
  BY DEF MCInit
<1>2. [MCNext]_allVars =>
        /\ [ScanNext]_scanVars /\ [InstNext]_instVars /\ [DrumNext]_drumVars
        /\ [LedNext]_ledVars /\ [VarLedNext]_varLedVars /\ [InstLedNext]_instLedVars
  BY PartsStep
<1> QED
  BY <1>1, <1>2, PTL
     DEF MCSpec, ScanSpec, InstSpec, DrumSpec, LedSpec, VarLedSpec, InstLedSpec

\* What the parts promise, the machine made of them promises: presses are served once and
\* select what is printed on the key, no hit is lost, and the variation LED and the unmuting
\* of a solo are right.
THEOREM DevicesKeepTheirPromises ==
  ASSUME Handled
  PROVE  MCSpec => /\ []HitsSound /\ []PressServedOnce
                   /\ PressSelects /\ UnsoloRestores /\ PlayingVariationLit
<1> Apart /\ "ac_cowbell" \notin InstGestures
  BY DEF Handled
<1> QED
  BY EachPart, EveryHitSounds, PressesServedOnce, PressesSelect, UnsoloUnmutes,
     PlayingVariationIsLit, PTL
=============================================================================
