---------------------------- MODULE Instruments ----------------------------
(***************************************************************************)
(* The instrument buttons: which instrument the step buttons edit, which   *)
(* are muted, which one is soloed, and which drums the two trigger outputs *)
(* follow.  Twelve buttons stand for the accent and sixteen drums: the     *)
(* second press of some selects the other drum of the same voice.          *)
(***************************************************************************)
EXTENDS Integers

CONSTANTS
  Buttons,         \* the buttons that are pressed, by drum_index
  IntroFillVar,    \* the positions of the switch that chooses the trigger output
  InstGestures     \* "ac_cowbell", or nothing

BD == 0
SD == 1
RS == 5
CP == 6
CB == 7
CH == 10
MA == 15
ACCENT_INST == 16
OFFSET == 9        \* SW_DRUM_OFFSET
EMPTY == 255
NUM_INST == 16

ASSUME InstAssumption == Buttons \subseteq BD..CH /\ IntroFillVar \subseteq {0, 1}

ToggledByBit(drum) == drum \in 2..RS                   \* switch_bit # NO_SWITCH
isUnswitchedInstrument(inst) == inst \in {BD, SD} \/ inst \in CB..CH
OtherUnwrapped(inst) == inst + OFFSET                  \* mutant of Other
Other(inst) == (inst + OFFSET) % (2 * OFFSET)          \* the other drum of the voice
OnButton(inst, button) == inst = button \/ inst = button + OFFSET

VARIABLES
  current_inst,    \* the instrument that the step buttons edit
  muted, solo,     \* drum_hit[].muted and .solo, as sets of instruments
  triggers,        \* sequencer.trigger_1 and trigger_2
  shift_lock

instVars == <<current_inst, muted, solo, triggers, shift_lock>>

-----------------------------------------------------------------------------
(* The selection and the solo *)

\* Again: the press of a button that holds both drums of the voice.
Again(inst, button) == ~isUnswitchedInstrument(inst) /\ OnButton(inst, button)

\* With an instrument soloed and another one selected.
SecondaryTransition(state, button, clear) ==
  LET chosen == IF Again(state.secondary, button) THEN Other(state.secondary) ELSE button
  IN  IF clear THEN [current |-> chosen, isSolo |-> TRUE, secondary |-> EMPTY]
      ELSE IF button = state.current
        THEN [state EXCEPT !.isSolo = FALSE, !.secondary = EMPTY]
      ELSE [state EXCEPT !.secondary = chosen]

\* With no second instrument.
PrimaryTransition(state, button, clear) ==
  LET again  == Again(state.current, button)
      chosen == IF again THEN Other(state.current) ELSE button
  IN  IF state.isSolo
      THEN IF clear THEN [state EXCEPT !.current = chosen]
           ELSE IF again \/ button = state.current THEN [state EXCEPT !.isSolo = FALSE]
           ELSE [state EXCEPT !.secondary = button]
      ELSE IF clear
           THEN [state EXCEPT !.current = IF again THEN @ ELSE button, !.isSolo = TRUE]
           ELSE [state EXCEPT !.current = chosen]

handleInstrumentTransition(given, button, clear) ==
  LET state == IF given.current = given.secondary
                 THEN [given EXCEPT !.secondary = EMPTY] ELSE given
  IN  IF state.secondary # EMPTY
        THEN SecondaryTransition(state, button, clear)
        ELSE PrimaryTransition(state, button, clear)

\* The first soloed instrument; the accent is not looked at.
Soloed == {j \in solo : j < NUM_INST}

SoloState ==
  IF Soloed = {} THEN [current |-> current_inst, isSolo |-> FALSE, secondary |-> EMPTY]
  ELSE [current |-> CHOOSE j \in Soloed : \A i \in Soloed : j <= i,
        isSolo |-> TRUE, secondary |-> current_inst]

\* assign_solo: all drums are muted, and lose their solo, but the one; the flag of the
\* accent is left alone.
assign_solo(inst) ==
  /\ muted' = (BD..MA) \ {inst}
  /\ solo' = (solo \ (BD..MA)) \union {inst}

\* Mutant of select_instrument: the solo ends, its mutes stay.
SelectLeavingMutes(button, clear) ==
  LET new == handleInstrumentTransition(SoloState, button, clear)
  IN  IF new.isSolo
      THEN /\ assign_solo(new.current)
           /\ current_inst' = IF new.secondary # EMPTY THEN new.secondary ELSE new.current
      ELSE /\ current_inst' = new.current
           /\ solo' = IF new.current \in solo THEN solo \intersect {NUM_INST} ELSE solo
           /\ muted' = muted

select_instrument(button, clear) ==
  LET new == handleInstrumentTransition(SoloState, button, clear)
  IN  IF new.isSolo
      THEN /\ assign_solo(new.current)
           /\ current_inst' = IF new.secondary # EMPTY THEN new.secondary ELSE new.current
      ELSE /\ current_inst' = new.current
           /\ solo'  = IF new.current \in solo THEN solo \intersect {NUM_INST} ELSE solo
           /\ muted' = IF new.current \in solo THEN {} ELSE muted

-----------------------------------------------------------------------------
(* Mutes and trigger outputs *)

\* The mutes of a button with two drums go round: none, the first, the second, both.
assign_mutes(mutes, button) ==
  LET both == {button, button + OFFSET}
      now  == mutes \intersect both
      next == CASE now = {} -> {button}
                [] now = {button} -> {button + OFFSET}
                [] now = {button + OFFSET} -> both
                [] now = both -> {}
  IN  IF ToggledByBit(button) \/ button = CP
        THEN (mutes \ both) \union next
      ELSE IF button \in mutes THEN mutes \ {button} ELSE mutes \union {button}

\* The output follows the drum, or the second one of its button.
assign_triggers(button, var) ==
  [triggers EXCEPT ![var] =
    IF @ = button /\ (ToggledByBit(button) \/ button = CP) THEN button + OFFSET ELSE button]

-----------------------------------------------------------------------------
(* check_inst_switches: one press a pass.  Whether SHIFT, ALT and CLEAR are *)
(* held, the mode and live_hits are inputs of a press; a locked SHIFT is    *)
(* held whatever the hand does.  The presses that change nothing are left   *)
(* out.                                                                     *)

\* SHIFT in a part mode; without ALT in MANUAL PLAY.
MutePress(button) ==
  /\ muted' = assign_mutes(muted, button)
  /\ UNCHANGED <<current_inst, solo, triggers, shift_lock>>

\* SHIFT in a rhythm mode: the case falls through into that of MANUAL PLAY.
RhythmMutePress(button) ==
  /\ muted' = assign_mutes(assign_mutes(muted, button), button)
  /\ UNCHANGED <<current_inst, solo, triggers, shift_lock>>

\* SHIFT and ALT in MANUAL PLAY, or in a rhythm mode, which mutes as well.
AssignPress(button, var) ==
  /\ triggers' = assign_triggers(button, var)
  /\ muted' \in {muted, assign_mutes(muted, button)}
  /\ UNCHANGED <<current_inst, solo, shift_lock>>

\* Without SHIFT: in a part mode without ALT, in the others unless live_hits is on.
\* Without the "ac_cowbell" gesture CLEAR and the cowbell are not pressed while the
\* accent is selected and nothing soloed: that solos the accent.
SelectPress(button, clear) ==
  /\ ~shift_lock
  /\ clear /\ OnButton(current_inst, button) /\ current_inst = ACCENT_INST /\ Soloed = {}
       => "ac_cowbell" \in InstGestures
  /\ select_instrument(button, clear)
  /\ UNCHANGED <<triggers, shift_lock>>

\* The accent button with CLEAR.
ClearMutes ==
  /\ muted' = {}
  /\ UNCHANGED <<current_inst, solo, triggers, shift_lock>>

\* The accent button ends the lock, or with SHIFT, while the sequencer runs, begins it.
ShiftLock ==
  /\ shift_lock' = ~shift_lock
  /\ UNCHANGED <<current_inst, muted, solo, triggers>>

\* The accent button without SHIFT, in a part mode.
SelectAccent ==
  /\ ~shift_lock
  /\ current_inst' = ACCENT_INST
  /\ UNCHANGED <<muted, solo, triggers, shift_lock>>

\* With SHIFT and ALT in MANUAL PLAY; while the sequencer runs it locks SHIFT as well.
AssignAccent(var) ==
  /\ ~shift_lock
  /\ triggers' = [triggers EXCEPT ![var] = ACCENT_INST]
  /\ shift_lock' \in BOOLEAN
  /\ UNCHANGED <<current_inst, muted, solo>>

-----------------------------------------------------------------------------
\* The trigger outputs are recalled from the EEPROM, here as they are at the first start.
InstInit ==
  /\ current_inst = BD
  /\ muted = {} /\ solo = {}
  /\ triggers = [var \in {0, 1} |-> IF var = 0 THEN ACCENT_INST ELSE CB]
  /\ shift_lock = FALSE

InstNext ==
  \/ \E button \in Buttons :
       \/ MutePress(button) \/ RhythmMutePress(button)
       \/ \E var \in IntroFillVar : AssignPress(button, var)
       \/ \E clear \in BOOLEAN : SelectPress(button, clear)
  \/ ClearMutes \/ ShiftLock \/ SelectAccent
  \/ \E var \in IntroFillVar : AssignAccent(var)

InstSpec == InstInit /\ [][InstNext]_instVars

-----------------------------------------------------------------------------
(* Correctness *)

Instrument == BD..ACCENT_INST

\* Every instrument is an index of drum_hit (drums.h:45), although the transition adds 9
\* to it and takes the rest modulo 18 (select_instrument_with_soloing.c:55); "only 1 solo
\* at a time" (switches.c:754).
InstTypeOK ==
  /\ current_inst \in Instrument
  /\ muted \subseteq BD..MA
  /\ solo \subseteq Instrument
  /\ \A i, j \in solo : i = j
  /\ triggers \in [{0, 1} -> Instrument]
  /\ shift_lock \in BOOLEAN

\* A press selects a drum of the button pressed, whatever is soloed and selected, and
\* with CLEAR that drum is the only one to sound (switches.c:763).
PressSelects ==
  [][\A key \in Buttons, clear \in BOOLEAN :
       SelectPress(key, clear) =>
         /\ OnButton(current_inst', key)
         /\ clear => (BD..MA) \ muted' = {current_inst'}]_instVars

\* The end of a solo, by whichever button, takes all the mutes it has set with it
\* (switches.c:787).
UnsoloRestores == [][solo # {} /\ solo' = {} => muted' = {}]_instVars
=============================================================================
