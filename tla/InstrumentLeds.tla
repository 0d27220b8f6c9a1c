--------------------------- MODULE InstrumentLeds ---------------------------
(***************************************************************************)
(* The LEDs above the instrument buttons.  update_inst_leds writes them on *)
(* every pass of the loop, half steps and buttons clear them, a hit lights *)
(* its own and, for a MIDI slave, the trigger interrupt turns it off.      *)
(*                                                                         *)
(* panel holds what is shown, under its C names.                           *)
(***************************************************************************)

CONSTANT PanelInst       \* BD..MA: the drums; the accent has an LED as well

AccentLed == "AC"
ASSUME PanelAssumption == AccentLed \notin PanelInst /\ PanelInst # {}

InstLed == PanelInst \union {AccentLed}
PanelMode == {"PATTERN_CLEAR", "PART", "MANUAL_PLAY", "RHYTHM"}

VARIABLES
  panel,
  muted_insts,     \* drum_hit[].muted
  inst_lit         \* the instrument bits of LATCH_2, 3, 6 and 7

instLedVars == <<panel, muted_insts, inst_lit>>

-----------------------------------------------------------------------------
(* leds.c *)

\* Mutant of show_mutes: the LEDs of the others are left to whoever cleared them before.
show_mutes_on == inst_lit \union muted_insts

\* show_mutes: every drum's LED is turned on or off, the accent's is left.
show_mutes == (inst_lit \ PanelInst) \union muted_insts

\* With SHIFT the mutes, the trigger assignment or the version; else what is selected.
\* The number of the version lights any one instrument or none.
update_inst_leds ==
  /\ CASE panel.SHIFT /\ panel.mode = "PATTERN_CLEAR" /\ panel.TAP_HELD ->
            inst_lit' \in {{}} \union {{i} : i \in InstLed}
       [] panel.SHIFT /\ panel.mode = "MANUAL_PLAY" /\ panel.ALT -> inst_lit' = {panel.trigger}
       [] panel.SHIFT /\ ~(panel.mode = "PATTERN_CLEAR" /\ panel.TAP_HELD)
            /\ ~(panel.mode = "MANUAL_PLAY" /\ panel.ALT) -> inst_lit' = show_mutes
       [] OTHER ->
            inst_lit' = inst_lit \union
              (IF panel.mode = "RHYTHM" THEN {panel.current_rhythm_track}
               ELSE IF panel.mode = "MANUAL_PLAY" /\ panel.live_hits THEN {}
               ELSE {panel.current_inst})
  /\ UNCHANGED <<panel, muted_insts>>

-----------------------------------------------------------------------------
(* process_step and process_stop *)

InstHalfStep ==
  /\ inst_lit' =
       (IF panel.SHIFT THEN inst_lit ELSE {}) \union
       (IF /\ panel.START /\ ~panel.SHIFT
           /\ \/ panel.mode \in {"PART", "PATTERN_CLEAR"} /\ ~panel.ALT
              \/ panel.mode = "MANUAL_PLAY" /\ ~panel.live_hits
        THEN {panel.current_inst} ELSE {})
  /\ UNCHANGED <<panel, muted_insts>>

InstStartStop ==
  /\ panel' = [panel EXCEPT !.START = ~@]
  /\ inst_lit' = IF panel.START THEN {panel.current_inst} ELSE inst_lit
  /\ UNCHANGED muted_insts

-----------------------------------------------------------------------------
(* Hits *)

\* A MIDI note lights its drum, perhaps with the accent, whatever is shown, and so does a
\* roll, which plays what is selected; steps, pads and the expander only without SHIFT.
LightHit ==
  /\ \/ /\ ~panel.START
        /\ \E i \in PanelInst, accent \in SUBSET {AccentLed} :
             inst_lit' = inst_lit \union {i} \union accent
     \/ panel.START /\ inst_lit' = inst_lit \union {panel.current_inst}
     \/ ~panel.SHIFT /\ \E i \in InstLed : inst_lit' = inst_lit \union {i}
  /\ UNCHANGED <<panel, muted_insts>>

\* The interrupt of timer 0, for a MIDI slave.
HitEnds ==
  /\ \E i \in InstLed : inst_lit' = inst_lit \ {i, AccentLed}
  /\ UNCHANGED <<panel, muted_insts>>

-----------------------------------------------------------------------------
(* Buttons *)

\* select_instrument: the table of Instruments names the new one; all LEDs go out, and the
\* mutes stay, are cleared or leave a solo.
SelectInstrument(track) ==
  /\ \E i \in InstLed :
       panel' = [panel EXCEPT !.current_rhythm_track = track, !.current_inst = i]
  /\ inst_lit' = {}
  /\ muted_insts' \in {muted_insts, {}} \union {PanelInst \ {i} : i \in InstLed}

\* A drum's key.  In the rhythm modes it chooses the track, and then falls through to what
\* it does in MANUAL PLAY.
ShowSelected ==
  /\ ~panel.SHIFT
  /\ \/ panel.mode = "PART" /\ ~panel.ALT /\ SelectInstrument(panel.current_rhythm_track)
     \/ /\ panel.mode = "MANUAL_PLAY" /\ ~panel.live_hits
        /\ SelectInstrument(panel.current_rhythm_track)
     \/ /\ panel.mode = "RHYTHM" /\ ~panel.live_hits
        /\ \E track \in PanelInst : SelectInstrument(track)
     \/ /\ panel.mode = "RHYTHM" /\ panel.live_hits
        /\ \E track \in PanelInst \ {panel.current_rhythm_track} :
             /\ panel' = [panel EXCEPT !.current_rhythm_track = track]
             /\ inst_lit' = (inst_lit \ {panel.current_rhythm_track}) \union {track}
        /\ UNCHANGED muted_insts

\* The accent's key.  As a track it lights up beside the one before.
ShowAccent ==
  /\ \/ /\ panel.mode = "PART" /\ ~panel.SHIFT
        /\ panel' = [panel EXCEPT !.current_inst = AccentLed]
        /\ inst_lit' = {AccentLed}
     \/ /\ panel.mode = "RHYTHM" /\ panel.current_rhythm_track # AccentLed
        /\ panel' = [panel EXCEPT !.current_rhythm_track = AccentLed]
        /\ inst_lit' = inst_lit \union {AccentLed}
     \/ /\ panel.mode = "MANUAL_PLAY" /\ panel.SHIFT /\ panel.ALT
        /\ panel' = [panel EXCEPT !.trigger = AccentLed]
        /\ inst_lit' = {AccentLed}
  /\ UNCHANGED muted_insts

\* The accent's key with CLEAR unmutes; releasing the lock of SHIFT it lights its LED.
AccentClears ==
  /\ \/ muted_insts' = {} /\ UNCHANGED inst_lit
     \/ inst_lit' = inst_lit \union {AccentLed} /\ UNCHANGED muted_insts
  /\ UNCHANGED panel

AssignsTrigger == panel.ALT /\ panel.mode \in {"MANUAL_PLAY", "RHYTHM"}

\* A drum's key with SHIFT: muted or not, in the rhythm modes twice.
ShowMute ==
  /\ panel.SHIFT /\ panel.mode # "PATTERN_CLEAR" /\ ~AssignsTrigger
  /\ muted_insts' \in SUBSET PanelInst
  /\ UNCHANGED <<panel, inst_lit>>

\* A drum's key with SHIFT and ALT: a trigger output is assigned, in the rhythm modes after
\* the mute.
ShowTrigger ==
  /\ panel.SHIFT /\ AssignsTrigger
  /\ \E i \in PanelInst : panel' = [panel EXCEPT !.trigger = i]
  /\ inst_lit' = {}
  /\ muted_insts' \in IF panel.mode = "RHYTHM" THEN SUBSET PanelInst ELSE {muted_insts}

PanelMoves ==
  /\ \/ \E key \in {"SHIFT", "ALT", "TAP_HELD", "live_hits"} : panel' = [panel EXCEPT ![key] = ~@]
     \/ \E mode \in PanelMode : panel' = [panel EXCEPT !.mode = mode]
     \/ \E i \in InstLed : panel' = [panel EXCEPT !.trigger = i]    \* of the other output
  /\ UNCHANGED <<muted_insts, inst_lit>>

-----------------------------------------------------------------------------
InstLedInit ==
  /\ \E i \in PanelInst :
       panel = [mode |-> "PART", START |-> FALSE, SHIFT |-> FALSE, ALT |-> FALSE,
                TAP_HELD |-> FALSE, live_hits |-> FALSE, current_inst |-> i,
                current_rhythm_track |-> AccentLed, trigger |-> AccentLed]
  /\ muted_insts = {} /\ inst_lit = {}

InstLedNext ==
  \/ update_inst_leds \/ InstHalfStep \/ InstStartStop \/ LightHit \/ HitEnds
  \/ ShowSelected \/ ShowAccent \/ AccentClears \/ ShowMute \/ ShowTrigger \/ PanelMoves

InstLedSpec == InstLedInit /\ [][InstLedNext]_instLedVars

\* The loop calls update_inst_leds on every pass, and half steps come.
InstLedFairness == WF_instLedVars(update_inst_leds) /\ WF_instLedVars(InstHalfStep)

-----------------------------------------------------------------------------
(* Correctness *)

InstLedTypeOK ==
  /\ panel \in [mode : PanelMode, START : BOOLEAN, SHIFT : BOOLEAN, ALT : BOOLEAN,
                TAP_HELD : BOOLEAN, live_hits : BOOLEAN, current_inst : InstLed,
                current_rhythm_track : InstLed, trigger : InstLed]
  /\ muted_insts \subseteq PanelInst /\ inst_lit \subseteq InstLed

\* While SHIFT is held over a part the LEDs of the drums come to show the mutes, whatever
\* selections, hits and views before have left lit: with SHIFT no half step clears them
\* (sequencer.c:673, "inefficient? just clear all inst LEDs before calling", leds.c:190).
ShowingMutes == panel.SHIFT /\ panel.mode = "PART"
MutesSettle == ShowingMutes ~> inst_lit \intersect PanelInst = muted_insts \/ ~ShowingMutes
=============================================================================
