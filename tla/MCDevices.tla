----------------------------- MODULE MCDevices -----------------------------
(***************************************************************************)
(* The switches, the instruments, the drums and the LEDs for TLC.  Each    *)
(* behaviour is one of one part, chosen in the initial state: the parts    *)
(* share no variable, and the state graph is the union of theirs.          *)
(***************************************************************************)
EXTENDS SwitchScan, Instruments, Drums, StepLeds, VariationLeds, InstrumentLeds

VARIABLE focus

\* The bass drum at one trigger output, the accent at the other.
MCAssigned == <<0, 16>>

\* What the repository's own tests say of the transition (test_select_instruments.c:18).
State(current, isSolo, secondary) ==
  [current |-> current, isSolo |-> isSolo, secondary |-> secondary]

ASSUME TransitionTests ==
  /\ handleInstrumentTransition(State(1, FALSE, EMPTY), 3, TRUE) = State(3, TRUE, EMPTY)
  /\ handleInstrumentTransition(State(3, TRUE, EMPTY), 4, FALSE) = State(3, TRUE, 4)
  /\ handleInstrumentTransition(State(10, TRUE, EMPTY), 3, FALSE) = State(10, TRUE, 3)
  /\ handleInstrumentTransition(State(10, TRUE, 3), 1, FALSE) = State(10, TRUE, 1)
  /\ handleInstrumentTransition(State(13, TRUE, EMPTY), 4, FALSE) = State(13, FALSE, EMPTY)
  /\ handleInstrumentTransition(State(11, TRUE, 11), 2, FALSE) = State(11, FALSE, EMPTY)

-----------------------------------------------------------------------------
(* One part at a time *)

allVars == <<focus, scanVars, instVars, drumVars, ledVars, varLedVars, instLedVars>>

\* A part that is out of focus stays in one of its initial states, always the same one.
MCInit ==
  /\ focus \in {"switches", "instruments", "drums", "step_leds", "variation_leds", "instrument_leds"}
  /\ ScanInit /\ InstInit /\ DrumInit /\ LedInit /\ VarLedInit /\ InstLedInit
  /\ focus # "drums" => ~midi_slave

\* A step of one part, which leaves the others alone.
OnSwitches(A) == focus = "switches" /\ A /\ UNCHANGED <<focus, instVars, drumVars, ledVars, varLedVars, instLedVars>>
OnInst(A)     == focus = "instruments" /\ A /\ UNCHANGED <<focus, scanVars, drumVars, ledVars, varLedVars, instLedVars>>
OnDrums(A)    == focus = "drums" /\ A /\ UNCHANGED <<focus, scanVars, instVars, ledVars, varLedVars, instLedVars>>
OnRow(A)      == focus = "step_leds" /\ A /\ UNCHANGED <<focus, scanVars, instVars, drumVars, varLedVars, instLedVars>>
OnVarLeds(A)  == focus = "variation_leds" /\ A /\ UNCHANGED <<focus, scanVars, instVars, drumVars, ledVars, instLedVars>>
OnInstLeds(A) == focus = "instrument_leds" /\ A /\ UNCHANGED <<focus, scanVars, instVars, drumVars, ledVars, varLedVars>>

MCNext ==
  \/ OnSwitches(ScanNext) \/ OnInst(InstNext) \/ OnDrums(DrumNext) \/ OnRow(LedNext)
  \/ OnVarLeds(VarLedNext) \/ OnInstLeds(InstLedNext)

\* DrumFairness, LedFairness and InstLedFairness: focus never changes, so that in a
\* behaviour only one disjunct of each can be enabled.
FirstOfPart  == OnDrums(DrumLoop) \/ OnRow(HalfStep) \/ OnInstLeds(update_inst_leds)
SecondOfPart == OnDrums(TriggerEnds) \/ OnInstLeds(InstHalfStep)

MCSpec == MCInit /\ [][MCNext]_allVars /\ WF_allVars(FirstOfPart) /\ WF_allVars(SecondOfPart)

-----------------------------------------------------------------------------
\* Every part stays within its types and ranges, and no hit waits for an interrupt that
\* does not come.
DevicesTypeOK ==
  /\ ScanTypeOK /\ InstTypeOK /\ DrumTypeOK /\ LedTypeOK /\ VarLedTypeOK /\ InstLedTypeOK
  /\ WaitIsFounded
=============================================================================
