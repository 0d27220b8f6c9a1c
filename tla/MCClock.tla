------------------------------ MODULE MCClock ------------------------------
(***************************************************************************)
(* When the steps come, for TLC: shuffled by the sequencer's own timer, or *)
(* from the pulses of an external master.  The two share no variable; each *)
(* behaviour is one of one of them, chosen in the initial state, and the   *)
(* state graph is the union of theirs.                                     *)
(***************************************************************************)
EXTENDS MCSequencer, ExternalClock

VARIABLE focus

\* The one that is out of focus stays in one of its initial states, always the same one.
MCInit ==
  /\ focus \in {"shuffle", "external"}
  /\ Init /\ ClockInit
  /\ focus = "external" => ram.current_pattern = 0 /\ ram.pre_scale = 1
  /\ focus = "shuffle" => clk.clock_mode = "MIDI_MASTER"

Shuffled(A) == focus = "shuffle" /\ A /\ UNCHANGED <<focus, clockVars>>
Following(A) == focus = "external" /\ A /\ UNCHANGED <<focus, vars>>

MCNext == Shuffled(Next) \/ Following(ClockNext)

MCSpec ==
  /\ MCInit /\ [][MCNext]_<<focus, vars, clockVars>>
  /\ WF_<<focus, vars, clockVars>>(Following(ClockPulse))
  /\ WF_<<focus, vars, clockVars>>(Following(EndPulse))
=============================================================================
