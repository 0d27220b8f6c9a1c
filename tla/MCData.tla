------------------------------- MODULE MCData -------------------------------
(***************************************************************************)
(* The parts that keep and pass on data, for TLC: the choice of a pattern  *)
(* and of a bank, on a smaller instance and with more gestures than the    *)
(* run "store" has, the editing of the pattern in RAM, the serial port,    *)
(* the MIDI parser and system exclusive data.  Each behaviour is one of    *)
(* one part, chosen in the initial state: the parts share no variable      *)
(* here, and the state graph is the union of theirs.                       *)
(***************************************************************************)
EXTENDS PatternStore, StepBoard, MidiPort, MidiParser, SysexTools

VARIABLE focus

-----------------------------------------------------------------------------
(* Values *)

\* One pattern: parts of two and of one step, a hit in the second part of B.
MCStoredBoards ==
  {[pattern  |-> [v \in Variation |-> [p \in Parts |-> [t \in Tracks |->
                    IF v = "VAR_B" /\ p = "SECOND" /\ t # "accent" THEN {0} ELSE {}]]],
    step_num |-> [p \in Parts |-> IF p = "FIRST" THEN 1 ELSE 0]]}

MCMessages == {<<"transport", "clock">>, <<"transport">>}

-----------------------------------------------------------------------------
(* One part at a time *)

storeVars == <<seq, buffer, writer, eeprom, recall, cycle, pc, count, power>>
midiVars  == <<portVars, parserVars, source>>
allVars   == <<focus, storeVars, boardVars, midiVars>>

\* The store and the board, out of focus, have some constant state that is not looked at;
\* the others stay in one of their initial states, always the same one.
MCInit ==
  /\ focus \in {"store", "board", "port", "parser", "sysex"}
  /\ IF focus = "store" THEN Init
     ELSE /\ seq = 0 /\ buffer = 0 /\ writer = 0 /\ eeprom = 0 /\ recall = 0
          /\ cycle = 0 /\ pc = 0 /\ count = 0 /\ power = 0
  /\ IF focus = "board" THEN BoardInit
     ELSE board = [mode |-> "elsewhere", START |-> FALSE] /\ stale = FALSE
  /\ PortInit /\ ParserInit /\ SysexInit
  /\ focus # "port" => got = Clock

\* A step of one part, which leaves the others alone.
OnStore(A)  == focus = "store" /\ A /\ UNCHANGED <<focus, boardVars, midiVars>>
OnBoard(A)  == focus = "board" /\ A /\ UNCHANGED <<focus, storeVars, midiVars>>
OnPort(A)   == focus = "port" /\ A /\ UNCHANGED <<focus, storeVars, boardVars, parserVars, source>>
OnParser(A) == focus = "parser" /\ A /\ UNCHANGED <<focus, storeVars, boardVars, portVars, source>>
OnSysex(A)  == focus = "sysex" /\ A /\ UNCHANGED <<focus, storeVars, boardVars, portVars, parserVars>>

MCNext ==
  \/ OnStore(Next) \/ OnBoard(BoardNext) \/ OnPort(PortNext)
  \/ OnParser(ParserNext) \/ OnSysex(SysexNext)

MCSpec == MCInit /\ [][MCNext]_allVars

-----------------------------------------------------------------------------
\* Every part stays within its types and ranges; those of the store are a matter of the
\* run "store".
DataTypeOK ==
  /\ focus = "board" => BoardTypeOK
  /\ PortTypeOK /\ ParserTypeOK

\* PatternStore's property, that the pattern in use is the one that was chosen.
ChosenInUse == focus = "store" => ChosenIsLoaded
=============================================================================
