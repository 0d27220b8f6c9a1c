----------------------------- MODULE SwitchScan -----------------------------
(***************************************************************************)
(* How a press of a button reaches the code that serves it.  At the end of *)
(* each pass of the loop spi_read_write samples the switches and keeps the *)
(* edges; the next pass adds them to button[].state, from where the code   *)
(* that serves the button takes them.  The trigger inputs of the expander  *)
(* are sampled the same way (spi0_read_triggers), and served at once.      *)
(***************************************************************************)

CONSTANT Keys      \* the switches

VARIABLES
  down,        \* the switches that are pressed
  spi_current_switch_data, spi_previous_switch_data,
  button,      \* the buttons with state set
  scan_pc,
  due          \* history: the presses sampled and not served, a second one cancelling

scanVars == <<down, spi_current_switch_data, spi_previous_switch_data, button, scan_pc, due>>

Exclusive(a, b) == (a \ b) \union (b \ a)        \* ^

-----------------------------------------------------------------------------
\* A contact closes or opens, at any time.
Contact ==
  /\ \E key \in Keys : down' = Exclusive(down, {key})
  /\ UNCHANGED <<spi_current_switch_data, spi_previous_switch_data, button, scan_pc, due>>

\* parse_switch_data: a second press of a button nobody has served takes the first back.
parse_switch_data ==
  /\ scan_pc = "parse" /\ scan_pc' = "serve"
  /\ button' = Exclusive(button, spi_current_switch_data)
  /\ UNCHANGED <<down, spi_current_switch_data, spi_previous_switch_data, due>>

\* The handlers that this mode runs; each takes the first of its buttons that is set,
\* as check_step_press does, and what they do not look at stays set.
Serve ==
  /\ scan_pc = "serve" /\ scan_pc' = "sample"
  /\ \E looked \in SUBSET Keys :
       IF looked \intersect button = {} THEN UNCHANGED <<button, due>>
       ELSE \E key \in looked \intersect button :
              button' = button \ {key} /\ due' = due \ {key}
  /\ UNCHANGED <<down, spi_current_switch_data, spi_previous_switch_data>>

\* Mutant of Debounce: a release is an edge as well.
DebounceBoth(read, previous) ==
  LET changed == Exclusive(read, previous)
  IN  [current |-> changed, previous |-> Exclusive(previous, changed)]

\* The three assignments to each byte of the switch data.
Debounce(read, previous) ==
  LET changed == Exclusive(read, previous)
      now     == Exclusive(previous, changed)
  IN  [current |-> changed \intersect now, previous |-> now]

spi_read_write ==
  /\ scan_pc = "sample" /\ scan_pc' = "parse"
  /\ spi_current_switch_data'  = Debounce(down, spi_previous_switch_data).current
  /\ spi_previous_switch_data' = Debounce(down, spi_previous_switch_data).previous
  /\ due' = Exclusive(due, down \ spi_previous_switch_data)
  /\ UNCHANGED <<down, button>>

-----------------------------------------------------------------------------
ScanInit ==
  /\ down = {} /\ due = {} /\ button = {} /\ scan_pc = "sample"
  /\ spi_current_switch_data = {} /\ spi_previous_switch_data = {}

ScanNext == Contact \/ parse_switch_data \/ Serve \/ spi_read_write

ScanSpec == ScanInit /\ [][ScanNext]_scanVars

ScanTypeOK ==
  /\ down \subseteq Keys /\ button \subseteq Keys /\ due \subseteq Keys
  /\ spi_current_switch_data \subseteq Keys /\ spi_previous_switch_data \subseteq Keys
  /\ scan_pc \in {"parse", "serve", "sample"}

\* Every press that is sampled is served once, held or released meanwhile, and nothing is
\* served that was not pressed: what waits is set or is about to be (spi.c:124).
PressServedOnce ==
  due = IF scan_pc = "parse" THEN Exclusive(button, spi_current_switch_data) ELSE button
=============================================================================
