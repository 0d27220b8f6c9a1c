--------------------------- MODULE ExternalClock ---------------------------
(***************************************************************************)
(* The clock of the sequencer: timer 1 counts internal ticks, and the      *)
(* pulses of a MIDI, DIN sync or pulse master correct their number, so     *)
(* that the steps of a slave fall on the pulses.  clk is struct clock and  *)
(* the flags of the transport, under their C names; tempos are left out:   *)
(* between two pulses any number of ticks may be counted, up to the one    *)
(* that stops the timer.                                                   *)
(***************************************************************************)
EXTENDS Integers, Sequences

CONSTANTS
  PPQN_24_TICK_COUNT, PPQN_2_TICK_COUNT,   \* ticks to a pulse (4 and 48)
  PPQN_DIVIDER,                            \* ticks to a pulse sent, less one (3)
  Dividers,                                \* ticks to a step (pre_scale[])
  PulseWrap,                               \* modulus of din_ppqn_pulses
  ByteWrap,                                \* modulus of a uint8_t (256)
  ClockGestures                            \* the unusual moments of this instance

ASSUME ClockAssumption ==
  /\ PPQN_24_TICK_COUNT \in Nat /\ PPQN_24_TICK_COUNT > 1
  /\ PPQN_2_TICK_COUNT \in Nat /\ PPQN_2_TICK_COUNT > 1
  /\ ByteWrap \in Nat /\ PPQN_24_TICK_COUNT < ByteWrap /\ PPQN_2_TICK_COUNT < ByteWrap
  /\ PPQN_DIVIDER \in Nat /\ PulseWrap \in Nat /\ PulseWrap > 1
  /\ Dividers # {} /\ Dividers \subseteq Nat
  /\ \A d \in Dividers : PPQN_24_TICK_COUNT < d /\ d < ByteWrap /\ d % PPQN_24_TICK_COUNT = 0

ClockMode == <<"MIDI_MASTER", "MIDI_SLAVE", "DIN_SYNC_MASTER", "DIN_SYNC_SLAVE", "PULSE_SYNC_SLAVE">>
External(mode) == mode \in {"MIDI_SLAVE", "DIN_SYNC_SLAVE", "PULSE_SYNC_SLAVE"}
Din(mode) == mode \in {"DIN_SYNC_MASTER", "DIN_SYNC_SLAVE"}

VARIABLES
  clk,
  clock_pc,    \* "inside" the handler of a MIDI clock byte, which is no interrupt
  synced,      \* history: started as a slave, and nothing has disturbed the count
  since,       \* history: pulses since the last step
  pulse, step  \* history: flip with each pulse and with each step while synced

clockVars == <<clk, clock_pc, synced, since, pulse, step>>

-----------------------------------------------------------------------------
(* The count of ticks *)

Due(c) == (c.ppqn_counter + 1) % ByteWrap = c.divider

\* process_tick, as far as the clock goes: the step, and the end of the ticks of a pulse,
\* which stops the timer.
ProcessTickOf(c) ==
  LET ticks == (c.slave_ppqn_ticks + 1) % ByteWrap
      full  == ticks = c.sync_count
      count == [c EXCEPT !.ppqn_counter = IF Due(c) THEN 0 ELSE (@ + 1) % ByteWrap]
  IN  IF External(c.clock_mode)
        THEN [count EXCEPT !.slave_ppqn_ticks = IF full THEN 0 ELSE ticks,
                           !.timer1 = @ /\ ~full]
        ELSE count

\* process_start: the next tick is the downbeat; a DIN master begins a step instead, and
\* a slave counts nothing until the first pulse.
ClockStart(c) ==
  LET primed == IF c.clock_mode = "DIN_SYNC_MASTER" THEN [c EXCEPT !.ppqn_counter = 0]
                ELSE [c EXCEPT !.ppqn_divider_tick = 0, !.ppqn_counter = c.divider - 1]
      din    == [primed EXCEPT !.din_start = @ \/ Din(c.clock_mode),
                               !.din_ppqn_pulses = IF Din(c.clock_mode) THEN 0 ELSE @,
                               !.timer1 = TRUE]
  IN  IF External(c.clock_mode)
        THEN [din EXCEPT !.slave_start = TRUE, !.slave_ppqn_ticks = 0, !.tick_counter = 0]
        ELSE [din EXCEPT !.slave_start = FALSE]

\* The count of a start holds for the pulses that come at the right sync_count.
PulseTicks(mode) == IF mode = "PULSE_SYNC_SLAVE" THEN PPQN_2_TICK_COUNT ELSE PPQN_24_TICK_COUNT
Fits(c) == External(c.clock_mode)
             /\ \/ c.divider % PulseTicks(c.clock_mode) = 0
                \/ PulseTicks(c.clock_mode) % c.divider = 0
StepLength(c) == IF c.divider % PulseTicks(c.clock_mode) = 0
                   THEN c.divider \div PulseTicks(c.clock_mode) ELSE 1

-----------------------------------------------------------------------------
(* Timer 1 *)

\* A DIN master raises RUN with the first 24 ppqn pulse after the start, and primes the
\* count so that the next tick is the downbeat.
RaiseRun(c) ==
  IF c.clock_mode = "DIN_SYNC_MASTER" /\ c.din_start
    THEN LET pulses == (c.din_ppqn_pulses + 1) % PulseWrap
         IN  IF pulses = 1
               THEN [c EXCEPT !.din_ppqn_pulses = 1, !.din_start = FALSE,
                              !.ppqn_divider_tick = 0, !.ppqn_counter = c.divider - 1]
               ELSE [c EXCEPT !.din_ppqn_pulses = pulses]
    ELSE c

\* The interrupt of timer 1.  Without the "tick_inside" gesture it does not fall into the
\* handler of a MIDI clock byte.
TimerTick ==
  /\ clk.timer1 /\ ~clk.slave_start
  /\ clock_pc = "idle" \/ "tick_inside" \in ClockGestures
  /\ LET tick == ProcessTickOf(clk)
     IN  clk' = IF clk.ppqn_divider_tick = PPQN_DIVIDER
                  THEN RaiseRun([tick EXCEPT !.ppqn_divider_tick = 0])
                  ELSE [tick EXCEPT !.ppqn_divider_tick = @ + 1]
  /\ step' = IF synced /\ Due(clk) THEN ~step ELSE step
  /\ UNCHANGED <<clock_pc, synced, since, pulse>>

-----------------------------------------------------------------------------
(* Pulses *)

\* Mutant of CountPulse: the count begins again at one.
CountPulseFromOne(c) ==
  LET next == (c.tick_counter + 1) % ByteWrap
  IN  [c EXCEPT !.tick_counter = IF next = c.divider THEN 1 ELSE next]

\* The count of the pulses, which also blinks the sync LED.
CountPulse(c) ==
  LET next == (c.tick_counter + 1) % ByteWrap
  IN  [c EXCEPT !.tick_counter = IF next = c.divider THEN 0 ELSE next]

\* Mutant of CatchUp: all the ticks of the pulse are added, counted or not.
CatchUpWhole(c) ==
  IF c.slave_start THEN [c EXCEPT !.slave_start = FALSE]
  ELSE [c EXCEPT !.ppqn_counter = (@ + c.sync_count) % ByteWrap]

\* Mutant of CatchUp: the ticks that were missed stay missed.
CatchUpLossy(c) == [c EXCEPT !.slave_start = FALSE]

\* The ticks that the timer has not counted since the last pulse, all at once; the first
\* pulse after the start has none.
CatchUp(c) ==
  IF c.slave_start THEN [c EXCEPT !.slave_start = FALSE]
  ELSE IF c.slave_ppqn_ticks = 0 THEN c
  ELSE IF c.clock_mode = "PULSE_SYNC_SLAVE" THEN [c EXCEPT !.ppqn_counter = c.divider - 1]
  ELSE [c EXCEPT !.ppqn_counter = (@ + c.sync_count - c.slave_ppqn_ticks) % ByteWrap]

\* The first half of process_external_clock_event: a restart that was put off until the
\* count of the pulses comes round, the count itself, and the missed ticks.
BeginEvent(c) ==
  IF c.delay_slave_start /\ c.tick_counter = 0
    THEN LET restarted == ClockStart([c EXCEPT !.delay_slave_start = FALSE])
         IN  /\ clk' = CatchUp(CountPulse(restarted))
             /\ synced' = Fits(c)
             /\ since' = IF Fits(c) THEN StepLength(c) - 1 ELSE 0
    ELSE /\ clk' = CatchUp(CountPulse(c))
         /\ UNCHANGED <<synced, since>>

\* MIDI_CLOCK, in the main loop.
MidiClock ==
  /\ clock_pc = "idle" /\ clk.clock_mode = "MIDI_SLAVE"
  /\ BeginEvent(clk)
  /\ clock_pc' = "inside"
  /\ UNCHANGED <<pulse, step>>

\* INT1, the pulse of a DIN master: the first one after the start is taken.
DinClock ==
  /\ clock_pc = "idle" /\ clk.clock_mode = "DIN_SYNC_SLAVE"
  /\ LET pulses  == (clk.din_ppqn_pulses + 1) % PulseWrap
         counted == [clk EXCEPT !.din_ppqn_pulses = pulses]
     IN  IF clk.slave_start /\ pulses # 1
           THEN /\ clk' = counted
                /\ UNCHANGED <<clock_pc, synced, since>>
           ELSE /\ BeginEvent(IF clk.slave_start THEN counted ELSE clk)
                /\ clock_pc' = "inside"
  /\ UNCHANGED <<pulse, step>>

\* INT0, process_external_sync_pulse: neither the restart nor the count.
SyncPulse ==
  /\ clock_pc = "idle" /\ clk.clock_mode = "PULSE_SYNC_SLAVE"
  /\ clk' = CatchUp(clk)
  /\ clock_pc' = "inside"
  /\ UNCHANGED <<synced, since, pulse, step>>

\* The second half of each: the pulse is itself a tick, and the timer goes on.
EndPulse ==
  /\ clock_pc = "inside" /\ clock_pc' = "idle"
  /\ LET reset == [clk EXCEPT !.slave_ppqn_ticks = 0]
     IN  /\ clk' = [ProcessTickOf(reset) EXCEPT !.timer1 = TRUE]
         /\ step' = IF synced /\ Due(reset) THEN ~step ELSE step
  /\ pulse' = (synced /\ ~pulse)
  /\ since' = IF synced /\ since + 1 # StepLength(clk) THEN since + 1 ELSE 0
  /\ UNCHANGED <<synced>>

-----------------------------------------------------------------------------
(* Transport *)

Started(c) ==
  /\ clk' = ClockStart(c)
  /\ synced' = Fits(c)
  /\ since' = IF Fits(c) THEN StepLength(c) - 1 ELSE 0

\* The START/STOP button: a slave of MIDI or DIN obeys it only with SHIFT, and puts a
\* start off until the count of the pulses comes round.
StartStopButton(shift) ==
  LET slave == clk.clock_mode \in {"MIDI_SLAVE", "DIN_SYNC_SLAVE"}
      c == [clk EXCEPT !.slave_stop = IF slave THEN TRUE ELSE @]
  IN  /\ clock_pc = "idle"
      /\ IF slave /\ ~shift
           THEN /\ clk' = [clk EXCEPT !.slave_stop = FALSE]
                /\ UNCHANGED <<synced, since>>
         ELSE IF clk.START
           THEN /\ clk' = [c EXCEPT !.START = FALSE]
                /\ UNCHANGED <<synced, since>>
         ELSE IF c.slave_stop
           THEN /\ clk' = [c EXCEPT !.START = TRUE, !.slave_stop = FALSE, !.delay_slave_start = TRUE]
                /\ UNCHANGED <<synced, since>>
         ELSE Started([c EXCEPT !.START = TRUE])
      /\ UNCHANGED <<clock_pc, pulse, step>>

MidiStart ==
  /\ clock_pc = "idle" /\ clk.clock_mode = "MIDI_SLAVE"
  /\ Started([clk EXCEPT !.START = TRUE])
  /\ UNCHANGED <<clock_pc, pulse, step>>

MidiStop ==
  /\ clock_pc = "idle" /\ clk.clock_mode = "MIDI_SLAVE"
  /\ clk' = [clk EXCEPT !.START = FALSE]
  /\ UNCHANGED <<clock_pc, synced, since, pulse, step>>

\* PCINT2, both edges of the RUN line: the start inside the interrupt, the stop left to
\* the main loop.
RunLine ==
  /\ clock_pc = "idle" /\ clk.clock_mode = "DIN_SYNC_SLAVE"
  /\ \/ Started([clk EXCEPT !.START = TRUE])
     \/ /\ clk' = [clk EXCEPT !.din_stop = TRUE]
        /\ UNCHANGED <<synced, since>>
  /\ UNCHANGED <<clock_pc, pulse, step>>

DinStop ==
  /\ clock_pc = "idle" /\ clk.din_stop
  /\ clk.clock_mode \in {"MIDI_SLAVE", "DIN_SYNC_SLAVE"}
  /\ clk' = [clk EXCEPT !.din_stop = FALSE, !.START = FALSE]
  /\ UNCHANGED <<clock_pc, synced, since, pulse, step>>

\* A step button while stopped selects a pattern and begins its step anew.
StoppedStepPress ==
  /\ clock_pc = "idle" /\ ~clk.START
  /\ clk' = [clk EXCEPT !.ppqn_counter = 0]
  /\ synced' = FALSE /\ since' = 0 /\ pulse' = FALSE /\ step' = FALSE
  /\ UNCHANGED clock_pc

\* Another pre-scale.  Without the "late_scale" gesture it comes before the count has
\* passed the new divider.
ChangeDivider(divider) ==
  /\ clock_pc = "idle"
  /\ clk.ppqn_counter < divider \/ "late_scale" \in ClockGestures
  /\ clk' = [clk EXCEPT !.divider = divider]
  /\ synced' = (synced /\ clk.clock_mode # "PULSE_SYNC_SLAVE")
  /\ since' = IF synced' THEN since ELSE 0
  /\ pulse' = (synced' /\ pulse) /\ step' = (synced' /\ step)
  /\ UNCHANGED clock_pc

\* set_clock_mode: SHIFT and FILL take the next mode, the trigger inputs DIN_SYNC_MASTER;
\* a start that waits for a pulse, or has not raised RUN yet, is left waiting.  Without
\* "sync_left" DIN_SYNC_SLAVE, which sets no sync_count, does not come after
\* PULSE_SYNC_SLAVE.
SetClockMode(mode) ==
  /\ clock_pc = "idle"
  /\ mode = "DIN_SYNC_SLAVE" /\ clk.sync_count # PPQN_24_TICK_COUNT
       => "sync_left" \in ClockGestures
  /\ clk' = [clk EXCEPT
       !.clock_mode = mode,
       !.timer1 = @ \/ ~External(mode),
       !.sync_count = CASE mode = "MIDI_SLAVE" -> PPQN_24_TICK_COUNT
                        [] mode = "PULSE_SYNC_SLAVE" -> PPQN_2_TICK_COUNT
                        [] OTHER -> @]
  /\ synced' = FALSE /\ since' = 0 /\ pulse' = FALSE /\ step' = FALSE
  /\ UNCHANGED clock_pc

ChangeClockMode ==
  \E i \in DOMAIN ClockMode :
    /\ clk.clock_mode = ClockMode[i]
    /\ \/ SetClockMode(ClockMode[(i % Len(ClockMode)) + 1])
       \/ SetClockMode("DIN_SYNC_MASTER")

-----------------------------------------------------------------------------
ClockInit ==
  /\ \E i \in DOMAIN ClockMode, divider \in Dividers :
       clk = [clock_mode |-> ClockMode[i],
              sync_count |-> PulseTicks(ClockMode[i]),
              divider |-> divider,
              ppqn_counter |-> 1, slave_ppqn_ticks |-> 0, ppqn_divider_tick |-> 0,
              tick_counter |-> 0, din_ppqn_pulses |-> 0, timer1 |-> TRUE,
              START |-> FALSE, slave_start |-> FALSE, slave_stop |-> FALSE,
              delay_slave_start |-> FALSE, din_start |-> FALSE, din_stop |-> FALSE]
  /\ clock_pc = "idle"
  /\ synced = FALSE /\ since = 0 /\ pulse = FALSE /\ step = FALSE

ClockPulse == MidiClock \/ DinClock \/ SyncPulse

ClockNext ==
  \/ TimerTick \/ ClockPulse \/ EndPulse
  \/ \E shift \in BOOLEAN : StartStopButton(shift)
  \/ MidiStart \/ MidiStop \/ RunLine \/ DinStop \/ StoppedStepPress
  \/ \E divider \in Dividers : ChangeDivider(divider)
  \/ ChangeClockMode

ClockSpec == ClockInit /\ [][ClockNext]_clockVars

\* A master that is followed goes on sending its pulses.
ClockFairness == WF_clockVars(ClockPulse) /\ WF_clockVars(EndPulse)

-----------------------------------------------------------------------------
(* Correctness *)

\* The counters stay in their bytes; the ticks that a pulse adds at once never carry the
\* count of a slave that is in step past the divider, which is compared for equality
\* (clock.c:79).
ClockTypeOK ==
  /\ clk \in [clock_mode : {ClockMode[i] : i \in DOMAIN ClockMode},
              sync_count : {PPQN_24_TICK_COUNT, PPQN_2_TICK_COUNT},
              divider : Dividers,
              ppqn_counter : 0..(ByteWrap - 1), slave_ppqn_ticks : 0..(ByteWrap - 1),
              ppqn_divider_tick : 0..PPQN_DIVIDER, tick_counter : 0..(ByteWrap - 1),
              din_ppqn_pulses : 0..(PulseWrap - 1), timer1 : BOOLEAN,
              START : BOOLEAN, slave_start : BOOLEAN, slave_stop : BOOLEAN,
              delay_slave_start : BOOLEAN, din_start : BOOLEAN, din_stop : BOOLEAN]
  /\ clock_pc \in {"idle", "inside"}
  /\ {synced, pulse, step} \subseteq BOOLEAN
  /\ since \in Nat
  /\ synced => clk.ppqn_counter < clk.divider

\* The steps of a slave fall on the pulses of its master, each the right number of pulses
\* after the last, the downbeat on the first pulse after the start, however many ticks
\* the timer counts in between (clock.c:79, sequencer.c:191).
Master == INSTANCE PulseFollower WITH following <- synced, length <- StepLength(clk)
FollowsMaster == Master!FollowSpec

\* A restart with the button that waits for the master's count does not wait for ever, as
\* long as the mode stays (clock.c:50).
RestartHappens ==
  clk.delay_slave_start ~>
    ~clk.delay_slave_start \/ clk.clock_mode \notin {"MIDI_SLAVE", "DIN_SYNC_SLAVE"}
=============================================================================
