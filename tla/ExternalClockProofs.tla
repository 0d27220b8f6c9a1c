------------------------ MODULE ExternalClockProofs ------------------------
(***************************************************************************)
(* The steps of a slave fall on the pulses of its master, for any number   *)
(* of ticks to a pulse and any pre-scales.  The invariant says what the    *)
(* count of a slave that is in step means: between two pulses it counts    *)
(* the pulses since the last step and the ticks of the present one, and    *)
(* inside the handler of a pulse all the ticks of the last one are in it.  *)
(***************************************************************************)
EXTENDS ExternalClock, TLAPS

\* The timer's interrupt does not fall into the handler of a pulse, no pre-scale comes after
\* its divider, and the mode does not leave a count of ticks that is another's.
Undisturbed == ClockGestures = {}

\* No step is longer than a pulse of the pulse input (PRE_SCALE_1 is 32, PPQN_2_TICK_COUNT 48):
\* one whose length in pulses is whole is one pulse long.
PulseHoldsStep == \A d \in Dividers : d % PPQN_2_TICK_COUNT = 0 => d = PPQN_2_TICK_COUNT

Clocks ==
  [clock_mode : {ClockMode[i] : i \in DOMAIN ClockMode},
   sync_count : {PPQN_24_TICK_COUNT, PPQN_2_TICK_COUNT},
   divider : Dividers,
   ppqn_counter : 0..(ByteWrap - 1), slave_ppqn_ticks : 0..(ByteWrap - 1),
   ppqn_divider_tick : 0..PPQN_DIVIDER, tick_counter : 0..(ByteWrap - 1),
   din_ppqn_pulses : 0..(PulseWrap - 1), timer1 : BOOLEAN,
   START : BOOLEAN, slave_start : BOOLEAN, slave_stop : BOOLEAN,
   delay_slave_start : BOOLEAN, din_start : BOOLEAN, din_stop : BOOLEAN]

-----------------------------------------------------------------------------
(* Arithmetic *)

\* One multiple less is at least one step less.
LEMMA NextMultiple ==
  ASSUME NEW a \in Nat, NEW b \in Nat, NEW p \in Nat, p > 0, a < b
  PROVE  (a * p) + p <= b * p
<1>1. (b - a) * p >= p
  OBVIOUS
<1> QED
  BY <1>1

\* Equal multiples.
LEMMA SameMultiple ==
  ASSUME NEW a \in Nat, NEW b \in Nat, NEW p \in Nat, p > 0, (a * p) + p = b * p
  PROVE  a + 1 = b
OBVIOUS

\* The next multiple.
LEMMA OneMore ==
  ASSUME NEW a \in Nat, NEW p \in Nat
  PROVE  (a * p) + p = (a + 1) * p /\ a * p \in Nat
OBVIOUS

\* What divides evenly is a multiple.
LEMMA EvenDivision ==
  ASSUME NEW d \in Nat, NEW p \in Nat, p > 0, d > 0, d % p = 0
  PROVE  d = (d \div p) * p /\ d \div p \in Nat /\ d \div p >= 1
OBVIOUS

\* A remainder that is one short of a multiple is the greatest.
LEMMA GreatestRemainder ==
  ASSUME NEW k \in Nat, NEW m \in Nat, NEW d \in Nat, NEW r \in Nat, r < d, k * d + r + 1 = m * d
  PROVE  r + 1 = d
OBVIOUS

\* A byte holds what is less than the wrap, and whatever is counted stays in it.
LEMMA InByte ==
  ASSUME NEW x \in Int, NEW w \in Nat, w > 0
  PROVE  x % w \in 0..(w - 1) /\ (0 <= x /\ x < w => x % w = x)
OBVIOUS

-----------------------------------------------------------------------------
(* The clock's operations *)

\* A clock's fields.
LEMMA Fields ==
  ASSUME NEW c \in Clocks
  PROVE  /\ c.clock_mode \in {"MIDI_MASTER", "MIDI_SLAVE", "DIN_SYNC_MASTER", "DIN_SYNC_SLAVE",
                              "PULSE_SYNC_SLAVE"}
         /\ c.sync_count \in Nat /\ c.sync_count > 1 /\ c.sync_count < ByteWrap
         /\ c.divider \in Nat /\ c.divider > 1 /\ c.divider < ByteWrap
         /\ c.divider \in Dividers
         /\ c.ppqn_counter \in Nat /\ c.ppqn_counter < ByteWrap
         /\ c.slave_ppqn_ticks \in Nat /\ c.slave_ppqn_ticks < ByteWrap
         /\ ByteWrap \in Nat
<1>1. PICK i \in DOMAIN ClockMode : c.clock_mode = ClockMode[i]
  BY DEF Clocks
<1>2. DOMAIN ClockMode = 1..5
  BY DEF ClockMode
<1>3. c.clock_mode \in {"MIDI_MASTER", "MIDI_SLAVE", "DIN_SYNC_MASTER", "DIN_SYNC_SLAVE",
                       "PULSE_SYNC_SLAVE"}
  BY <1>1, <1>2 DEF ClockMode
<1>4. /\ c.sync_count \in {PPQN_24_TICK_COUNT, PPQN_2_TICK_COUNT} /\ c.divider \in Dividers
      /\ c.ppqn_counter \in 0..(ByteWrap - 1) /\ c.slave_ppqn_ticks \in 0..(ByteWrap - 1)
  BY DEF Clocks
<1>5. /\ c.divider \in Nat /\ c.divider > 1 /\ c.divider < ByteWrap
      /\ c.sync_count \in Nat /\ c.sync_count > 1 /\ c.sync_count < ByteWrap
      /\ ByteWrap \in Nat
  <2>1. \A d \in Dividers : d \in Nat /\ d > 1 /\ d < ByteWrap
    BY ClockAssumption
  <2>2. c.sync_count \in {PPQN_24_TICK_COUNT, PPQN_2_TICK_COUNT} /\ c.divider \in Dividers
    BY <1>4
  <2> QED
    BY <2>1, <2>2, ClockAssumption
<1> QED
  BY <1>3, <1>4, <1>5

\* What does not change the mode.
Set(c) == <<c.clock_mode, c.sync_count, c.divider>>

\* process_tick.
LEMMA TickIs ==
  ASSUME NEW c \in Clocks
  PROVE  LET t == ProcessTickOf(c)
             ticks == (c.slave_ppqn_ticks + 1) % ByteWrap
         IN  /\ t \in Clocks /\ Set(t) = Set(c)
             /\ t.slave_start = c.slave_start
             /\ t.ppqn_divider_tick = c.ppqn_divider_tick
             /\ t.ppqn_counter = IF Due(c) THEN 0 ELSE (c.ppqn_counter + 1) % ByteWrap
             /\ External(c.clock_mode) =>
                  /\ t.slave_ppqn_ticks = IF ticks = c.sync_count THEN 0 ELSE ticks
                  /\ t.timer1 <=> c.timer1 /\ ticks # c.sync_count
<1> DEFINE ticks == (c.slave_ppqn_ticks + 1) % ByteWrap
           counter == IF Due(c) THEN 0 ELSE (c.ppqn_counter + 1) % ByteWrap
           slave == IF ticks = c.sync_count THEN 0 ELSE ticks
           runs == c.timer1 /\ ~(ticks = c.sync_count)
           t == ProcessTickOf(c)
<1>1. ticks \in 0..(ByteWrap - 1) /\ counter \in 0..(ByteWrap - 1) /\ slave \in 0..(ByteWrap - 1)
  BY Fields, InByte
<1>2. runs \in BOOLEAN
  BY DEF Clocks
<1>3. t = IF External(c.clock_mode)
            THEN [c EXCEPT !.ppqn_counter = counter, !.slave_ppqn_ticks = slave, !.timer1 = runs]
            ELSE [c EXCEPT !.ppqn_counter = counter]
  BY DEF ProcessTickOf, Clocks
<1>4. runs <=> c.timer1 /\ ticks # c.sync_count
  OBVIOUS
<1> HIDE DEF counter, slave, runs, t
<1>5. /\ t \in Clocks /\ Set(t) = Set(c)
      /\ t.slave_start = c.slave_start /\ t.ppqn_divider_tick = c.ppqn_divider_tick
      /\ t.ppqn_counter = counter
      /\ External(c.clock_mode) => t.slave_ppqn_ticks = slave
  BY <1>1, <1>2, <1>3 DEF Clocks, Set
<1>6. External(c.clock_mode) => (t.timer1 <=> c.timer1 /\ ticks # c.sync_count)
  <2>1. External(c.clock_mode) => t.timer1 = runs
    BY <1>3 DEF Clocks
  <2> QED
    BY <1>4, <2>1
<1> QED
  BY <1>5, <1>6 DEF counter, slave, t

\* process_start.
LEMMA StartIs ==
  ASSUME NEW c \in Clocks
  PROVE  LET t == ClockStart(c)
         IN  /\ t \in Clocks /\ Set(t) = Set(c)
             /\ External(c.clock_mode) =>
                  /\ t.ppqn_counter = c.divider - 1 /\ t.slave_ppqn_ticks = 0
                  /\ t.slave_start /\ t.tick_counter = 0
             /\ t.delay_slave_start <=> c.delay_slave_start
<1> DEFINE din == c.din_start \/ Din(c.clock_mode)
           pulses == IF Din(c.clock_mode) THEN 0 ELSE c.din_ppqn_pulses
           primed == IF c.clock_mode = "DIN_SYNC_MASTER" THEN [c EXCEPT !.ppqn_counter = 0]
                     ELSE [c EXCEPT !.ppqn_divider_tick = 0, !.ppqn_counter = c.divider - 1]
           d == [primed EXCEPT !.din_start = din, !.din_ppqn_pulses = pulses, !.timer1 = TRUE]
           t == ClockStart(c)
<1>1. /\ c.divider - 1 \in 0..(ByteWrap - 1) /\ 0 \in 0..(ByteWrap - 1)
      /\ 0 \in 0..PPQN_DIVIDER /\ pulses \in 0..(PulseWrap - 1)
  BY Fields, ClockAssumption DEF Clocks
<1>2. din \in BOOLEAN
  BY DEF Clocks
<1>3. /\ primed \in Clocks /\ Set(primed) = Set(c)
      /\ primed.delay_slave_start = c.delay_slave_start
      /\ External(c.clock_mode) => primed.ppqn_counter = c.divider - 1
      /\ primed.din_start = c.din_start /\ primed.din_ppqn_pulses = c.din_ppqn_pulses
  BY <1>1 DEF Clocks, Set, External
<1>4. t = IF External(c.clock_mode)
            THEN [d EXCEPT !.slave_start = TRUE, !.slave_ppqn_ticks = 0, !.tick_counter = 0]
            ELSE [d EXCEPT !.slave_start = FALSE]
  BY <1>3 DEF ClockStart
<1> HIDE DEF din, pulses, primed
<1>5. /\ d \in Clocks /\ Set(d) = Set(primed)
      /\ d.delay_slave_start = primed.delay_slave_start /\ d.ppqn_counter = primed.ppqn_counter
  BY <1>1, <1>2, <1>3 DEF Clocks, Set
<1> HIDE DEF d, t
<1>6. /\ t \in Clocks /\ Set(t) = Set(d)
      /\ t.delay_slave_start = d.delay_slave_start /\ t.ppqn_counter = d.ppqn_counter
      /\ External(c.clock_mode) =>
           /\ t.slave_ppqn_ticks = 0 /\ t.slave_start /\ t.tick_counter = 0
  BY <1>1, <1>4, <1>5 DEF Clocks, Set
<1> QED
  BY <1>3, <1>5, <1>6 DEF t

\* Clocks that differ in flags that are not the count's.
Alike(c, t) ==
  /\ Set(t) = Set(c) /\ t.ppqn_counter = c.ppqn_counter
  /\ t.slave_ppqn_ticks = c.slave_ppqn_ticks /\ t.slave_start = c.slave_start
  /\ t.timer1 = c.timer1

\* The count of the pulses is no count of ticks.
LEMMA CountIs ==
  ASSUME NEW c \in Clocks
  PROVE  LET t == CountPulse(c)
         IN  t \in Clocks /\ Alike(c, t)
<1> DEFINE next == (c.tick_counter + 1) % ByteWrap
           count == IF next = c.divider THEN 0 ELSE next
<1>1. count \in 0..(ByteWrap - 1)
  <2>1. c.tick_counter + 1 \in Int /\ ByteWrap \in Nat /\ ByteWrap > 0
    BY ClockAssumption DEF Clocks
  <2> QED
    BY <2>1, InByte
<1>2. CountPulse(c) = [c EXCEPT !.tick_counter = count]
  BY DEF CountPulse
<1> HIDE DEF count
<1> QED
  BY <1>1, <1>2 DEF Clocks, Set, Alike

Pulsed(c) == c.clock_mode = "PULSE_SYNC_SLAVE"

\* After a pulse all the ticks of the last one have been counted.
LEMMA CatchUpIs ==
  ASSUME NEW c \in Clocks
  PROVE  LET t == CatchUp(c)
         IN  /\ t \in Clocks /\ Set(t) = Set(c)
             /\ ~t.slave_start
             /\ t.slave_ppqn_ticks = c.slave_ppqn_ticks
             /\ t.ppqn_counter =
                  IF c.slave_start \/ c.slave_ppqn_ticks = 0 THEN c.ppqn_counter
                  ELSE IF Pulsed(c) THEN c.divider - 1
                  ELSE (c.ppqn_counter + c.sync_count - c.slave_ppqn_ticks) % ByteWrap
<1> DEFINE counter == IF Pulsed(c) THEN c.divider - 1
                      ELSE (c.ppqn_counter + c.sync_count - c.slave_ppqn_ticks) % ByteWrap
           t == CatchUp(c)
<1>1. counter \in 0..(ByteWrap - 1)
  <2>1. /\ c.ppqn_counter + c.sync_count - c.slave_ppqn_ticks \in Int
        /\ ByteWrap \in Nat /\ ByteWrap > 0
        /\ c.divider - 1 \in 0..(ByteWrap - 1)
    BY Fields
  <2>2. (c.ppqn_counter + c.sync_count - c.slave_ppqn_ticks) % ByteWrap \in 0..(ByteWrap - 1)
    BY <2>1, InByte
  <2> QED
    BY <2>1, <2>2
<1>2. CASE c.slave_start
  <2>1. t = [c EXCEPT !.slave_start = FALSE]
    BY <1>2 DEF CatchUp
  <2> QED
    BY <1>2, <2>1 DEF Clocks, Set
<1>3. CASE ~c.slave_start /\ c.slave_ppqn_ticks = 0
  BY <1>3 DEF CatchUp
<1>4. CASE ~c.slave_start /\ c.slave_ppqn_ticks # 0
  <2>1. t = [c EXCEPT !.ppqn_counter = counter]
    BY <1>4 DEF CatchUp, Pulsed
  <2> HIDE DEF counter, t
  <2>2. /\ t \in Clocks /\ Set(t) = Set(c) /\ t.slave_start = c.slave_start
        /\ t.slave_ppqn_ticks = c.slave_ppqn_ticks /\ t.ppqn_counter = counter
    BY <1>1, <2>1 DEF Clocks, Set
  <2> QED
    BY <1>4, <2>2 DEF counter, t
<1> QED
  BY <1>2, <1>3, <1>4

-----------------------------------------------------------------------------
(* What the count means *)

\* The ticks of the present pulse that are in the count, the pulse itself included.
Counted(c) == IF c.slave_ppqn_ticks = 0 THEN c.sync_count ELSE c.slave_ppqn_ticks

InTime(c) == External(c.clock_mode) => c.sync_count = PulseTicks(c.clock_mode)

\* A slave in step, n pulses after its last step.
Gauged(c, n) ==
  /\ External(c.clock_mode) /\ Fits(c)
  /\ c.slave_ppqn_ticks < c.sync_count
  /\ c.slave_start => c.slave_ppqn_ticks = 0
  /\ c.ppqn_counter < c.divider
  /\ n \in 0..(StepLength(c) - 1)

\* Between two pulses.  A step of a pulse slave is no longer than the pulse: the ticks
\* of the pulse make some steps and the count.
Between(c, n) ==
  /\ c.slave_ppqn_ticks = 0 => c.slave_start \/ ~c.timer1
  /\ Pulsed(c) => IF c.slave_start THEN c.ppqn_counter = c.divider - 1
                  ELSE \E k \in Nat : Counted(c) = k * c.divider + c.ppqn_counter + 1
  /\ ~Pulsed(c) => c.ppqn_counter + 1 = n * c.sync_count + Counted(c)

\* Inside the handler of a pulse.
Inside(c, n) ==
  /\ ~c.slave_start
  /\ c.ppqn_counter + 1 = IF Pulsed(c) THEN c.divider ELSE n * c.sync_count + c.sync_count

\* A step is a whole number of pulses, or a pulse is a whole number of steps.
LEMMA StepFits ==
  ASSUME PulseHoldsStep, NEW c \in Clocks, External(c.clock_mode), Fits(c), InTime(c)
  PROVE  /\ StepLength(c) \in Nat /\ StepLength(c) >= 1
         /\ ~Pulsed(c) => c.divider = StepLength(c) * c.sync_count
         /\ Pulsed(c) => /\ StepLength(c) = 1
                         /\ \E m \in Nat : c.sync_count = m * c.divider
<1> DEFINE p == PulseTicks(c.clock_mode)
<1>1. /\ c.sync_count = p /\ p \in Nat /\ p > 1
      /\ c.divider \in Nat /\ c.divider > 0 /\ c.divider \in Dividers
  BY Fields DEF InTime
<1>2. CASE ~Pulsed(c)
  <2>1. p = PPQN_24_TICK_COUNT
    BY <1>2 DEF Pulsed, PulseTicks
  <2>2. c.divider % p = 0
    BY <1>1, <2>1, ClockAssumption
  <2> QED
    BY <1>1, <1>2, <2>2, EvenDivision DEF StepLength
<1>3. CASE Pulsed(c)
  <2>1. p = PPQN_2_TICK_COUNT
    BY <1>3 DEF Pulsed, PulseTicks
  <2>2. CASE c.divider % p = 0
    <3>1. c.divider = p
      BY <1>1, <2>1, <2>2 DEF PulseHoldsStep
    <3>2. StepLength(c) = 1
      BY <1>1, <2>2, <3>1 DEF StepLength
    <3> QED
      BY <1>1, <1>3, <3>1, <3>2
  <2>3. CASE c.divider % p # 0
    <3>1. p % c.divider = 0
      BY <2>3 DEF Fits
    <3>2. p = (p \div c.divider) * c.divider /\ p \div c.divider \in Nat
      BY <1>1, <3>1, EvenDivision
    <3>3. StepLength(c) = 1
      BY <2>3 DEF StepLength
    <3> QED
      BY <1>1, <1>3, <3>2, <3>3
  <2> QED
    BY <2>2, <2>3
<1> QED
  BY <1>2, <1>3

\* What the mode and the divider decide.
LEMMA SetDecides ==
  ASSUME NEW c, NEW t, Set(t) = Set(c)
  PROVE  /\ t.clock_mode = c.clock_mode /\ t.sync_count = c.sync_count /\ t.divider = c.divider
         /\ External(t.clock_mode) <=> External(c.clock_mode)
         /\ Fits(t) <=> Fits(c)
         /\ InTime(t) <=> InTime(c)
         /\ Pulsed(t) <=> Pulsed(c)
         /\ StepLength(t) = StepLength(c)
<1>1. t.clock_mode = c.clock_mode /\ t.sync_count = c.sync_count /\ t.divider = c.divider
  BY DEF Set
<1> QED
  BY <1>1 DEF Fits, InTime, Pulsed, StepLength

\* A start makes the next pulse the downbeat.
LEMMA StartGauges ==
  ASSUME PulseHoldsStep, NEW c \in Clocks, Fits(c), InTime(c)
  PROVE  LET t == ClockStart(c)
         IN  Gauged(t, StepLength(c) - 1) /\ Between(t, StepLength(c) - 1)
<1> DEFINE t == ClockStart(c)
           n == StepLength(c) - 1
<1>1. External(c.clock_mode)
  BY DEF Fits
<1>2. /\ t \in Clocks /\ Set(t) = Set(c) /\ t.ppqn_counter = c.divider - 1
      /\ t.slave_ppqn_ticks = 0 /\ t.slave_start
  BY <1>1, StartIs
<1>3. /\ StepLength(c) \in Nat /\ n \in Nat
      /\ ~Pulsed(c) => c.divider = StepLength(c) * c.sync_count
  BY <1>1, StepFits
<1>4. c.divider \in Nat /\ c.sync_count \in Nat /\ c.sync_count > 1
  BY Fields
<1> HIDE DEF t
<1>5. /\ External(t.clock_mode) /\ Fits(t) /\ StepLength(t) = StepLength(c)
      /\ Pulsed(t) <=> Pulsed(c)
      /\ t.sync_count = c.sync_count /\ t.divider = c.divider
  BY <1>1, <1>2, SetDecides
<1>6. ~Pulsed(c) => c.divider = n * c.sync_count + c.sync_count
  BY <1>3, <1>4
<1>7. Gauged(t, n)
  BY <1>2, <1>3, <1>4, <1>5 DEF Gauged
<1>8. Between(t, n)
  BY <1>2, <1>3, <1>4, <1>5, <1>6 DEF Between, Counted
<1> QED
  BY <1>7, <1>8 DEF t

\* A pulse completes the count of the last one.
LEMMA PulseGauges ==
  ASSUME PulseHoldsStep, NEW c \in Clocks, InTime(c), NEW n \in Nat, Gauged(c, n), Between(c, n),
         NEW d \in Clocks, Alike(c, d)
  PROVE  LET t == CatchUp(d) IN Gauged(t, n) /\ Inside(t, n)
<1> DEFINE t == CatchUp(d)
           L == StepLength(c)
           p == c.sync_count
<1>1. /\ d \in Clocks /\ Set(d) = Set(c) /\ d.ppqn_counter = c.ppqn_counter
      /\ d.slave_ppqn_ticks = c.slave_ppqn_ticks /\ d.slave_start = c.slave_start
  BY DEF Alike
<1>2. /\ t \in Clocks /\ Set(t) = Set(d) /\ ~t.slave_start
      /\ t.slave_ppqn_ticks = d.slave_ppqn_ticks
      /\ t.ppqn_counter =
           IF d.slave_start \/ d.slave_ppqn_ticks = 0 THEN d.ppqn_counter
           ELSE IF Pulsed(d) THEN d.divider - 1
           ELSE (d.ppqn_counter + d.sync_count - d.slave_ppqn_ticks) % ByteWrap
  BY <1>1, CatchUpIs
<1> HIDE DEF t
<1>3. /\ External(t.clock_mode) /\ Fits(t) /\ StepLength(t) = L
      /\ Pulsed(t) <=> Pulsed(c)
      /\ t.sync_count = p /\ t.divider = c.divider
      /\ Pulsed(d) <=> Pulsed(c)
      /\ d.sync_count = p /\ d.divider = c.divider
  <2>1. Set(t) = Set(c)
    BY <1>1, <1>2
  <2> QED
    BY <1>1, <2>1, SetDecides DEF Gauged
<1>4. /\ L \in Nat /\ L >= 1 /\ n < L
      /\ ~Pulsed(c) => c.divider = L * p
      /\ Pulsed(c) => L = 1 /\ \E m \in Nat : p = m * c.divider
  BY StepFits DEF Gauged
<1>5. /\ p \in Nat /\ p > 1 /\ c.divider \in Nat /\ c.divider > 1 /\ c.divider < ByteWrap
      /\ c.ppqn_counter \in Nat /\ c.slave_ppqn_ticks \in Nat /\ ByteWrap \in Nat
  BY Fields
<1>6. t.ppqn_counter + 1 = IF Pulsed(c) THEN c.divider ELSE n * p + p
  <2>1. CASE Pulsed(c)
    <3>1. CASE c.slave_start
      BY <1>1, <1>2, <1>5, <2>1, <3>1 DEF Between
    <3>2. CASE ~c.slave_start /\ c.slave_ppqn_ticks = 0
      <4>1. PICK k \in Nat : p = k * c.divider + c.ppqn_counter + 1
        BY <2>1, <3>2 DEF Between, Counted
      <4>2. PICK m \in Nat : p = m * c.divider
        BY <1>4, <2>1
      <4>3. c.ppqn_counter < c.divider
        BY DEF Gauged
      <4>4. c.ppqn_counter + 1 = c.divider
        <5> DEFINE r == c.ppqn_counter
                   q == c.divider
        <5>1. r \in Nat /\ q \in Nat /\ r < q /\ k * q + r + 1 = m * q
          BY <1>5, <4>1, <4>2, <4>3
        <5> HIDE DEF r, q
        <5>2. r + 1 = q
          BY <5>1, GreatestRemainder
        <5> QED
          BY <5>2 DEF r, q
      <4> QED
        BY <1>1, <1>2, <2>1, <3>2, <4>4
    <3>3. CASE ~c.slave_start /\ c.slave_ppqn_ticks # 0
      BY <1>1, <1>2, <1>3, <1>5, <2>1, <3>3
    <3> QED
      BY <3>1, <3>2, <3>3
  <2>2. CASE ~Pulsed(c)
    <3>1. c.ppqn_counter + 1 = n * p + Counted(c)
      BY <2>2 DEF Between
    <3>2. n * p \in Nat /\ n * p + p <= c.divider
      BY <1>4, <1>5, <2>2, NextMultiple
    <3>3. CASE c.slave_ppqn_ticks = 0
      BY <1>1, <1>2, <1>5, <2>2, <3>1, <3>2, <3>3 DEF Counted
    <3>4. CASE c.slave_ppqn_ticks # 0
      <4>1. ~c.slave_start /\ c.slave_ppqn_ticks < p
        BY <3>4 DEF Gauged
      <4>2. c.ppqn_counter + 1 = n * p + c.slave_ppqn_ticks
        BY <3>1, <3>4 DEF Counted
      <4>3. c.ppqn_counter + p - c.slave_ppqn_ticks = n * p + p - 1
        <5> DEFINE x == n * p
        <5>1. x \in Nat /\ c.ppqn_counter + 1 = x + c.slave_ppqn_ticks
          BY <3>2, <4>2
        <5> HIDE DEF x
        <5>2. c.ppqn_counter + p - c.slave_ppqn_ticks = x + p - 1
          BY <1>5, <5>1
        <5> QED
          BY <5>2 DEF x
      <4>4. (n * p + p - 1) % ByteWrap = n * p + p - 1
        <5>1. /\ n * p + p - 1 \in Int /\ ByteWrap > 0
              /\ 0 <= n * p + p - 1 /\ n * p + p - 1 < ByteWrap
          BY <1>5, <3>2
        <5> QED
          BY <1>5, <5>1, InByte
      <4>5. t.ppqn_counter = n * p + p - 1
        BY <1>1, <1>2, <1>3, <2>2, <3>4, <4>1, <4>3, <4>4
      <4> QED
        BY <1>5, <2>2, <3>2, <4>5
    <3> QED
      BY <3>3, <3>4
  <2> QED
    BY <2>1, <2>2
<1>7. Inside(t, n)
  BY <1>2, <1>3, <1>6 DEF Inside
<1>8. Gauged(t, n)
  <2>1. t.ppqn_counter < t.divider
    <3>1. ~Pulsed(c) => n * p \in Nat /\ n * p + p <= c.divider
      BY <1>4, <1>5, NextMultiple
    <3>2. t.ppqn_counter \in Nat
      BY <1>2, Fields
    <3> QED
      BY <1>3, <1>5, <1>6, <3>1, <3>2
  <2> QED
    BY <1>1, <1>2, <1>3, <1>4, <2>1 DEF Gauged
<1> QED
  BY <1>7, <1>8 DEF t

\* The first tick after a start or a pulse is a step, the others count on.
LEMMA TickGauges ==
  ASSUME PulseHoldsStep, NEW c \in Clocks, InTime(c), NEW n \in Nat, Gauged(c, n), Between(c, n),
         c.timer1, ~c.slave_start
  PROVE  LET t == ProcessTickOf(c)
         IN  /\ Gauged(t, n) /\ Between(t, n)
             /\ Due(c) => StepLength(c) = 1
<1> DEFINE t == ProcessTickOf(c)
           L == StepLength(c)
           p == c.sync_count
           ticks == c.slave_ppqn_ticks + 1
<1>1. /\ p \in Nat /\ p > 1 /\ p < ByteWrap
      /\ c.divider \in Nat /\ c.divider > 1 /\ c.divider < ByteWrap
      /\ c.ppqn_counter \in Nat /\ c.slave_ppqn_ticks \in Nat /\ ByteWrap \in Nat
  BY Fields
<1>2. c.slave_ppqn_ticks # 0 /\ c.slave_ppqn_ticks < p /\ c.ppqn_counter < c.divider
  BY DEF Between, Gauged
<1>3. /\ (c.slave_ppqn_ticks + 1) % ByteWrap = ticks /\ ticks <= p /\ ticks > 1
      /\ (c.ppqn_counter + 1) % ByteWrap = c.ppqn_counter + 1
  <2>1. ticks < ByteWrap /\ c.ppqn_counter + 1 < ByteWrap /\ ByteWrap > 0
    BY <1>1, <1>2
  <2> QED
    BY <1>1, <1>2, <2>1, InByte
<1>4. /\ t \in Clocks /\ Set(t) = Set(c)
      /\ t.slave_start = c.slave_start
      /\ t.ppqn_counter = IF Due(c) THEN 0 ELSE c.ppqn_counter + 1
      /\ t.slave_ppqn_ticks = IF ticks = p THEN 0 ELSE ticks
      /\ t.timer1 <=> c.timer1 /\ ticks # p
  BY <1>3, TickIs DEF Gauged
<1>5. Due(c) <=> c.ppqn_counter + 1 = c.divider
  BY <1>3 DEF Due
<1> HIDE DEF t
<1>6. /\ External(t.clock_mode) /\ Fits(t) /\ StepLength(t) = L
      /\ Pulsed(t) <=> Pulsed(c)
      /\ t.sync_count = p /\ t.divider = c.divider
  BY <1>4, SetDecides DEF Gauged
<1>7. /\ L \in Nat /\ L >= 1 /\ n < L
      /\ ~Pulsed(c) => c.divider = L * p
      /\ Pulsed(c) => L = 1
  BY StepFits DEF Gauged
<1>8. Counted(t) = Counted(c) + 1 /\ Counted(t) = ticks
  BY <1>1, <1>2, <1>4, <1>6 DEF Counted
<1>9. ~Pulsed(c) => t.ppqn_counter + 1 = n * p + Counted(t) /\ ~Due(c)
  <2> SUFFICES ASSUME ~Pulsed(c) PROVE t.ppqn_counter + 1 = n * p + Counted(t) /\ ~Due(c)
    OBVIOUS
  <2>1. c.ppqn_counter + 1 = n * p + c.slave_ppqn_ticks
    BY <1>2 DEF Between, Counted
  <2>2. n * p \in Nat /\ n * p + p <= c.divider
    BY <1>1, <1>7, NextMultiple
  <2>3. c.ppqn_counter + 1 # c.divider
    BY <1>1, <1>2, <2>1, <2>2
  <2> QED
    BY <1>1, <1>4, <1>5, <1>8, <2>1, <2>2, <2>3
<1>10. Pulsed(c) => \E k \in Nat : Counted(t) = k * c.divider + t.ppqn_counter + 1
  <2> SUFFICES ASSUME Pulsed(c)
               PROVE  \E k \in Nat : Counted(t) = k * c.divider + t.ppqn_counter + 1
    OBVIOUS
  <2>1. PICK k \in Nat : Counted(c) = k * c.divider + c.ppqn_counter + 1
    BY DEF Between
  <2>2. k * c.divider \in Nat
    BY <1>1
  <2>3. CASE Due(c)
    <3>1. Counted(t) = k * c.divider + c.divider + t.ppqn_counter + 1
      BY <1>1, <1>4, <1>5, <1>8, <2>1, <2>2, <2>3
    <3>2. k * c.divider + c.divider = (k + 1) * c.divider
      BY <1>1, OneMore
    <3>3. k + 1 \in Nat
      OBVIOUS
    <3> QED
      BY <3>1, <3>2, <3>3
  <2>4. CASE ~Due(c)
    <3>1. Counted(t) = k * c.divider + t.ppqn_counter + 1
      BY <1>1, <1>4, <1>8, <2>1, <2>2, <2>4
    <3> QED
      BY <3>1
  <2> QED
    BY <2>3, <2>4
<1>11. Gauged(t, n)
  <2>1. t.ppqn_counter < t.divider
    BY <1>1, <1>2, <1>4, <1>5, <1>6
  <2> QED
    BY <1>1, <1>3, <1>4, <1>6, <1>7, <2>1 DEF Gauged
<1>12. Between(t, n)
  BY <1>3, <1>4, <1>6, <1>9, <1>10 DEF Between
<1> QED
  BY <1>7, <1>9, <1>11, <1>12 DEF t

\* The pulse is a tick, and a step if it is the last of the step's pulses.
LEMMA EndGauges ==
  ASSUME PulseHoldsStep, NEW c \in Clocks, InTime(c), NEW n \in Nat, Gauged(c, n), Inside(c, n)
  PROVE  LET reset == [c EXCEPT !.slave_ppqn_ticks = 0]
             t == [ProcessTickOf(reset) EXCEPT !.timer1 = TRUE]
             next == IF n + 1 # StepLength(c) THEN n + 1 ELSE 0
         IN  /\ Gauged(t, next) /\ Between(t, next)
             /\ Due(reset) <=> n + 1 = StepLength(c)
<1> DEFINE reset == [c EXCEPT !.slave_ppqn_ticks = 0]
           d == ProcessTickOf(reset)
           t == [d EXCEPT !.timer1 = TRUE]
           L == StepLength(c)
           next == IF n + 1 # L THEN n + 1 ELSE 0
           p == c.sync_count
<1>1. /\ p \in Nat /\ p > 1 /\ p < ByteWrap
      /\ c.divider \in Nat /\ c.divider > 1 /\ c.divider < ByteWrap
      /\ c.ppqn_counter \in Nat /\ ByteWrap \in Nat
  BY Fields
<1>2. /\ reset \in Clocks /\ Set(reset) = Set(c) /\ reset.slave_ppqn_ticks = 0
      /\ reset.ppqn_counter = c.ppqn_counter /\ reset.slave_start = c.slave_start
      /\ reset.sync_count = c.sync_count
  BY <1>1 DEF Clocks, Set
<1>3. (reset.slave_ppqn_ticks + 1) % ByteWrap = 1 /\ (c.ppqn_counter + 1) % ByteWrap = c.ppqn_counter + 1
  <2>1. c.ppqn_counter + 1 < ByteWrap /\ 1 < ByteWrap /\ ByteWrap > 0
    BY <1>1 DEF Gauged
  <2> QED
    <3>1. 1 % ByteWrap = 1
      BY <1>1, <2>1, InByte
    <3>2. (c.ppqn_counter + 1) % ByteWrap = c.ppqn_counter + 1
      BY <1>1, <2>1, InByte
    <3> QED
      BY <1>2, <3>1, <3>2
<1> HIDE DEF reset
<1>4. /\ d \in Clocks /\ Set(d) = Set(reset)
      /\ d.slave_start = reset.slave_start
      /\ d.ppqn_counter = IF Due(reset) THEN 0 ELSE c.ppqn_counter + 1
      /\ d.slave_ppqn_ticks = 1
  <2>1. External(reset.clock_mode)
    BY <1>2, SetDecides DEF Gauged
  <2> QED
    BY <1>1, <1>2, <1>3, <2>1, TickIs
<1> HIDE DEF d
<1>5. /\ t \in Clocks /\ Set(t) = Set(c) /\ t.slave_start = c.slave_start
      /\ t.ppqn_counter = d.ppqn_counter /\ t.slave_ppqn_ticks = 1
  BY <1>2, <1>4, ZenonT(60) DEF Clocks, Set
<1>6. Due(reset) <=> c.ppqn_counter + 1 = c.divider
  BY <1>2, <1>3, SetDecides DEF Due
<1> HIDE DEF t
<1>7. /\ External(t.clock_mode) /\ Fits(t) /\ StepLength(t) = L
      /\ Pulsed(t) <=> Pulsed(c)
      /\ t.sync_count = p /\ t.divider = c.divider
  BY <1>5, SetDecides DEF Gauged
<1>8. /\ L \in Nat /\ L >= 1 /\ n < L
      /\ ~Pulsed(c) => c.divider = L * p
      /\ Pulsed(c) => L = 1
  BY StepFits DEF Gauged
<1>9. /\ ~c.slave_start
      /\ c.ppqn_counter + 1 = IF Pulsed(c) THEN c.divider ELSE n * p + p
  BY DEF Inside
<1>10. Due(reset) <=> n + 1 = L
  <2>1. CASE Pulsed(c)
    BY <1>6, <1>8, <1>9, <2>1
  <2>2. CASE ~Pulsed(c)
    <3>1. n * p + p = L * p => n + 1 = L
      <4> SUFFICES ASSUME n * p + p = L * p PROVE n + 1 = L
        OBVIOUS
      <4>1. p > 0
        BY <1>1
      <4> QED
        BY <1>1, <1>8, <4>1, SameMultiple, Zenon
    <3>2. n + 1 = L => n * p + p = L * p
      BY <1>1
    <3> QED
      BY <1>6, <1>8, <1>9, <2>2, <3>1, <3>2
  <2> QED
    BY <2>1, <2>2
<1>11. next \in 0..(L - 1)
  BY <1>8
<1>12. Gauged(t, next)
  <2>1. t.ppqn_counter < t.divider
    <3>1. c.ppqn_counter < c.divider
      BY DEF Gauged
    <3> QED
      BY <1>1, <1>4, <1>5, <1>6, <1>7, <3>1
  <2> QED
    <3>1. t.slave_ppqn_ticks < t.sync_count /\ ~t.slave_start
      BY <1>1, <1>5, <1>7, <1>9
    <3>2. next \in 0..(StepLength(t) - 1)
      BY <1>7, <1>11
    <3> QED
      BY <1>7, <2>1, <3>1, <3>2 DEF Gauged
<1>13. Between(t, next)
  <2>1. Counted(t) = 1
    BY <1>5 DEF Counted
  <2>2. CASE Pulsed(c)
    <3>1. t.ppqn_counter = 0
      BY <1>4, <1>5, <1>6, <1>9, <2>2
    <3>2. Counted(t) = 0 * t.divider + t.ppqn_counter + 1
      BY <1>1, <1>7, <2>1, <3>1
    <3> QED
      BY <1>5, <1>7, <1>9, <2>2, <3>2 DEF Between
  <2>3. CASE ~Pulsed(c)
    <3>1. t.ppqn_counter + 1 = next * p + 1
      <4>1. CASE n + 1 = L
        BY <1>1, <1>4, <1>5, <1>10, <4>1
      <4>2. CASE n + 1 # L
        <5>1. t.ppqn_counter = n * p + p
          BY <1>4, <1>5, <1>9, <1>10, <2>3, <4>2
        <5>2. n * p + p = (n + 1) * p
          BY <1>1, OneMore
        <5> QED
          BY <1>1, <4>2, <5>1, <5>2
      <4> QED
        BY <4>1, <4>2
    <3> QED
      BY <1>5, <1>7, <2>1, <2>3, <3>1 DEF Between
  <2> QED
    BY <2>2, <2>3
<1> QED
  BY <1>10, <1>12, <1>13 DEF t, d, reset

-----------------------------------------------------------------------------
(* The invariant *)

ClockInv ==
  /\ clk \in Clocks /\ InTime(clk)
  /\ clock_pc \in {"idle", "inside"}
  /\ synced \in BOOLEAN /\ pulse \in BOOLEAN /\ step \in BOOLEAN
  /\ since \in Nat
  /\ synced => Gauged(clk, since)
  /\ synced /\ clock_pc = "idle" => Between(clk, since)
  /\ synced /\ clock_pc = "inside" => Inside(clk, since)

\* What PulseFollower sees of a clock.
followed == <<synced, StepLength(clk), since, pulse, step>>

Follows == [Master!FollowNext]_followed

\* A step out of step is no one's.
LEMMA Unfollowed ==
  ASSUME synced \in BOOLEAN, synced' \in BOOLEAN, ~synced'
  PROVE  Follows
BY DEF Follows, Master!FollowNext, Master!Free, Master!Lose

\* Such flags change neither the count nor what it means.
LEMMA AlikeGauges ==
  ASSUME NEW c, NEW t, NEW n, Alike(c, t)
  PROVE  /\ InTime(c) <=> InTime(t)
         /\ Gauged(c, n) <=> Gauged(t, n)
         /\ Between(c, n) <=> Between(t, n)
         /\ Inside(c, n) <=> Inside(t, n)
         /\ StepLength(t) = StepLength(c)
<1>1. /\ t.clock_mode = c.clock_mode /\ t.sync_count = c.sync_count /\ t.divider = c.divider
      /\ External(t.clock_mode) <=> External(c.clock_mode)
      /\ Fits(t) <=> Fits(c)
      /\ InTime(t) <=> InTime(c)
      /\ Pulsed(t) <=> Pulsed(c)
      /\ StepLength(t) = StepLength(c)
  BY SetDecides DEF Alike
<1>2. Counted(t) = Counted(c)
  BY <1>1 DEF Alike, Counted
<1>3. Gauged(c, n) <=> Gauged(t, n)
  BY <1>1 DEF Alike, Gauged
<1>4. Between(c, n) <=> Between(t, n)
  BY <1>1, <1>2 DEF Alike, Between
<1>5. Inside(c, n) <=> Inside(t, n)
  BY <1>1 DEF Alike, Inside
<1> QED
  BY <1>1, <1>3, <1>4, <1>5

\* A step that changes such flags only.
LEMMA FlagStep ==
  ASSUME ClockInv, clk' \in Clocks, Alike(clk, clk'),
         UNCHANGED <<clock_pc, synced, since, pulse, step>>
  PROVE  ClockInv' /\ Follows
<1>1. /\ InTime(clk) <=> InTime(clk')
      /\ Gauged(clk, since) <=> Gauged(clk', since)
      /\ Between(clk, since) <=> Between(clk', since)
      /\ Inside(clk, since) <=> Inside(clk', since)
      /\ StepLength(clk') = StepLength(clk)
  BY AlikeGauges
<1> QED
  BY <1>1 DEF ClockInv, Follows, followed

\* A start, whoever starts.
LEMMA StartStep ==
  ASSUME PulseHoldsStep, ClockInv, NEW c \in Clocks, Set(c) = Set(clk), Started(c),
         clock_pc' = "idle", UNCHANGED <<pulse, step>>
  PROVE  ClockInv' /\ Follows
<1>1. InTime(c) /\ StepLength(c) = StepLength(clk)
  BY SetDecides DEF ClockInv
<1>2. clk' = ClockStart(c) /\ clk' \in Clocks /\ Set(clk') = Set(c)
  BY StartIs DEF Started
<1>3. InTime(clk') /\ StepLength(clk') = StepLength(c)
  BY <1>1, <1>2, SetDecides
<1>4. synced' \in BOOLEAN /\ (synced' <=> Fits(c))
  BY DEF Started, Fits
<1>5. CASE Fits(c)
  <2>1. since' = StepLength(c) - 1 /\ StepLength(c) \in Nat /\ StepLength(c) >= 1
    BY <1>1, <1>5, StepFits DEF Started, Fits
  <2>2. Gauged(clk', since') /\ Between(clk', since')
    BY <1>1, <1>2, <1>5, <2>1, StartGauges
  <2>3. Follows
    BY <1>1, <1>3, <1>4, <1>5, <2>1 DEF Follows, Master!FollowNext, Master!Follow
  <2>4. since' \in Nat
    BY <2>1
  <2> QED
    BY <1>2, <1>3, <1>4, <2>2, <2>3, <2>4 DEF ClockInv
<1>6. CASE ~Fits(c)
  <2>1. since' = 0
    BY <1>6 DEF Started
  <2> QED
    BY <1>2, <1>3, <1>4, <1>6, <2>1, Unfollowed DEF ClockInv
<1> QED
  BY <1>5, <1>6

\* The first half of the handler of a pulse, of a clock whose waiting pulses may have been
\* counted.
LEMMA BeginStep ==
  ASSUME PulseHoldsStep, ClockInv, clock_pc = "idle", NEW c \in Clocks, Alike(clk, c),
         BeginEvent(c), clock_pc' = "inside", UNCHANGED <<pulse, step>>
  PROVE  ClockInv' /\ Follows
<1>1. /\ InTime(c) /\ StepLength(c) = StepLength(clk)
      /\ synced => Gauged(c, since) /\ Between(c, since)
  BY AlikeGauges DEF ClockInv
<1>2. CASE c.delay_slave_start /\ c.tick_counter = 0
  <2> DEFINE d == [c EXCEPT !.delay_slave_start = FALSE]
             r == ClockStart(d)
  <2>1. d \in Clocks /\ Set(d) = Set(c)
    BY DEF Clocks, Set
  <2>2. /\ clk' = CatchUp(CountPulse(r)) /\ synced' = Fits(c)
        /\ since' = IF Fits(c) THEN StepLength(c) - 1 ELSE 0
    BY <1>2 DEF BeginEvent
  <2>3. /\ InTime(d) /\ StepLength(d) = StepLength(c)
        /\ Fits(d) <=> Fits(c)
    BY <1>1, <2>1, SetDecides
  <2> HIDE DEF d
  <2>4. r \in Clocks /\ Set(r) = Set(d)
    BY <2>1, StartIs
  <2>5. InTime(r)
    BY <2>3, <2>4, SetDecides
  <2> HIDE DEF r
  <2>6. clk' \in Clocks /\ Set(clk') = Set(c)
    BY <2>1, <2>2, <2>4, CountIs, CatchUpIs DEF Alike
  <2>7. InTime(clk') /\ StepLength(clk') = StepLength(clk)
    BY <1>1, <2>6, SetDecides
  <2>8. synced' \in BOOLEAN /\ (synced' <=> Fits(c))
    BY <2>2 DEF Fits
  <2>9. CASE Fits(c)
    <3>1. since' = StepLength(c) - 1 /\ StepLength(c) \in Nat /\ StepLength(c) >= 1
      BY <1>1, <2>2, <2>9, StepFits DEF Fits
    <3>2. Gauged(r, since') /\ Between(r, since')
      BY <2>1, <2>3, <2>9, <3>1, StartGauges DEF r
    <3>3. since' \in Nat
      BY <3>1
    <3>4. Gauged(clk', since') /\ Inside(clk', since')
      BY <2>2, <2>4, <2>5, <3>2, <3>3, CountIs, PulseGauges
    <3>5. Follows
      BY <1>1, <2>7, <2>8, <2>9, <3>1 DEF Follows, Master!FollowNext, Master!Follow
    <3> QED
      BY <2>6, <2>7, <2>8, <3>3, <3>4, <3>5 DEF ClockInv
  <2>10. CASE ~Fits(c)
    <3>1. since' = 0
      BY <2>2, <2>10
    <3> QED
      BY <2>6, <2>7, <2>8, <2>10, <3>1, Unfollowed DEF ClockInv
  <2> QED
    BY <2>9, <2>10
<1>3. CASE ~(c.delay_slave_start /\ c.tick_counter = 0)
  <2>1. clk' = CatchUp(CountPulse(c)) /\ synced' = synced /\ since' = since
    BY <1>3 DEF BeginEvent
  <2>2. clk' \in Clocks /\ Set(clk') = Set(c)
    BY <2>1, CountIs, CatchUpIs DEF Alike
  <2>3. InTime(clk') /\ StepLength(clk') = StepLength(clk)
    BY <1>1, <2>2, SetDecides
  <2>4. synced => Gauged(clk', since) /\ Inside(clk', since)
    BY <1>1, <2>1, CountIs, PulseGauges DEF ClockInv
  <2>5. Follows
    BY <2>1, <2>3 DEF Follows, followed
  <2> QED
    BY <2>1, <2>2, <2>3, <2>4, <2>5 DEF ClockInv
<1> QED
  BY <1>2, <1>3

-----------------------------------------------------------------------------
(* The actions *)

\* A DIN master raises RUN; a slave does not.
LEMMA RaiseIs ==
  ASSUME NEW c \in Clocks
  PROVE  /\ RaiseRun(c) \in Clocks /\ Set(RaiseRun(c)) = Set(c)
         /\ c.clock_mode # "DIN_SYNC_MASTER" => RaiseRun(c) = c
<1> DEFINE pulses == (c.din_ppqn_pulses + 1) % PulseWrap
<1>1. pulses \in 0..(PulseWrap - 1) /\ 1 \in 0..(PulseWrap - 1)
  <2>1. c.din_ppqn_pulses + 1 \in Int /\ PulseWrap \in Nat /\ PulseWrap > 1
    BY ClockAssumption DEF Clocks
  <2> QED
    BY <2>1, InByte
<1>2. 0 \in 0..PPQN_DIVIDER /\ c.divider - 1 \in 0..(ByteWrap - 1)
  BY Fields, ClockAssumption
<1>3. CASE c.clock_mode = "DIN_SYNC_MASTER" /\ c.din_start /\ pulses = 1
  <2>1. RaiseRun(c) = [c EXCEPT !.din_ppqn_pulses = 1, !.din_start = FALSE,
                                !.ppqn_divider_tick = 0, !.ppqn_counter = c.divider - 1]
    BY <1>3 DEF RaiseRun
  <2> QED
    BY <1>1, <1>2, <1>3, <2>1, ZenonT(60) DEF Clocks, Set
<1>4. CASE c.clock_mode = "DIN_SYNC_MASTER" /\ c.din_start /\ pulses # 1
  <2>1. RaiseRun(c) = [c EXCEPT !.din_ppqn_pulses = pulses]
    BY <1>4 DEF RaiseRun
  <2> HIDE DEF pulses
  <2> QED
    BY <1>1, <1>4, <2>1 DEF Clocks, Set
<1>5. CASE ~(c.clock_mode = "DIN_SYNC_MASTER" /\ c.din_start)
  BY <1>5 DEF RaiseRun
<1> QED
  BY <1>3, <1>4, <1>5

\* The timer's interrupt.
LEMMA TimerStep ==
  ASSUME Undisturbed, PulseHoldsStep, ClockInv, TimerTick
  PROVE  ClockInv' /\ Follows
<1> DEFINE tick == ProcessTickOf(clk)
           zero == [tick EXCEPT !.ppqn_divider_tick = 0]
           more == [tick EXCEPT !.ppqn_divider_tick = @ + 1]
<1>1. clk \in Clocks /\ clk.timer1 /\ ~clk.slave_start /\ clock_pc = "idle"
  BY DEF ClockInv, TimerTick, Undisturbed
<1>2. /\ clk' = IF clk.ppqn_divider_tick = PPQN_DIVIDER THEN RaiseRun(zero) ELSE more
      /\ step' = IF synced /\ Due(clk) THEN ~step ELSE step
      /\ UNCHANGED <<clock_pc, synced, since, pulse>>
  BY DEF TimerTick
<1>3. tick \in Clocks /\ Set(tick) = Set(clk) /\ tick.ppqn_divider_tick = clk.ppqn_divider_tick
  BY <1>1, TickIs
<1> HIDE DEF tick
<1>4. zero \in Clocks /\ Alike(tick, zero)
  BY <1>3, ClockAssumption DEF Clocks, Alike, Set
<1>5. clk.ppqn_divider_tick # PPQN_DIVIDER => more \in Clocks /\ Alike(tick, more)
  <2> SUFFICES ASSUME clk.ppqn_divider_tick # PPQN_DIVIDER PROVE more \in Clocks /\ Alike(tick, more)
    OBVIOUS
  <2>1. tick.ppqn_divider_tick + 1 \in 0..PPQN_DIVIDER
    BY <1>1, <1>3, ClockAssumption DEF Clocks
  <2> QED
    BY <1>3, <2>1 DEF Clocks, Alike, Set
<1> HIDE DEF zero, more
<1>6. clk' \in Clocks /\ Set(clk') = Set(clk)
  BY <1>2, <1>3, <1>4, <1>5, RaiseIs DEF Alike
<1>7. clk.clock_mode # "DIN_SYNC_MASTER" => Alike(tick, clk')
  <2>1. zero.clock_mode = clk.clock_mode
    BY <1>3, <1>4 DEF Alike, Set
  <2> QED
    BY <1>2, <1>4, <1>5, <2>1, RaiseIs
<1>8. InTime(clk') /\ StepLength(clk') = StepLength(clk)
  BY <1>6, SetDecides DEF ClockInv
<1>9. synced \in BOOLEAN /\ step' \in BOOLEAN
  BY <1>2 DEF ClockInv
<1>10. CASE synced
  <2>1. /\ Gauged(tick, since) /\ Between(tick, since)
        /\ Due(clk) => StepLength(clk) = 1
    BY <1>1, <1>10, TickGauges DEF ClockInv, tick
  <2>2. Alike(tick, clk')
    BY <1>7, <1>10 DEF ClockInv, Gauged, External
  <2>3. Gauged(clk', since) /\ Between(clk', since)
    BY <2>1, <2>2, AlikeGauges
  <2>4. Follows
    <3>1. CASE Due(clk)
      BY <1>2, <1>8, <1>10, <2>1, <3>1 DEF Follows, Master!FollowNext, Master!Subdivide
    <3>2. CASE ~Due(clk)
      BY <1>2, <1>8, <3>2 DEF Follows, followed
    <3> QED
      BY <3>1, <3>2
  <2> QED
    BY <1>1, <1>2, <1>6, <1>8, <1>9, <2>3, <2>4 DEF ClockInv
<1>11. CASE ~synced
  <2>1. ClockInv'
    BY <1>1, <1>2, <1>6, <1>8, <1>9, <1>11 DEF ClockInv
  <2> QED
    BY <1>2, <1>9, <1>11, <2>1, Unfollowed
<1> QED
  BY <1>10, <1>11

\* The second half of the handler of a pulse.
LEMMA EndStep ==
  ASSUME PulseHoldsStep, ClockInv, EndPulse
  PROVE  ClockInv' /\ Follows
<1> DEFINE reset == [clk EXCEPT !.slave_ppqn_ticks = 0]
           tick == ProcessTickOf(reset)
           next == IF since + 1 # StepLength(clk) THEN since + 1 ELSE 0
<1>1. /\ clk \in Clocks /\ InTime(clk) /\ since \in Nat /\ synced \in BOOLEAN
      /\ step \in BOOLEAN /\ pulse \in BOOLEAN
      /\ clock_pc = "inside" /\ clock_pc' = "idle"
  BY DEF ClockInv, EndPulse
<1>2. /\ clk' = [tick EXCEPT !.timer1 = TRUE]
      /\ step' = IF synced /\ Due(reset) THEN ~step ELSE step
      /\ synced' = synced
  BY DEF EndPulse
<1>3. /\ pulse' \in BOOLEAN /\ step' \in BOOLEAN
      /\ synced => (pulse' <=> ~pulse)
      /\ synced => since' = next
      /\ ~synced => since' = 0
  BY <1>1 DEF EndPulse
<1>4. clk' \in Clocks /\ Set(clk') = Set(clk)
  <2>1. reset \in Clocks /\ Set(reset) = Set(clk)
    BY <1>1, ClockAssumption DEF Clocks, Set
  <2> HIDE DEF reset
  <2>2. tick \in Clocks /\ Set(tick) = Set(reset)
    BY <2>1, TickIs
  <2> HIDE DEF tick
  <2> QED
    BY <1>2, <2>1, <2>2 DEF Clocks, Set
<1>5. InTime(clk') /\ StepLength(clk') = StepLength(clk)
  BY <1>1, <1>4, SetDecides
<1>6. CASE synced
  <2>1. Gauged(clk, since) /\ Inside(clk, since)
    BY <1>1, <1>6 DEF ClockInv
  <2>2. /\ Gauged(clk', next) /\ Between(clk', next)
        /\ Due(reset) <=> since + 1 = StepLength(clk)
    BY <1>1, <1>2, <2>1, EndGauges
  <2>3. since' \in Nat
    BY <1>1, <1>3, <1>6
  <2> HIDE DEF reset
  <2>4. step' = IF since + 1 = StepLength(clk) THEN ~step ELSE step
    BY <1>2, <1>6, <2>2
  <2>5. Follows
    BY <1>1, <1>2, <1>3, <1>5, <1>6, <2>4 DEF Follows, Master!FollowNext, Master!Pulse
  <2> QED
    BY <1>1, <1>2, <1>3, <1>4, <1>5, <1>6, <2>2, <2>3, <2>5 DEF ClockInv
<1>7. CASE ~synced
  <2>1. ClockInv'
    BY <1>1, <1>2, <1>3, <1>4, <1>5, <1>7 DEF ClockInv
  <2> QED
    BY <1>1, <1>2, <1>7, <2>1, Unfollowed
<1> QED
  BY <1>6, <1>7

\* MIDI_CLOCK and the pulse of a DIN master.
LEMMA ByteStep ==
  ASSUME PulseHoldsStep, ClockInv, MidiClock \/ DinClock
  PROVE  ClockInv' /\ Follows
<1>1. clk \in Clocks /\ clock_pc = "idle" /\ Alike(clk, clk)
  BY DEF ClockInv, MidiClock, DinClock, Alike
<1>2. CASE MidiClock
  BY <1>1, <1>2, BeginStep DEF MidiClock
<1>3. CASE DinClock
  <2> DEFINE pulses == (clk.din_ppqn_pulses + 1) % PulseWrap
             counted == [clk EXCEPT !.din_ppqn_pulses = pulses]
  <2>1. pulses \in 0..(PulseWrap - 1)
    <3>1. clk.din_ppqn_pulses + 1 \in Int /\ PulseWrap \in Nat /\ PulseWrap > 0
      BY <1>1, ClockAssumption DEF Clocks
    <3> QED
      BY <3>1, InByte
  <2>2. \/ clk' = counted /\ UNCHANGED <<clock_pc, synced, since, pulse, step>>
        \/ /\ BeginEvent(counted) \/ BeginEvent(clk)
           /\ clock_pc' = "inside" /\ UNCHANGED <<pulse, step>>
    BY <1>3 DEF DinClock
  <2> HIDE DEF pulses
  <2>3. counted \in Clocks /\ Alike(clk, counted)
    BY <1>1, <2>1 DEF Clocks, Alike, Set
  <2> HIDE DEF counted
  <2> QED
    BY <1>1, <2>2, <2>3, FlagStep, BeginStep
<1> QED
  BY <1>2, <1>3

\* A pulse on the pulse input.
LEMMA InputStep ==
  ASSUME PulseHoldsStep, ClockInv, SyncPulse
  PROVE  ClockInv' /\ Follows
<1>1. /\ clk \in Clocks /\ Alike(clk, clk) /\ clk' = CatchUp(clk)
      /\ clock_pc = "idle" /\ clock_pc' = "inside"
      /\ UNCHANGED <<synced, since, pulse, step>>
  BY DEF ClockInv, SyncPulse, Alike
<1>2. clk' \in Clocks /\ Set(clk') = Set(clk)
  BY <1>1, CatchUpIs
<1>3. InTime(clk') /\ StepLength(clk') = StepLength(clk)
  BY <1>2, SetDecides DEF ClockInv
<1>4. synced => Gauged(clk', since) /\ Inside(clk', since)
  BY <1>1, PulseGauges DEF ClockInv
<1> QED
  BY <1>1, <1>2, <1>3, <1>4 DEF ClockInv, Follows, followed

\* The START/STOP button starts, or sets flags.
LEMMA ButtonStep ==
  ASSUME PulseHoldsStep, ClockInv, NEW shift \in BOOLEAN, StartStopButton(shift)
  PROVE  ClockInv' /\ Follows
<1> DEFINE slave == clk.clock_mode \in {"MIDI_SLAVE", "DIN_SYNC_SLAVE"}
           stops == IF slave THEN TRUE ELSE clk.slave_stop
           c == [clk EXCEPT !.slave_stop = stops]
           left == [clk EXCEPT !.slave_stop = FALSE]
           off == [c EXCEPT !.START = FALSE]
           late == [c EXCEPT !.START = TRUE, !.slave_stop = FALSE, !.delay_slave_start = TRUE]
           on == [c EXCEPT !.START = TRUE]
<1>1. clk \in Clocks /\ clock_pc = "idle" /\ UNCHANGED <<clock_pc, pulse, step>>
  BY DEF ClockInv, StartStopButton
<1>2. \/ clk' \in {left, off, late} /\ UNCHANGED <<synced, since>>
      \/ Started(on)
  BY DEF StartStopButton
<1>3. stops \in BOOLEAN
  BY <1>1 DEF Clocks
<1> HIDE DEF stops
<1>4. c \in Clocks /\ Alike(clk, c)
  BY <1>1, <1>3 DEF Clocks, Alike, Set
<1> HIDE DEF c
<1>5. /\ left \in Clocks /\ Alike(clk, left)
      /\ off \in Clocks /\ Alike(clk, off)
      /\ late \in Clocks /\ Alike(clk, late)
      /\ on \in Clocks /\ Alike(clk, on)
  BY <1>1, <1>4 DEF Clocks, Alike, Set
<1> HIDE DEF left, off, late, on
<1>6. CASE Started(on)
  BY <1>1, <1>5, <1>6, StartStep DEF Alike
<1>7. CASE clk' \in {left, off, late} /\ UNCHANGED <<synced, since>>
  BY <1>1, <1>5, <1>7, FlagStep
<1> QED
  BY <1>2, <1>6, <1>7

\* The master's start and stop, by MIDI and by the RUN line.
LEMMA TransportStep ==
  ASSUME PulseHoldsStep, ClockInv, MidiStart \/ MidiStop \/ RunLine \/ DinStop
  PROVE  ClockInv' /\ Follows
<1> DEFINE on == [clk EXCEPT !.START = TRUE]
           off == [clk EXCEPT !.START = FALSE]
           stopping == [clk EXCEPT !.din_stop = TRUE]
           stopped == [clk EXCEPT !.din_stop = FALSE, !.START = FALSE]
<1>1. clk \in Clocks /\ clock_pc = "idle" /\ UNCHANGED <<clock_pc, pulse, step>>
  BY DEF ClockInv, MidiStart, MidiStop, RunLine, DinStop
<1>2. \/ Started(on)
      \/ clk' \in {off, stopping, stopped} /\ UNCHANGED <<synced, since>>
  BY DEF MidiStart, MidiStop, RunLine, DinStop
<1>3. /\ on \in Clocks /\ Alike(clk, on)
      /\ off \in Clocks /\ Alike(clk, off)
      /\ stopping \in Clocks /\ Alike(clk, stopping)
      /\ stopped \in Clocks /\ Alike(clk, stopped)
  BY <1>1 DEF Clocks, Alike, Set
<1> HIDE DEF on, off, stopping, stopped
<1>4. CASE Started(on)
  BY <1>1, <1>3, <1>4, StartStep DEF Alike
<1>5. CASE clk' \in {off, stopping, stopped} /\ UNCHANGED <<synced, since>>
  BY <1>1, <1>3, <1>5, FlagStep
<1> QED
  BY <1>2, <1>4, <1>5

\* A step that follows no master.
LEMMA FreeStep ==
  ASSUME ClockInv, clk' \in Clocks, InTime(clk'), UNCHANGED clock_pc,
         synced' = FALSE, since' = 0, pulse' = FALSE, step' = FALSE
  PROVE  ClockInv' /\ Follows
BY Unfollowed DEF ClockInv

\* A step button while stopped.
LEMMA PressStep ==
  ASSUME ClockInv, StoppedStepPress
  PROVE  ClockInv' /\ Follows
<1>1. clk \in Clocks /\ InTime(clk) /\ clk' = [clk EXCEPT !.ppqn_counter = 0]
  BY DEF ClockInv, StoppedStepPress
<1>2. clk' \in Clocks /\ Set(clk') = Set(clk)
  BY <1>1, ClockAssumption DEF Clocks, Set
<1>3. InTime(clk')
  BY <1>1, <1>2, SetDecides
<1> QED
  BY <1>2, <1>3, FreeStep DEF StoppedStepPress

\* Another pre-scale, of which the count has not passed the divider.
LEMMA DividerStep ==
  ASSUME Undisturbed, PulseHoldsStep, ClockInv, NEW divider \in Dividers, ChangeDivider(divider)
  PROVE  ClockInv' /\ Follows
<1>1. /\ clk \in Clocks /\ InTime(clk) /\ clock_pc = "idle" /\ clk.ppqn_counter < divider
      /\ since \in Nat /\ synced \in BOOLEAN /\ pulse \in BOOLEAN /\ step \in BOOLEAN
  BY DEF ClockInv, ChangeDivider, Undisturbed
<1>2. /\ clk' = [clk EXCEPT !.divider = divider]
      /\ synced' = (synced /\ ~Pulsed(clk))
      /\ since' = IF synced' THEN since ELSE 0
      /\ pulse' = (synced' /\ pulse) /\ step' = (synced' /\ step)
      /\ UNCHANGED clock_pc
  BY DEF ChangeDivider, Pulsed
<1>3. /\ clk' \in Clocks /\ clk'.divider = divider
      /\ clk'.clock_mode = clk.clock_mode /\ clk'.sync_count = clk.sync_count
      /\ clk'.ppqn_counter = clk.ppqn_counter /\ clk'.slave_ppqn_ticks = clk.slave_ppqn_ticks
      /\ clk'.slave_start = clk.slave_start /\ clk'.timer1 = clk.timer1
  BY <1>1, <1>2 DEF Clocks
<1>4. /\ InTime(clk') /\ (Pulsed(clk') <=> Pulsed(clk))
      /\ External(clk'.clock_mode) <=> External(clk.clock_mode)
  BY <1>1, <1>3 DEF InTime, Pulsed
<1>5. CASE ~synced \/ Pulsed(clk)
  <2>1. synced' = FALSE /\ since' = 0 /\ pulse' = FALSE /\ step' = FALSE
    BY <1>1, <1>2, <1>5 DEF Pulsed
  <2> QED
    BY <1>2, <1>3, <1>4, <2>1, FreeStep
<1>6. CASE synced /\ ~Pulsed(clk)
  <2>1. Gauged(clk, since) /\ Between(clk, since)
    BY <1>1, <1>6 DEF ClockInv
  <2>2. synced' = TRUE /\ UNCHANGED <<since, pulse, step>>
    BY <1>1, <1>2, <1>6
  <2> DEFINE p == clk.sync_count
             L == StepLength(clk')
  <2>3. /\ p \in Nat /\ p > 1 /\ divider \in Nat
        /\ clk.ppqn_counter \in Nat /\ clk.slave_ppqn_ticks \in Nat
    BY <1>1, <1>3, Fields
  <2>4. Fits(clk')
    <3>1. PulseTicks(clk'.clock_mode) = PPQN_24_TICK_COUNT
      BY <1>3, <1>6 DEF Pulsed, PulseTicks
    <3>2. External(clk'.clock_mode)
      BY <1>4, <2>1 DEF Gauged
    <3>3. clk'.divider % PPQN_24_TICK_COUNT = 0
      BY <1>3, ClockAssumption
    <3> QED
      BY <3>1, <3>2, <3>3 DEF Fits
  <2>5. L \in Nat /\ divider = L * p
    BY <1>3, <1>4, <1>6, <2>1, <2>4, StepFits DEF Gauged
  <2>6. clk.ppqn_counter + 1 = since * p + Counted(clk) /\ Counted(clk) > 0
    BY <1>6, <2>1, <2>3 DEF Between, Counted
  <2>7. since < L
    <3> DEFINE x == since * p
               y == L * p
    <3>1. L <= since => y <= x
      BY <1>1, <2>3, <2>5
    <3>2. Counted(clk) \in Nat /\ x \in Int /\ y \in Int
      BY <1>1, <2>3, <2>5 DEF Counted
    <3>3. clk.ppqn_counter + 1 = x + Counted(clk) /\ clk.ppqn_counter < y
      BY <1>1, <2>5, <2>6
    <3> HIDE DEF x, y, L
    <3>4. x < y
      BY <2>3, <2>6, <3>2, <3>3
    <3> QED
      BY <1>1, <2>5, <3>1, <3>2, <3>4
  <2>8. Gauged(clk', since)
    <3>1. since \in 0..(L - 1)
      BY <1>1, <2>5, <2>7
    <3> QED
      BY <1>1, <1>3, <2>1, <2>4, <3>1 DEF Gauged, Fits
  <2>9. Between(clk', since)
    <3>1. Counted(clk') = Counted(clk)
      BY <1>3 DEF Counted
    <3> QED
      BY <1>3, <1>4, <1>6, <2>1, <3>1 DEF Between
  <2>10. Follows
    BY <1>6, <2>2, <2>7 DEF Follows, Master!FollowNext, Master!Rescale
  <2> QED
    BY <1>1, <1>2, <1>3, <1>4, <2>2, <2>8, <2>9, <2>10 DEF ClockInv
<1> QED
  BY <1>1, <1>5, <1>6

\* Another clock mode, which sets the ticks of a pulse unless they are already its own.
LEMMA ModeStep ==
  ASSUME Undisturbed, ClockInv, ChangeClockMode
  PROVE  ClockInv' /\ Follows
<1>1. PICK mode \in {ClockMode[i] : i \in DOMAIN ClockMode} : SetClockMode(mode)
  <2>1. PICK i \in DOMAIN ClockMode : \/ SetClockMode(ClockMode[(i % Len(ClockMode)) + 1])
                                      \/ SetClockMode("DIN_SYNC_MASTER")
    BY DEF ChangeClockMode
  <2>2. DOMAIN ClockMode = 1..5 /\ Len(ClockMode) = 5 /\ ClockMode[3] = "DIN_SYNC_MASTER"
    BY DEF ClockMode
  <2>3. (i % Len(ClockMode)) + 1 \in DOMAIN ClockMode /\ 3 \in DOMAIN ClockMode
    BY <2>1, <2>2
  <2> QED
    BY <2>1, <2>2, <2>3
<1> DEFINE counts == CASE mode = "MIDI_SLAVE" -> PPQN_24_TICK_COUNT
                       [] mode = "PULSE_SYNC_SLAVE" -> PPQN_2_TICK_COUNT
                       [] OTHER -> clk.sync_count
           runs == clk.timer1 \/ ~External(mode)
<1>2. /\ clk \in Clocks
      /\ mode = "DIN_SYNC_SLAVE" => clk.sync_count = PPQN_24_TICK_COUNT
      /\ clk' = [clk EXCEPT !.clock_mode = mode, !.timer1 = runs, !.sync_count = counts]
  BY <1>1 DEF ClockInv, SetClockMode, Undisturbed
<1>3. /\ runs \in BOOLEAN /\ counts \in {PPQN_24_TICK_COUNT, PPQN_2_TICK_COUNT}
      /\ External(mode) => counts = PulseTicks(mode)
  BY <1>2 DEF Clocks, External, PulseTicks
<1> HIDE DEF counts, runs
<1>4. clk' \in Clocks /\ clk'.clock_mode = mode /\ clk'.sync_count = counts
  BY <1>1, <1>2, <1>3 DEF Clocks
<1> QED
  BY <1>1, <1>3, <1>4, FreeStep DEF InTime, SetClockMode

-----------------------------------------------------------------------------
(* The theorems *)

\* At power-up nothing is followed.
LEMMA PowerUp ==
  ASSUME ClockInit
  PROVE  ClockInv /\ ~synced
<1>1. PICK i \in DOMAIN ClockMode, divider \in Dividers :
       clk = [clock_mode |-> ClockMode[i],
              sync_count |-> PulseTicks(ClockMode[i]),
              divider |-> divider,
              ppqn_counter |-> 1, slave_ppqn_ticks |-> 0, ppqn_divider_tick |-> 0,
              tick_counter |-> 0, din_ppqn_pulses |-> 0, timer1 |-> TRUE,
              START |-> FALSE, slave_start |-> FALSE, slave_stop |-> FALSE,
              delay_slave_start |-> FALSE, din_start |-> FALSE, din_stop |-> FALSE]
  BY DEF ClockInit
<1>2. 0 \in 0..(ByteWrap - 1) /\ 1 \in 0..(ByteWrap - 1) /\ 0 \in 0..PPQN_DIVIDER /\ 0 \in 0..(PulseWrap - 1)
  BY ClockAssumption
<1>3. PulseTicks(ClockMode[i]) \in {PPQN_24_TICK_COUNT, PPQN_2_TICK_COUNT}
  BY DEF PulseTicks
<1>4. clk \in Clocks /\ InTime(clk)
  BY <1>1, <1>2, <1>3 DEF Clocks, InTime
<1> QED
  BY <1>4 DEF ClockInit, ClockInv

\* Every step of the clock keeps its count, and is a step of the follower or none.
LEMMA ClockStep ==
  ASSUME Undisturbed, PulseHoldsStep, ClockInv, [ClockNext]_clockVars
  PROVE  ClockInv' /\ Follows
<1>1. CASE ClockNext
  BY <1>1, TimerStep, ByteStep, InputStep, EndStep, ButtonStep, TransportStep, PressStep,
     DividerStep, ModeStep DEF ClockNext, ClockPulse
<1>2. CASE UNCHANGED clockVars
  BY <1>2 DEF clockVars, ClockInv, InTime, Gauged, Between, Inside, Fits, StepLength, Pulsed,
              Counted, Follows, followed
<1> QED
  BY <1>1, <1>2

\* The count of a slave in step means what the invariant says.
THEOREM CountMeans ==
  ASSUME Undisturbed, PulseHoldsStep
  PROVE  ClockSpec => []ClockInv
<1>1. ClockInit => ClockInv
  BY PowerUp
<1>2. ClockInv /\ [ClockNext]_clockVars => ClockInv'
  BY ClockStep
<1> QED
  BY <1>1, <1>2, PTL DEF ClockSpec

\* The counters stay in their bytes, and the ticks that a pulse adds at once never carry the
\* count of a slave that is in step past the divider, which is compared for equality.
THEOREM CountBelowDivider ==
  ASSUME Undisturbed, PulseHoldsStep
  PROVE  ClockSpec => []ClockTypeOK
<1>1. ClockInv => ClockTypeOK
  BY DEF ClockInv, ClockTypeOK, Clocks, Gauged
<1> QED
  BY <1>1, CountMeans, PTL

\* The steps of a slave fall on the pulses of its master, each the right number of pulses
\* after the last, the downbeat on the first pulse after the start, however many ticks the
\* timer counts in between.
THEOREM SlaveFollowsMaster ==
  ASSUME Undisturbed, PulseHoldsStep
  PROVE  ClockSpec => FollowsMaster
<1>1. ClockInit => Master!FollowInit
  BY DEF ClockInit, Master!FollowInit
<1>2. ClockInv /\ [ClockNext]_clockVars => [Master!FollowNext]_(Master!followVars)
  BY ClockStep DEF Follows, followed, Master!followVars
<1> QED
  BY <1>1, <1>2, CountMeans, PTL DEF ClockSpec, FollowsMaster, Master!FollowSpec
=============================================================================
