# 880-firmware: a verification project

TLA+ models of the firmware of the System-80 *880*, a TR-808 style drum machine
(`src/TR-808-firmware`, C for an ATmega328PB), the TLC runs that check them on
small instances and theorems checked by TLAPS that hold for every instance.

    tlc -config order.cfg MCSequencer.tla        # one run
    tlapm SequencerProofs.tla                    # the proofs of one module

The firmware is one main loop, `refresh()` (`main.c:36`), and a handful of
interrupts. Nothing is locked: both sides read and write the global structures
`sequencer`, `clock` and `flag`. What makes the program hard to test is in that
sentence, and in the EEPROM, which takes its time and loses power.

## 1. The system

| Component | State | Operations | Talks to |
|---|---|---|---|
| **Sequencer** (`sequencer.c`, `sequencer.h`) | step and pulse counters, parts, patterns, variations, fill counter, the flags | `process_tick` (timer interrupt), `process_step`, `process_new_measure`, `update_pattern`, `update_fill`, `toggle_variation`, `process_start/stop`, `read_next_pattern` | shared globals with the panel and the interrupts; reads patterns from the EEPROM |
| **Front panel** (`switches.c`, `mode.c`, `update_step_board` in `sequencer.c`) | mode, fill mode, variation mode, SHIFT/ALT/CLEAR, the chosen pattern and bank | one handler per switch, polled once per pass of the loop | writes the sequencer's globals; starts EEPROM transfers |
| **Pattern store** (`twi_eeprom.c`, `twi.c`) | `pattern_to_write`, page indices, the TWI driver, the EEPROM | `start_write_current_pattern` (snapshot), `write_next_pattern_page` (once per pass), blocking copies and reads, the driver's interrupt with its callback `handle_TWI_result` | panel and sequencer start it, the interrupt calls it back |
| **Rhythm tracks** (`sequencer.c:1570-1658`, branches of the switches) | a track of up to 64 entries, measure, CREATE/EDIT, `track_edit`, `last_pattern` | write/advance, insert, delete, clear, select, store, play | sequencer (which pattern plays), EEPROM |
| **MIDI input** (`midi.c`, vendored xnormidi) | byte queue, parser state | the receive interrupt queues, the loop parses and calls back: notes, program change, clock/start/stop | panel's and sequencer's globals |
| **MIDI output** (`midi.c`, `interrupts.c`) | byte queue, transmit interrupt enable | `midi_send`, UDRE interrupt | timer interrupt (clock), panel (start/stop) |
| **External clocks** (`clock.c`, `interrupts.c`, `mode.c`) | tick counters, measured rate, slave flags | external pulse against the internal timer | `process_tick` |
| **Drum triggers** (`drums.c`) | trigger bits, `trig_finished` | trigger, roll, live hits; TIMER0 ends a trigger | sequencer, MIDI notes |
| **Instrument selection** (`select_instrument_with_soloing.c`, `switches.c`) | current instrument, mutes, solo | transition function, assign mute/solo | panel |
| **Scan of the switches** (`spi.c`, `parse_switch_data`) | two samples, `button[].state` | sample at the end of a pass, add the edges at the next, handlers take them | every handler |
| **Step board** (`update_step_board`, `check_tap`, `copy_part`) | the pattern in RAM, `led_mask` | set and clear hits, lengths, copies | shows what the sequencer plays |
| **LEDs** (`leds.c`, `half_step`) | latches in `spi_data`, `led[].state` | whole rows per half step, single LEDs per key | read the globals |
| Tempo ADC | timer period | a potentiometer | time |

What is hard: the timer interrupt runs between any two statements of the loop;
counters of four, five and eight bits are compared *for equality* and must not be
carried past their goal; several requests (a new pattern, a fill, a variation, a
new length, an edit to save) wait for the end of the same measure; and an edit
travels to the EEPROM page by page while the player goes on playing and editing,
against a memory that refuses transfers while it is busy.

What makes each component correct:

* *Sequencer*: the steps come in order and each once; every measure ends; parts
  alternate; a request made is honoured at the end of the measure and not lost.
* *Pattern store*: a pattern is stored as a whole, in its own slot; what is shown
  is what is stored; a power cut spoils no other slot; writes come to an end.
* *Rhythm tracks*: a track is a list and every edit changes one entry; nothing
  edited is lost when another track is opened; playing follows the list and ends.
* *MIDI output*: bytes leave in order, once, and do not stay behind.
* *MIDI input*: the messages on the wire are heard, and no others, whatever interleaves.
* *External clocks*: the steps fall on the master's pulses; no tick moves the pulse
  counter past its goal; a restart that was put off happens.
* *Drum triggers*: every hit is shifted out before another one clears it, every trigger
  ends and none waits for ever.
* *Instrument selection*: a press selects what is printed on the key; at most one solo;
  leaving it leaves no mute behind.
* *Scan*: a press is served once.
* *Step board*: the LEDs show the pattern that is edited.
* *LEDs*: what several writers leave lit gives way to what should be shown.

`PROJECT.json` lists every hazard found, at its line, with the properties that
cover it or the reason why none does yet.

## 2. The modules

| Module | Content |
|---|---|
| `Sequencer` | transport: timer interrupt against main loop, front panel, MIDI program change |
| `PatternPlayer` | abstract: the order of steps a listener is promised |
| `MCSequencer` | small instances of `Sequencer` |
| `SequencerTypeProof` | `Spec => []TypeOK`, with one lemma per operator |
| `SequencerProofs` | auto-fills, variations, fills and tracks, edits that are taken, for every instance |
| `SequencerOrderProofs` | `Sequencer` implements `PatternPlayer`; the counters it depends on |
| `PatternStore` | the way of an edit from RAM to the EEPROM and back |
| `PatternBank` | abstract: an atomic bank of slots |
| `RhythmTrack` | composing rhythm tracks: keys, the track in RAM, the tracks in the EEPROM |
| `TrackList` | abstract: a list with one entry selected, kept when it is closed |
| `MCRhythmTrack` | a small instance of `RhythmTrack` |
| `RhythmTrackProofs` | indices and entries of tracks; `RhythmTrack` implements `TrackList` |
| `ByteQueue`, `MidiPort` | the ring buffer; the serial port's two queues with their interrupts |
| `ByteLine` | abstract: a bounded line of bytes |
| `MidiParser`, `MidiStream` | the parser, byte by byte; abstract: the messages on the wire |
| `MidiProofs` | the queues implement `ByteLine`, the parser implements `MidiStream`; SysEx data come back as they were |
| `SysexTools` | the 7-bit coding of SysEx data, as functions |
| `Variations` | A, B and A/B: operators shared by `StepBoard` and `VariationLeds` |
| `StepBoard` | editing the pattern in RAM, and the mask that shows it |
| `MCData` | `PatternStore`, `StepBoard`, `MidiPort`, `MidiParser`, `SysexTools` for TLC |
| `DataProofs` | `PatternStore` implements `PatternBank`, its writes end; the LEDs of `StepBoard`; `MCData` as a whole |
| `ExternalClock`, `PulseFollower` | the slave's clock; abstract: a step on every n-th pulse |
| `ExternalClockProofs` | the slave's clock implements `PulseFollower` |
| `MCClock` | `Sequencer` with shuffle, and `ExternalClock`, for TLC |
| `SwitchScan` | from a contact to the handler that serves it |
| `Instruments` | selection, solo, mutes, trigger assignment |
| `Drums` | hits, trigger bits and the timer that ends them |
| `StepLeds`, `VariationLeds`, `InstrumentLeds` | three groups of LEDs and their writers |
| `MCDevices` | the six modules above for TLC |
| `DevicesProofs` | presses, selection, hits and LEDs, for any keys and drums; `MCDevices` as a whole |

`Sequencer`, `PatternStore` and `RhythmTrack` meet in the pattern chosen and in
`current_rhythm_track`:
`Sequencer` plays a track and reads patterns, whatever they hold; `PatternStore` says
what the patterns hold; `RhythmTrack` says what is in the track. Each abstracts what
the others own to a choice (`Stored`, the moment a measure ends), so each is checked
against more than the program can do.

The other modules are each about a state that few functions share: a queue, a row of
LEDs, the hits of one pass. What they get from the rest of the program, the moment at
which a measure ends, which key is pressed, which byte arrives, is a choice in them.
`MCClock`, `MCData` and `MCDevices` put several of them into one instance each. They
share no variable there: a variable `focus`, chosen in the initial state, says which
part moves, the others stay where they are, and the state graph is the union of the
parts' graphs. A property of one part is therefore checked on exactly that part.

### Sequencer

`ram` is a record of the C globals, under their C names; `pc` says where the main
loop is; `played` is a history variable, the last step triggered since START.
Operators that take and return a record are the C functions, under their names in
TLA+ spelling: `ProcessTick` is `process_tick`, `UpdateFill` is `update_fill`.

* `Tick` is the timer interrupt (`interrupts.c:106`, `sequencer.c:82`): one pulse.
  It can occur between any two steps of the loop.
* A pass of the loop is one gesture (`Panel`), then `process_step`, which is cut
  where the interrupt matters: `StepDue` takes the flags, `Measure` closes the
  measure, `Load` turns the part or the pattern, `Trigger` plays the step. A pass
  with several gestures is several passes, since `StepDue` does nothing in between.
* A gesture is a switch handler: `Start`, `Stop`, `Tap`, `ModeSwitch`, `FillSwitch`,
  `VariationSwitch`, `PatternSwitch` and so on. It models the whole handler
  including what it calls (`set_mode`, `update_rhythm_track`, `read_next_pattern`).
* Reading a pattern returns any member of `Stored`: its lengths, pre-scale and
  shuffle. Step bits, accents and LEDs are not modelled, and no decision of the
  modelled functions reads them. Which bank a pattern is read from does not matter
  here; it does in `PatternStore`.

Clocking is MIDI_MASTER, where the internal timer alone makes the pulses. Bit-field
widths are kept: `current_step` (4 bits, modulo `NumSteps`), `ppqn_counter` (8 bits,
modulo `PpqnWrap`), `shuffle_ppqn_count` (4), `current_measure_auto_fill` (6).
Each bit-field is a variable of its own: that the compiler updates the byte around
it is a listed hazard which the model does not see.

### PatternStore

A pattern is two pages (`NUM_PAGES_PATTERN` = 1 whole page and the rest). A page's
content is the *version* it belongs to: the slot in which the version was made and
a number. The number is a counter of the model only; `MaxVersions` bounds it.

* `StartWrite` takes the snapshot `pattern_to_write`; `WriteNextPage` sends one page
  per pass of the loop; `HandleResult` is the driver's callback; `Transfer` is the
  interrupt routine, which reports a refused transfer *and* repeats it until it
  succeeds, reporting again.
* `cycle` is the EEPROM's write cycle (external: up to 5 ms). It begins with a
  write and ends by itself, or with a blocking read, which repeats until it ends.
* The gestures are those of the pattern edit and PATTERN CLEAR modes that start a
  transfer, change what is chosen or flag an edit.
* `PowerCut` can occur at any time: RAM is lost, and `main` reopens what the recall
  data name.

A transfer blocks the loop (`while (TWI_busy)`), so it is one step. Within one
gesture the order of the code's transfers is kept where it shows: a bank change
hands over the edit, writes the recall data, reads.

### RhythmTrack

`rhythm_track`, `seq` and `stored` are the C globals and the EEPROM's tracks. The four
pattern modes are one value of `seq.mode`, since the handlers that touch a track do
the same in all of them.

* WRITE and SHIFT are the same key (`WRITE_SW`, `SHIFT_BIT`). Whoever holds SHIFT has
  thereby advanced the track or staged a pattern; `shift` says whether that is yet to
  be undone. DELETE, INSERT and SHIFT + MODE undo it by counting the measure down.
* `Delete`, `Insert`, `StepRunning`, `BankRunning` and `StepStopped` are the COMPOSE
  RHYTHM branches of `update_step_board`; `ModeSwitch`, `TrackSwitch` and `ClearSwitch`
  are the branches of the three switch handlers, with `update_rhythm_track`.
* `Written` is `write_rhythm_track`: a local array is filled up to the length and
  stored whole, so the entries behind it are `Junk`.
* A transfer of a track blocks the loop and is one step. `MeasureEnds` is the one thing
  that the transport does to this state while composing.
* `TrackList` is what the player is promised. The refinement shows the selected entry
  as the one *before* SHIFT's advance while that is not used up, and, outside COMPOSE
  RHYTHM, the stored track as the open one.

### MidiPort, ByteQueue, MidiParser, SysexTools

`ByteQueue` is `bytequeue.c`, with one entry always left free; `Content` is the
sequence that indices and data stand for. `MidiPort` has the three interrupts that
touch a queue, one step each since they do not nest, and cuts the loop where an
interrupt matters: `midi_device_process` takes the length, looks at a byte, handles it,
removes it; `midi_send` queues, then enables the transmit interrupt. A read-modify-write
of `UCSR0B` in the loop is one step there, because the interrupt between its halves can
only clear the bit that it sets. `MidiParser` has `midi_process_byte` with the bytes'
real values; the callbacks that the firmware registers are those of `main.c:138`.
`SysexTools` is checked as a function: `source` walks through the blocks of up to
`MaxSource` bytes.

### StepBoard

`board` holds the pattern, both variations, and `led_mask`, under their C names. Each
handler that edits the pattern is an action with the refresh of the mask that *it*
makes, computed (`update_inst_led_mask`) or adjusted in place, as the code has it. Two
operations leave the mask behind: START, which may change the variation, and a length
of one given to an empty second part; `stale` records them until the mask is computed
again.

### ExternalClock

`clk` holds `clock` and the flags of the transport. The timer's interrupt counts, the
pulse's handler corrects; it is cut in two (`BeginEvent`, `EndPulse`) around the point
where the timer's interrupt could fall into it. `synced`, `since`, `pulse` and `step`
are history variables and keep what `PulseFollower` needs. The rate that is measured is
left out: any number of ticks may fall between two pulses, up to the one at which
`process_tick` stops the timer.

### Drums, Instruments, SwitchScan

`Drums` follows one pass of the loop (`drum_pc`): MIDI notes, panel, pads, step, shift.
`trigger_drum` is cut at its busy wait (`drums.c:47`) and before it clears
`trig_finished` (`drums.c:83`). `struck` collects the hits of the pass. `Instruments`
has `handleInstrumentTransition` with the additions modulo 18 that find the second drum
of a voice, and every branch of `check_inst_switches` that selects, mutes, solos or
assigns; an `ASSUME` of `MCDevices` evaluates the cases of
`test_select_instruments.c`. `SwitchScan` has the three exclusive-ors of the debouncing
as sets of keys.

### StepLeds, VariationLeds, InstrumentLeds

One variable for the bits of the latches, one for what `led[].state` remembers where
`toggle` reads it. Each writer is an action: the step, the half step, the keys, a hit,
the trigger interrupt, `update_inst_leds` on every pass. What is shown while SHIFT, ALT
or TAP is held (a shuffle amount, a version number) is any set of LEDs, and so is what a
press of a setting turns off and on.

The pattern in `StepLeds`, the variation in `VariationLeds` and the mutes in
`InstrumentLeds` are moved by all that moves them in the code, with the LEDs that are
switched on the way: a press of a pattern lights it only where a part is edited, a drum's
key in the rhythm modes falls through to MANUAL PLAY, the accent as a track lights up
beside the track before. `VariationLeds` has one history variable, `asked`: the button
was pressed while running, and since then no measure has ended and `process_start` has
not been called.

## 3. The runs

| Run | Instance | Properties | States, time |
|---|---|---|---|
| `order` | 2 steps per part, 2 patterns, pre-scales 2 and 3, one- and two-part records | `TypeOK`, `PpqnBelowDivider`, `SecondPartHasSteps`, `PlaysInOrder` | 425 000, 40 s |
| `manual` | 3 patterns (2 basic, 1 fill), fill modes manual, 2 and 1 | `FillReturns`, `AutoFillCounts`, `VariationMatches` | 105 s |
| `live` | parts of one step, a track of two patterns, the shuffle switch at amount 0; fairness | `TrackInStep`, `TrackEnds`, `MeasuresEnd`, `EditsAreWritten` | 122 000, 65 s |
| `store` | 2 banks of 2 patterns, 2 versions; fairness | `TypeOK`, `EditsLandInPlace`, `BufferShowsSlot`, `BankIsAtomic`, `WritesEnd` | 109 000, 50 s |
| `compose` | 2 tracks of up to 3 measures, 2 patterns, 2 banks, 3 changes | `TypeOK`, `NoLooseEntry`, `TracksAreLists` | 619 000, 60 s |
| `clock` | pre-scales 5 and 6, shuffle 0 to 2; ticks to a pulse 2 (MIDI, DIN) and 4 (pulse), ticks to a step 4 and 6, bytes modulo 7; fairness | `ShuffleReleases`, `ClockTypeOK`, `StepsPlayOnce`, `FollowsMaster`, `RestartHappens` | 689 000, 115 s |
| `data` | store: 2 banks of 2 patterns, no edits; board: 2 steps, a drum and the accent; queues of 3 bytes; 11 bytes on the wire; blocks of up to 9 bytes | `DataTypeOK`, `ChosenInUse`, `LedsShowPattern`, `NoByteSleeps`, `RoundTrip`, `BytesInOrder`, `HearsTheWire` | 231 000, 135 s |
| `devices` | 2 keys to scan; 3 instrument keys; 3 drums, one of them with a switched voice; a row of 2 LEDs; fairness | `DevicesTypeOK`, `HitsSound`, `PressServedOnce`, `PressSelects`, `UnsoloRestores`, `OutputsFall`, `PlayingVariationLit`, `MutesSettle`, `RowSettles` | 75 000, 60 s |
| `overflow` | as `order`, with clear and mode change while running | `PpqnBelowDivider`: **violated** | |
| `null_part` | two-part records, the same gestures | `MeasuresResume`: **violated** | |
| `downbeat` | two-part records, START and STOP at any time | `StartsOnDownbeat`: **violated** | |
| `wrong_bank` | as `store`, bank changes while running | `EditsLandInPlace`: **violated** | |

What they show:

* `order`: whatever the player does to lengths, patterns, banks, pre-scale, mode
  (stopped), clearing and copying, the interrupt and the loop together play what
  `PatternPlayer` promises: the steps of a part one after the other, each once, the
  parts alternating. Here that means that process_new_measure's late rewind of
  `current_step`, done while the interrupt counts on, never loses a step.
* `manual`: a fill lasts one measure; an automatic fill that is due is never
  missed, although its counter is compared for equality and the interval can be
  changed under it; outside A/B no request for a variation is lost.
* `live`: measures end, an unlooped track ends, edits reach the writer.
* `store`: with what is in flight seen as done, the store *is* the atomic bank of
  `PatternBank`: pages, retries and passes do not show; a power cut spoils at most
  the slot being written.
* `compose`: however WRITE, INSERT, DELETE, the step keys and the rest are combined,
  running and stopped, the track is the list of `TrackList`: the entry selected is
  the one that changes, no other moves, SHIFT's advance is undone to where it came from,
  and no edit is lost or saved in another track.
* `clock`: a held step is released before the next is due, and sounds once; a slave
  plays its steps on the pulses of its master, however many ticks its own timer makes in
  between, through starts, stops, pre-scales and changes of the clock mode, but for the
  three moments excluded as `late_scale`, `tick_inside` and `sync_left` below; a restart
  with SHIFT waits for the master's count but not for ever. That an internal clock ticks
  at once after a slave's mode, or which of two edges of RUN wins, is not checked.
* `data`: banks and patterns chosen while running are in RAM once no change is pending;
  the step LEDs are the pattern's; bytes pass both queues once and in order and none is
  left in a queue with its interrupt off; the parser hears what is on the wire, real-time
  bytes in the middle of a message and running status included; what SysEx coding
  encodes it decodes.
* `devices`: no hit is lost before it is shifted out and the trigger outputs fall again;
  a press is served once, selects the instrument printed on it, and the end of a solo
  leaves no mute; the row and the mutes that are lit become those that should be, after
  anything that has written the latches in between; the variation that plays is lit, but
  for B from a press that asks for it while it plays until the measure ends.

The violated runs are disagreements between the code and its own comments:

* `overflow`: PATTERN CLEAR while running, or a mode change that reads a pattern,
  sets `clock.divider` at once. The comment at `sequencer.c:1432` knows why it must
  not: the pulse counter overflows past it and the machine stays silent until the
  counter has wrapped.
* `null_part`: PATTERN CLEAR while the second part plays takes its steps away; the
  measure then never ends. `sequencer.c:565` claims the case.
* `downbeat`: STOP between the interrupt and the loop leaves `new_measure` set; the
  next START, primed "so that first step (downbeat) occurs on first incoming clock
  pulse" (`sequencer.c:188`), begins with the end of a measure.
* `wrong_bank`: a bank change while running takes effect before the pending edit is
  saved, and the edit overwrites the pattern of the new bank. The stopped branch has
  the remedy and the reason (`sequencer.c:1218`).

### Bounds, and why they are enough

The transport's arithmetic is about equality with a goal: two lengths, two dividers,
a wrap past both and two patterns make each comparison true, false, and overtaken.
The parts are independent of their number of steps except for even and odd steps
(shuffle), which two steps have. In `manual` parts have one step, because fills and
variations are decided once per measure. In `store` two slots that differ in bank and
two in pattern tell a wrong bank from a wrong pattern; two versions tell an old page
from a new one. In `compose` three measures have a first, a middle and a last; three
changes fill an empty track, or delete, insert and replace in one; the stored tracks
are an empty one and one of two different entries. The theorems of section 4 hold
without these bounds.

In `clock` the ticks to a pulse, to a step and to the wrap are scaled down (4, 48; 6 to
48; 256), keeping their order and that a step is a whole number of MIDI pulses; with two
dividers one of them is not a multiple of the pulse clock's. In `data` a queue of three
holds two bytes, so that it is empty, full and wraps; the bytes on the wire are one of
each class: data, note on for two channels, program change, CC, SysEx begin and end, tune
request, clock, undefined; a SysEx block is shorter than, as long as and longer than a
group of seven. In `devices` the three keys are a switched voice, one that is not, and
the hand clap with its neighbours' numbers; drums 2 and 11 share a voice. A row of two
LEDs has one that is lit and one that is not in each mask.

### What an instance leaves out: `Gestures`

A run names the gestures its player makes. Some names stand for a gesture at a
moment at which the code goes wrong; leaving such a name out of a run is a
precondition of its properties, and each is a hazard in `PROJECT.json`:

| Name | Moment | In a run |
|---|---|---|
| `mode_running`, `clear_running` | mode switch, PATTERN CLEAR while running | `overflow`, `null_part`; `manual` includes `mode_running` |
| `race` (Sequencer) | START/STOP while a step is flagged or held back | `downbeat` |
| `copy_null` | a second part without steps copied to the first | none |
| `bank_running` | a bank change while running (with edits, it goes wrong) | `wrong_bank`; `data`, without edits |
| `stop_pending` | STOP while a pattern change is pending, then an edit | none |
| `same_bank` | stopped, ALT and the bank already chosen, with an edit pending | none |
| `race` (PatternStore) | a gesture that causes a transfer during a write, a measure ending in the write cycle a gesture started, or the next pattern's measure ending within a write | none |
| `unstage` (RhythmTrack) | a second DELETE or INSERT, or SHIFT + MODE after one, in one hold of SHIFT; SHIFT pressed with ALT; INSERT while a track is created; a full track that is being created | none |
| `bank_only` (RhythmTrack) | the bank of an existing track's entry as the first edit | none |
| `late_scale` (ExternalClock) | a pre-scale whose divider the count has already passed | none |
| `tick_inside` (ExternalClock) | the timer's interrupt inside the handler of a MIDI clock byte, which runs in the loop | none |
| `sync_left` (ExternalClock) | DIN_SYNC_SLAVE after PULSE_SYNC_SLAVE, by way of the trigger inputs: `sync_count` is left at 48 | none |
| `same_pass` (Drums) | two hits from different sources in one pass: `clear_all_trigs`, before the wait of `drums.c:47`, wipes the first | none |
| `early` (Drums) | a step or an expander input while the timer of the hit before still runs | none |
| `slow_pass` (Drums) | a pass longer than the millisecond of a trigger | none |
| `ac_cowbell` (Instruments) | with the accent selected, CLEAR and the cow bell's key: 7 + 9 is the accent's number, which is soloed and cannot be | none |

Left out of `RhythmTrack` altogether: a blank EEPROM (a track of length 255), and SHIFT
+ accent while running, which locks SHIFT. Left out of `StepBoard`: copying, clearing and
filling a second part without steps, where `copy_part` makes a first part without steps and
`check_tap` runs past the part. Each of
the last seven names was tried: with it a property of the run fails, so that the exclusion is
necessary and not one of caution.

Two things that the code does and a user may not expect are in a property instead of
being left out of a run. `BAskedFor`: if B is asked for while it plays (a change taken
back, A/B left for B, a press under a fill or an intro of variation B), the half step
takes the change for one from A and lights A (`sequencer.c:779`) until the measure ends
or `process_start` is called. `stale`, in `StepBoard`.

`Unhurried` and `Apart` state PatternStore's `race` as times: a pattern's write takes two
passes of the loop and two write cycles of at most 5 ms, well under the interval
between two presses, but a measure may end at any time; that a measure ends within
the 5 ms after a pattern was chosen is possible, and then the pattern is torn (the
first page is refused, the callback abandons the second).

`KeepUp` says that the loop serves a step before the shortest step is over: 12 pulses
of a 96th of a quarter note, 25 ms at 300 bpm. A pass of the loop takes less than a
millisecond, a pattern read or write 2 ms at 800 kHz, a refused transfer 5 ms more.

### Fairness

Assumed in `live`, `null_part`, `store`, `clock` and `devices`. `WF(Tick)`: timer 1 runs free; it is
never disabled in MIDI_MASTER clocking. `WF(MainLoop)`: the loop has no exit and a
watchdog (`main.c:38`) restarts a loop that hangs. `WF(CycleEnds)`: the EEPROM ends
its write cycle by itself. `ClockFairness`: a master goes on sending pulses, and a
handler ends; `RestartHappens` allows for a mode in which nobody listens. `DrumFairness`:
the loop goes on unless it waits for `trig_finished`, a running timer reaches its goal.
`LedFairness`, `InstLedFairness`: the internal clock's half steps and the loop's passes go
on. The player is never assumed to do anything; where a
property needs that the player *stops* doing something (the variation switch, in
`TrackEnds`; mode and clear, in `MeasuresResume`) its formula says so.

## 4. The theorems

All hold for every value of the constants that satisfies the named assumptions:
sizes are positive, tables have the types their C declarations give them. A further
hypothesis of a theorem is a named definition beside it; this table says what each
stands for and which run has an instance of it, so that none is empty:

| Hypothesis | Of | Meaning | Why, and where |
|---|---|---|---|
| `Orderly`, `ShuffleFits` | `SequencerOrderProofs` | the loop keeps up; no `race`, `mode_running`, `clear_running`, `copy_null`; a shuffle is shorter than the shortest step | `KeepUp` above; the four gestures break the order, as `overflow`, `null_part` and `downbeat` show of three of them; 5 * 2 pulses against 12 (`sequencer.h:42`, `:45`). Runs `order`, `clock` |
| `BasicOnly` | `SequencerProofs` | no intro/fill pattern is chosen or in the track | a fill that is played as a rhythm does not return. Run `manual` |
| `Undoing` | `RhythmTrackProofs` | no `unstage`, no `bank_only` | the code loses an entry or an edit there. Run `compose` |
| `Orderly`, `ChoosesOnly` | `DataProofs` | none of PatternStore's excluded moments; no edits | section 3. Runs `store`, `data` |
| `StoredTyped` | `DataProofs` | what is stored is a pattern, its first part with steps | what the program itself stores; a blank EEPROM is left out (section 3). Run `data` |
| `Apart`, `Handled`, ... | `DevicesProofs` | none of the excluded moments of `Drums` and `Instruments` | section 3. Run `devices` |
| `Undisturbed`, `PulseHoldsStep` | `ExternalClockProofs` | no `tick_inside`, `late_scale`, `sync_left`; no step is longer than a pulse of the pulse input | section 3; the longest step is 32 ticks, a pulse 48 (`sequencer.h:39`, `clock.h:28`). Run `clock` |

The theorems of `SequencerTypeProof`, `MidiProofs`, the scan's in `DevicesProofs` and
all others not named here have no hypothesis.

Five theorems say that something comes to be. Their hypotheses are temporal:

| Hypothesis | Of | Why, and where |
|---|---|---|
| the fairness of the part (section 3) | all but `EditsReachTheWriter` | as in the runs |
| `[](G => ENABLED <<A>>_v)`: where the fair action `A` is waited for it can happen | the same | no prover here reasons about ENABLED; plain from the guards (the loop's next pass and an elapsed timer have none, a half step gives the LEDs another value); no run checks it |
| `<>[][StartsNoneOver]_vars`: writes are not started over for ever while the second page of the one before still waits | `WritesComeToEnd` | a player who edits in every measure and lets every measure end within two passes of the loop would be needed; in the run `store` edits are finite |
| `MeasuresEnd` | `EditsReachTheWriter` | checked in the same run, `live` |

### Sequencer

**`SequencerTypeProof!TypeCorrect`**: `Spec => []TypeOK`. Each operator of
`Sequencer` has a lemma that it maps typed globals to typed globals; the theorem
joins them, one step per action. What it says of the code: no index leaves its
table, no counter its width, although the wrap of each is written by hand.

**`SequencerProofs!AutoFillCorrect`, `VariationCorrect`** prove two invariants of the
run `manual`. Neither is inductive. `Soundness` strengthens them: the fill counter is
zero and no fill flagged while stopped, because `process_start` counts without
looking (`Counted`), and the loop is inside a measure only while START is set
(`Busy`), because a stopped machine must not flag a fill. `Kept` says what most
gestures do to that state, nothing, and is the lemma for them.

**`SequencerProofs!TrackCorrect`, `FillCorrect`**: in RHYTHM PLAY the track's pattern
plays, whatever the player does, and a fill returns. `Patterned` is what makes them
inductive: `TrackInStep` and `FillReturns` speak of a running machine, but STOP and
START hand over `track_measure`, `previous_pattern` and the flags of the intro, so the
invariant says what they are while stopped as well (`InTrack`, `Filled`). `Stays` is the
lemma for the steps that do not touch them.

**`SequencerProofs!EditsReachTheWriter`**: where measures end, an edit made while running
is handed to the writer. `EditTaken` is the point: between the two halves of
`process_new_measure` only the interrupt runs, and it flags no edit, so that the end of
*every* measure takes the edit, also one at which part, pattern or track change.

**`SequencerOrderProofs!ImplementsPlayer`**, refinement: interrupt, loop and panel play
the order of steps of `PatternPlayer`. `OrderInv` gives the phase of each half. `Placed`
relates `current_step`, `new_measure`, `primed` and the step played last (`played`): when
nothing is due the player is `At` its step; a step that is due is the next one
(`Follows`) or the end of the part (`Ends`); inside a measure the loop has turned the part
or is about to. `Timed` relates the counters: while the loop serves a step the pulse counter is
below the *shortest* divider, since the measure may load a pattern with that one; a step
that is held back counts in pace with the pulses, which is why it is released in time. The
two depend on each other: a flag can be taken for the next step only because the counter
cannot have matched twice, and the divider may change only where no step is lost. The
properties of the runs fall out: `PulseCountBelowDivider`, `SecondPartEnds`,
`HeldStepIsReleased`, `EveryTriggerAdvances`.

### Pattern store and step board

**`DataProofs!EditsStayInPlace`**: no version is written to a slot other than
its own, if neither `bank_running` nor `stop_pending` happens, which are the two ways
the code allows it. The strengthening: RAM and the writer hold versions of the slots
they are for (`Placed`), and a change of pattern is pending only while running and
only to another pattern (`ChangeIsReal`).

**`DataProofs!StoreIsAtomic`**, **`BufferIsSlot`**: refinement. Under `Orderly`
(none of the four excluded moments) `PatternStore` implements `PatternBank` with the
bank seen as `Visible`, a pending write counted as done. `WriterInStep` is the
invariant that carries it: pages are taken in order, the first never in a write
cycle; after the first page the slot holds it; a pattern is closed while it is being
written only for another one. The history variable `power`, which flips with every
power cut, keeps the abstract bank honest: only a power cut may spoil a slot.

**`DataProofs!ChosenIsRead`, `ChosenIsInUse`**: a bank or a pattern chosen while running
is in RAM once no change is pending, bank changes included, without edits
(`ChoosesOnly`). `Chosen` adds that the flag outlives every measure between the choice and the
read, and that only a running machine has one.

**`DataProofs!LedsShowThePattern`, `BoardTyped`**: for boards of any width and any
instruments, if the stored patterns are typed. Each handler has a lemma that the mask it
leaves is the column, from one fact about symmetric differences and one about
`update_inst_led_mask`.

**`DataProofs!WritesComeToEnd`**: a write that was started ends, whatever gestures there
are, power cuts and refused pages included. `WriteGoesOn` follows it through the passes of
the loop: a pass either takes it to the next page, or abandons it, or starts another. The
loop skips a page that it has already asked for; by `PageAhead` that is never the one which
waits.

`EachPart` shows that `MCData` is each of its parts; **`DataTyped`**, **`ChosenIsInUse`**
and **`DataKeepsItsPromises`** thus state the properties of the run `data` of the
specification that the run checks.

### Rhythm tracks

**`RhythmTrackProofs!TypeCorrect`, `EntriesAreWritten`**: neither invariant is inductive
alone, and together they are: an entry can be shown as a pattern because it has been
written, and it has been written because the measure stays within the track. The
lemmas say of each operation on a track (write, open, delete, insert, replace) that it
maps sound tracks to sound tracks. The theorems need no excluded gesture: whatever
order the keys are pressed in, `unstage` and `bank_only` included, the code may lose an
entry or an edit, but it never reads one that is not there.

**`RhythmTrackProofs!ImplementsTrackList`**, refinement. `ListInv` adds to them: with no edit
flagged the track in RAM is the stored one, so that opening another loses nothing
(`Reloadable`); an advance that SHIFT has made and that can be undone has a measure to
go back to, or has found the last one (`Pressed`); a track is created at its end
(`Creating`). `Pressed` is the delicate one: DELETE counts the measure down without looking.
The lemmas `AppendedList`, `ReplacedList`, `RemovedList` and `InsertedList` say what the loops of
the C code that shift entries up and down do to the sequence that the array stands for.

### MIDI

**`MidiProofs!PortKeepsOrder`, `BytesGetOut`**: for queues of any length and any bytes,
with no hypothesis. A ring buffer is a sequence (`Content`): a queued byte is
its last, a removed one its first, a refused one changes nothing, shown of indices modulo
the length. `PortInv` adds to the types that, between looking at a byte and removing it,
the loop has the first one of the queue, whatever the interrupt has queued in between, and
that the transmit interrupt is on, or about to be switched on, while a byte waits.

**`MidiProofs!ParserHearsTheWire`, `ParserTypes`**: whatever bytes arrive, the parser
calls back for the messages on the wire and for no others. `ParserInv` says what buffer,
count and state stand for: a message on its way (`Attends`), system exclusive data
(`Deaf`), or what a status byte in the middle of such data leaves (`Drops`): the parser
then is in the state of a two- or three-byte message with a count that belongs to
neither, and the proof shows that it drops what follows without calling back, within
three bytes.

**`MidiProofs!RoundTrips`**: bytes of any number and any values are decoded to themselves
and seven bits wide on the way. `CodeLengths` relates the lengths, whole groups and the
rest; `FirstByte` shows of the sum of seven weighted bits that each can be divided out
again; `Encoded` and `Decoded` follow one byte through its group (`GroupAndPlace`), the
last, which is not full, included.

### External clocks

**`ExternalClockProofs!SlaveFollowsMaster`, `CountBelowDivider`**: for any ticks to a
pulse and to a step, as long as a step is a whole number of MIDI pulses. `CountMeans` is
the invariant: between two pulses the count is the pulses since the last step times the
ticks of a pulse, plus the ticks of the present one (`Between`); inside the handler of a
pulse *all* the ticks of the last one are in it, however many the timer really made
(`Inside`). For the pulse input the count is instead what is left of the pulse after
whole steps. Equality with the divider thus falls on a pulse and never past it.
`PulseFollower` promises something only from a start as a slave until the count is
abandoned (`synced`): by another mode, by a step button while stopped, for the pulse
input by another pre-scale, or by a step that is no whole number of pulses.

### Devices

**`DevicesProofs!PressesServedOnce`**: for any set of keys. The strengthening says in
which register a press is between sampling and serving: the edges sampled are those of
keys that are down and were not (`Debounce`), so adding them by exclusive-or sets a state
or takes a press back, as `due` records.

**`DevicesProofs!PressesSelect`, `UnsoloUnmutes`, `InstrumentsTyped`**: for any set of
keys, without `ac_cowbell`. The argument is `Soloable`, that what is soloed is a drum and
never the accent, with one lemma for each half of the transition: the second press of a
key stays on that key although its number is found by an addition modulo 18.

**`DevicesProofs!EveryHitSounds`, `NoHitHangs`, `DrumsTyped`**: for any drums and any
assignment of the trigger outputs, without `same_pass`, `early`, `slow_pass`. The
invariant ties `trig_finished`, the timer and the place of the loop together: cleared only
with a timer running, young only in the pass of its hit. `NoHitHangs` is why the busy
wait of `drums.c:47` ends.

**`DevicesProofs!PlayingVariationIsLit`**: with no hypothesis. A half step lights A while B
plays only if B is the mode as well and a change waits. `VarLedInv` says that a change
waits only if the button was pressed in this measure (`asked`): every end of a measure and
every `process_start` consumes it, also where a new pattern, a fill or an intro then sets
the variation by itself, and what STOP leaves waiting the next start takes. What remains
is `BAskedFor`, which the property names (`sequencer.c:779`).

**`DevicesProofs!RowComesToSettle`, `MutesComeToSettle`, `OutputsComeToFall`**: the row and
the drums' LEDs come to show hits and mutes, whatever other writers have left in them, and
an output that was raised falls. The last needs that a high output has a timer running
(`OutputsTimed`): of this pass, which is then about to shift, or of an earlier one.

**`DevicesTyped`** and **`DevicesKeepTheirPromises`** join the parts: by `EachPart`,
`MCDevices` is each of them, and what they promise holds of the specification that the run
`devices` checks.

### Only model-checked

The strengthened invariants were checked with TLC on the runs' instances before they
were proved. Every invariant, action property and refinement of the passing runs is now a
theorem. What stays with TLC: `MeasuresEnd`, `TrackEnds` and `RestartHappens`, which need
an induction over a counter (pulses to a step, steps to a measure, measures of a track)
inside a temporal formula; and the four runs that find a property violated.

## 5. Not modelled

The tempo ADC and the set-up of the peripherals (registers, time); the bit positions of
LEDs and switches and the shifting of bytes; the LEDs of mode, fill, clock and pre-scale
and their blinking; `poll_din_reset` and the choice of the sync count; the callbacks and
message constructors of xnormidi that the firmware does not use, its examples and USB
code; the unit tests and their framework. A power cut in the middle of one page write,
which spoils that page, is seen as one before or after it. The address map of the EEPROM,
in which the recall data lie inside track 0 (`twi_eeprom.h:29`). Flags that share a byte:
each is a variable of its own, so that an interrupt between the compiler's load and store
of the byte is not seen. The clock modes other than MIDI_MASTER in `Sequencer`: what
pulses do to the count is `ExternalClock`'s, what a step does is `Sequencer`'s.

## 6. Plan

The components above are modelled, each checked and proved. What would
come next, in this order:

1. `Sequencer` driven by `ExternalClock` in place of its own `Tick`, so that the
   downbeat of a slave and the order of steps are one property.
2. The mode switch as a gesture of `PatternStore` (`mode.c:174`), power cuts during a
   track's transfer in `RhythmTrack`, the EEPROM's address map.
3. With 1, one theorem for the slave: the steps of `PatternPlayer` on the pulses of
   `PulseFollower`. `OrderInv` needs of a tick only that it counts by one; the pulse's
   correction of the count needs `ClockInv` in its place.
4. Smaller hypotheses: `EditsStayInPlace` and `StoreIsAtomic` each with only the gestures
   that break it, and what remains of `PlaysInOrder` with each of the four.
