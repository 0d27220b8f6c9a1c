----------------------------- MODULE MidiParser -----------------------------
(***************************************************************************)
(* midi_process_byte of the vendored library: which callback each byte     *)
(* that midi_device_process takes from its queue leads to.  The firmware   *)
(* registers four callbacks (main.c:138); heard is the call that the last  *)
(* byte caused, with the arguments that the callback gets.  Bytes have     *)
(* their real values.                                                      *)
(***************************************************************************)
EXTENDS Integers, Sequences

CONSTANTS
  Wire,        \* the bytes that arrive
  MaxSysex     \* bound: data bytes in a row while system exclusive data is open

ASSUME WireAssumption == Wire \subseteq 0..255 /\ MaxSysex \in Nat

NOTEOFF == 128
NOTEON == 144
AFTERTOUCH == 160
CC == 176
PROGCHANGE == 192
CHANPRESSURE == 208
PITCHBEND == 224
SYSEX_BEGIN == 240
TC_QUARTERFRAME == 241
SONGPOSITION == 242
SONGSELECT == 243
TUNEREQUEST == 246
SYSEX_END == 247
CLOCK == 248

VARIABLES
  device,    \* input_state, input_buffer and input_count of midi_device
  heard      \* the callback made for the last byte: <<its name, its arguments ...>>, or <<>>

parserVars == <<device, heard>>

-----------------------------------------------------------------------------
(* Bytes *)

IsStatus(byte)   == byte >= 128
IsRealTime(byte) == byte >= CLOCK
Kind(byte)       == byte - (byte % 16)      \* byte & 0xF0
Channel(byte)    == byte % 16             \* byte & MIDI_CHANMASK

\* midi_packet_length; 0 is UNDEFINED.
PacketLength(byte) ==
  IF Kind(byte) \in {CC, NOTEON, NOTEOFF, AFTERTOUCH, PITCHBEND} \/ byte = SONGPOSITION THEN 3
  ELSE IF Kind(byte) \in {PROGCHANGE, CHANPRESSURE}
          \/ byte \in {TC_QUARTERFRAME, SONGSELECT} THEN 2
  ELSE IF IsRealTime(byte) \/ byte = TUNEREQUEST THEN 1
  ELSE 0

-----------------------------------------------------------------------------
(* The parser *)

NoCall == <<>>

\* midi_input_callbacks with the firmware's callbacks.
InputCallbacks(state, count, b) ==
  IF state = "SYSEX_MESSAGE" THEN NoCall
  ELSE IF count = 3 /\ Kind(b[0]) = NOTEON  THEN <<"note_on", Channel(b[0]), b[1], b[2]>>
  ELSE IF count = 3 /\ Kind(b[0]) = NOTEOFF THEN <<"note_off", Channel(b[0]), b[1], b[2]>>
  ELSE IF count = 2 /\ Kind(b[0]) = PROGCHANGE
    THEN <<"program_change", Channel(b[0]), b[1]>>
  ELSE IF count = 1 /\ IsRealTime(b[0]) THEN <<"real_time", b[0]>>
  ELSE NoCall

OneByte(byte) == InputCallbacks("ONE_BYTE_MESSAGE", 1, [i \in 0..2 |-> byte])

\* Mutant of RealTimeByte: the state is not restored.
RealTimeByteForgets(d, byte) ==
  [device |-> [d EXCEPT !.input_state = "ONE_BYTE_MESSAGE"], heard |-> OneByte(byte)]

RealTimeByte(d, byte) == [device |-> d, heard |-> OneByte(byte)]

Stored(d, byte) == [d EXCEPT !.input_buffer[d.input_count % 3] = byte, !.input_count = @ + 1]

\* Inside system exclusive data a status byte changes the state but is not stored.
StatusByte(d, byte) ==
  LET kept == IF d.input_state = "SYSEX_MESSAGE" THEN d
              ELSE [d EXCEPT !.input_buffer[0] = byte, !.input_count = 1]
      to(s) == [kept EXCEPT !.input_state = s]
      ended == Stored(kept, byte)
  IN  CASE PacketLength(byte) = 1 -> [device |-> to("IDLE"), heard |-> OneByte(byte)]
        [] PacketLength(byte) = 2 -> [device |-> to("TWO_BYTE_MESSAGE"), heard |-> NoCall]
        [] PacketLength(byte) = 3 -> [device |-> to("THREE_BYTE_MESSAGE"), heard |-> NoCall]
        [] byte = SYSEX_BEGIN ->
             [device |-> [to("SYSEX_MESSAGE") EXCEPT !.input_buffer[0] = byte, !.input_count = 1],
              heard |-> NoCall]
        [] byte = SYSEX_END ->
             [device |-> [ended EXCEPT !.input_state = "IDLE"],
              heard |-> InputCallbacks(ended.input_state, ended.input_count, ended.input_buffer)]
        [] OTHER -> [device |-> [to("IDLE") EXCEPT !.input_count = 0], heard |-> NoCall]

\* A whole message leaves the status byte in place, for running status.
DataByte(d, byte) ==
  LET grown == Stored(d, byte)
      whole == \/ d.input_count % 3 = 2
               \/ d.input_count % 3 = 1 /\ d.input_state = "TWO_BYTE_MESSAGE"
  IN  IF d.input_state = "IDLE" THEN [device |-> d, heard |-> NoCall]
      ELSE IF ~whole THEN [device |-> grown, heard |-> NoCall]
      ELSE [device |-> IF d.input_state = "SYSEX_MESSAGE" THEN grown
                       ELSE [grown EXCEPT !.input_count = 1],
            heard |-> InputCallbacks(d.input_state, grown.input_count, grown.input_buffer)]

ProcessMidiByte(d, byte) ==
  IF IsRealTime(byte) THEN RealTimeByte(d, byte)
  ELSE IF IsStatus(byte) THEN StatusByte(d, byte)
  ELSE DataByte(d, byte)

\* midi_process_byte; the callback runs to its end within it.
Parse(byte) ==
  /\ ~IsStatus(byte) /\ device.input_state = "SYSEX_MESSAGE" => device.input_count <= MaxSysex
  /\ device' = ProcessMidiByte(device, byte).device
  /\ heard'  = ProcessMidiByte(device, byte).heard

\* midi_device_init.
ParserInit ==
  /\ device = [input_state |-> "IDLE", input_count |-> 0, input_buffer |-> [i \in 0..2 |-> 0]]
  /\ heard = NoCall

ParserNext == \E byte \in Wire : Parse(byte)

ParserSpec == ParserInit /\ [][ParserNext]_parserVars

-----------------------------------------------------------------------------
(* Correctness *)

\* The buffer index stays within the array: one-byte messages and idle data never
\* accumulate, and a message never grows past its three bytes outside system exclusive.
ParserTypeOK ==
  /\ device \in [input_state : {"IDLE", "TWO_BYTE_MESSAGE", "THREE_BYTE_MESSAGE", "SYSEX_MESSAGE"},
                 input_count : 0..(MaxSysex + 4), input_buffer : [0..2 -> 0..255]]
  /\ Len(heard) \in {0, 2, 3, 4}

\* The parser hears the messages on the wire and no others: running status and real-time
\* bytes within messages included, and without ever taking the data of one message for
\* another's.  A status byte inside system exclusive data deafens it until the next.
Following ==
  IF /\ device.input_state \in {"TWO_BYTE_MESSAGE", "THREE_BYTE_MESSAGE"}
     /\ PacketLength(device.input_buffer[0]) \in {2, 3}
    THEN device.input_buffer[0]
  ELSE IF device.input_state = "SYSEX_MESSAGE" THEN SYSEX_BEGIN ELSE 0

Heard == INSTANCE MidiStream WITH
  status <- Following,
  args <- [i \in 1..(IF Following \in {0, SYSEX_BEGIN} THEN 0 ELSE device.input_count - 1) |->
             device.input_buffer[i]],
  IsSysex <- LAMBDA byte : byte = SYSEX_BEGIN,
  Size <- LAMBDA byte : IF PacketLength(byte) \in {2, 3} THEN PacketLength(byte) - 1 ELSE 0,
  Message <- LAMBDA byte, args :
    IF IsRealTime(byte) THEN <<"real_time", byte>>
    ELSE IF Kind(byte) = NOTEON     THEN <<"note_on", Channel(byte)>> \o args
    ELSE IF Kind(byte) = NOTEOFF    THEN <<"note_off", Channel(byte)>> \o args
    ELSE IF Kind(byte) = PROGCHANGE THEN <<"program_change", Channel(byte)>> \o args
    ELSE <<>>
HearsTheWire == Heard!Spec
=============================================================================
