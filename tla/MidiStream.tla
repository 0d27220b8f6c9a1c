----------------------------- MODULE MidiStream -----------------------------
(***************************************************************************)
(* What a MIDI receiver promises: messages are made of a status byte and   *)
(* the data bytes that follow it.  A status byte serves any number of      *)
(* messages (running status), real-time bytes may come between any two     *)
(* bytes and disturb nothing, and system exclusive data is skipped.  Of a  *)
(* status byte that breaks into system exclusive data, nothing is          *)
(* promised: its messages may be lost, but nothing else is ever heard.     *)
(***************************************************************************)
EXTENDS Integers, Sequences

CONSTANTS
  Wire,                 \* the bytes on the line
  IsStatus(_), IsRealTime(_), IsSysex(_),
  Size(_),              \* the number of data bytes a status byte calls for, or 0
  Message(_, _)         \* what the receiver makes of a status byte and its data

VARIABLES
  status,    \* the status byte that data bytes belong to, or 0
  args,      \* the data bytes since the last message
  heard      \* the message that the last byte completed, or <<>>

RealTime(byte) ==
  IsRealTime(byte) /\ heard' = Message(byte, <<>>) /\ UNCHANGED <<status, args>>

Status(byte) ==
  /\ IsStatus(byte) /\ ~IsRealTime(byte)
  /\ \/ status' = IF Size(byte) > 0 \/ IsSysex(byte) THEN byte ELSE 0
     \/ IsSysex(status) /\ status' = 0
  /\ args' = <<>> /\ heard' = <<>>

Data(byte) ==
  /\ ~IsStatus(byte)
  /\ LET grown == Append(args, byte)
         last  == Len(grown) = Size(status)
     IN  /\ args' = IF Size(status) = 0 \/ last THEN <<>> ELSE grown
         /\ heard' = IF last THEN Message(status, grown) ELSE <<>>
  /\ UNCHANGED status

Init == status = 0 /\ args = <<>> /\ heard = <<>>

Next == \E byte \in Wire : RealTime(byte) \/ Status(byte) \/ Data(byte)

Spec == Init /\ [][Next]_<<status, args, heard>>
=============================================================================
