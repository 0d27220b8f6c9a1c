----------------------------- MODULE SysexTools -----------------------------
(***************************************************************************)
(* sysex_encode and sysex_decode of the MIDI library: bytes of eight bits  *)
(* as groups of up to seven, with their high bits in a byte before them.   *)
(* Offsets are those of the C arrays, plus one.  No code of the firmware   *)
(* calls them yet.                                                         *)
(***************************************************************************)
EXTENDS Integers, Sequences

CONSTANTS
  Source,       \* the bytes that are encoded
  MaxSource     \* bound on their number

ASSUME SysexAssumption == Source \subseteq 0..255 /\ MaxSource \in Nat

VARIABLE source

Least(a, b) == IF a < b THEN a ELSE b
High(byte) == byte \div 128
Low(byte)  == byte % 128

\* The bit of place j of a group in its first byte: 0x80 >> (1 + j).
BitAt(j) == <<64, 32, 16, 8, 4, 2, 1>>[j + 1]

sysex_encoded_length(length) ==
  (length \div 7) * 8 + (IF length % 7 = 0 THEN 0 ELSE (length % 7) + 1)

sysex_decoded_length(length) ==
  (length \div 8) * 7 + (IF length % 8 = 0 THEN 0 ELSE (length % 8) - 1)

\* The high bits of the n bytes from offset start, each in its place.
HighBits(bytes, start, n) ==
  LET Bit(j) == BitAt(j) * (IF j < n THEN High(bytes[start + j + 1]) ELSE 0)
  IN  Bit(0) + Bit(1) + Bit(2) + Bit(3) + Bit(4) + Bit(5) + Bit(6)

sysex_encode(bytes) ==
  [k \in 1..sysex_encoded_length(Len(bytes)) |->
    LET group == (k - 1) \div 8
        place == (k - 1) % 8
    IN  IF place = 0
          THEN HighBits(bytes, group * 7, Least(7, Len(bytes) - group * 7))
          ELSE Low(bytes[group * 7 + place])]

\* Mutant of sysex_decode: the bits of a group that is not full are left out.
sysex_decode_full(bytes) ==
  IF Len(bytes) < 2 THEN <<>>
  ELSE [k \in 1..sysex_decoded_length(Len(bytes)) |->
         LET group == (k - 1) \div 7
             place == (k - 1) % 7
             bit   == IF Len(bytes) < group * 8 + 8 THEN 0
                      ELSE (bytes[group * 8 + 1] \div BitAt(place)) % 2
         IN  Low(bytes[group * 8 + place + 2]) + 128 * bit]

sysex_decode(bytes) ==
  IF Len(bytes) < 2 THEN <<>>
  ELSE [k \in 1..sysex_decoded_length(Len(bytes)) |->
         LET group == (k - 1) \div 7
             place == (k - 1) % 7
             bit   == (bytes[group * 8 + 1] \div BitAt(place)) % 2
         IN  Low(bytes[group * 8 + place + 2]) + 128 * bit]

SysexInit == source = <<>>

NextByte == /\ Len(source) < MaxSource
            /\ \E byte \in Source : source' = Append(source, byte)

SysexNext == NextByte
SysexSpec == SysexInit /\ [][SysexNext]_source

\* What is encoded is decoded again, whatever is left over of the last group, and what is
\* sent in between has seven bits, as system exclusive data must (sysex_tools.c:38).
RoundTrip ==
  /\ sysex_decode(sysex_encode(source)) = source
  /\ \A k \in DOMAIN sysex_encode(source) : sysex_encode(source)[k] < 128
=============================================================================
