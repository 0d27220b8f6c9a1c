------------------------------ MODULE MidiPort ------------------------------
(***************************************************************************)
(* The serial port: the receive interrupt fills one byte queue, which the  *)
(* main loop empties in midi_device_process; midi_send, called by the main *)
(* loop and by the timer interrupt, fills the other, which the transmit    *)
(* interrupt empties as long as UDRIE0 enables it.  Interrupts do not      *)
(* nest: each is one step.  What a byte means is MidiParser's.             *)
(***************************************************************************)
EXTENDS ByteQueue

CONSTANTS
  Clock,       \* MIDI_CLOCK, sent by the timer interrupt
  Received,    \* the bytes that may arrive
  Messages     \* what the main loop sends at a time, each byte by a midi_send of its own

ASSUME PortAssumption ==
  Clock \in Byte /\ Received \subseteq Byte /\ Messages \subseteq Seq(Byte) \ {<<>>}

VARIABLES
  rx,          \* midi_device.input_queue
  todo,        \* midi_device_process: bytes of its snapshot still to be processed
  got,         \* the byte that midi_process_byte was called with last
  tx,          \* midi_byte_queue
  UDRIE0,      \* the transmit interrupt is enabled
  outgoing,    \* what the main loop has yet to send
  sent,        \* the byte written to UDR0 last
  port_pc      \* where the main loop is

portVars == <<rx, todo, got, tx, UDRIE0, outgoing, sent, port_pc>>
inVars   == <<rx, todo, got>>
outVars  == <<tx, UDRIE0, outgoing, sent>>

-----------------------------------------------------------------------------
(* Interrupts *)

RxInterrupt ==
  /\ \E byte \in Received : rx' = Enqueue(rx, byte)
  /\ UNCHANGED <<todo, got, port_pc>> /\ UNCHANGED outVars

\* Mutant of UdreInterrupt: it disables itself after every byte.
UdreInterruptOnce ==
  /\ UDRIE0
  /\ IF Length(tx) > 0 THEN sent' = Get(tx, 0) /\ tx' = Remove(tx, 1)
                       ELSE UNCHANGED <<sent, tx>>
  /\ UDRIE0' = FALSE
  /\ UNCHANGED <<outgoing, port_pc>> /\ UNCHANGED inVars

\* Raised while it is enabled and the transmitter can take a byte.
UdreInterrupt ==
  /\ UDRIE0
  /\ IF Length(tx) > 0 THEN sent' = Get(tx, 0) /\ tx' = Remove(tx, 1)
                       ELSE UNCHANGED <<sent, tx>>
  /\ UDRIE0' = (Length(tx') # 0)
  /\ UNCHANGED <<outgoing, port_pc>> /\ UNCHANGED inVars

\* The timer interrupt sends the clock: midi_send from end to end.
TimerInterrupt ==
  /\ tx' = Enqueue(tx, Clock)
  /\ UDRIE0' = TRUE
  /\ UNCHANGED <<outgoing, sent, port_pc>> /\ UNCHANGED inVars

-----------------------------------------------------------------------------
(* The main loop *)

\* midi_device_process takes the length once.
ProcessBegin ==
  /\ port_pc = "begin"
  /\ todo' = Length(rx)
  /\ port_pc' = IF todo' > 0 THEN "process" ELSE "refresh"
  /\ UNCHANGED <<rx, got>> /\ UNCHANGED outVars

\* The byte stays in the queue while it is processed.
ProcessByte ==
  /\ port_pc = "process"
  /\ got' = Get(rx, 0)
  /\ port_pc' = "remove"
  /\ UNCHANGED <<rx, todo>> /\ UNCHANGED outVars

\* Mutant of RemoveByte: everything that has arrived is removed.
RemoveByteAll ==
  /\ port_pc = "remove"
  /\ rx' = Remove(rx, Length(rx))
  /\ todo' = 0
  /\ port_pc' = "refresh"
  /\ UNCHANGED got /\ UNCHANGED outVars

RemoveByte ==
  /\ port_pc = "remove"
  /\ rx' = Remove(rx, 1)
  /\ todo' = todo - 1
  /\ port_pc' = IF todo' > 0 THEN "process" ELSE "refresh"
  /\ UNCHANGED got /\ UNCHANGED outVars

\* A pass of refresh that sends nothing, or in which the sequencer starts or stops.
Refresh ==
  /\ port_pc = "refresh"
  /\ \/ port_pc' = "begin" /\ UNCHANGED outgoing
     \/ port_pc' = "send" /\ outgoing' \in Messages
  /\ UNCHANGED <<tx, UDRIE0, sent>> /\ UNCHANGED inVars

MidiSend ==
  /\ port_pc = "send"
  /\ tx' = Enqueue(tx, Head(outgoing))
  /\ outgoing' = Tail(outgoing)
  /\ port_pc' = "enable"
  /\ UNCHANGED <<UDRIE0, sent>> /\ UNCHANGED inVars

\* UCSR0B is read, changed and written back; an interrupt in between can only have
\* changed the bit that is set here, so that this is one step.
EnableTransmit ==
  /\ port_pc = "enable"
  /\ UDRIE0' = TRUE
  /\ port_pc' = IF outgoing = <<>> THEN "begin" ELSE "send"
  /\ UNCHANGED <<tx, outgoing, sent>> /\ UNCHANGED inVars

PortLoop ==
  ProcessBegin \/ ProcessByte \/ RemoveByte \/ Refresh \/ MidiSend \/ EnableTransmit

PortInit ==
  /\ \E byte \in Byte : rx = EmptyQueue([i \in Index |-> byte]) /\ tx = rx
                        /\ got = byte /\ sent = byte
  /\ todo = 0 /\ UDRIE0 = FALSE /\ outgoing = <<>> /\ port_pc = "begin"

PortNext == RxInterrupt \/ UdreInterrupt \/ TimerInterrupt \/ PortLoop

PortSpec == PortInit /\ [][PortNext]_portVars

-----------------------------------------------------------------------------
(* Correctness *)

\* The queues are rings of bytes; the loop's snapshot never counts more bytes than the
\* queue holds, so that midi_device_process never reads an entry nobody has written.
PortTypeOK ==
  /\ rx \in Queue /\ tx \in Queue
  /\ todo \in 0..Length(rx)
  /\ got \in Byte /\ sent \in Byte
  /\ UDRIE0 \in BOOLEAN
  /\ outgoing \in Seq(Byte)
  /\ port_pc \in {"begin", "process", "remove", "refresh", "send", "enable"}
  /\ (port_pc \in {"process", "remove"}) = (todo > 0)
  /\ port_pc = "send" => outgoing # <<>>

\* Bytes are processed, and bytes are transmitted, once each and in the order in which
\* they were queued, whatever interrupts whatever.
InLine == INSTANCE ByteLine WITH
  Capacity <- QueueLength, last <- got,
  fifo <- IF port_pc = "remove" THEN Tail(Content(rx)) ELSE Content(rx)
OutLine == INSTANCE ByteLine WITH
  Capacity <- QueueLength, last <- sent, fifo <- Content(tx)
BytesInOrder == InLine!Spec /\ OutLine!Spec

\* No byte sleeps in the queue: while one is there the transmit interrupt is enabled or
\* the loop is about to enable it (midi.c:132 against interrupts.c:181).
NoByteSleeps == Length(tx) > 0 => UDRIE0 \/ port_pc = "enable"
=============================================================================
