----------------------------- MODULE MidiProofs -----------------------------
(***************************************************************************)
(* The serial port keeps its bytes in order, for queues of any length and  *)
(* any bytes: the ring buffer is a sequence, and whatever interrupts       *)
(* whatever, a step of the port is a step of that sequence or none.  The   *)
(* parser hears the messages on the wire, whatever bytes arrive.  And what *)
(* sysex_encode makes of any bytes is decoded to the same bytes.           *)
(***************************************************************************)
EXTENDS MidiPort, MidiParser, SysexTools, SequenceTheorems, TLAPS

-----------------------------------------------------------------------------
(* The ring buffer is a sequence *)

\* A sum of two indices wraps at most once.
LEMMA WrapOnce ==
  ASSUME NEW x \in 0..(2 * QueueLength - 1)
  PROVE  x % QueueLength = IF x < QueueLength THEN x ELSE x - QueueLength
BY QueueAssumption

\* An entry of the queue is a byte of the array.
LEMMA QueueFields ==
  ASSUME NEW q \in Queue
  PROVE  /\ q.start \in Nat /\ q.start < QueueLength
         /\ q.end \in Nat /\ q.end < QueueLength
         /\ q.data \in [Index -> Byte]
         /\ QueueLength \in Nat /\ QueueLength > 1
BY QueueAssumption DEF Queue, Index

\* One entry stays free.
LEMMA LengthOfQueue ==
  ASSUME NEW q \in Queue
  PROVE  /\ Length(q) \in Nat /\ Length(q) < QueueLength
         /\ Full(q) <=> Length(q) = QueueLength - 1
<1>1. (q.end + 1) % QueueLength = IF q.end + 1 < QueueLength THEN q.end + 1 ELSE 0
  <2>1. q.end + 1 \in 0..(2 * QueueLength - 1)
    BY QueueFields
  <2> QED
    BY <2>1, QueueFields, WrapOnce
<1> QED
  BY <1>1, QueueFields DEF Length, Full

\* The i-th byte of the queue, as it lies in the array.
LEMMA GetWraps ==
  ASSUME NEW q \in Queue, NEW i \in Nat, i < QueueLength
  PROVE  /\ Get(q, i) = q.data[IF q.start + i < QueueLength THEN q.start + i
                               ELSE q.start + i - QueueLength]
         /\ Get(q, i) \in Byte
<1>1. q.start + i \in 0..(2 * QueueLength - 1)
  BY QueueFields
<1>2. (q.start + i) % QueueLength = IF q.start + i < QueueLength THEN q.start + i
                                    ELSE q.start + i - QueueLength
  BY <1>1, WrapOnce, QueueFields
<1>3. (q.start + i) % QueueLength \in Index
  <2>1. /\ q.start + i < QueueLength => q.start + i \in Index
        /\ ~(q.start + i < QueueLength) => q.start + i - QueueLength \in Index
    BY QueueFields DEF Index
  <2> QED
    BY <1>2, <2>1
<1> QED
  BY <1>2, <1>3, QueueFields DEF Get

\* What the queue holds is a sequence of bytes, as long as the queue is.
LEMMA ContentOfQueue ==
  ASSUME NEW q \in Queue
  PROVE  /\ Content(q) \in Seq(Byte)
         /\ Len(Content(q)) = Length(q)
         /\ \A i \in 1..Length(q) : Content(q)[i] = Get(q, i - 1)
<1>1. ASSUME NEW i \in 1..Length(q) PROVE Get(q, i - 1) \in Byte
  <2>1. i - 1 \in Nat /\ i - 1 < QueueLength
    BY LengthOfQueue, QueueFields
  <2> QED
    BY <2>1, GetWraps
<1>2. Content(q) \in [1..Length(q) -> Byte]
  BY <1>1 DEF Content
<1> QED
  BY <1>2, LengthOfQueue DEF Content

\* bytequeue_enqueue appends, unless the queue is full.
LEMMA EnqueueAppends ==
  ASSUME NEW q \in Queue, NEW byte \in Byte
  PROVE  /\ Enqueue(q, byte) \in Queue
         /\ Full(q) => Enqueue(q, byte) = q
         /\ ~Full(q) => /\ Content(Enqueue(q, byte)) = Append(Content(q), byte)
                        /\ Length(Enqueue(q, byte)) = Length(q) + 1
<1>1. CASE Full(q)
  BY <1>1 DEF Enqueue
<1>2. CASE ~Full(q)
  <2> DEFINE t == Enqueue(q, byte)
  <2>1. (q.end + 1) % QueueLength = IF q.end + 1 < QueueLength THEN q.end + 1 ELSE 0
    BY QueueFields, WrapOnce
  <2>2. /\ t.start = q.start
        /\ t.end = IF q.end + 1 < QueueLength THEN q.end + 1 ELSE 0
        /\ t.data = [q.data EXCEPT ![q.end] = byte]
    BY <1>2, <2>1 DEF Enqueue, Queue
  <2>3. t \in Queue
    <3>1. t.data \in [Index -> Byte] /\ t.end \in Index
      BY <2>2, QueueFields DEF Index
    <3>2. (q.end + 1) % QueueLength \in Index
      BY <2>1, QueueFields DEF Index
    <3> QED
      BY <1>2, <3>1, <3>2, <2>2 DEF Enqueue, Queue
  <2>4. Length(t) = Length(q) + 1
    BY <1>2, <2>1, <2>2, QueueFields DEF Length, Full
  <2> HIDE DEF t
  <2>5. ASSUME NEW i \in Nat, i < Length(q) PROVE Get(t, i) = Get(q, i)
    <3> DEFINE at == IF q.start + i < QueueLength THEN q.start + i ELSE q.start + i - QueueLength
    <3>1. Get(q, i) = q.data[at] /\ Get(t, i) = t.data[at]
      <4>1. i < QueueLength
        BY <2>5, LengthOfQueue, QueueFields
      <4> QED
        BY <2>2, <2>3, <4>1, GetWraps
    <3>2. at # q.end /\ at \in Index
      BY <2>5, QueueFields, SMTT(40) DEF Length, Index
    <3> QED
      BY <3>1, <3>2, <2>2, QueueFields
  <2>6. Get(t, Length(q)) = byte
    <3> DEFINE at == IF q.start + Length(q) < QueueLength THEN q.start + Length(q)
                     ELSE q.start + Length(q) - QueueLength
    <3>1. Get(t, Length(q)) = t.data[at]
      BY <2>2, <2>3, GetWraps, LengthOfQueue
    <3>2. at = q.end /\ q.end \in Index
      BY QueueFields DEF Length, Index
    <3> QED
      BY <3>1, <3>2, <2>2, QueueFields
  <2>7. Content(t) = Append(Content(q), byte)
    <3>1. Content(t) \in Seq(Byte) /\ Len(Content(t)) = Length(q) + 1
      BY <2>3, <2>4, ContentOfQueue
    <3>2. Append(Content(q), byte) \in Seq(Byte)
          /\ Len(Append(Content(q), byte)) = Length(q) + 1
      BY ContentOfQueue
    <3>3. ASSUME NEW i \in 1..(Length(q) + 1)
          PROVE  Content(t)[i] = Append(Content(q), byte)[i]
      <4>1. Content(t)[i] = Get(t, i - 1)
        BY <2>3, <2>4, ContentOfQueue
      <4>2. CASE i = Length(q) + 1
        BY <4>1, <4>2, <2>6, ContentOfQueue, LengthOfQueue
      <4>3. CASE i # Length(q) + 1
        <5>1. i \in 1..Length(q) /\ i - 1 \in Nat /\ i - 1 < Length(q)
          BY <4>3, LengthOfQueue
        <5>2. Content(t)[i] = Content(q)[i]
          BY <4>1, <5>1, <2>5, ContentOfQueue
        <5> QED
          BY <5>1, <5>2, ContentOfQueue
      <4> QED
        BY <4>2, <4>3
    <3> QED
      BY <3>1, <3>2, <3>3, LengthOfQueue
  <2> QED
    BY <1>2, <2>3, <2>4, <2>7 DEF t
<1> QED
  BY <1>1, <1>2

\* bytequeue_remove(1) takes the oldest byte, the one that bytequeue_get(0) returns.
LEMMA RemoveTakes ==
  ASSUME NEW q \in Queue, Length(q) > 0
  PROVE  /\ Remove(q, 1) \in Queue
         /\ Length(Remove(q, 1)) = Length(q) - 1
         /\ Content(q) # <<>>
         /\ Get(q, 0) = Head(Content(q)) /\ Get(q, 0) \in Byte
         /\ Content(Remove(q, 1)) = Tail(Content(q))
<1> DEFINE t == Remove(q, 1)
<1>1. (q.start + 1) % QueueLength = IF q.start + 1 < QueueLength THEN q.start + 1 ELSE 0
  BY QueueFields, WrapOnce, SMTT(40)
<1>2. /\ t.start = IF q.start + 1 < QueueLength THEN q.start + 1 ELSE 0
      /\ t.end = q.end
      /\ t.data = q.data
  BY <1>1 DEF Remove, Queue
<1>3. t \in Queue
  <2>1. (q.start + 1) % QueueLength \in Index
    BY <1>1, QueueFields DEF Index
  <2> QED
    BY <2>1 DEF Remove, Queue
<1>4. Length(t) = Length(q) - 1
  BY <1>2, QueueFields DEF Length
<1> HIDE DEF t
<1>5. Content(q) # <<>> /\ Get(q, 0) = Head(Content(q)) /\ Get(q, 0) \in Byte
  BY ContentOfQueue, LengthOfQueue, GetWraps
<1>6. ASSUME NEW i \in Nat, i < Length(t) PROVE Get(t, i) = Get(q, i + 1)
  <2> DEFINE from == IF t.start + i < QueueLength THEN t.start + i
                     ELSE t.start + i - QueueLength
             at == IF q.start + (i + 1) < QueueLength THEN q.start + (i + 1)
                   ELSE q.start + (i + 1) - QueueLength
  <2>1. Get(t, i) = t.data[from]
    <3>1. i < QueueLength
      BY <1>3, <1>6, LengthOfQueue, QueueFields
    <3> QED
      BY <1>3, <3>1, GetWraps
  <2>2. Get(q, i + 1) = q.data[at]
    <3>1. i + 1 \in Nat /\ i + 1 < QueueLength
      BY <1>4, <1>6, LengthOfQueue, QueueFields
    <3> QED
      BY <3>1, GetWraps
  <2>3. from = at
    BY <1>2, <1>6, <1>4, LengthOfQueue, QueueFields
  <2> QED
    BY <2>1, <2>2, <2>3, <1>2
<1>7. Content(t) = Tail(Content(q))
  <2>1. Content(t) \in Seq(Byte) /\ Len(Content(t)) = Length(q) - 1
    BY <1>3, <1>4, ContentOfQueue
  <2>2. Tail(Content(q)) \in Seq(Byte) /\ Len(Tail(Content(q))) = Length(q) - 1
    BY <1>5, ContentOfQueue, LengthOfQueue
  <2>3. ASSUME NEW i \in 1..(Length(q) - 1)
        PROVE  Content(t)[i] = Tail(Content(q))[i]
    <3>1. i \in 1..Length(t) /\ i - 1 \in Nat /\ i - 1 < Length(t) /\ i + 1 \in 1..Length(q)
      BY <1>4, LengthOfQueue
    <3>2. Content(t)[i] = Get(q, i) /\ Content(q)[i + 1] = Get(q, i)
      <4>1. Content(t)[i] = Get(t, i - 1) /\ Content(q)[i + 1] = Get(q, (i + 1) - 1)
        BY <3>1, <1>3, ContentOfQueue
      <4>2. Get(t, i - 1) = Get(q, (i - 1) + 1)
        BY <3>1, <1>6
      <4> QED
        BY <3>1, <4>1, <4>2
    <3>3. Tail(Content(q))[i] = Content(q)[i + 1]
      BY <3>1, <1>5, ContentOfQueue
    <3> QED
      BY <3>2, <3>3
  <2> QED
    BY <2>1, <2>2, <2>3, LengthOfQueue
<1> QED
  BY <1>3, <1>4, <1>5, <1>7 DEF t

-----------------------------------------------------------------------------
(* The port *)

PortInv == PortTypeOK /\ NoByteSleeps /\ (port_pc = "remove" => got = Head(Content(rx)))

\* The queue that grows keeps its first byte and does not get shorter.
LEMMA EnqueueKeepsFirst ==
  ASSUME NEW q \in Queue, NEW byte \in Byte
  PROVE  /\ Length(q) <= Length(Enqueue(q, byte))
         /\ Length(q) > 0 => Head(Content(Enqueue(q, byte))) = Head(Content(q))
<1>1. CASE Full(q)
  BY <1>1, EnqueueAppends, LengthOfQueue
<1>2. CASE ~Full(q)
  <2>1. /\ Content(Enqueue(q, byte)) = Append(Content(q), byte)
        /\ Length(Enqueue(q, byte)) = Length(q) + 1
    BY <1>2, EnqueueAppends
  <2>2. Length(q) \in Nat /\ Content(q) \in Seq(Byte) /\ Len(Content(q)) = Length(q)
    BY LengthOfQueue, ContentOfQueue
  <2>3. Length(q) > 0 => Head(Append(Content(q), byte)) = Head(Content(q))
    BY <2>2
  <2> QED
    BY <2>1, <2>2, <2>3
<1> QED
  BY <1>1, <1>2

\* Both queues start empty.
LEMMA PortStart == PortInit => PortInv /\ Content(rx) = <<>> /\ Content(tx) = <<>>
<1> SUFFICES ASSUME PortInit PROVE PortInv /\ Content(rx) = <<>> /\ Content(tx) = <<>>
  OBVIOUS
<1>1. PICK byte \in Byte : /\ rx = EmptyQueue([i \in Index |-> byte]) /\ tx = rx
                          /\ got = byte /\ sent = byte
  BY DEF PortInit
<1>2. rx \in Queue /\ tx \in Queue /\ Length(rx) = 0 /\ Length(tx) = 0
  BY <1>1, QueueAssumption DEF EmptyQueue, Queue, Index, Length
<1>3. Content(rx) = <<>> /\ Content(tx) = <<>>
  BY <1>2, ContentOfQueue
<1>4. PortTypeOK
  <2>1. todo = 0 /\ UDRIE0 = FALSE /\ outgoing = <<>> /\ port_pc = "begin"
    BY DEF PortInit
  <2>2. (port_pc \in {"process", "remove"}) = (todo > 0)
    BY <2>1
  <2>3. UDRIE0 \in BOOLEAN
    BY <2>1
  <2>4. <<>> \in Seq(Byte)
    OBVIOUS
  <2>5. got \in Byte /\ sent \in Byte
    BY <1>1
  <2> QED
    BY <1>2, <2>1, <2>2, <2>3, <2>4, <2>5 DEF PortTypeOK
<1>5. NoByteSleeps /\ port_pc # "remove"
  BY <1>2 DEF PortInit, NoByteSleeps
<1> QED
  BY <1>3, <1>4, <1>5 DEF PortInv

\* The interrupts and the main loop keep the invariant.
LEMMA PortStep == PortInv /\ [PortNext]_portVars => PortInv'
<1> SUFFICES ASSUME PortInv, [PortNext]_portVars PROVE PortInv'
  OBVIOUS
<1> USE DEF PortInv, PortTypeOK, NoByteSleeps
<1>1. CASE RxInterrupt
  <2>1. PICK byte \in Byte : rx' = Enqueue(rx, byte)
    BY <1>1, PortAssumption DEF RxInterrupt
  <2>2. /\ rx' \in Queue /\ Length(rx) <= Length(rx)'
        /\ Length(rx) > 0 => Head(Content(rx))' = Head(Content(rx))
    BY <2>1, EnqueueAppends, EnqueueKeepsFirst
  <2>3. Length(rx) \in Nat /\ Length(rx)' \in Nat
    BY <2>2, LengthOfQueue
  <2> QED
    BY <1>1, <2>2, <2>3 DEF RxInterrupt, outVars
<1>2. CASE UdreInterrupt
  <2>1. CASE Length(tx) > 0
    <3>1. tx' \in Queue /\ sent' \in Byte
      BY <1>2, <2>1, RemoveTakes DEF UdreInterrupt
    <3>2. UDRIE0' \in BOOLEAN /\ (UDRIE0' <=> Length(tx)' # 0)
      BY <1>2 DEF UdreInterrupt
    <3>3. Length(tx)' \in Nat
      BY <3>1, LengthOfQueue
    <3>4. UNCHANGED <<rx, todo, got, outgoing, port_pc>>
      BY <1>2 DEF UdreInterrupt, inVars
    <3> QED
      BY <3>1, <3>2, <3>3, <3>4
  <2>2. CASE ~(Length(tx) > 0)
    BY <1>2, <2>2, LengthOfQueue DEF UdreInterrupt, inVars
  <2> QED
    BY <2>1, <2>2
<1>3. CASE TimerInterrupt
  BY <1>3, EnqueueAppends, PortAssumption DEF TimerInterrupt, inVars
<1>4. CASE ProcessBegin
  BY <1>4, LengthOfQueue DEF ProcessBegin, outVars
<1>5. CASE ProcessByte
  <2>1. Length(rx) > 0
    BY <1>5, LengthOfQueue DEF ProcessByte
  <2> QED
    BY <1>5, <2>1, RemoveTakes DEF ProcessByte, outVars
<1>6. CASE RemoveByte
  <2>1. Length(rx) > 0
    BY <1>6, LengthOfQueue DEF RemoveByte
  <2>2. rx' \in Queue /\ Length(rx)' = Length(rx) - 1 /\ Length(rx) \in Nat
    BY <1>6, <2>1, RemoveTakes, LengthOfQueue DEF RemoveByte
  <2> QED
    BY <1>6, <2>1, <2>2 DEF RemoveByte, outVars
<1>7. CASE Refresh
  BY <1>7, PortAssumption DEF Refresh, inVars
<1>8. CASE MidiSend
  <2>1. Head(outgoing) \in Byte /\ Tail(outgoing) \in Seq(Byte)
    BY <1>8 DEF MidiSend
  <2> QED
    BY <1>8, <2>1, EnqueueAppends DEF MidiSend, inVars
<1>9. CASE EnableTransmit
  BY <1>9 DEF EnableTransmit, inVars
<1>10. CASE UNCHANGED portVars
  BY <1>10 DEF portVars, Content, Get, Length
<1> QED
  BY <1>1, <1>2, <1>3, <1>4, <1>5, <1>6, <1>7, <1>8, <1>9, <1>10 DEF PortNext, PortLoop

-----------------------------------------------------------------------------
(* The lines *)

\* What the receive line carries: the byte that is being processed has left it.
InFifo == IF port_pc = "remove" THEN Tail(Content(rx)) ELSE Content(rx)

\* A byte arrives at the end of the receive line, or is dropped when the queue is full.
LEMMA RxPuts == PortInv /\ RxInterrupt => [InLine!Next]_<<InFifo, got>>
<1> SUFFICES ASSUME PortInv, RxInterrupt PROVE [InLine!Next]_<<InFifo, got>>
  OBVIOUS
<1>1. PICK byte \in Byte : rx' = Enqueue(rx, byte)
  BY PortAssumption DEF RxInterrupt
<1>2. rx \in Queue /\ got' = got /\ port_pc' = port_pc
  BY DEF RxInterrupt, PortInv, PortTypeOK
<1>3. CASE Full(rx)
  <2>1. rx' = rx
    BY <1>1, <1>2, <1>3, EnqueueAppends
  <2> QED
    BY <1>2, <2>1 DEF InFifo, Content, Get, Length
<1>4. CASE ~Full(rx)
  <2>1. Content(rx)' = Append(Content(rx), byte)
    BY <1>1, <1>2, <1>4, EnqueueAppends
  <2>2. /\ Content(rx) \in Seq(Byte) /\ Len(Content(rx)) = Length(rx)
        /\ Length(rx) \in Nat /\ Length(rx) < QueueLength - 1
        /\ QueueLength \in Nat
    BY <1>2, <1>4, ContentOfQueue, LengthOfQueue, QueueFields
  <2>3. InFifo' = Append(InFifo, byte) /\ Len(InFifo) < QueueLength
    <3>1. CASE port_pc = "remove"
      <4>1. Length(rx) > 0
        BY <3>1, <1>2, <2>2 DEF PortInv, PortTypeOK
      <4>2. /\ Tail(Append(Content(rx), byte)) = Append(Tail(Content(rx)), byte)
            /\ Len(Tail(Content(rx))) = Length(rx) - 1
        BY <2>2, <4>1
      <4> QED
        BY <3>1, <1>2, <2>1, <2>2, <4>2 DEF InFifo
    <3>2. CASE port_pc # "remove"
      BY <3>2, <1>2, <2>1, <2>2 DEF InFifo
    <3> QED
      BY <3>1, <3>2
  <2> QED
    BY <1>2, <2>3 DEF InLine!Next, InLine!Put, InFifo
<1> QED
  BY <1>3, <1>4

\* The main loop takes the first byte when it processes it, and only then.
LEMMA ProcessTakes == PortInv /\ PortLoop => [InLine!Next]_<<InFifo, got>>
<1> SUFFICES ASSUME PortInv, PortLoop PROVE [InLine!Next]_<<InFifo, got>>
  OBVIOUS
<1>1. CASE ProcessByte
  <2>1. Length(rx) > 0 /\ rx \in Queue
    BY <1>1, LengthOfQueue DEF ProcessByte, PortInv, PortTypeOK
  <2>2. Content(rx)' = Content(rx)
    BY <1>1 DEF ProcessByte, Content, Get, Length
  <2> QED
    BY <1>1, <2>1, <2>2, RemoveTakes DEF ProcessByte, InFifo, InLine!Next, InLine!Take
<1>2. CASE RemoveByte
  <2>1. Length(rx) > 0 /\ rx \in Queue
    BY <1>2, LengthOfQueue DEF RemoveByte, PortInv, PortTypeOK
  <2>2. Content(rx)' = Tail(Content(rx))
    BY <1>2, <2>1, RemoveTakes DEF RemoveByte
  <2> QED
    BY <1>2, <2>2 DEF RemoveByte, InFifo
<1>3. CASE ProcessBegin \/ Refresh \/ MidiSend \/ EnableTransmit
  <2>1. rx' = rx /\ got' = got /\ port_pc # "remove" /\ port_pc' # "remove"
    BY <1>3 DEF ProcessBegin, Refresh, MidiSend, EnableTransmit, inVars
  <2> QED
    BY <2>1 DEF InFifo, Content, Get, Length
<1> QED
  BY <1>1, <1>2, <1>3 DEF PortLoop

\* The receive line promises what ByteLine does.
LEMMA InStep == PortInv /\ [PortNext]_portVars => [InLine!Next]_<<InFifo, got>>
<1> SUFFICES ASSUME PortInv, [PortNext]_portVars PROVE [InLine!Next]_<<InFifo, got>>
  OBVIOUS
<1>1. CASE UdreInterrupt \/ TimerInterrupt \/ UNCHANGED portVars
  <2>1. rx' = rx /\ got' = got /\ port_pc' = port_pc
    BY <1>1 DEF UdreInterrupt, TimerInterrupt, portVars, inVars
  <2> QED
    BY <2>1 DEF InFifo, Content, Get, Length
<1> QED
  BY <1>1, RxPuts, ProcessTakes DEF PortNext

\* A byte that midi_send or the timer interrupt queues goes to the end of the line.
LEMMA SendPuts ==
  ASSUME PortInv, NEW byte \in Byte, tx' = Enqueue(tx, byte), sent' = sent
  PROVE  [OutLine!Next]_<<Content(tx), sent>>
<1>1. tx \in Queue
  BY DEF PortInv, PortTypeOK
<1>2. CASE Full(tx)
  <2>1. tx' = tx
    BY <1>1, <1>2, EnqueueAppends
  <2> QED
    BY <2>1 DEF Content, Get, Length
<1>3. CASE ~Full(tx)
  <2>1. Content(tx)' = Append(Content(tx), byte)
    BY <1>1, <1>3, EnqueueAppends
  <2>2. Len(Content(tx)) < QueueLength
    BY <1>1, ContentOfQueue, LengthOfQueue
  <2> QED
    BY <2>1, <2>2 DEF OutLine!Next, OutLine!Put
<1> QED
  BY <1>2, <1>3

\* The transmit line promises what ByteLine does.
LEMMA OutStep == PortInv /\ [PortNext]_portVars => [OutLine!Next]_<<Content(tx), sent>>
<1> SUFFICES ASSUME PortInv, [PortNext]_portVars PROVE [OutLine!Next]_<<Content(tx), sent>>
  OBVIOUS
<1>1. CASE UdreInterrupt
  <2>1. CASE Length(tx) > 0
    <3>1. Content(tx)' = Tail(Content(tx)) /\ sent' = Head(Content(tx)) /\ Content(tx) # <<>>
      BY <1>1, <2>1, RemoveTakes DEF UdreInterrupt, PortInv, PortTypeOK
    <3> QED
      BY <3>1 DEF OutLine!Next, OutLine!Take
  <2>2. CASE ~(Length(tx) > 0)
    BY <1>1, <2>2 DEF UdreInterrupt, Content, Get, Length
  <2> QED
    BY <2>1, <2>2
<1>2. CASE TimerInterrupt
  BY <1>2, SendPuts, PortAssumption DEF TimerInterrupt
<1>3. CASE MidiSend
  <2>1. Head(outgoing) \in Byte
    BY <1>3 DEF MidiSend, PortInv, PortTypeOK
  <2> QED
    BY <1>3, <2>1, SendPuts DEF MidiSend
<1>4. CASE \/ RxInterrupt \/ ProcessBegin \/ ProcessByte \/ RemoveByte \/ Refresh
           \/ EnableTransmit \/ UNCHANGED portVars
  <2>1. tx' = tx /\ sent' = sent
    BY <1>4 DEF RxInterrupt, ProcessBegin, ProcessByte, RemoveByte, Refresh,
                EnableTransmit, portVars, outVars
  <2> QED
    BY <2>1 DEF Content, Get, Length
<1> QED
  BY <1>1, <1>2, <1>3, <1>4 DEF PortNext, PortLoop

\* midi_device_process never reads an entry that nobody has written, whatever the
\* interrupts put in while it processes its snapshot of the queue.
THEOREM PortTypes == PortSpec => []PortTypeOK
<1>1. PortSpec => []PortInv
  BY PortStart, PortStep, PTL DEF PortSpec
<1> QED
  BY <1>1, PTL DEF PortInv

\* The transmit interrupt never disables itself for good: a byte in the queue finds it
\* enabled, or the loop about to enable it.
THEOREM BytesGetOut == PortSpec => []NoByteSleeps
<1>1. PortSpec => []PortInv
  BY PortStart, PortStep, PTL DEF PortSpec
<1> QED
  BY <1>1, PTL DEF PortInv

\* Whatever interrupts whatever, bytes are processed, and transmitted, once each and in the
\* order in which they were queued.
THEOREM PortKeepsOrder == PortSpec => BytesInOrder
<1>1. PortSpec => []PortInv
  BY PortStart, PortStep, PTL DEF PortSpec
<1>2. PortInit => InLine!Init /\ OutLine!Init
  BY PortStart DEF PortInit, InLine!Init, OutLine!Init
<1>3. PortInv /\ [PortNext]_portVars => [InLine!Next]_<<InFifo, got>>
  BY InStep
<1>4. PortInv /\ [PortNext]_portVars => [OutLine!Next]_<<Content(tx), sent>>
  BY OutStep
<1> QED
  BY <1>1, <1>2, <1>3, <1>4, PTL DEF PortSpec, BytesInOrder, InLine!Spec, OutLine!Spec, InFifo

-----------------------------------------------------------------------------
(* Short sequences *)

\* The second data byte after the first.
LEMMA AppendsOne ==
  ASSUME NEW a, NEW b
  PROVE  Append(<<a>>, b) = <<a, b>> /\ Len(<<a, b>>) = 2
<1> DEFINE S == {a, b}
           s == <<a>>
           u == <<a, b>>
<1>1. s \in Seq(S) /\ u \in Seq(S) /\ b \in S
  OBVIOUS
<1>2. Len(s) = 1 /\ Len(u) = 2 /\ u[1] = s[1] /\ u[2] = b
  OBVIOUS
<1> HIDE DEF s, u, S
<1>3. /\ Append(s, b) \in Seq(S) /\ Len(Append(s, b)) = Len(u)
      /\ Append(s, b)[1] = u[1] /\ Append(s, b)[2] = u[2]
  <2>1. /\ Append(s, b) \in Seq(S) /\ Len(Append(s, b)) = Len(s) + 1
        /\ \A i \in 1..Len(s) : Append(s, b)[i] = s[i]
        /\ Append(s, b)[Len(s) + 1] = b
    BY <1>1, AppendProperties
  <2>2. 1 \in 1..Len(s) /\ Len(s) + 1 = 2 /\ Len(u) = 2
    BY <1>2
  <2> QED
    BY <1>2, <2>1, <2>2
<1>4. \A i \in 1..Len(Append(s, b)) : Append(s, b)[i] = u[i]
  BY <1>2, <1>3
<1>5. Append(s, b) = u
  BY <1>1, <1>3, <1>4, SeqEqual, Zenon
<1> QED
  BY <1>2, <1>5 DEF s, u

\* What a concatenation is, entry by entry.
LEMMA IsConcat ==
  ASSUME NEW S, NEW s \in Seq(S), NEW t \in Seq(S), NEW u \in Seq(S),
         Len(u) = Len(s) + Len(t),
         \A i \in 1..Len(s) : u[i] = s[i], \A i \in 1..Len(t) : u[Len(s) + i] = t[i]
  PROVE  s \o t = u
<1>1. s \o t \in Seq(S) /\ Len(s \o t) = Len(s) + Len(t)
  OBVIOUS
<1>2. ASSUME NEW i \in 1..Len(u) PROVE (s \o t)[i] = u[i]
  <2>1. CASE i <= Len(s)
    BY <2>1
  <2>2. CASE i > Len(s)
    <3>1. i - Len(s) \in 1..Len(t)
      BY <2>2
    <3>2. u[Len(s) + (i - Len(s))] = t[i - Len(s)]
      BY <3>1
    <3> QED
      BY <2>2, <3>1, <3>2
  <2> QED
    BY <2>1, <2>2
<1> QED
  BY <1>1, <1>2, SeqEqual

\* The name and the channel of a callback before one data byte.
LEMMA Join21 ==
  ASSUME NEW a, NEW b, NEW c
  PROVE  <<a, b>> \o <<c>> = <<a, b, c>>
<1> DEFINE S == {a, b, c}
           s == <<a, b>>
           t == <<c>>
           u == <<a, b, c>>
<1>1. s \in Seq(S) /\ t \in Seq(S) /\ u \in Seq(S)
  OBVIOUS
<1>2. /\ Len(s) = 2 /\ Len(t) = 1 /\ Len(u) = 3
      /\ u[1] = s[1] /\ u[2] = s[2] /\ u[3] = t[1]
  OBVIOUS
<1> HIDE DEF s, t, u, S
<1>3. /\ \A i \in 1..Len(s) : u[i] = s[i]
      /\ \A i \in 1..Len(t) : u[Len(s) + i] = t[i]
  BY <1>2
<1>4. s \o t = u
  <2>1. Len(u) = Len(s) + Len(t)
    BY <1>2
  <2> QED
    BY <1>1, <1>3, <2>1, IsConcat, Zenon
<1> QED
  BY <1>4 DEF s, t, u

\* The name and the channel of a callback before two data bytes.
LEMMA Join22 ==
  ASSUME NEW a, NEW b, NEW c, NEW d
  PROVE  <<a, b>> \o <<c, d>> = <<a, b, c, d>>
<1> DEFINE S == {a, b, c, d}
           s == <<a, b>>
           t == <<c, d>>
           u == <<a, b, c, d>>
<1>1. s \in Seq(S) /\ t \in Seq(S) /\ u \in Seq(S)
  OBVIOUS
<1>2. /\ Len(s) = 2 /\ Len(t) = 2 /\ Len(u) = 4
      /\ u[1] = s[1] /\ u[2] = s[2] /\ u[3] = t[1] /\ u[4] = t[2]
  OBVIOUS
<1> HIDE DEF s, t, u, S
<1>3. /\ \A i \in 1..Len(s) : u[i] = s[i]
      /\ \A i \in 1..Len(t) : u[Len(s) + i] = t[i]
  BY <1>2
<1>4. s \o t = u
  <2>1. Len(u) = Len(s) + Len(t)
    BY <1>2
  <2> QED
    BY <1>1, <1>3, <2>1, IsConcat, Zenon
<1> QED
  BY <1>4 DEF s, t, u

-----------------------------------------------------------------------------
(* The parser *)

Devices ==
  [input_state : {"IDLE", "TWO_BYTE_MESSAGE", "THREE_BYTE_MESSAGE", "SYSEX_MESSAGE"},
   input_count : Nat, input_buffer : [0..2 -> 0..255]]

\* What is in the buffer is a message on the way.
Attends(d) ==
  \/ /\ d.input_state = "TWO_BYTE_MESSAGE" /\ PacketLength(d.input_buffer[0]) = 2
     /\ d.input_count = 1
  \/ /\ d.input_state = "THREE_BYTE_MESSAGE" /\ PacketLength(d.input_buffer[0]) = 3
     /\ d.input_count \in {1, 2}

\* What is in the buffer is system exclusive data, which no callback is made for.
Deaf(d) == d.input_buffer[0] < 128 \/ d.input_buffer[0] = SYSEX_BEGIN

\* What a status byte within system exclusive data leaves is dropped within three bytes.
Drops(d) == Deaf(d) /\ d.input_count - (d.input_count % 3) <= MaxSysex + 1

Parses(d) ==
  /\ d \in Devices
  /\ d.input_state = "IDLE" => d.input_count <= MaxSysex + 2
  /\ d.input_state = "SYSEX_MESSAGE" => Deaf(d) /\ d.input_count <= MaxSysex + 1
  /\ d.input_state \in {"TWO_BYTE_MESSAGE", "THREE_BYTE_MESSAGE"} => Attends(d) \/ Drops(d)

\* Following and the data of Heard, of any device.
FollowingOf(d) ==
  IF /\ d.input_state \in {"TWO_BYTE_MESSAGE", "THREE_BYTE_MESSAGE"}
     /\ PacketLength(d.input_buffer[0]) \in {2, 3}
    THEN d.input_buffer[0]
  ELSE IF d.input_state = "SYSEX_MESSAGE" THEN SYSEX_BEGIN ELSE 0

ArgsOf(d) ==
  [i \in 1..(IF FollowingOf(d) \in {0, SYSEX_BEGIN} THEN 0 ELSE d.input_count - 1) |->
     d.input_buffer[i]]

\* Message of Heard.
MessageOf(byte, args) ==
  IF IsRealTime(byte) THEN <<"real_time", byte>>
  ELSE IF Kind(byte) = NOTEON     THEN <<"note_on", Channel(byte)>> \o args
  ELSE IF Kind(byte) = NOTEOFF    THEN <<"note_off", Channel(byte)>> \o args
  ELSE IF Kind(byte) = PROGCHANGE THEN <<"program_change", Channel(byte)>> \o args
  ELSE <<>>

\* Data, system exclusive and system common bytes start no message that is heard; the
\* kind of a status byte tells how long its messages are.
LEMMA PacketKinds ==
  ASSUME NEW byte \in 0..255
  PROVE  /\ PacketLength(byte) \in 0..3
         /\ byte < 128 \/ byte \in {SYSEX_BEGIN, SYSEX_END, TUNEREQUEST} =>
              ~IsRealTime(byte) /\ Kind(byte) \notin {NOTEON, NOTEOFF, PROGCHANGE}
         /\ byte < 128 \/ byte \in {SYSEX_BEGIN, SYSEX_END} => PacketLength(byte) = 0
         /\ Kind(byte) \in {NOTEON, NOTEOFF} => PacketLength(byte) = 3
         /\ Kind(byte) = PROGCHANGE => PacketLength(byte) = 2
         /\ IsRealTime(byte) => PacketLength(byte) = 1
         /\ PacketLength(byte) = 1 => IsRealTime(byte) \/ byte = TUNEREQUEST
<1> USE DEF IsRealTime, CLOCK, NOTEON, NOTEOFF, PROGCHANGE, SYSEX_BEGIN, SYSEX_END, TUNEREQUEST,
            CC, AFTERTOUCH, PITCHBEND, CHANPRESSURE, SONGPOSITION, SONGSELECT, TC_QUARTERFRAME
<1>1. /\ Kind(byte) \in Int /\ Kind(byte) <= byte /\ byte < Kind(byte) + 16
      /\ byte < 128 => Kind(byte) < 128
      /\ byte >= 240 => Kind(byte) = 240
  BY DEF Kind
<1> HIDE DEF Kind
<1> QED
  BY <1>1 DEF PacketLength

\* What a deaf parser has in its buffer starts no message.
LEMMA DeafPacket ==
  ASSUME NEW d \in Devices, Deaf(d)
  PROVE  PacketLength(d.input_buffer[0]) = 0
<1>1. d.input_buffer[0] \in 0..255
  BY DEF Devices
<1> QED
  BY <1>1, PacketKinds DEF Deaf

\* A byte is stored where the count says.
LEMMA StoresAtCount ==
  ASSUME NEW d \in Devices, NEW byte \in 0..255
  PROVE  LET e == Stored(d, byte)
         IN  /\ e \in Devices /\ e.input_state = d.input_state
             /\ e.input_count = d.input_count + 1
             /\ \A i \in 0..2 : e.input_buffer[i] =
                  IF i = d.input_count % 3 THEN byte ELSE d.input_buffer[i]
<1>1. d.input_count % 3 \in 0..2
  BY DEF Devices
<1>2. /\ Stored(d, byte).input_state = d.input_state
      /\ Stored(d, byte).input_count = d.input_count + 1
      /\ Stored(d, byte).input_buffer = [d.input_buffer EXCEPT ![d.input_count % 3] = byte]
  BY DEF Stored, Devices
<1>3. d.input_buffer \in [0..2 -> 0..255] /\ d.input_count + 1 \in Nat
  BY DEF Devices
<1>4. PICK w \in Devices : w = [d EXCEPT !.input_buffer[d.input_count % 3] = byte]
  BY <1>1 DEF Devices
<1>5. Stored(d, byte) \in Devices
  <2>1. Stored(d, byte) = [w EXCEPT !.input_count = d.input_count + 1]
    BY <1>4 DEF Stored, Devices
  <2> QED
    BY <2>1, <1>3 DEF Devices
<1> QED
  BY <1>1, <1>2, <1>3, <1>5

\* Where the parser listens to.
LEMMA FollowsBuffer ==
  ASSUME NEW d, Parses(d)
  PROVE  /\ Attends(d) => /\ FollowingOf(d) = d.input_buffer[0]
                          /\ ArgsOf(d) = IF d.input_count = 1 THEN <<>> ELSE <<d.input_buffer[1]>>
         /\ ~Attends(d) =>
              /\ FollowingOf(d) = IF d.input_state = "SYSEX_MESSAGE" THEN SYSEX_BEGIN ELSE 0
              /\ ArgsOf(d) = <<>>
<1>0. d \in Devices /\ d.input_buffer[0] \in 0..255 /\ d.input_buffer[1] \in 0..255
  BY DEF Parses, Devices
<1>1. CASE Attends(d)
  <2>1. FollowingOf(d) = d.input_buffer[0]
    BY <1>1 DEF FollowingOf, Attends
  <2>2. d.input_buffer[0] \notin {0, SYSEX_BEGIN} /\ d.input_count \in {1, 2}
    BY <1>0, <1>1, PacketKinds DEF Attends, SYSEX_BEGIN
  <2>3. ArgsOf(d) = [i \in 1..(d.input_count - 1) |-> d.input_buffer[i]]
    BY <2>1, <2>2 DEF ArgsOf
  <2>4. CASE d.input_count = 1
    <3>1. ArgsOf(d) = [i \in 1..0 |-> d.input_buffer[i]]
      BY <2>3, <2>4
    <3> QED
      BY <1>1, <2>1, <2>4, <3>1
  <2>5. CASE d.input_count = 2
    <3>1. ArgsOf(d) = [i \in 1..1 |-> d.input_buffer[i]]
      BY <2>3, <2>5
    <3>2. [i \in 1..1 |-> d.input_buffer[i]] = <<d.input_buffer[1]>>
      OBVIOUS
    <3> QED
      BY <1>1, <2>1, <2>5, <3>1, <3>2
  <2> QED
    BY <1>1, <2>1, <2>2, <2>4, <2>5
<1>2. CASE ~Attends(d)
  <2>1. /\ FollowingOf(d) = IF d.input_state = "SYSEX_MESSAGE" THEN SYSEX_BEGIN ELSE 0
    BY <1>0, <1>2, PacketKinds DEF FollowingOf, Parses, Drops, Deaf, SYSEX_BEGIN
  <2>2. ArgsOf(d) = [i \in 1..0 |-> d.input_buffer[i]]
    BY <2>1 DEF ArgsOf
  <2> QED
    BY <1>2, <2>1, <2>2
<1> QED
  BY <1>1, <1>2

\* A real-time byte leaves the parser alone.
LEMMA HearsRealTime ==
  ASSUME NEW d, Parses(d), NEW byte \in 0..255, IsRealTime(byte)
  PROVE  ProcessMidiByte(d, byte) = [device |-> d, heard |-> MessageOf(byte, <<>>)]
BY DEF ProcessMidiByte, RealTimeByte, OneByte, InputCallbacks, MessageOf, Kind, NOTEON, NOTEOFF,
       PROGCHANGE, IsRealTime, CLOCK

\* A status byte begins a message, or ends what was begun; within system exclusive data
\* it leaves the parser deaf.
LEMMA HearsStatus ==
  ASSUME NEW d, Parses(d), NEW byte \in 0..255, IsStatus(byte), ~IsRealTime(byte)
  PROVE  LET r == ProcessMidiByte(d, byte)
         IN  /\ Parses(r.device) /\ r.heard = <<>> /\ ArgsOf(r.device) = <<>>
             /\ \/ FollowingOf(r.device) = IF PacketLength(byte) \in {2, 3} \/ byte = SYSEX_BEGIN
                                          THEN byte ELSE 0
                \/ FollowingOf(d) = SYSEX_BEGIN /\ FollowingOf(r.device) = 0
<1> DEFINE kept == IF d.input_state = "SYSEX_MESSAGE" THEN d
                   ELSE [d EXCEPT !.input_buffer[0] = byte, !.input_count = 1]
           e == ProcessMidiByte(d, byte).device
<1>1. ProcessMidiByte(d, byte) = StatusByte(d, byte)
  BY DEF ProcessMidiByte
<1>2. /\ kept \in Devices
      /\ d.input_state = "SYSEX_MESSAGE" => kept = d /\ Deaf(d) /\ d.input_count <= MaxSysex + 1
      /\ d.input_state # "SYSEX_MESSAGE" => kept.input_buffer[0] = byte /\ kept.input_count = 1
      /\ kept.input_state = d.input_state
  <2>1. CASE d.input_state = "SYSEX_MESSAGE"
    BY <2>1 DEF Parses
  <2>2. CASE d.input_state # "SYSEX_MESSAGE"
    <3>1. PICK w \in Devices : w = [d EXCEPT !.input_buffer[0] = byte]
      BY DEF Devices, Parses
    <3>2. kept = [w EXCEPT !.input_count = 1]
      BY <2>2, <3>1 DEF Devices, Parses
    <3>3. kept \in Devices
      BY <3>1, <3>2 DEF Devices
    <3>4. d \in Devices
      BY DEF Parses
    <3> HIDE DEF kept
    <3> QED
      <4>1. w.input_buffer[0] = byte /\ w.input_state = d.input_state
        BY <3>1, <3>4 DEF Devices
      <4> QED
        BY <2>2, <3>1, <3>2, <3>3, <4>1, ZenonT(60) DEF Devices
  <2> QED
    BY <2>1, <2>2
<1>3. MaxSysex \in Nat
  BY WireAssumption
<1> HIDE DEF kept, e
<1>0. /\ PacketLength(byte) \in 0..3
      /\ byte \in {SYSEX_BEGIN, SYSEX_END} => PacketLength(byte) = 0
      /\ SYSEX_BEGIN # SYSEX_END
  BY PacketKinds DEF SYSEX_BEGIN, SYSEX_END
<1>4. FollowingOf(d) = IF d.input_state = "SYSEX_MESSAGE" THEN SYSEX_BEGIN ELSE FollowingOf(d)
  BY FollowsBuffer DEF Attends
<1>5. CASE PacketLength(byte) = 1
  <2>0. StatusByte(d, byte) = [device |-> [kept EXCEPT !.input_state = "IDLE"],
                                heard |-> OneByte(byte)]
    BY <1>0, <1>5 DEF StatusByte, kept
  <2>1. e = [kept EXCEPT !.input_state = "IDLE"] /\ ProcessMidiByte(d, byte).heard = OneByte(byte)
    BY <1>1, <2>0 DEF e
  <2>2. OneByte(byte) = <<>> /\ byte = TUNEREQUEST
    BY <1>5, PacketKinds DEF OneByte, InputCallbacks, NoCall
  <2>3. e \in Devices /\ e.input_state = "IDLE" /\ e.input_count <= MaxSysex + 2
    BY <1>2, <1>3, <2>1 DEF Devices
  <2>4. Parses(e) /\ ~Attends(e)
    BY <2>3 DEF Parses, Attends
  <2>5. FollowingOf(e) = 0 /\ ArgsOf(e) = <<>>
    BY <2>3, <2>4, FollowsBuffer
  <2> QED
    BY <1>5, <2>1, <2>2, <2>4, <2>5 DEF e, TUNEREQUEST, SYSEX_BEGIN
<1>6. CASE PacketLength(byte) \in {2, 3}
  <2>1. /\ e = [kept EXCEPT !.input_state = IF PacketLength(byte) = 2 THEN "TWO_BYTE_MESSAGE"
                                            ELSE "THREE_BYTE_MESSAGE"]
        /\ ProcessMidiByte(d, byte).heard = <<>>
    <3>1. CASE PacketLength(byte) = 2
      <4>1. StatusByte(d, byte) = [device |-> [kept EXCEPT !.input_state = "TWO_BYTE_MESSAGE"],
                                   heard |-> <<>>]
        BY <1>0, <3>1 DEF StatusByte, kept, NoCall
      <4> QED
        BY <1>1, <3>1, <4>1 DEF e
    <3>2. CASE PacketLength(byte) = 3
      <4>1. StatusByte(d, byte) = [device |-> [kept EXCEPT !.input_state = "THREE_BYTE_MESSAGE"],
                                   heard |-> <<>>]
        BY <1>0, <3>2 DEF StatusByte, kept, NoCall
      <4> QED
        BY <1>1, <3>2, <4>1 DEF e
    <3> QED
      BY <1>6, <3>1, <3>2
  <2>2. /\ e \in Devices /\ e.input_count = kept.input_count /\ e.input_buffer = kept.input_buffer
        /\ e.input_state = IF PacketLength(byte) = 2 THEN "TWO_BYTE_MESSAGE"
                           ELSE "THREE_BYTE_MESSAGE"
    BY <1>2, <2>1 DEF Devices
  <2>3. CASE d.input_state = "SYSEX_MESSAGE"
    <3>1. Deaf(e) /\ e.input_count <= MaxSysex + 1
      BY <1>2, <2>2, <2>3 DEF Deaf
    <3>2. Drops(e)
      BY <1>3, <2>2, <3>1 DEF Drops, Devices
    <3>3. PacketLength(e.input_buffer[0]) = 0
      BY <2>2, <3>1, DeafPacket
    <3>4. Parses(e) /\ ~Attends(e)
      BY <2>2, <3>2, <3>3 DEF Parses, Attends
    <3>5. FollowingOf(e) = 0 /\ ArgsOf(e) = <<>>
      BY <2>2, <3>4, FollowsBuffer
    <3> QED
      BY <1>4, <2>1, <2>3, <3>4, <3>5 DEF e
  <2>4. CASE d.input_state # "SYSEX_MESSAGE"
    <3>1. Attends(e) /\ e.input_count = 1 /\ e.input_buffer[0] = byte
      BY <1>2, <1>6, <2>2, <2>4 DEF Attends
    <3>2. Parses(e)
      BY <2>2, <3>1 DEF Parses
    <3>3. FollowingOf(e) = byte /\ ArgsOf(e) = <<>>
      BY <3>1, <3>2, FollowsBuffer
    <3> QED
      BY <1>6, <2>1, <3>2, <3>3 DEF e
  <2> QED
    BY <2>3, <2>4
<1>7. CASE byte = SYSEX_BEGIN
  <2>1. PacketLength(byte) = 0
    BY <1>7, PacketKinds
  <2>2. PICK w \in Devices : w = [kept EXCEPT !.input_state = "SYSEX_MESSAGE"]
    BY <1>2 DEF Devices
  <2>3. PICK x \in Devices : x = [w EXCEPT !.input_buffer[0] = byte]
    BY DEF Devices
  <2>4. e = [w EXCEPT !.input_buffer[0] = byte, !.input_count = 1]
        /\ ProcessMidiByte(d, byte).heard = <<>>
    <3>1. StatusByte(d, byte) =
            [device |-> [w EXCEPT !.input_buffer[0] = byte, !.input_count = 1], heard |-> <<>>]
      BY <1>0, <1>7, <2>2 DEF StatusByte, kept, NoCall
    <3> QED
      BY <1>1, <3>1 DEF e
  <2>5. e = [x EXCEPT !.input_count = 1]
    <3>1. x = [w EXCEPT !.input_buffer = [w.input_buffer EXCEPT ![0] = byte]]
      BY <2>3
    <3> QED
      BY <2>4, <3>1, Zenon
  <2>6. /\ e \in Devices /\ e.input_count = 1 /\ e.input_buffer[0] = byte
        /\ e.input_state = "SYSEX_MESSAGE"
    <3>1. x.input_buffer[0] = byte /\ x.input_state = "SYSEX_MESSAGE"
      BY <2>2, <2>3 DEF Devices
    <3> QED
      BY <2>3, <2>5, <3>1 DEF Devices
  <2>7. Parses(e) /\ ~Attends(e)
    BY <1>3, <1>7, <2>6 DEF Parses, Attends, Deaf
  <2>8. FollowingOf(e) = byte /\ ArgsOf(e) = <<>>
    BY <1>7, <2>6, <2>7, FollowsBuffer
  <2> QED
    BY <1>7, <2>4, <2>7, <2>8 DEF e
<1>8. CASE byte = SYSEX_END
  <2> DEFINE ended == Stored(kept, byte)
  <2>1. PacketLength(byte) = 0 /\ byte # SYSEX_BEGIN
    BY <1>8, PacketKinds DEF SYSEX_BEGIN, SYSEX_END
  <2>2. /\ e = [ended EXCEPT !.input_state = "IDLE"]
        /\ ProcessMidiByte(d, byte).heard =
             InputCallbacks(ended.input_state, ended.input_count, ended.input_buffer)
    <3>1. StatusByte(d, byte) =
            [device |-> [ended EXCEPT !.input_state = "IDLE"],
             heard |-> InputCallbacks(ended.input_state, ended.input_count, ended.input_buffer)]
      BY <1>0, <1>8 DEF StatusByte, kept
    <3> QED
      BY <1>1, <3>1 DEF e
  <2>3. /\ ended \in Devices /\ ended.input_state = kept.input_state
        /\ ended.input_count = kept.input_count + 1
        /\ kept.input_count = 1 => ended.input_buffer[0] = kept.input_buffer[0]
    <3>1. kept.input_count = 1 => kept.input_count % 3 = 1
      OBVIOUS
    <3>2. /\ ended \in Devices /\ ended.input_state = kept.input_state
          /\ ended.input_count = kept.input_count + 1
          /\ \A i \in 0..2 : ended.input_buffer[i] =
               IF i = kept.input_count % 3 THEN byte ELSE kept.input_buffer[i]
      BY <1>2, StoresAtCount
    <3> HIDE DEF ended
    <3> QED
      BY <3>1, <3>2
  <2> HIDE DEF ended
  <2>4. e \in Devices /\ e.input_state = "IDLE" /\ e.input_count = kept.input_count + 1
    BY <2>2, <2>3 DEF Devices
  <2>5. kept.input_count + 1 <= MaxSysex + 2
    BY <1>2, <1>3 DEF Devices
  <2>6. Parses(e) /\ ~Attends(e)
    BY <2>4, <2>5 DEF Parses, Attends
  <2>7. FollowingOf(e) = 0 /\ ArgsOf(e) = <<>>
    BY <2>4, <2>6, FollowsBuffer
  <2>8. InputCallbacks(ended.input_state, ended.input_count, ended.input_buffer) = <<>>
    <3>1. CASE d.input_state = "SYSEX_MESSAGE"
      BY <1>2, <2>3, <3>1 DEF InputCallbacks, NoCall
    <3>2. CASE d.input_state # "SYSEX_MESSAGE"
      <4>1. ended.input_count = 2 /\ ended.input_buffer[0] = byte
        BY <1>2, <2>3, <3>2
      <4>2. Kind(byte) # PROGCHANGE
        BY <1>8, PacketKinds
      <4> QED
        BY <4>1, <4>2 DEF InputCallbacks, NoCall
    <3> QED
      BY <3>1, <3>2
  <2> QED
    BY <2>1, <2>2, <2>6, <2>7, <2>8 DEF e
<1>9. CASE PacketLength(byte) = 0 /\ byte \notin {SYSEX_BEGIN, SYSEX_END}
  <2>1. PICK w \in Devices : w = [kept EXCEPT !.input_state = "IDLE"]
    BY <1>2 DEF Devices
  <2>2. e = [w EXCEPT !.input_count = 0] /\ ProcessMidiByte(d, byte).heard = <<>>
    <3>1. StatusByte(d, byte) = [device |-> [w EXCEPT !.input_count = 0], heard |-> <<>>]
      BY <1>9, <2>1 DEF StatusByte, kept, NoCall
    <3> QED
      BY <1>1, <3>1 DEF e
  <2>3. e \in Devices /\ e.input_state = "IDLE" /\ e.input_count <= MaxSysex + 2
    <3>1. w.input_state = "IDLE"
      BY <1>2, <2>1 DEF Devices
    <3> QED
      <4>1. e \in Devices /\ e.input_state = w.input_state /\ e.input_count = 0
        BY <2>2 DEF Devices
      <4> QED
        BY <1>3, <3>1, <4>1
  <2>4. Parses(e) /\ ~Attends(e)
    BY <2>3 DEF Parses, Attends
  <2>5. FollowingOf(e) = 0 /\ ArgsOf(e) = <<>>
    BY <2>3, <2>4, FollowsBuffer
  <2> QED
    BY <1>9, <2>2, <2>4, <2>5 DEF e
<1> QED
  BY <1>0, <1>5, <1>6, <1>7, <1>8, <1>9

\* A data byte goes to the message that the last status byte began, and the byte that
\* completes it leads to the callback.
LEMMA HearsData ==
  ASSUME NEW d, Parses(d), NEW byte \in 0..255, ~IsStatus(byte),
         d.input_state = "SYSEX_MESSAGE" => d.input_count <= MaxSysex
  PROVE  LET r     == ProcessMidiByte(d, byte)
             f     == FollowingOf(d)
             size  == IF PacketLength(f) \in {2, 3} THEN PacketLength(f) - 1 ELSE 0
             grown == Append(ArgsOf(d), byte)
         IN  /\ Parses(r.device) /\ FollowingOf(r.device) = f
             /\ ArgsOf(r.device) = IF size = 0 \/ Len(grown) = size THEN <<>> ELSE grown
             /\ r.heard = IF Len(grown) = size THEN MessageOf(f, grown) ELSE <<>>
<1> DEFINE e == ProcessMidiByte(d, byte).device
           g == Stored(d, byte)
           f == FollowingOf(d)
           size == IF PacketLength(f) \in {2, 3} THEN PacketLength(f) - 1 ELSE 0
           grown == Append(ArgsOf(d), byte)
           heardNow == ProcessMidiByte(d, byte).heard
           Goal == /\ Parses(e) /\ FollowingOf(e) = f
                   /\ ArgsOf(e) = IF size = 0 \/ Len(grown) = size THEN <<>> ELSE grown
                   /\ heardNow = IF Len(grown) = size THEN MessageOf(f, grown) ELSE <<>>
<1>1. ProcessMidiByte(d, byte) = DataByte(d, byte) /\ byte < 128
  BY DEF ProcessMidiByte, IsStatus, IsRealTime, CLOCK
<1>2. /\ d \in Devices /\ d.input_buffer[0] \in 0..255 /\ d.input_buffer[1] \in 0..255
      /\ d.input_count \in Nat /\ MaxSysex \in Nat
  BY WireAssumption DEF Parses, Devices
<1>3. /\ g \in Devices /\ g.input_state = d.input_state /\ g.input_count = d.input_count + 1
      /\ \A i \in 0..2 : g.input_buffer[i] =
           IF i = d.input_count % 3 THEN byte ELSE d.input_buffer[i]
  BY <1>2, StoresAtCount
<1>4. PacketLength(0) = 0 /\ PacketLength(SYSEX_BEGIN) = 0
  BY PacketKinds DEF SYSEX_BEGIN
<1>5. \A n \in Nat : n % 3 \in 0..2 /\ (n = 1 => n % 3 = 1) /\ (n = 2 => n % 3 = 2)
  OBVIOUS
<1>6. Len(<<>>) = 0 /\ Append(<<>>, byte) = <<byte>> /\ Len(<<byte>>) = 1
  OBVIOUS
<1> SUFFICES Goal
  OBVIOUS
<1> HIDE DEF e, g, f, size, grown, heardNow
\* Nothing was begun: nothing is heard.
<1>7. CASE ~Attends(d)
  <2>1. /\ f = IF d.input_state = "SYSEX_MESSAGE" THEN SYSEX_BEGIN ELSE 0
        /\ ArgsOf(d) = <<>>
    BY <1>7, FollowsBuffer DEF f
  <2>2. size = 0 /\ Len(grown) = 1
    BY <1>4, <1>6, <2>1 DEF size, grown
  <2>3. CASE d.input_state = "IDLE"
    <3>1. e = d /\ heardNow = <<>>
      BY <1>1, <2>3 DEF DataByte, NoCall, e, heardNow
    <3> QED
      BY <2>1, <2>2, <3>1 DEF f
  <2>4. CASE d.input_state = "SYSEX_MESSAGE"
    <3>1. e = g /\ heardNow = <<>>
      BY <1>1, <2>4 DEF DataByte, NoCall, InputCallbacks, g, e, heardNow
    <3>2. Deaf(e) /\ e.input_count <= MaxSysex + 1
      BY <1>1, <1>2, <1>3, <1>5, <2>4, <3>1 DEF Parses, Deaf
    <3>3. Parses(e) /\ ~Attends(e)
      BY <1>3, <2>4, <3>1, <3>2 DEF Parses, Attends
    <3>4. FollowingOf(e) = SYSEX_BEGIN /\ ArgsOf(e) = <<>>
      BY <1>3, <2>4, <3>1, <3>3, FollowsBuffer
    <3> QED
      BY <2>1, <2>2, <2>4, <3>1, <3>3, <3>4
  <2>5. CASE d.input_state \in {"TWO_BYTE_MESSAGE", "THREE_BYTE_MESSAGE"}
    <3>1. Drops(d)
      BY <1>7, <2>5 DEF Parses
    <3>2. g.input_buffer[0] \in 0..255 /\ Deaf(g)
      <4>1. g.input_buffer[0] \in {byte, d.input_buffer[0]}
        BY <1>3
      <4> QED
        BY <1>1, <1>2, <3>1, <4>1 DEF Drops, Deaf
    <3>3. InputCallbacks(d.input_state, g.input_count, g.input_buffer) = <<>>
      BY <3>2, PacketKinds DEF Deaf, InputCallbacks, NoCall
    <3>4. \/ e = g /\ d.input_count % 3 # 2
          \/ e = [g EXCEPT !.input_count = 1]
      BY <1>1, <2>5 DEF DataByte, g, e
    <3>5. heardNow = <<>>
      BY <1>1, <2>5, <3>3 DEF DataByte, NoCall, g, heardNow
    <3>6. e \in Devices /\ e.input_state = d.input_state /\ Deaf(e)
      BY <1>3, <3>2, <3>4 DEF Devices, Deaf
    <3>7. Drops(e)
      <4>1. CASE e = g /\ d.input_count % 3 # 2
        BY <1>2, <1>3, <3>1, <3>2, <4>1 DEF Drops
      <4>2. CASE e = [g EXCEPT !.input_count = 1]
        <5>1. e.input_count = 1
          BY <1>3, <4>2 DEF Devices
        <5> QED
          BY <1>2, <3>6, <5>1 DEF Drops
      <4> QED
        BY <3>4, <4>1, <4>2
    <3>8. Parses(e) /\ ~Attends(e)
      <4>1. PacketLength(e.input_buffer[0]) = 0
        BY <3>6, DeafPacket
      <4> QED
        BY <2>5, <3>6, <3>7, <4>1 DEF Parses, Attends
    <3>9. FollowingOf(e) = 0 /\ ArgsOf(e) = <<>>
      BY <2>5, <3>6, <3>8, FollowsBuffer
    <3> QED
      BY <2>1, <2>2, <2>5, <3>5, <3>8, <3>9
  <2> QED
    BY <1>2, <2>3, <2>4, <2>5 DEF Devices
\* The byte that completes a message.
<1>8. CASE /\ Attends(d)
           /\ d.input_state = "TWO_BYTE_MESSAGE" \/ d.input_count = 2
  <2>1. /\ d.input_state = "TWO_BYTE_MESSAGE" => d.input_count = 1 /\ PacketLength(f) = 2
        /\ d.input_state # "TWO_BYTE_MESSAGE" =>
             /\ d.input_state = "THREE_BYTE_MESSAGE"
             /\ d.input_count = 2 /\ PacketLength(f) = 3
        /\ f = d.input_buffer[0]
        /\ ArgsOf(d) = IF d.input_count = 1 THEN <<>> ELSE <<d.input_buffer[1]>>
    BY <1>8, FollowsBuffer DEF Attends, f
  <2>2. /\ e = [g EXCEPT !.input_count = 1]
        /\ heardNow = InputCallbacks(d.input_state, g.input_count, g.input_buffer)
    BY <1>1, <1>5, <1>2, <2>1 DEF DataByte, g, e, heardNow
  <2>3. /\ e \in Devices /\ e.input_count = 1 /\ e.input_state = d.input_state
        /\ e.input_buffer = g.input_buffer
    BY <1>3, <2>2 DEF Devices
  <2>4. g.input_buffer[0] = f
    BY <1>2, <1>3, <1>5, <2>1
  <2>5. size = Len(grown) /\ size > 0
        /\ grown = IF d.input_count = 1 THEN <<byte>> ELSE <<d.input_buffer[1], byte>>
    <3>1. CASE d.input_count = 1
      BY <1>6, <2>1, <3>1 DEF size, grown
    <3>2. CASE d.input_count # 1
      <4>1. size = 2 /\ ArgsOf(d) = <<d.input_buffer[1]>>
        BY <2>1, <3>2 DEF size
      <4> QED
        <5>1. /\ Append(<<d.input_buffer[1]>>, byte) = <<d.input_buffer[1], byte>>
              /\ Len(<<d.input_buffer[1], byte>>) = 2
          BY AppendsOne
        <5> QED
          BY <3>2, <4>1, <5>1 DEF grown
    <3> QED
      BY <3>1, <3>2
  <2>6. heardNow = MessageOf(f, grown)
    <3>1. f \in 0..255 /\ PacketLength(f) # 1
      BY <1>2, <2>1
    <3>2. /\ ~IsRealTime(f)
          /\ Kind(f) \in {NOTEON, NOTEOFF} => PacketLength(f) = 3
          /\ Kind(f) = PROGCHANGE => PacketLength(f) = 2
      BY <3>1, PacketKinds
    <3>3. CASE d.input_state = "TWO_BYTE_MESSAGE"
      <4>1. g.input_count = 2 /\ g.input_buffer[1] = byte
        BY <1>3, <1>5, <2>1, <3>3
      <4>2. heardNow = IF Kind(f) = PROGCHANGE THEN <<"program_change", Channel(f), byte>> ELSE <<>>
        BY <2>2, <2>4, <3>3, <4>1 DEF InputCallbacks, NoCall
      <4>3. MessageOf(f, grown) =
              IF Kind(f) = PROGCHANGE THEN <<"program_change", Channel(f)>> \o grown ELSE <<>>
        BY <2>1, <3>2, <3>3 DEF MessageOf
      <4>4. <<"program_change", Channel(f)>> \o <<byte>> = <<"program_change", Channel(f), byte>>
        BY Join21
      <4> QED
        BY <2>1, <2>5, <3>3, <4>2, <4>3, <4>4
    <3>4. CASE d.input_state # "TWO_BYTE_MESSAGE"
      <4>1. g.input_count = 3 /\ g.input_buffer[1] = d.input_buffer[1] /\ g.input_buffer[2] = byte
        BY <1>3, <1>5, <2>1, <3>4
      <4>2. heardNow = IF Kind(f) = NOTEON
                         THEN <<"note_on", Channel(f), d.input_buffer[1], byte>>
                       ELSE IF Kind(f) = NOTEOFF
                         THEN <<"note_off", Channel(f), d.input_buffer[1], byte>>
                       ELSE <<>>
        BY <2>1, <2>2, <2>4, <3>4, <4>1 DEF InputCallbacks, NoCall
      <4>3. MessageOf(f, grown) =
              IF Kind(f) = NOTEON THEN <<"note_on", Channel(f)>> \o grown
              ELSE IF Kind(f) = NOTEOFF THEN <<"note_off", Channel(f)>> \o grown
              ELSE <<>>
        BY <2>1, <3>2, <3>4 DEF MessageOf
      <4>4. /\ <<"note_on", Channel(f)>> \o <<d.input_buffer[1], byte>> =
                  <<"note_on", Channel(f), d.input_buffer[1], byte>>
            /\ <<"note_off", Channel(f)>> \o <<d.input_buffer[1], byte>> =
                  <<"note_off", Channel(f), d.input_buffer[1], byte>>
        BY Join22
      <4> QED
        <5>1. grown = <<d.input_buffer[1], byte>>
          BY <2>1, <2>5, <3>4
        <5> QED
          BY <4>2, <4>3, <4>4, <5>1, Zenon
    <3> QED
      BY <3>3, <3>4
  <2>7. Attends(e)
    BY <2>1, <2>3, <2>4 DEF Attends
  <2>8. Parses(e)
    BY <2>3, <2>7 DEF Parses, Attends
  <2>9. FollowingOf(e) = f /\ ArgsOf(e) = <<>>
    BY <2>3, <2>4, <2>7, <2>8, FollowsBuffer
  <2> QED
    BY <2>5, <2>6, <2>8, <2>9
\* The first of two.
<1>9. CASE /\ Attends(d)
           /\ d.input_state = "THREE_BYTE_MESSAGE" /\ d.input_count = 1
  <2>1. /\ f = d.input_buffer[0] /\ PacketLength(f) = 3 /\ ArgsOf(d) = <<>>
    BY <1>9, FollowsBuffer DEF Attends, f
  <2>2. e = g /\ heardNow = <<>>
    BY <1>1, <1>2, <1>5, <1>9 DEF DataByte, NoCall, g, e, heardNow
  <2>3. e.input_buffer[0] = f /\ e.input_buffer[1] = byte /\ e.input_count = 2
    BY <1>3, <1>5, <1>9, <2>1, <2>2
  <2>4. Attends(e)
    BY <1>3, <1>9, <2>1, <2>2, <2>3 DEF Attends
  <2>5. Parses(e)
    BY <1>3, <2>2, <2>4 DEF Parses, Attends
  <2>6. FollowingOf(e) = f /\ ArgsOf(e) = <<byte>>
    BY <2>3, <2>4, <2>5, FollowsBuffer
  <2> QED
    <3>1. size = 2 /\ grown = <<byte>> /\ Len(grown) = 1
      BY <1>6, <2>1 DEF size, grown
    <3> QED
      BY <2>2, <2>5, <2>6, <3>1
<1> QED
  BY <1>7, <1>8, <1>9 DEF Attends

ParserInv == Parses(device) /\ Len(heard) \in {0, 2, 3, 4}

\* The data of Heard.
Args ==
  [i \in 1..(IF Following \in {0, SYSEX_BEGIN} THEN 0 ELSE device.input_count - 1) |->
     device.input_buffer[i]]

\* Every byte is heard as MidiStream says.
LEMMA HearsByte ==
  ASSUME Parses(device), NEW byte \in Wire, Parse(byte)
  PROVE  /\ Parses(device')
         /\ Heard!RealTime(byte) \/ Heard!Status(byte) \/ Heard!Data(byte)
<1>1. byte \in 0..255
  BY WireAssumption
<1>2. /\ Following = FollowingOf(device) /\ Following' = FollowingOf(device')
  BY DEF Following, FollowingOf
<1>3. Args = ArgsOf(device) /\ Args' = ArgsOf(device')
  BY <1>2 DEF Args, ArgsOf
<1>4. device' = ProcessMidiByte(device, byte).device /\ heard' = ProcessMidiByte(device, byte).heard
  BY DEF Parse
<1>5. CASE IsRealTime(byte)
  <2>1. ProcessMidiByte(device, byte) = [device |-> device, heard |-> MessageOf(byte, <<>>)]
    BY <1>1, <1>5, HearsRealTime
  <2>2. device' = device /\ heard' = MessageOf(byte, <<>>)
    BY <1>4, <2>1
  <2>3. Heard!RealTime(byte)
    BY <1>5, <2>2 DEF Heard!RealTime, MessageOf, Following
  <2> QED
    BY <2>2, <2>3
<1>6. CASE IsStatus(byte) /\ ~IsRealTime(byte)
  <2>1. /\ Parses(device') /\ heard' = <<>> /\ Args' = <<>>
        /\ \/ Following' = IF PacketLength(byte) \in {2, 3} \/ byte = SYSEX_BEGIN THEN byte ELSE 0
           \/ Following = SYSEX_BEGIN /\ Following' = 0
    BY <1>1, <1>2, <1>3, <1>4, <1>6, HearsStatus
  <2>2. PacketLength(byte) \in {2, 3} <=>
          (IF PacketLength(byte) \in {2, 3} THEN PacketLength(byte) - 1 ELSE 0) > 0
    OBVIOUS
  <2>3. Heard!Status(byte)
    BY <1>6, <2>1, <2>2 DEF Heard!Status, Args
  <2> QED
    BY <2>1, <2>3
<1>7. CASE ~IsStatus(byte)
  <2> DEFINE size  == IF PacketLength(Following) \in {2, 3} THEN PacketLength(Following) - 1 ELSE 0
             grown == Append(Args, byte)
  <2>1. device.input_state = "SYSEX_MESSAGE" => device.input_count <= MaxSysex
    BY <1>7 DEF Parse
  <2>2. /\ Parses(device') /\ Following' = Following
        /\ Args' = IF size = 0 \/ Len(grown) = size THEN <<>> ELSE grown
        /\ heard' = IF Len(grown) = size THEN MessageOf(Following, grown) ELSE <<>>
    BY <1>1, <1>2, <1>3, <1>4, <1>7, <2>1, HearsData
  <2>3. Heard!Data(byte)
    BY <1>7, <2>2, ZenonT(60) DEF Heard!Data, Args, MessageOf
  <2> QED
    BY <2>2, <2>3
<1> QED
  BY <1>5, <1>6, <1>7

\* A callback has one, two or three arguments.
LEMMA CallbackSizes ==
  ASSUME NEW state, NEW n, NEW b
  PROVE  Len(InputCallbacks(state, n, b)) \in {0, 2, 3, 4}
BY DEF InputCallbacks, NoCall

\* Whatever the byte, it leads to one callback at most.
LEMMA OneCallback ==
  ASSUME NEW d, NEW byte
  PROVE  Len(ProcessMidiByte(d, byte).heard) \in {0, 2, 3, 4}
<1>1. Len(OneByte(byte)) \in {0, 2, 3, 4} /\ Len(NoCall) = 0
  BY CallbackSizes DEF OneByte, NoCall
<1>2. Len(DataByte(d, byte).heard) \in {0, 2, 3, 4}
  BY <1>1, CallbackSizes DEF DataByte
<1>3. Len(StatusByte(d, byte).heard) \in {0, 2, 3, 4}
  BY <1>1, CallbackSizes DEF StatusByte
<1>4. Len(RealTimeByte(d, byte).heard) \in {0, 2, 3, 4}
  BY <1>1 DEF RealTimeByte
<1> QED
  BY <1>2, <1>3, <1>4 DEF ProcessMidiByte

\* The parser starts idle.
LEMMA ParserStart == ParserInit => ParserInv /\ Heard!Init
<1> SUFFICES ASSUME ParserInit PROVE ParserInv /\ Heard!Init
  OBVIOUS
<1>1. /\ device.input_state = "IDLE" /\ device.input_count = 0 /\ device \in Devices
      /\ heard = <<>>
  BY DEF ParserInit, Devices, NoCall
<1>2. ParserInv /\ ~Attends(device)
  BY <1>1, WireAssumption DEF ParserInv, Parses, Attends
<1>3. Following = 0 /\ Args = <<>>
  <2>1. Following = FollowingOf(device)
    BY DEF Following, FollowingOf
  <2>2. Args = ArgsOf(device)
    BY <2>1 DEF Args, ArgsOf
  <2> QED
    BY <1>1, <1>2, <2>1, <2>2, FollowsBuffer DEF ParserInv
<1> QED
  BY <1>1, <1>2, <1>3 DEF Heard!Init, Args

\* Every step of the parser is one of MidiStream.
LEMMA ParserStep ==
  ParserInv /\ [ParserNext]_parserVars => ParserInv' /\ [Heard!Next]_<<Following, Args, heard>>
<1> SUFFICES ASSUME ParserInv, [ParserNext]_parserVars
             PROVE  ParserInv' /\ [Heard!Next]_<<Following, Args, heard>>
  OBVIOUS
<1>1. CASE ParserNext
  <2>1. PICK byte \in Wire : Parse(byte)
    BY <1>1 DEF ParserNext
  <2>2. Parses(device') /\ Heard!Next
    BY <2>1, HearsByte DEF ParserInv, Heard!Next
  <2>3. Len(heard') \in {0, 2, 3, 4}
    BY <2>1, OneCallback DEF Parse
  <2> QED
    BY <2>2, <2>3 DEF ParserInv
<1>2. CASE UNCHANGED parserVars
  BY <1>2 DEF parserVars, ParserInv, Following, Args
<1> QED
  BY <1>1, <1>2

\* The invariant has the types.
LEMMA ParserFits == ParserInv => ParserTypeOK
<1> SUFFICES ASSUME ParserInv PROVE ParserTypeOK
  OBVIOUS
<1>1. device \in Devices /\ device.input_count \in Nat /\ MaxSysex \in Nat
  BY WireAssumption DEF ParserInv, Parses, Devices
<1>2. device.input_count <= MaxSysex + 4
  <2>1. Attends(device) => device.input_count <= 2
    BY DEF Attends
  <2>2. Drops(device) => device.input_count <= MaxSysex + 3
    BY <1>1 DEF Drops
  <2> QED
    BY <1>1, <2>1, <2>2 DEF ParserInv, Parses, Devices
<1> QED
  BY <1>1, <1>2 DEF ParserInv, ParserTypeOK, Devices

\* The index into the buffer of three bytes, and the counter, keep their ranges.
THEOREM ParserTypes == ParserSpec => []ParserTypeOK
BY ParserStart, ParserStep, ParserFits, PTL DEF ParserSpec

\* The parser hears the messages on the wire and no others, whatever bytes arrive: running
\* status and real-time bytes within messages included.
THEOREM ParserHearsTheWire == ParserSpec => HearsTheWire
<1>1. ParserSpec => []ParserInv
  BY ParserStart, ParserStep, PTL DEF ParserSpec
<1> QED
  BY <1>1, ParserStart, ParserStep, PTL DEF ParserSpec, HearsTheWire, Heard!Spec, Args

-----------------------------------------------------------------------------
(* System exclusive data: groups of seven bytes *)

\* A quotient and a remainder are found again in what they make up.
LEMMA Divided ==
  ASSUME NEW q \in Nat
  PROVE  /\ \A r \in 0..6 : (7 * q + r) \div 7 = q /\ (7 * q + r) % 7 = r
         /\ \A r \in 0..7 : (8 * q + r) \div 8 = q /\ (8 * q + r) % 8 = r
<1>1. ASSUME NEW r \in 0..6
      PROVE  (7 * q + r) \div 7 = q /\ (7 * q + r) % 7 = r
  BY Z3
<1>2. ASSUME NEW r \in 0..7
      PROVE  (8 * q + r) \div 8 = q /\ (8 * q + r) % 8 = r
  BY Z3
<1> QED
  BY <1>1, <1>2

\* A number is made up of its quotient and its remainder by seven.
LEMMA GroupAndPlace ==
  ASSUME NEW n \in Nat
  PROVE  \E q \in Nat, r \in 0..6 : n = 7 * q + r /\ n \div 7 = q /\ n % 7 = r
<1>1. n \div 7 \in Nat /\ n % 7 \in 0..6 /\ n = 7 * (n \div 7) + (n % 7)
  OBVIOUS
<1> QED
  BY <1>1

\* What n bytes are encoded in is the length of n bytes when it is decoded; it is shorter
\* than two for no bytes only, and the group and the place of every byte are in it.
LEMMA CodeLengths ==
  ASSUME NEW n \in Nat
  PROVE  /\ sysex_encoded_length(n) \in Nat
         /\ sysex_decoded_length(sysex_encoded_length(n)) = n
         /\ sysex_encoded_length(n) < 2 <=> n = 0
         /\ \A q \in Nat, r \in 0..6 :
              7 * q + r < n => 8 * q + r + 2 <= sysex_encoded_length(n)
<1>1. PICK q \in Nat, r \in 0..6 : n = 7 * q + r /\ n \div 7 = q /\ n % 7 = r
  BY GroupAndPlace
<1>2. sysex_encoded_length(n) = 8 * q + (IF r = 0 THEN 0 ELSE r + 1)
  BY <1>1 DEF sysex_encoded_length
<1>3. PICK s \in 0..7 : s = IF r = 0 THEN 0 ELSE r + 1
  OBVIOUS
<1>4. /\ sysex_encoded_length(n) \div 8 = q
      /\ sysex_encoded_length(n) % 8 = s
  BY <1>2, <1>3, Divided
<1>5. sysex_decoded_length(sysex_encoded_length(n)) = n
  BY <1>1, <1>3, <1>4 DEF sysex_decoded_length
<1>6. ASSUME NEW g \in Nat, NEW p \in 0..6, 7 * g + p < n
      PROVE  8 * g + p + 2 <= sysex_encoded_length(n)
  <2>1. g <= q
    BY <1>1, <1>6
  <2>2. CASE g = q
    BY <1>1, <1>2, <1>6, <2>2
  <2>3. CASE g < q
    BY <1>2, <2>3
  <2> QED
    BY <2>1, <2>2, <2>3
<1> QED
  BY <1>1, <1>2, <1>5, <1>6

\* A byte is its high bit and the seven others.
LEMMA TwoParts ==
  ASSUME NEW byte \in 0..255
  PROVE  /\ High(byte) \in {0, 1}
         /\ Low(byte) \in 0..127
         /\ Low(Low(byte)) = Low(byte)
         /\ Low(byte) + 128 * High(byte) = byte
BY DEF High, Low

\* The first byte of a group has seven bits, and holds the high bit of every byte of it.
LEMMA FirstByte ==
  ASSUME NEW bytes \in Seq(0..255), NEW start \in Nat, NEW n \in 0..7,
         start + n <= Len(bytes)
  PROVE  /\ HighBits(bytes, start, n) \in 0..127
         /\ \A j \in 0..6 :
              j < n => (HighBits(bytes, start, n) \div BitAt(j)) % 2 = High(bytes[start + j + 1])
<1> DEFINE b(j) == IF j < n THEN High(bytes[start + j + 1]) ELSE 0
           x    == HighBits(bytes, start, n)
<1>1. ASSUME NEW j \in 0..6
      PROVE  b(j) \in {0, 1}
  <2>1. CASE j < n
    <3>1. start + j + 1 \in 1..Len(bytes)
      BY <2>1
    <3>2. bytes[start + j + 1] \in 0..255
      BY <3>1, ElementOfSeq
    <3> QED
      BY <2>1, <3>2, TwoParts
  <2> QED
    BY <2>1
<1>2. PICK b0 \in {0, 1}, b1 \in {0, 1}, b2 \in {0, 1}, b3 \in {0, 1},
           b4 \in {0, 1}, b5 \in {0, 1}, b6 \in {0, 1} :
        /\ b0 = b(0) /\ b1 = b(1) /\ b2 = b(2) /\ b3 = b(3)
        /\ b4 = b(4) /\ b5 = b(5) /\ b6 = b(6)
  <2> HIDE DEF b
  <2>1. /\ b(0) \in {0, 1} /\ b(1) \in {0, 1} /\ b(2) \in {0, 1} /\ b(3) \in {0, 1}
        /\ b(4) \in {0, 1} /\ b(5) \in {0, 1} /\ b(6) \in {0, 1}
    <3>1. \A j \in 0..6 : b(j) \in {0, 1}
      BY <1>1
    <3>2. /\ 0 \in 0..6 /\ 1 \in 0..6 /\ 2 \in 0..6 /\ 3 \in 0..6
          /\ 4 \in 0..6 /\ 5 \in 0..6 /\ 6 \in 0..6
      OBVIOUS
    <3> QED
      BY <3>1, <3>2, Zenon
  <2> QED
    BY <2>1, ZenonT(30)
<1>3. /\ BitAt(0) = 64 /\ BitAt(1) = 32 /\ BitAt(2) = 16 /\ BitAt(3) = 8
      /\ BitAt(4) = 4 /\ BitAt(5) = 2 /\ BitAt(6) = 1
  BY DEF BitAt
<1>4. x = 64 * b(0) + 32 * b(1) + 16 * b(2) + 8 * b(3) + 4 * b(4) + 2 * b(5) + 1 * b(6)
  BY <1>3 DEF HighBits
<1>5. x = 64 * b0 + 32 * b1 + 16 * b2 + 8 * b3 + 4 * b4 + 2 * b5 + 1 * b6
  <2> HIDE DEF b, x
  <2> QED
    BY <1>2, <1>4
<1> HIDE DEF x
<1>6. /\ x \in 0..127
      /\ (x \div 64) % 2 = b0 /\ (x \div 32) % 2 = b1 /\ (x \div 16) % 2 = b2
      /\ (x \div 8) % 2 = b3 /\ (x \div 4) % 2 = b4 /\ (x \div 2) % 2 = b5
      /\ (x \div 1) % 2 = b6
  <2> HIDE DEF b
  <2> QED
    BY <1>5
<1>7. ASSUME NEW j \in 0..6
      PROVE  (x \div BitAt(j)) % 2 = b(j)
  <2> HIDE DEF b
  <2>1. j \in {0, 1, 2, 3, 4, 5, 6}
    OBVIOUS
  <2>2. CASE j = 0
    BY <2>2, <1>2, <1>3, <1>6, Zenon
  <2>3. CASE j = 1
    BY <2>3, <1>2, <1>3, <1>6, Zenon
  <2>4. CASE j = 2
    BY <2>4, <1>2, <1>3, <1>6, Zenon
  <2>5. CASE j = 3
    BY <2>5, <1>2, <1>3, <1>6, Zenon
  <2>6. CASE j = 4
    BY <2>6, <1>2, <1>3, <1>6, Zenon
  <2>7. CASE j = 5
    BY <2>7, <1>2, <1>3, <1>6, Zenon
  <2>8. CASE j = 6
    BY <2>8, <1>2, <1>3, <1>6, Zenon
  <2> QED
    BY <2>1, <2>2, <2>3, <2>4, <2>5, <2>6, <2>7, <2>8, Zenon
<1> QED
  BY <1>6, <1>7 DEF x

\* The encoding of some bytes: seven-bit bytes, one for the high bits of each group and
\* one for each byte.
LEMMA Encoded ==
  ASSUME NEW bytes \in Seq(0..255)
  PROVE  /\ Len(sysex_encode(bytes)) = sysex_encoded_length(Len(bytes))
         /\ DOMAIN sysex_encode(bytes) = 1..sysex_encoded_length(Len(bytes))
         /\ \A k \in DOMAIN sysex_encode(bytes) : sysex_encode(bytes)[k] \in 0..127
         /\ \A q \in Nat, r \in 0..6 : 7 * q + r < Len(bytes) =>
              /\ sysex_encode(bytes)[8 * q + r + 2] = Low(bytes[7 * q + r + 1])
              /\ (sysex_encode(bytes)[8 * q + 1] \div BitAt(r)) % 2 = High(bytes[7 * q + r + 1])
<1> DEFINE first(q) == HighBits(bytes, q * 7, Least(7, Len(bytes) - q * 7))
           Code(k)  == IF (k - 1) % 8 = 0 THEN first((k - 1) \div 8)
                       ELSE Low(bytes[((k - 1) \div 8) * 7 + ((k - 1) % 8)])
<1>1. PICK n \in Nat : n = Len(bytes)
  OBVIOUS
<1>2. PICK E \in Nat : E = sysex_encoded_length(n)
  BY CodeLengths
<1>3. sysex_encode(bytes) = [k \in 1..E |-> Code(k)]
  BY <1>1, <1>2 DEF sysex_encode
<1>4. Len(sysex_encode(bytes)) = E /\ DOMAIN sysex_encode(bytes) = 1..E
  <2> HIDE DEF Code
  <2> QED
    BY <1>3
\* The bytes of a group, and what they are made of.
<1>5. ASSUME NEW q \in Nat, 7 * q < n
      PROVE  /\ first(q) \in 0..127
             /\ \A r \in 0..6 :
                  7 * q + r < n => (first(q) \div BitAt(r)) % 2 = High(bytes[7 * q + r + 1])
  <2>1. PICK start \in Nat : start = q * 7 /\ start = 7 * q
    OBVIOUS
  <2>2. PICK m \in 0..7 : m = Least(7, n - start) /\ m = IF 7 < n - start THEN 7 ELSE n - start
    BY <1>5, <2>1 DEF Least
  <2>3. start + m <= Len(bytes)
    BY <1>1, <2>1, <2>2
  <2>4. /\ HighBits(bytes, start, m) \in 0..127
        /\ \A r \in 0..6 :
             r < m => (HighBits(bytes, start, m) \div BitAt(r)) % 2 = High(bytes[start + r + 1])
    BY <2>3, FirstByte
  <2>5. first(q) = HighBits(bytes, start, m)
    BY <1>1, <2>1, <2>2
  <2>6. \A r \in 0..6 : 7 * q + r < n => r < m
    BY <2>1, <2>2
  <2> QED
    BY <2>1, <2>4, <2>5, <2>6
<1>6. ASSUME NEW q \in Nat, NEW r \in 0..6, 7 * q + r < n
      PROVE  /\ sysex_encode(bytes)[8 * q + r + 2] = Low(bytes[7 * q + r + 1])
             /\ (sysex_encode(bytes)[8 * q + 1] \div BitAt(r)) % 2 = High(bytes[7 * q + r + 1])
  <2>1. 8 * q + r + 2 \in 1..E /\ 8 * q + 1 \in 1..E
    <3>1. 8 * q + r + 2 <= E
      BY <1>2, <1>6, CodeLengths
    <3> QED
      BY <3>1
  <2>2. sysex_encode(bytes)[8 * q + r + 2] = Low(bytes[7 * q + r + 1])
    <3>1. sysex_encode(bytes)[8 * q + r + 2] = Code(8 * q + r + 2)
      <4> HIDE DEF Code
      <4> QED
        BY <1>3, <2>1
    <3>2. /\ ((8 * q + r + 2) - 1) \div 8 = q
          /\ ((8 * q + r + 2) - 1) % 8 = r + 1
          /\ r + 1 # 0
          /\ q * 7 + (r + 1) = 7 * q + r + 1
      OBVIOUS
    <3> QED
      BY <3>1, <3>2
  <2>3. sysex_encode(bytes)[8 * q + 1] = first(q)
    <3>1. sysex_encode(bytes)[8 * q + 1] = Code(8 * q + 1)
      <4> HIDE DEF Code
      <4> QED
        BY <1>3, <2>1
    <3>2. ((8 * q + 1) - 1) \div 8 = q /\ ((8 * q + 1) - 1) % 8 = 0
      OBVIOUS
    <3> QED
      BY <3>1, <3>2
  <2>4. 7 * q < n
    BY <1>6
  <2> HIDE DEF first
  <2> QED
    BY <1>5, <1>6, <2>2, <2>3, <2>4
<1>7. ASSUME NEW k \in 1..E
      PROVE  sysex_encode(bytes)[k] \in 0..127
  <2>1. PICK q \in Nat, s \in 0..7 :
             k = 8 * q + s + 1 /\ (k - 1) \div 8 = q /\ (k - 1) % 8 = s
    <3>1. /\ (k - 1) \div 8 \in Nat
          /\ (k - 1) % 8 \in 0..7
          /\ k = 8 * ((k - 1) \div 8) + ((k - 1) % 8) + 1
      OBVIOUS
    <3> QED
      BY <3>1
  <2>2. 7 * q < n /\ (s # 0 => 7 * q + (s - 1) < n)
    <3>1. PICK p \in Nat, r \in 0..6 : n = 7 * p + r /\ n \div 7 = p /\ n % 7 = r
      BY GroupAndPlace
    <3>2. E = 8 * p + (IF r = 0 THEN 0 ELSE r + 1)
      BY <1>2, <3>1 DEF sysex_encoded_length
    <3>3. CASE q = p
      BY <2>1, <3>1, <3>2, <3>3
    <3>4. CASE q < p
      BY <2>1, <3>1, <3>4
    <3>5. ~ (q > p)
      BY <2>1, <3>1, <3>2
    <3> QED
      BY <3>3, <3>4, <3>5
  <2>3. CASE s = 0
    <3>1. sysex_encode(bytes)[k] = first(q)
      BY <1>3, <2>1, <2>3
    <3> HIDE DEF first
    <3> QED
      BY <1>5, <2>2, <3>1
  <2>4. CASE s # 0
    <3>1. s - 1 \in 0..6 /\ k = 8 * q + (s - 1) + 2
      BY <2>1, <2>4
    <3>2. sysex_encode(bytes)[k] = Low(bytes[7 * q + (s - 1) + 1])
      <4> HIDE DEF first
      <4> QED
        BY <1>6, <2>2, <2>4, <3>1
    <3>3. 7 * q + (s - 1) + 1 \in 1..n
      BY <2>2, <2>4, <3>1
    <3>4. bytes[7 * q + (s - 1) + 1] \in 0..255
      BY <1>1, <3>3, ElementOfSeq
    <3>5. Low(bytes[7 * q + (s - 1) + 1]) \in 0..127
      BY <3>4, TwoParts
    <3> QED
      BY <3>2, <3>5
  <2> QED
    BY <2>3, <2>4
<1> QED
  BY <1>1, <1>2, <1>4, <1>6, <1>7

\* Decoding the encoding gives the bytes back: the bytes of a group after those of the one
\* before.
LEMMA Decoded ==
  ASSUME NEW bytes \in Seq(0..255)
  PROVE  sysex_decode(sysex_encode(bytes)) = bytes
<1>1. PICK code : code = sysex_encode(bytes)
  OBVIOUS
<1>2. PICK n \in Nat : n = Len(bytes)
  OBVIOUS
<1>3. /\ sysex_decoded_length(Len(code)) = n
      /\ Len(code) < 2 <=> n = 0
  BY <1>1, <1>2, CodeLengths, Encoded
<1>4. CASE n = 0
  <2>1. bytes = <<>>
    BY <1>2, <1>4, EmptySeq
  <2> QED
    BY <1>1, <1>3, <1>4, <2>1 DEF sysex_decode
<1>5. CASE n # 0
  <2> DEFINE Byte7(k) == LET group == (k - 1) \div 7
                             place == (k - 1) % 7
                             bit   == (code[group * 8 + 1] \div BitAt(place)) % 2
                         IN  Low(code[group * 8 + place + 2]) + 128 * bit
  <2>1. sysex_decode(code) = [k \in 1..n |-> Byte7(k)]
    BY <1>3, <1>5 DEF sysex_decode
  <2>2. ASSUME NEW k \in 1..n
        PROVE  Byte7(k) = bytes[k]
    <3>1. PICK q \in Nat, r \in 0..6 :
                k - 1 = 7 * q + r /\ (k - 1) \div 7 = q /\ (k - 1) % 7 = r
      <4>1. k - 1 \in Nat
        OBVIOUS
      <4> QED
        BY <4>1, GroupAndPlace
    <3>2. 7 * q + r < n /\ 7 * q + r + 1 = k
      BY <3>1
    <3>3. /\ code[8 * q + r + 2] = Low(bytes[k])
          /\ (code[8 * q + 1] \div BitAt(r)) % 2 = High(bytes[k])
      BY <1>1, <1>2, <3>2, Encoded
    <3>4. bytes[k] \in 0..255
      BY <1>2, ElementOfSeq
    <3>5. q * 8 + r + 2 = 8 * q + r + 2 /\ q * 8 + 1 = 8 * q + 1
      OBVIOUS
    <3>6. Byte7(k) = Low(code[8 * q + r + 2]) + 128 * ((code[8 * q + 1] \div BitAt(r)) % 2)
      BY <3>1, <3>5
    <3>7. Low(Low(bytes[k])) + 128 * High(bytes[k]) = bytes[k]
      BY <3>4, TwoParts
    <3> QED
      BY <3>3, <3>6, <3>7
  <2>3. bytes = [k \in 1..n |-> bytes[k]]
    BY <1>2
  <2> HIDE DEF Byte7
  <2> QED
    BY <1>1, <2>1, <2>2, <2>3
<1> QED
  BY <1>4, <1>5

\* RoundTrip: what sysex_encode makes of any bytes, of any length, has seven bits, and
\* sysex_decode makes the same bytes of it again.
THEOREM RoundTrips == SysexSpec => []RoundTrip
<1> DEFINE Inv == source \in Seq(0..255)
<1>1. SysexInit => Inv
  BY DEF SysexInit
<1>2. Inv /\ [SysexNext]_source => Inv'
  <2>1. ASSUME Inv, NEW byte \in Source, source' = Append(source, byte)
        PROVE  Inv'
    <3>1. byte \in 0..255
      BY SysexAssumption
    <3> QED
      BY <2>1, <3>1
  <2> QED
    BY <2>1 DEF SysexNext, NextByte
<1>3. Inv => RoundTrip
  <2> SUFFICES ASSUME Inv PROVE RoundTrip
    OBVIOUS
  <2>1. ASSUME NEW k \in DOMAIN sysex_encode(source)
        PROVE  sysex_encode(source)[k] < 128
    <3>1. PICK byte \in 0..127 : byte = sysex_encode(source)[k]
      BY Encoded
    <3>2. byte < 128
      OBVIOUS
    <3> QED
      BY <3>1, <3>2
  <2> QED
    BY <2>1, Decoded DEF RoundTrip
<1> QED
  BY <1>1, <1>2, <1>3, PTL DEF SysexSpec
=============================================================================
