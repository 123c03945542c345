------------------------- MODULE SerialLink_proofs -------------------------
(***************************************************************************)
(* The serial link, for every modem whose lines end with CR LF, every      *)
(* sequence of commands and every size of buffer: its invariant, that no   *)
(* answer is dropped, that the wire keeps the order of what is sent        *)
(* whatever writes are partial, and that the framer notifies whole lines   *)
(* and prompts however reads cut them.                                     *)
(***************************************************************************)
EXTENDS SerialLink, Lists_proofs

\* The initial states satisfy the invariant.
LEMMA InitLinkInv == Init => LinkInv
BY LinkAssumption DEF Init, LinkInv

\* What the AT thread hands to Serial is a sequence of bytes.
LEMMA CommandBytes ==
  ASSUME NEW k \in 1..Len(Commands)
  PROVE  Bytes(Commands[k]) \in Seq(Byte)
<1>1. Commands[k] \in [text : Seq(Byte), char : BOOLEAN]
  <2>1. \A S : Commands \in Seq(S) => Commands[k] \in S
    OBVIOUS
  <2> QED
    BY <2>1, LinkAssumption, Zenon
<1>2. Commands[k].text \in Seq(Byte) /\ <<CR>> \in Seq(Byte)
  BY <1>1, LinkAssumption
<1> QED
  BY <1>2 DEF Bytes

\* A message that is queued, while the sender does not write.
LEMMA QueuedStep ==
  ASSUME LinkInv, Sends, Queued(Bytes(Commands[posted + 1]))
  PROVE  LinkInv'
<1>1. posted + 1 \in 1..Len(Commands)
  BY LinkAssumption DEF Sends, LinkInv
<1>2. m_messagesWriteQueue' \in Seq(Seq(Byte))
  BY <1>1, CommandBytes DEF Queued, LinkInv
<1> QED
  BY <1>1, <1>2 DEF Sends, Queued, LinkInv, StopRequested, receiver, modem, history

\* What the owner does.
LEMMA OwnerStep ==
  ASSUME LinkInv, Owner \/ Destructor
  PROVE  LinkInv'
<1>1. CASE setReadEvent
  BY <1>1 DEF setReadEvent, LinkInv, StopRequested, sender, receiver, modem, history
<1>2. CASE sendMessage
  BY <1>2, QueuedStep DEF sendMessage
<1>3. CASE sendChar
  BY <1>3, QueuedStep DEF sendChar
<1>4. CASE Stop
  BY <1>4 DEF Stop, LinkInv, StopRequested, sender, receiver, modem, history
<1>5. CASE DropReadEvent
  BY <1>5 DEF DropReadEvent, LinkInv, StopRequested, sender, receiver, modem, history
<1>6. CASE Close
  BY <1>6 DEF Close, LinkInv, StopRequested, sender, receiver, modem, history
<1> QED
  BY <1>1, <1>2, <1>3, <1>4, <1>5, <1>6 DEF Owner, Destructor

\* What a write adds to the device.
LEMMA BytesToWrite ==
  ASSUME LinkInv, NEW n \in 1..OutCap, write(n)
  PROVE  /\ Head(m_messagesWriteQueue) \in Seq(Byte)
         /\ m_messagesWriteQueue \in Seq(Seq(Byte)) /\ m_messagesWriteQueue # <<>>
         /\ bytesWritten \in 0..Len(Head(m_messagesWriteQueue))
         /\ bytesWritten + n \in bytesWritten..Len(Head(m_messagesWriteQueue))
         /\ NextBytes(Head(m_messagesWriteQueue), n) \in Seq(Byte)
         /\ outDev' = outDev \o NextBytes(Head(m_messagesWriteQueue), n)
         /\ outDev' \in Seq(Byte)
<1>1. m_messagesWriteQueue \in Seq(Seq(Byte)) /\ m_messagesWriteQueue # <<>>
  BY DEF LinkInv, write, Writes
<1>2. PICK message \in Seq(Byte) : message = Head(m_messagesWriteQueue)
  BY <1>1
<1>3. /\ bytesWritten \in Nat /\ n \in Nat /\ Len(message) \in Nat
      /\ bytesWritten < Len(message) /\ n <= Len(message) - bytesWritten
  BY <1>2, LinkAssumption, LenProperties DEF LinkInv, write, Writes
<1>4. /\ bytesWritten \in 0..Len(message) /\ bytesWritten + n \in bytesWritten..Len(message)
  BY <1>3
<1>5. NextBytes(message, n) \in Seq(Byte)
  BY <1>4, RestJoined DEF NextBytes
<1>6. outDev \in Seq(Byte) /\ outDev' = outDev \o NextBytes(message, n)
  BY <1>2 DEF LinkInv, write
<1>7. outDev' \in Seq(Byte)
  BY <1>5, <1>6, ConcatProperties
<1> QED
  BY <1>1, <1>2, <1>4, <1>5, <1>6, <1>7

\* What the sender does.
LEMMA SenderStep ==
  ASSUME LinkInv, Sender
  PROVE  LinkInv'
<1> USE DEF LinkInv, StopRequested, owner, receiver, modem, history
<1>1. CASE SenderWakes
  BY <1>1 DEF SenderWakes, OnlySender, Takes
<1>2. ASSUME NEW n \in 1..OutCap, write(n)
      PROVE  LinkInv'
  <2>1. Len(Head(m_messagesWriteQueue)) \in Nat
    BY <1>2 DEF write, Writes
  <2>2. bytesWritten' \in Nat /\ bytesWritten' <= Len(Head(m_messagesWriteQueue))
    BY <1>2, <2>1, LinkAssumption DEF write
  <2>3. outDev' \in Seq(Byte)
    BY <1>2, BytesToWrite
  <2> QED
    BY <1>2, <2>2, <2>3 DEF write, Writes, OnlySender
<1>3. ASSUME spc = "writing", Erase
      PROVE  LinkInv'
  BY <1>3 DEF Erase, OnlySender
<1> QED
  BY <1>1, <1>2, <1>3 DEF Sender, writeAllReturns, WriteEnds, writeAllFails, Writes

\* What the receiver does.
LEMMA ReceiverStep ==
  ASSUME LinkInv, Receiver
  PROVE  LinkInv'
<1> USE DEF LinkInv, StopRequested, OnlyReceiver, owner, sender, modem, history
<1>1. CASE ReceiverTop
  BY <1>1 DEF ReceiverTop
<1>2. CASE SelectTimeout
  BY <1>2 DEF SelectTimeout
<1>3. CASE read
  BY <1>3 DEF read
<1>4. CASE readOfBroken
  BY <1>4 DEF readOfBroken
<1>5. CASE newMessageNotify
  BY <1>5 DEF newMessageNotify
<1>6. CASE NotifiedAll
  BY <1>6 DEF NotifiedAll
<1> QED
  BY <1>1, <1>2, <1>3, <1>4, <1>5, <1>6 DEF Receiver

\* What the modem and the device do.
LEMMA ModemStep ==
  ASSUME LinkInv, Modem \/ Fails
  PROVE  LinkInv'
<1> USE DEF LinkInv, StopRequested, owner, sender, receiver, modem, history
<1>1. CASE Says
  BY <1>1 DEF Says
<1>2. CASE Takes1
  BY <1>2 DEF Takes1
<1>3. CASE Fails
  BY <1>3 DEF Fails
<1> QED
  BY <1>1, <1>2, <1>3 DEF Modem

\* Every step keeps the invariant.
LEMMA LinkStep ==
  ASSUME LinkInv, [Next]_vars
  PROVE  LinkInv'
<1>1. CASE UNCHANGED vars
  BY <1>1 DEF vars, LinkInv, StopRequested, owner, sender, receiver, modem, history
<1> QED
  BY <1>1, OwnerStep, SenderStep, ReceiverStep, ModemStep DEF Next

\* Nobody uses a device that is closed, the sender never leaves a message
\* behind without the flag that wakes it, and it writes within a message.
THEOREM LinkInvariance == Spec => []LinkInv
BY InitLinkInv, LinkStep, PTL DEF Spec

\* Once the modem has read a command, every message it sends is handed to the
\* callback: the order of the constructor loses no answer.
THEOREM AnswersHeard == Spec => AnswersNotDropped
<1>1. LinkInv /\ [Next]_vars => [taken # <<>> => dropped' = dropped]_vars
  <2> SUFFICES ASSUME LinkInv, Next, taken # <<>>
               PROVE  dropped' = dropped
    BY DEF vars, history
  <2>1. readEventState = "set"
    BY DEF LinkInv
  <2>2. CASE newMessageNotify
    BY <2>1, <2>2 DEF newMessageNotify, LinkInv
  <2>3. CASE Owner \/ Destructor
    BY <2>3 DEF Owner, setReadEvent, sendMessage, sendChar, Queued, Stop, Destructor,
                DropReadEvent, Close, history
  <2>4. CASE Sender
    <3>1. OnlySender
      BY <2>4 DEF Sender, SenderWakes, writeAllReturns, writeAllFails, Erase, write
    <3> QED
      BY <3>1 DEF OnlySender, history
  <2>5. CASE Receiver
    BY <2>2, <2>5 DEF Receiver, ReceiverTop, SelectTimeout, read, readOfBroken,
                      NotifiedAll, history
  <2>6. CASE Modem \/ Fails
    BY <2>6 DEF Modem, Says, Takes1, Fails, history
  <2> QED
    BY <2>3, <2>4, <2>5, <2>6 DEF Next
<1> QED
  BY LinkInvariance, <1>1, PTL DEF Spec, AnswersNotDropped
-----------------------------------------------------------------------------
(* The line *)

\* What the AT thread has handed to Serial, what of it is on its way, and what
\* is left to be written.
Handed == FlattenSeq([k \in 1..posted |-> Bytes(Commands[k])])
OnLine == taken \o outDev
Rest == FlattenSeq(m_messagesWriteQueue)
Left == SubSeq(Rest, bytesWritten + 1, Len(Rest))
Writable == (~StopRequested \/ spc = "writing") /\ device # "gone"

\* The order on the wire in these terms.
LEMMA WireParts ==
  WireInOrder <=> IsPrefix(OnLine, Handed) /\ (Writable => Joined(Handed, OnLine, Left))
BY DEF WireInOrder, Handed, OnLine, Rest, Left, Writable, Joined

\* The same in the next state.
LEMMA WirePartsNext ==
  WireInOrder' <=> IsPrefix(OnLine', Handed') /\ (Writable' => Joined(Handed', OnLine', Left'))
BY DEF WireInOrder, Handed, OnLine, Rest, Left, Writable, Joined, StopRequested

\* What is handed over are the commands up to posted.
LEMMA HandedType ==
  ASSUME NEW n \in 0..Len(Commands)
  PROVE  [k \in 1..n |-> Bytes(Commands[k])] \in Seq(Seq(Byte))
<1>1. Len(Commands) \in Nat /\ n \in Nat
  BY LinkAssumption, LenProperties
<1>2. \A k \in 1..n : Bytes(Commands[k]) \in Seq(Byte)
  BY <1>1, CommandBytes
<1> QED
  BY <1>1, <1>2

\* The types of these parts.
LEMMA WireTypes ==
  ASSUME LinkInv
  PROVE  Handed \in Seq(Byte) /\ OnLine \in Seq(Byte) /\ Rest \in Seq(Byte)
<1>1. Handed \in Seq(Byte)
  BY HandedType, FlatType DEF Handed, LinkInv
<1>2. OnLine \in Seq(Byte)
  BY ConcatProperties DEF OnLine, LinkInv
<1>3. Rest \in Seq(Byte)
  BY FlatType DEF Rest, LinkInv
<1> QED
  BY <1>1, <1>2, <1>3

\* Before a message is begun all of the queue is left.
LEMMA LeftAll ==
  ASSUME LinkInv, spc # "writing"
  PROVE  Left = Rest
<1>1. Rest \in Seq(Byte) /\ bytesWritten = 0
  BY WireTypes DEF LinkInv
<1> HIDE DEF Rest
<1> QED
  BY <1>1 DEF Left

\* A command comes behind all that was handed over and all that is left.
LEMMA WireSends ==
  ASSUME LinkInv, LinkInv', WireInOrder, Sends, Queued(Bytes(Commands[posted + 1]))
  PROVE  WireInOrder'
<1>1. posted \in Nat /\ Len(Commands) \in Nat /\ posted + 1 \in 1..Len(Commands)
  BY LinkAssumption, LenProperties DEF LinkInv, Sends
<1>2. PICK bytes \in Seq(Byte) : bytes = Bytes(Commands[posted + 1])
  BY <1>1, CommandBytes
<1>3. Joined(Handed', Handed, bytes)
  <2> DEFINE before == [k \in 1..posted |-> Bytes(Commands[k])]
             now == [k \in 1..posted + 1 |-> Bytes(Commands[k])]
  <2>1. before \in Seq(Seq(Byte))
    BY <1>1, HandedType
  <2>2. now = Append(before, bytes)
    <3> HIDE DEF Bytes
    <3> QED
      BY <1>1, <1>2
  <2>3. Handed = FlattenSeq(before) /\ Handed' = FlattenSeq(now)
    BY DEF Handed, Queued
  <2> HIDE DEF before, now
  <2>4. FlattenSeq(now) = FlattenSeq(before) \o bytes
    BY <2>1, <2>2, FlatAppend
  <2> QED
    BY <2>3, <2>4, Zenon DEF Joined
<1>4. Joined(Rest', Rest, bytes)
  <2>1. m_messagesWriteQueue \in Seq(Seq(Byte)) /\ m_messagesWriteQueue' = Append(m_messagesWriteQueue, bytes)
    BY <1>2 DEF LinkInv, Queued
  <2>2. FlattenSeq(m_messagesWriteQueue') = FlattenSeq(m_messagesWriteQueue) \o bytes
    BY <2>1, FlatAppend
  <2> QED
    BY <2>2, Zenon DEF Rest, Joined
<1>5. /\ OnLine' = OnLine /\ Writable' = Writable
      /\ Left = Rest /\ Left' = Rest'
  <2>1. spc # "writing" /\ UNCHANGED <<taken, outDev, spc, life, device>>
    BY DEF Sends, Queued, modem, receiver, history
  <2>2. spc' # "writing"
    BY <2>1
  <2>3. Left' = Rest'
    <3>1. bytesWritten' = 0 /\ m_messagesWriteQueue' \in Seq(Seq(Byte))
      BY <2>2 DEF LinkInv
    <3>2. Rest' \in Seq(Byte)
      BY <3>1, FlatType DEF Rest
    <3> HIDE DEF Rest
    <3> QED
      BY <3>1, <3>2 DEF Left
  <2>4. Left = Rest
    BY <2>1, LeftAll
  <2> QED
    BY <2>1, <2>3, <2>4 DEF OnLine, Writable, StopRequested
<1>6. Handed \in Seq(Byte) /\ OnLine \in Seq(Byte) /\ Rest \in Seq(Byte)
  BY WireTypes
<1>7. Writable => Joined(Handed', OnLine', Left')
  <2> SUFFICES ASSUME Writable
               PROVE  Joined(Handed', OnLine, Rest')
    BY <1>5
  <2>1. Joined(Handed, OnLine, Rest)
    BY <1>5, WireParts
  <2> QED
    BY <1>3, <1>4, <1>6, <2>1, JoinedMore
<1>8. IsPrefix(OnLine', Handed')
  <2>1. PICK tail \in Seq(Byte) : Joined(Handed, OnLine, tail)
    BY <1>6, PrefixJoined, WireParts
  <2>2. PICK more \in Seq(Byte) : Joined(more, tail, bytes)
    BY ConcatProperties DEF Joined
  <2>3. Joined(Handed', OnLine, more)
    BY <1>3, <1>6, <2>1, <2>2, JoinedMore
  <2>4. Handed' \in Seq(Byte)
    BY <1>3, <1>6, ConcatProperties DEF Joined
  <2> QED
    BY <1>5, <1>6, <2>3, <2>4, JoinedPrefix
<1> QED
  BY <1>5, <1>7, <1>8, WirePartsNext
\* A write moves the next bytes of the first message to the device.
LEMMA WireWrites ==
  ASSUME LinkInv, WireInOrder, NEW n \in 1..OutCap, write(n)
  PROVE  WireInOrder'
<1> DEFINE message == Head(m_messagesWriteQueue)
           i == bytesWritten
<1>1. /\ message \in Seq(Byte)
      /\ m_messagesWriteQueue \in Seq(Seq(Byte)) /\ m_messagesWriteQueue # <<>>
      /\ i \in 0..Len(message) /\ i + n \in i..Len(message)
      /\ outDev' = outDev \o NextBytes(message, n)
  BY BytesToWrite
<1>2. Rest \in Seq(Byte) /\ Handed \in Seq(Byte) /\ OnLine \in Seq(Byte)
  BY WireTypes
<1>3. PICK piece \in Seq(Byte) : piece = NextBytes(message, n)
  BY BytesToWrite
<1>4. /\ i + n \in i..Len(Rest) /\ i \in 0..Len(Rest)
      /\ SubSeq(Rest, i + 1, i + n) = piece
  <2> DEFINE others == FlattenSeq(Tail(m_messagesWriteQueue))
  <2>1. Rest = message \o others
    BY <1>1, FlatHead DEF Rest
  <2>2. others \in Seq(Byte)
    <3>1. Tail(m_messagesWriteQueue) \in Seq(Seq(Byte))
      BY <1>1
    <3> QED
      BY <3>1, FlatType
  <2> HIDE DEF others, message, i
  <2>3. /\ Len(Rest) = Len(message) + Len(others)
        /\ Len(message) \in Nat /\ Len(others) \in Nat
        /\ \A k \in 1..Len(message) : Rest[k] = message[k]
    BY <1>1, <2>1, <2>2, ConcatParts
  <2>4. i + n \in i..Len(Rest) /\ i \in 0..Len(Rest)
    BY <1>1, <2>3
  <2>5. SubSeq(Rest, i + 1, i + n) = SubSeq(message, i + 1, i + n)
    <3>1. WithinFirst(message, others, i, i + n)
      BY <1>1, <2>2, FirstOfConcat
    <3> QED
      BY <2>1, <3>1, Zenon DEF WithinFirst
  <2> QED
    BY <1>3, <2>4, <2>5 DEF NextBytes, i
<1>5. /\ Rest' = Rest /\ Handed' = Handed /\ taken' = taken
      /\ bytesWritten' = i + n /\ Writable
  BY DEF write, Writes, OnlySender, Rest, Handed, modem, owner, Writable
<1>6. taken \in Seq(Byte) /\ outDev \in Seq(Byte)
  BY DEF LinkInv
<1>7. Joined(OnLine', OnLine, piece)
  <2>1. Joined(OnLine', taken, outDev') /\ Joined(outDev', outDev, piece)
        /\ Joined(OnLine, taken, outDev)
    BY <1>1, <1>3, <1>5, Zenon DEF Joined, OnLine
  <2> QED
    BY <1>6, <2>1, JoinedShift
<1> DEFINE left == SubSeq(Rest, i + n + 1, Len(Rest))
<1>8. Left' = left
  BY <1>5 DEF Left
<1>9. Joined(Left, piece, left) /\ left \in Seq(Byte)
  <2>1. /\ left \in Seq(Byte)
        /\ Joined(SubSeq(Rest, i + 1, Len(Rest)), SubSeq(Rest, i + 1, i + n), left)
    <3> HIDE DEF i
    <3> QED
      BY <1>2, <1>4, RestJoined
  <2> HIDE DEF left
  <2> QED
    BY <1>4, <2>1 DEF Left
<1> HIDE DEF left
<1>10. Joined(Handed, OnLine, Left)
  BY <1>5, WireParts
<1>11. Joined(Handed', OnLine', Left')
  <2>1. Joined(Handed, OnLine', left)
    BY <1>2, <1>7, <1>9, <1>10, JoinedShift
  <2> QED
    BY <1>5, <1>8, <2>1
<1>12. OnLine' \in Seq(Byte)
  BY <1>2, <1>7, ConcatProperties DEF Joined
<1>13. IsPrefix(OnLine', Handed')
  BY <1>2, <1>5, <1>8, <1>9, <1>11, <1>12, JoinedPrefix
<1> QED
  BY <1>11, <1>13, WirePartsNext

\* A message that is erased while the line may be written was written whole.
LEMMA WireErases ==
  ASSUME LinkInv, WireInOrder, WriteEnds \/ device = "gone", spc = "writing", Erase
  PROVE  WireInOrder'
<1>1. Handed' = Handed /\ OnLine' = OnLine
  BY DEF Erase, OnlySender, owner, modem, Handed, OnLine
<1>2. Writable' => ~StopRequested /\ device # "gone"
  BY DEF Erase, OnlySender, owner, Writable, StopRequested
<1>3. ASSUME Writable'
      PROVE  Left' = Left
  <2> DEFINE message == Head(m_messagesWriteQueue)
             others == FlattenSeq(Tail(m_messagesWriteQueue))
  <2>1. bytesWritten = Len(message)
    BY <1>2, <1>3 DEF WriteEnds, GivesUp
  <2>2. m_messagesWriteQueue \in Seq(Seq(Byte)) /\ m_messagesWriteQueue # <<>>
    BY DEF LinkInv
  <2>3. /\ message \in Seq(Byte) /\ Tail(m_messagesWriteQueue) \in Seq(Seq(Byte))
        /\ Rest = message \o others
    BY <2>2, FlatHead DEF Rest
  <2>4. others \in Seq(Byte)
    BY <2>3, FlatType
  <2>5. Rest' = others /\ bytesWritten' = 0
    BY DEF Erase, Rest
  <2> HIDE DEF others, message
  <2>6. Left' = others
    BY <2>4, <2>5 DEF Left
  <2>7. /\ Len(Rest) = Len(message) + Len(others) /\ Rest \in Seq(Byte)
        /\ Len(message) \in Nat /\ Len(others) \in Nat
        /\ \A k \in 1..Len(others) : Rest[Len(message) + k] = others[k]
    BY <2>3, <2>4, ConcatParts
  <2>8. SubSeq(Rest, Len(message) + 1, Len(Rest)) = others
    <3> DEFINE after == SubSeq(Rest, Len(message) + 1, Len(Rest))
    <3>1. \A k \in 1..Len(Rest) : Rest[k] \in Byte
      BY <2>7
    <3>2. /\ after \in Seq(Byte) /\ Len(after) = Len(others)
          /\ \A k \in 1..Len(others) : after[k] = others[k]
      BY <2>7, <3>1
    <3> HIDE DEF after
    <3>3. after = others
      BY <2>4, <3>2, SeqEqual
    <3> QED
      BY <3>3 DEF after
  <2> QED
    BY <2>1, <2>6, <2>8 DEF Left
<1>4. Writable' => Writable
  BY <1>2 DEF Writable
<1> QED
  BY <1>1, <1>3, <1>4, WireParts, WirePartsNext

\* The modem takes the first byte of the line: the line is what it was.
LEMMA WireTakes ==
  ASSUME LinkInv, Takes1
  PROVE  OnLine' = OnLine
<1>1. taken \in Seq(Byte) /\ outDev \in Seq(Byte) /\ outDev # <<>>
  BY DEF LinkInv, Takes1
<1>2. PICK b \in Byte, rest \in Seq(Byte) : b = Head(outDev) /\ rest = Tail(outDev)
  BY <1>1, HeadTailProperties
<1> DEFINE one == <<b>>
<1>3. outDev = one \o rest
  BY <1>1, <1>2, HeadTailProperties
<1>4. taken' = taken \o one
  BY <1>1, <1>2, AppendIsConcat DEF Takes1
<1>5. outDev' = rest /\ one \in Seq(Byte)
  BY <1>2 DEF Takes1
<1> HIDE DEF one
<1>6. Joined(OnLine, taken', rest)
  <2>1. Joined(OnLine, taken, outDev) /\ Joined(outDev, one, rest) /\ Joined(taken', taken, one)
    BY <1>3, <1>4, Zenon DEF Joined, OnLine
  <2> QED
    BY <1>1, <1>2, <1>5, <2>1, JoinedShift
<1> QED
  BY <1>5, <1>6, Zenon DEF Joined, OnLine

\* Every step keeps the order on the wire.
LEMMA WireStep ==
  ASSUME LinkInv, LinkInv', WireInOrder, [Next]_vars
  PROVE  WireInOrder'
<1>1. ASSUME UNCHANGED <<taken, outDev, m_messagesWriteQueue, bytesWritten, posted>>,
             Writable' => Writable
      PROVE  WireInOrder'
  <2>1. Handed' = Handed /\ OnLine' = OnLine /\ Left' = Left
    BY <1>1 DEF Handed, OnLine, Left, Rest
  <2> QED
    BY <1>1, <2>1, WireParts, WirePartsNext
<1>2. CASE Owner
  <2>1. CASE setReadEvent \/ Stop
    BY <1>1, <2>1 DEF setReadEvent, Stop, sender, modem, Writable, StopRequested
  <2>2. CASE sendMessage \/ sendChar
    BY <2>2, WireSends DEF sendMessage, sendChar
  <2> QED
    BY <1>2, <2>1, <2>2 DEF Owner
<1>3. CASE Destructor
  BY <1>1, <1>3 DEF Destructor, DropReadEvent, Close, sender, modem, Writable, StopRequested
<1>4. CASE SenderWakes
  <2>1. UNCHANGED <<taken, outDev, m_messagesWriteQueue, posted, life, device>>
    BY <1>4 DEF SenderWakes, OnlySender, owner, modem, Takes
  <2>2. bytesWritten' = bytesWritten
    BY <1>4 DEF SenderWakes, Takes, LinkInv
  <2>3. Writable' => Writable
    BY <1>4, <2>1 DEF SenderWakes, Takes, Writable, StopRequested
  <2> QED
    BY <1>1, <2>1, <2>2, <2>3
<1>5. CASE writeAllReturns
  BY <1>5, WireErases DEF writeAllReturns, WriteEnds
<1>6. CASE writeAllFails
  BY <1>6, WireErases DEF writeAllFails, Writes
<1>7. CASE \E n \in 1..OutCap : write(n)
  BY <1>7, WireWrites
<1>8. CASE Receiver
  <2>1. OnlyReceiver
    BY <1>8 DEF Receiver, ReceiverTop, SelectTimeout, read, readOfBroken, newMessageNotify,
                NotifiedAll
  <2> QED
    BY <1>1, <2>1 DEF OnlyReceiver, owner, sender, modem, Writable, StopRequested
<1>9. CASE Says
  BY <1>1, <1>9 DEF Says, owner, sender, Writable, StopRequested
<1>10. CASE Takes1
  <2>1. OnLine' = OnLine
    BY <1>10, WireTakes
  <2>2. Handed' = Handed /\ Left' = Left /\ Writable' = Writable
    BY <1>10 DEF Takes1, owner, sender, Handed, Left, Rest, Writable, StopRequested
  <2> QED
    BY <2>1, <2>2, WireParts, WirePartsNext
<1>11. CASE Fails
  BY <1>1, <1>11 DEF Fails, owner, sender, modem, Writable, StopRequested
<1>12. CASE UNCHANGED vars
  BY <1>1, <1>12 DEF vars, owner, sender, modem, Writable, StopRequested
<1> QED
  BY <1>2, <1>3, <1>4, <1>5, <1>6, <1>7, <1>8, <1>9, <1>10, <1>11, <1>12
     DEF Next, Sender, Modem

\* At first nothing is handed over and nothing is on the line.
LEMMA InitWire == Init => WireInOrder
<1> SUFFICES ASSUME Init
             PROVE  WireInOrder
  OBVIOUS
<1>1. Handed = <<>> /\ Rest = <<>>
  <2>1. [k \in 1..0 |-> Bytes(Commands[k])] = <<>>
    OBVIOUS
  <2> QED
    BY <2>1, FlatEmpty DEF Init, Handed, Rest
<1>2. OnLine = <<>>
  <2>1. <<>> \o <<>> = <<>>
    OBVIOUS
  <2> QED
    BY <2>1 DEF Init, OnLine
<1>3. Left = <<>>
  <2>1. SubSeq(<<>>, 1, 0) = <<>>
    OBVIOUS
  <2> QED
    BY <1>1, <2>1 DEF Init, Left
<1>4. Joined(Handed, OnLine, Left)
  <2>1. <<>> \o <<>> = <<>>
    OBVIOUS
  <2> QED
    BY <1>1, <1>2, <1>3, <2>1 DEF Joined
<1>5. IsPrefix(OnLine, Handed)
  BY <1>1, <1>2 DEF IsPrefix
<1> QED
  BY <1>4, <1>5, WireParts

\* The modem reads the messages of the AT thread one after the other and whole,
\* whatever partial writes, stops and failures of the device there are: writeAll
\* and sendThread, for all commands and sizes of buffers.
THEOREM WireKeepsOrder == Spec => []WireInOrder
BY InitLinkInv, LinkStep, InitWire, WireStep, PTL DEF Spec

-----------------------------------------------------------------------------
(* Pieces of a sequence *)

\* p is what s has behind x, up to y.
Piece(p, s, x, y) == x \in 0..Len(s) /\ y \in x..Len(s) /\ p = SubSeq(s, x + 1, y)

\* The elements of a piece.
LEMMA PieceElements ==
  ASSUME NEW A, NEW s \in Seq(A), NEW p, NEW x, NEW y, Piece(p, s, x, y)
  PROVE  /\ p \in Seq(A) /\ Len(p) = y - x
         /\ \A k \in 1..y - x : p[k] = s[x + k] /\ x + k \in 1..Len(s)
         /\ x \in Nat /\ y \in Nat /\ Len(s) \in Nat /\ x <= y /\ y <= Len(s)
<1>1. Len(s) \in Nat /\ x \in Nat /\ y \in Nat /\ x <= y /\ y <= Len(s)
  BY LenProperties DEF Piece
<1>2. \A k \in 1..Len(s) : s[k] \in A
  OBVIOUS
<1>3. p = SubSeq(s, x + 1, y)
  BY DEF Piece
<1>4. /\ p \in Seq(A) /\ Len(p) = y - x
      /\ \A k \in 1..y - x : p[k] = s[x + k]
  BY <1>1, <1>2, <1>3
<1>5. \A k \in 1..y - x : x + k \in 1..Len(s)
  BY <1>1
<1> QED
  BY <1>1, <1>4, <1>5

\* A sequence with these elements is the piece.
LEMMA PieceOf ==
  ASSUME NEW A, NEW s \in Seq(A), NEW p \in Seq(A), NEW x \in 0..Len(s), NEW y \in x..Len(s),
         Len(p) = y - x, \A k \in 1..y - x : p[k] = s[x + k]
  PROVE  Piece(p, s, x, y)
<1> DEFINE q == SubSeq(s, x + 1, y)
<1>1. Piece(q, s, x, y)
  BY DEF Piece
<1>2. /\ q \in Seq(A) /\ Len(q) = y - x
      /\ \A k \in 1..y - x : q[k] = s[x + k]
  BY <1>1, PieceElements
<1> HIDE DEF q
<1>3. \A k \in 1..Len(p) : p[k] = q[k]
  BY <1>2
<1>4. p = q
  BY <1>2, <1>3, SeqEqual
<1> QED
  BY <1>1, <1>4

\* A piece of a piece.
LEMMA PieceOfPiece ==
  ASSUME NEW A, NEW s \in Seq(A), NEW p, NEW x, NEW y, Piece(p, s, x, y),
         NEW q, NEW u, NEW v, Piece(q, p, u, v)
  PROVE  Piece(q, s, x + u, x + v)
<1>1. /\ p \in Seq(A) /\ Len(p) = y - x
      /\ \A k \in 1..y - x : p[k] = s[x + k]
      /\ x \in Nat /\ y \in Nat /\ Len(s) \in Nat /\ x <= y /\ y <= Len(s)
  BY PieceElements
<1>2. /\ q \in Seq(A) /\ Len(q) = v - u
      /\ \A k \in 1..v - u : q[k] = p[u + k] /\ u + k \in 1..Len(p)
      /\ u \in Nat /\ v \in Nat /\ u <= v /\ v <= Len(p)
  BY <1>1, PieceElements
<1>3. x + u \in 0..Len(s) /\ x + v \in x + u..Len(s) /\ Len(q) = (x + v) - (x + u)
  BY <1>1, <1>2
<1>4. \A k \in 1..v - u : q[k] = s[(x + u) + k]
  <2> SUFFICES ASSUME NEW k \in 1..v - u
               PROVE  q[k] = s[(x + u) + k]
    OBVIOUS
  <2>1. q[k] = p[u + k] /\ u + k \in 1..y - x
    BY <1>1, <1>2
  <2>2. p[u + k] = s[x + (u + k)] /\ x + (u + k) = (x + u) + k
    BY <1>1, <1>2, <2>1
  <2> QED
    BY <2>1, <2>2
<1>5. (x + v) - (x + u) = v - u
  BY <1>1, <1>2
<1> QED
  BY <1>2, <1>3, <1>4, <1>5, PieceOf

\* Two pieces, one behind the other.
LEMMA PiecesJoined ==
  ASSUME NEW A, NEW s \in Seq(A), NEW p, NEW q, NEW x, NEW y, NEW z,
         Piece(p, s, x, y), Piece(q, s, y, z)
  PROVE  Piece(p \o q, s, x, z)
<1>1. /\ p \in Seq(A) /\ Len(p) = y - x
      /\ \A k \in 1..y - x : p[k] = s[x + k]
      /\ x \in Nat /\ y \in Nat /\ Len(s) \in Nat /\ x <= y /\ y <= Len(s)
  BY PieceElements
<1>2. /\ q \in Seq(A) /\ Len(q) = z - y
      /\ \A k \in 1..z - y : q[k] = s[y + k]
      /\ z \in Nat /\ y <= z /\ z <= Len(s)
  BY PieceElements
<1> DEFINE r == p \o q
<1>3. /\ r \in Seq(A) /\ Len(r) = Len(p) + Len(q)
      /\ \A k \in 1..Len(p) : r[k] = p[k]
      /\ \A k \in 1..Len(q) : r[Len(p) + k] = q[k]
  <2>1. p \in Seq(A) /\ q \in Seq(A)
    BY <1>1, <1>2
  <2> QED
    BY <2>1, ConcatParts
<1> HIDE DEF r
<1>4. ASSUME NEW k \in 1..z - x
      PROVE  r[k] = s[x + k]
  <2>1. CASE k <= y - x
    BY <1>1, <1>3, <2>1
  <2>2. CASE ~(k <= y - x)
    <3>1. PICK j \in 1..z - y : k = (y - x) + j /\ y + j = x + k
      <4>1. /\ k - (y - x) \in 1..z - y /\ k = (y - x) + (k - (y - x))
            /\ y + (k - (y - x)) = x + k
        BY <1>1, <1>2, <2>2
      <4> QED
        BY <4>1
    <3>2. r[(y - x) + j] = q[j]
      BY <1>1, <1>2, <1>3, <3>1
    <3>3. q[j] = s[y + j]
      BY <1>2, <3>1
    <3> QED
      BY <3>1, <3>2, <3>3
  <2> QED
    BY <2>1, <2>2
<1>5. x \in 0..Len(s) /\ z \in x..Len(s) /\ Len(r) = z - x
  BY <1>1, <1>2, <1>3
<1> QED
  BY <1>3, <1>4, <1>5, PieceOf DEF r

\* The pieces that behind x and before y make the piece from x to y.
LEMMA PieceSplits ==
  ASSUME NEW A, NEW s \in Seq(A), NEW x \in 0..Len(s), NEW y \in x..Len(s), NEW z \in y..Len(s)
  PROVE  Joined(SubSeq(s, x + 1, z), SubSeq(s, x + 1, y), SubSeq(s, y + 1, z))
<1> DEFINE p == SubSeq(s, x + 1, y)
           q == SubSeq(s, y + 1, z)
<1>1. Piece(p, s, x, y) /\ Piece(q, s, y, z)
  BY LenProperties DEF Piece
<1> HIDE DEF p, q
<1>2. Piece(p \o q, s, x, z)
  BY <1>1, PiecesJoined
<1> QED
  BY <1>2, Zenon DEF Piece, Joined, p, q

-----------------------------------------------------------------------------
(* Text *)

\* Text leaves out what it leaves out of two parts.
LEMMA TextJoined ==
  ASSUME NEW a, NEW b \in Seq(Byte), NEW c \in Seq(Byte), Joined(a, b, c)
  PROVE  Joined(Text(a), Text(b), Text(c))
<1> DEFINE S == Byte \ {CR, LF}
<1> HIDE DEF S
<1>1. Only(b \o c, S) = Only(b, S) \o Only(c, S)
  BY OnlyConcat
<1> QED
  BY <1>1, Zenon DEF Joined, Text, S

\* The types of text, and what has none.
LEMMA TextType ==
  ASSUME NEW a \in Seq(Byte)
  PROVE  Text(a) \in Seq(Byte)
BY OnlyPicks DEF Text

\* Delimiters are no text.
LEMMA NoText ==
  ASSUME NEW a \in Seq(Byte), \A i \in 1..Len(a) : a[i] \in {CR, LF}
  PROVE  Text(a) = <<>>
BY OnlyNone DEF Text

\* Nothing has no text.
LEMMA EmptyText == Text(<<>>) = <<>>
<1>1. <<>> \in Seq(Byte) /\ Len(<<>>) = 0
  OBVIOUS
<1>2. \A i \in 1..Len(<<>>) : FALSE
  BY <1>1
<1> QED
  BY <1>1, <1>2, NoText

-----------------------------------------------------------------------------
(* Where lines and prompts end *)

\* The first n lines and prompts are the beginning of them all, and the n-th
\* is their end.
LEMMA EndFacts ==
  ASSUME NEW t \in Seq(Seq(Byte)), NEW n \in 0..Len(t)
  PROVE  /\ End(t, n) \in 0..Len(FlattenSeq(t)) /\ End(t, n) \in Nat
         /\ \A k \in 1..End(t, n) : FlattenSeq(SubSeq(t, 1, n))[k] = FlattenSeq(t)[k]
         /\ FlattenSeq(SubSeq(t, 1, n)) \in Seq(Byte)
<1> DEFINE first == SubSeq(t, 1, n)
           last == SubSeq(t, n + 1, Len(t))
<1>1. n \in 0..Len(t) /\ Len(t) \in n..Len(t) /\ 0 \in 0..Len(t) /\ n \in 0..Len(t)
  BY LenProperties
<1>2. first \in Seq(Seq(Byte)) /\ last \in Seq(Seq(Byte)) /\ t = first \o last
  <2>1. /\ SubSeq(t, 0 + 1, n) \in Seq(Seq(Byte)) /\ last \in Seq(Seq(Byte))
        /\ Joined(SubSeq(t, 0 + 1, Len(t)), SubSeq(t, 0 + 1, n), last)
    BY <1>1, RestJoined
  <2>2. SubSeq(t, 0 + 1, Len(t)) = t /\ SubSeq(t, 0 + 1, n) = first
    BY <1>1
  <2> HIDE DEF first, last
  <2> QED
    BY <2>1, <2>2, Zenon DEF Joined
<1> HIDE DEF first, last
<1> DEFINE a == FlattenSeq(first)
           b == FlattenSeq(last)
<1>3. a \in Seq(Byte) /\ b \in Seq(Byte)
  BY <1>2, FlatType
<1>4. FlattenSeq(t) = a \o b
  BY <1>2, FlatConcat
<1> HIDE DEF a, b
<1>5. /\ Len(FlattenSeq(t)) = Len(a) + Len(b) /\ Len(a) \in Nat /\ Len(b) \in Nat
      /\ \A k \in 1..Len(a) : FlattenSeq(t)[k] = a[k]
  BY <1>3, <1>4, ConcatParts
<1>6. End(t, n) = Len(a)
  BY DEF End, a, first
<1> QED
  BY <1>3, <1>5, <1>6 DEF a, first

\* Each ends as far behind the one before as it is long.
LEMMA EndStep ==
  ASSUME NEW t \in Seq(Seq(Byte)), NEW n \in 1..Len(t)
  PROVE  /\ End(t, n) = End(t, n - 1) + Len(t[n])
         /\ \A k \in 1..Len(t[n]) : FlattenSeq(t)[End(t, n - 1) + k] = t[n][k]
         /\ Len(t[n]) \in Nat /\ End(t, n - 1) \in Nat
<1> DEFINE before == SubSeq(t, 1, n - 1)
           now == SubSeq(t, 1, n)
           item == t[n]
           a == FlattenSeq(before)
           c == FlattenSeq(now)
<1>1. Len(t) \in Nat /\ n \in 0..Len(t) /\ n - 1 \in 0..Len(t) /\ n \in Nat
  BY LenProperties
<1>2. \A k \in 1..Len(t) : t[k] \in Seq(Byte)
  OBVIOUS
<1>3. before \in Seq(Seq(Byte)) /\ item \in Seq(Byte) /\ now = Append(before, item)
  BY <1>1, <1>2
<1>4. /\ Len(a) \in Nat /\ Len(a) = End(t, n - 1) /\ a \in Seq(Byte)
      /\ Len(c) = End(t, n) /\ c \in Seq(Byte)
      /\ \A k \in 1..End(t, n) : c[k] = FlattenSeq(t)[k]
  BY <1>1, EndFacts DEF End
<1> HIDE DEF before, now, item
<1>5. c = a \o item
  BY <1>3, FlatAppend
<1> HIDE DEF a, c
<1>6. /\ Len(c) = Len(a) + Len(item) /\ Len(item) \in Nat
      /\ \A k \in 1..Len(item) : c[Len(a) + k] = item[k]
  <2>1. a \in Seq(Byte) /\ item \in Seq(Byte)
    BY <1>3, <1>4
  <2> QED
    BY <1>5, <2>1, ConcatParts
<1>7. \A k \in 1..Len(item) : FlattenSeq(t)[Len(a) + k] = item[k]
  <2> SUFFICES ASSUME NEW k \in 1..Len(item)
               PROVE  FlattenSeq(t)[Len(a) + k] = item[k]
    OBVIOUS
  <2>1. Len(a) + k \in 1..End(t, n)
    BY <1>4, <1>6
  <2> QED
    BY <1>4, <1>6, <2>1
<1> QED
  BY <1>4, <1>6, <1>7 DEF item

\* Later ones end later.
LEMMA EndsGrow ==
  ASSUME NEW t \in Seq(Seq(Byte)), NEW k \in 0..Len(t), NEW n \in k..Len(t)
  PROVE  End(t, k) <= End(t, n)
<1>1. Len(t) \in Nat /\ k \in Nat /\ n - k \in Nat /\ n \in Nat
  BY LenProperties
<1> DEFINE Q == {i \in 0..n - k : End(t, k) <= End(t, k + i)}
<1>2. 0 \in Q
  <2>1. End(t, k) \in Nat /\ k + 0 = k /\ 0 \in 0..n - k
    BY <1>1, EndFacts
  <2> QED
    BY <2>1
<1>3. ASSUME NEW i \in 1..n - k, i - 1 \in Q
      PROVE  i \in Q
  <2>1. k + i \in 1..Len(t) /\ (k + i) - 1 = k + (i - 1) /\ i \in 0..n - k
    BY <1>1
  <2>2. /\ End(t, k + i) = End(t, (k + i) - 1) + Len(t[k + i])
        /\ Len(t[k + i]) \in Nat /\ End(t, (k + i) - 1) \in Nat
    BY <2>1, EndStep
  <2>3. End(t, k) <= End(t, k + (i - 1)) /\ End(t, k) \in Nat
    BY <1>3, EndFacts
  <2>4. End(t, k) <= End(t, k + i)
    <3> DEFINE x == End(t, k + i)
               y == End(t, (k + i) - 1)
               z == Len(t[k + i])
    <3>1. x = y + z /\ y \in Nat /\ z \in Nat /\ End(t, k) <= y /\ End(t, k) \in Nat
      BY <2>1, <2>2, <2>3
    <3> HIDE DEF x, y, z
    <3>2. End(t, k) <= x
      BY <3>1
    <3> QED
      BY <3>2 DEF x
  <2> QED
    BY <2>1, <2>4
<1> HIDE DEF Q
<1>4. 0..n - k \subseteq Q
  BY <1>1, <1>2, <1>3, UpTo
<1>5. n - k \in Q
  BY <1>1, <1>4
<1>6. k + (n - k) = n
  BY <1>1
<1> QED
  BY <1>5, <1>6 DEF Q

\* The end of a line is an end, there is the delimiter, and nothing ends
\* within it.
LEMMA LineEndDelimits ==
  ASSUME NEW t \in Seq(Seq(Byte)), NEW e \in LineEnds(t)
  PROVE  /\ e \in Ends(t) /\ e \in 2..Len(FlattenSeq(t)) /\ e - 1 \notin Ends(t)
         /\ Delimiter(FlattenSeq(t), e)
<1>1. PICK n \in 1..Len(t) : Line(t[n]) /\ e = End(t, n)
  BY DEF LineEnds
<1> DEFINE b == End(t, n - 1)
           l == Len(t[n])
           s == FlattenSeq(t)
<1>2. Len(t) \in Nat /\ n \in 0..Len(t) /\ n - 1 \in 0..Len(t)
  BY LenProperties
<1>3. /\ e = b + l /\ l \in Nat /\ b \in Nat
      /\ \A k \in 1..l : s[b + k] = t[n][k]
  BY <1>1, EndStep
<1>4. e \in 0..Len(s) /\ e \in Ends(t)
  BY <1>1, <1>2, EndFacts DEF Ends
<1>5. l >= 2 /\ t[n][l - 1] = CR /\ t[n][l] = LF
  BY <1>1 DEF Line
<1> HIDE DEF b, l, s
<1>6. l - 1 \in 1..l /\ l \in 1..l /\ b + (l - 1) = e - 1 /\ e >= 2 /\ b + l = e
  BY <1>3, <1>5
<1>7. s[e - 1] = CR /\ s[e] = LF
  <2>1. s[b + (l - 1)] = CR /\ s[b + l] = LF
    BY <1>3, <1>5, <1>6
  <2> QED
    BY <1>6, <2>1
<1>8. Delimiter(s, e)
  BY <1>6, <1>7 DEF Delimiter
<1>9. e - 1 \notin Ends(t)
  <2> SUFFICES ASSUME NEW k \in 0..Len(t), End(t, k) = e - 1
               PROVE  FALSE
    BY DEF Ends
  <2>1. CASE k >= n
    <3>1. k \in n..Len(t)
      BY <1>2, <2>1
    <3>2. e <= e - 1
      BY <1>1, <1>2, <3>1, EndsGrow
    <3> QED
      BY <1>3, <3>2
  <2>2. CASE ~(k >= n)
    <3>1. n - 1 \in k..Len(t)
      BY <1>2, <2>2
    <3>2. e - 1 <= b
      BY <3>1, EndsGrow DEF b
    <3> QED
      BY <1>3, <1>5, <3>2
  <2> QED
    BY <2>1, <2>2
<1> QED
  BY <1>3, <1>4, <1>6, <1>8, <1>9 DEF s

-----------------------------------------------------------------------------
(* The framer *)

\* What push makes of data: messages, and what stays pending.
Cuts == [messages : Seq(Seq(Byte)), rest : Seq(Byte)]

\* One more byte keeps the type.
LEMMA CutType ==
  ASSUME NEW acc \in Cuts, NEW b \in Byte
  PROVE  CutAt(acc, b) \in Cuts
<1>1. acc.messages \in Seq(Seq(Byte)) /\ acc.rest \in Seq(Byte)
  BY DEF Cuts
<1>2. Append(acc.rest, b) \in Seq(Byte)
  BY <1>1
<1>3. [acc EXCEPT !.rest = Append(@, b)] \in Cuts
  BY <1>2 DEF Cuts
<1>4. [acc EXCEPT !.rest = <<>>] \in Cuts
  <2>1. <<>> \in Seq(Byte)
    OBVIOUS
  <2> QED
    BY <2>1 DEF Cuts
<1>5. Append(acc.messages, Append(acc.rest, b)) \in Seq(Seq(Byte))
  BY <1>1, <1>2
<1>6. [messages |-> Append(acc.messages, Append(acc.rest, b)), rest |-> <<>>] \in Cuts
  BY <1>5 DEF Cuts
<1> QED
  BY <1>3, <1>4, <1>6 DEF CutAt

\* g[i] is what push has made of the first i bytes.
FramedUpTo(g, data) ==
  /\ g \in [0..Len(data) -> Cuts]
  /\ g[0] = [messages |-> <<>>, rest |-> <<>>]
  /\ \A i \in 1..Len(data) : g[i] = CutAt(g[i - 1], data[i])
  /\ Framed[data] = g[Len(data)]

\* There is such a function.
LEMMA FramedBuilt ==
  ASSUME NEW data \in Seq(Byte)
  PROVE  \E g : FramedUpTo(g, data)
<1> DEFINE n == Len(data)
           base == [messages |-> <<>>, rest |-> <<>>]
           Step(g, i) == IF i = 0 THEN base ELSE CutAt(g[i - 1], data[i])
           F == CHOOSE f : f = [i \in 0..n |-> Step(f, i)]
<1>1. n \in Nat /\ \A i \in 1..n : data[i] \in Byte
  BY LenProperties
<1>2. base \in Cuts /\ 0 \in 0..n
  BY <1>1 DEF Cuts
<1>3. Framed[data] = F[n]
  BY DEF Framed
<1>4. \E g : g = [i \in 0..n |-> Step(g, i)]
  <2> DEFINE step == [p \in (1..n) \X Cuts |-> CutAt(p[2], data[p[1]])]
  <2>1. step \in [(1..n) \X Cuts -> Cuts]
    <3>1. \A p \in (1..n) \X Cuts : CutAt(p[2], data[p[1]]) \in Cuts
      BY <1>1, CutType
    <3> QED
      BY <3>1
  <2>2. PICK g \in [0..n -> Cuts] : g[0] = base /\ \A i \in 1..n : g[i] = step[<<i, g[i - 1]>>]
    <3> HIDE DEF step, n, base
    <3>1. \E g : Unrolls(g, n, Cuts, base, step)
      BY <1>1, <1>2, <2>1, Recursion, Zenon
    <3> QED
      BY <3>1 DEF Unrolls
  <2>3. ASSUME NEW i \in 0..n
        PROVE  g[i] = Step(g, i)
    <3>1. CASE i = 0
      <4> HIDE DEF base
      <4> QED
        BY <2>2, <3>1
    <3>2. CASE i # 0
      <4>1. i \in 1..n /\ i - 1 \in 0..n
        BY <1>1, <3>2
      <4>2. g[i - 1] \in Cuts
        BY <2>2, <4>1
      <4>3. step[<<i, g[i - 1]>>] = CutAt(g[i - 1], data[i])
        BY <4>1, <4>2
      <4> HIDE DEF step
      <4> QED
        BY <2>2, <3>2, <4>1, <4>3
    <3> QED
      BY <3>1, <3>2
  <2>4. g = [i \in 0..n |-> Step(g, i)]
    <3> HIDE DEF Step
    <3> QED
      BY <2>2, <2>3
  <2> QED
    BY <2>4
<1>5. F = [i \in 0..n |-> Step(F, i)]
  BY <1>4
<1> HIDE DEF F
<1>6. ASSUME NEW i \in 0..n
      PROVE  F[i] = Step(F, i)
  <2> HIDE DEF Step
  <2>1. [j \in 0..n |-> Step(F, j)][i] = Step(F, i)
    OBVIOUS
  <2> QED
    BY <1>5, <2>1
<1>7. F[0] = base
  BY <1>2, <1>6
<1>8. ASSUME NEW i \in 1..n
      PROVE  F[i] = CutAt(F[i - 1], data[i])
  <2>1. i \in 0..n /\ i # 0
    BY <1>1
  <2>2. F[i] = Step(F, i)
    BY <1>6, <2>1
  <2> QED
    BY <2>1, <2>2
<1>9. 0..n \subseteq {i \in 0..n : F[i] \in Cuts}
  <2> DEFINE Q == {i \in 0..n : F[i] \in Cuts}
  <2>1. 0 \in Q
    BY <1>2, <1>7
  <2>2. ASSUME NEW i \in 1..n, i - 1 \in Q
        PROVE  i \in Q
    <3>1. F[i - 1] \in Cuts /\ i \in 0..n /\ data[i] \in Byte
      BY <1>1, <2>2
    <3> QED
      BY <1>8, <3>1, CutType
  <2> HIDE DEF Q
  <2>3. 0..n \subseteq Q
    BY <1>1, <2>1, <2>2, UpTo
  <2> QED
    BY <2>3 DEF Q
<1>10. F \in [0..n -> Cuts]
  <2> HIDE DEF Step
  <2> QED
    BY <1>5, <1>9
<1> QED
  BY <1>3, <1>7, <1>8, <1>10 DEF FramedUpTo

\* What push keeps pending of data up to i is what is behind its last cut, c.
Kept(rest, data, c, i) ==
  /\ Piece(rest, data, c, i)
  /\ c = 0 \/ Delimiter(data, c)
  /\ \A e \in c + 2..i : ~Delimiter(data, e)

\* A message is a piece of data from one cut to the next delimiter.
Frame(m, data, x, y) ==
  /\ Piece(m, data, x, y) /\ x < y
  /\ x = 0 \/ Delimiter(data, x)
  /\ Delimiter(data, y)
  /\ \A e \in x + 2..y - 1 : ~Delimiter(data, e)

\* What push has made of the first i bytes.
FramedSoFar(acc, data, i) ==
  /\ \A k \in 1..Len(acc.messages) : \E x, y \in 0..i : Frame(acc.messages[k], data, x, y)
  /\ \E c \in 0..i : /\ Kept(acc.rest, data, c, i)
                     /\ Text(FlattenSeq(acc.messages)) = Text(SubSeq(data, 1, c))

\* The delimiter is behind a text that ends with CR.
LEMMA DelimiterText ==
  ASSUME NEW data \in Seq(Byte), NEW i \in 2..Len(data), Delimiter(data, i)
  PROVE  Text(SubSeq(data, 1, i)) = Text(SubSeq(data, 1, i - 2))
<1> DEFINE whole == SubSeq(data, 0 + 1, i)
           before == SubSeq(data, 0 + 1, i - 2)
           end == SubSeq(data, (i - 2) + 1, i)
<1>1. Len(data) \in Nat /\ 0 \in 0..Len(data) /\ i - 2 \in 0..Len(data)
      /\ i \in i - 2..Len(data) /\ i \in Nat
  BY LenProperties
<1>2. Joined(whole, before, end)
  BY <1>1, PieceSplits
<1>3. Piece(before, data, 0, i - 2) /\ Piece(end, data, i - 2, i)
  BY <1>1 DEF Piece
<1> HIDE DEF whole, before, end
<1>4. before \in Seq(Byte) /\ end \in Seq(Byte)
      /\ Len(end) = i - (i - 2)
      /\ \A k \in 1..i - (i - 2) : end[k] = data[(i - 2) + k]
  <2> DEFINE j == i - 2
  <2>1. Piece(before, data, 0, j) /\ Piece(end, data, j, i)
    BY <1>3
  <2> HIDE DEF j
  <2>2. before \in Seq(Byte)
    BY <2>1, PieceElements
  <2>3. /\ end \in Seq(Byte) /\ Len(end) = i - j
        /\ \A k \in 1..i - j : end[k] = data[j + k]
    BY <2>1, PieceElements
  <2> QED
    BY <2>2, <2>3 DEF j
<1>5. \A k \in 1..Len(end) : end[k] \in {CR, LF}
  <2> SUFFICES ASSUME NEW k \in 1..Len(end)
               PROVE  end[k] \in {CR, LF}
    OBVIOUS
  <2>1. k \in 1..i - (i - 2) /\ ((k = 1 /\ (i - 2) + k = i - 1) \/ (k = 2 /\ (i - 2) + k = i))
    BY <1>1, <1>4
  <2>2. end[k] = data[(i - 2) + k]
    BY <1>4, <2>1
  <2> QED
    BY <2>1, <2>2 DEF Delimiter
<1>6. Text(end) = <<>>
  BY <1>4, <1>5, NoText
<1>7. Joined(Text(whole), Text(before), <<>>)
  BY <1>2, <1>4, <1>6, TextJoined
<1>8. Text(before) \in Seq(Byte)
  BY <1>4, TextType
<1>9. Text(whole) = Text(before)
  <2>1. \A s \in Seq(Byte) : s \o <<>> = s
    OBVIOUS
  <2> QED
    BY <1>7, <1>8, <2>1, Zenon DEF Joined
<1> QED
  BY <1>9 DEF whole, before

\* One more byte is framed.
LEMMA FramedStep ==
  ASSUME NEW data \in Seq(Byte), NEW i \in 1..Len(data),
         NEW acc \in Cuts, FramedSoFar(acc, data, i - 1)
  PROVE  FramedSoFar(CutAt(acc, data[i]), data, i)
<1> DEFINE b == data[i]
           now == CutAt(acc, b)
<1>1. Len(data) \in Nat /\ i \in Nat /\ b \in Byte /\ i \in 0..Len(data) /\ i - 1 \in 0..Len(data)
  BY LenProperties
<1>2. acc.messages \in Seq(Seq(Byte)) /\ acc.rest \in Seq(Byte)
  BY DEF Cuts
<1>3. PICK c \in 0..i - 1 : /\ Kept(acc.rest, data, c, i - 1)
                            /\ Text(FlattenSeq(acc.messages)) = Text(SubSeq(data, 1, c))
  BY DEF FramedSoFar
<1> DEFINE rest == acc.rest
<1>4. /\ Piece(rest, data, c, i - 1) /\ (c = 0 \/ Delimiter(data, c))
      /\ \A e \in c + 2..i - 1 : ~Delimiter(data, e)
  BY <1>3 DEF Kept
<1> HIDE DEF rest
<1>5. /\ rest \in Seq(Byte) /\ Len(rest) = (i - 1) - c
      /\ \A k \in 1..(i - 1) - c : rest[k] = data[c + k]
  <2> DEFINE j == i - 1
  <2>1. Piece(rest, data, c, j)
    BY <1>4
  <2> HIDE DEF j
  <2>2. /\ rest \in Seq(Byte) /\ Len(rest) = j - c
        /\ \A k \in 1..j - c : rest[k] = data[c + k]
    BY <2>1, PieceElements
  <2> QED
    BY <2>2 DEF j
<1>6. Piece(Append(rest, b), data, c, i)
  <2> DEFINE longer == Append(rest, b)
  <2>1. /\ longer \in Seq(Byte) /\ Len(longer) = Len(rest) + 1
        /\ longer[Len(rest) + 1] = b
        /\ \A k \in 1..Len(rest) : longer[k] = rest[k]
    BY <1>1, <1>5, AppendProperties
  <2> HIDE DEF longer, b
  <2>2. ASSUME NEW k \in 1..i - c
        PROVE  longer[k] = data[c + k]
    <3>1. CASE k = i - c
      <4>1. k = Len(rest) + 1 /\ c + k = i
        BY <1>1, <1>5, <3>1
      <4> QED
        BY <2>1, <4>1 DEF b
    <3>2. CASE k # i - c
      <4>1. k \in 1..(i - 1) - c
        BY <1>1, <3>2
      <4> QED
        BY <1>5, <2>1, <4>1
    <3> QED
      BY <3>1, <3>2
  <2>3. c \in 0..Len(data) /\ i \in c..Len(data) /\ Len(longer) = i - c
    BY <1>1, <1>5, <2>1
  <2> QED
    BY <2>1, <2>2, <2>3, PieceOf DEF longer
<1>7. rest # <<>> => i - 1 > c /\ Last(rest) = data[i - 1]
  <2> SUFFICES ASSUME rest # <<>>
               PROVE  i - 1 > c /\ Last(rest) = data[i - 1]
    OBVIOUS
  <2>1. Len(rest) # 0 /\ Len(rest) \in Nat
    BY <1>5, EmptySeq, LenProperties
  <2>2. (i - 1) - c \in 1..(i - 1) - c /\ c + ((i - 1) - c) = i - 1 /\ i - 1 > c
    BY <1>1, <1>5, <2>1
  <2>3. rest[(i - 1) - c] = data[i - 1]
    BY <1>5, <2>2
  <2> QED
    BY <1>5, <2>2, <2>3 DEF Last
<1>8. i - 1 > c => rest # <<>>
  <2>1. rest = <<>> => Len(rest) = 0
    OBVIOUS
  <2> QED
    BY <1>1, <1>5, <2>1
<1>9. \A x \in 0..i - 1 : x \in 0..i
  BY <1>1
<1> DEFINE cut == b = LF /\ rest # <<>> /\ Last(rest) = CR
<1>10. CASE ~cut
  <2>1. now.messages = acc.messages /\ now.rest = Append(rest, b)
    BY <1>2, <1>10 DEF CutAt, Cuts, rest
  <2>2. \A e \in c + 2..i : ~Delimiter(data, e)
    <3> SUFFICES ASSUME NEW e \in c + 2..i, Delimiter(data, e)
                 PROVE  FALSE
      OBVIOUS
    <3>1. e = i
      <4>1. e # i => e \in c + 2..i - 1
        BY <1>1
      <4> QED
        BY <1>4, <4>1
    <3>2. data[i - 1] = CR /\ b = LF /\ i - 1 > c
      BY <1>1, <3>1 DEF Delimiter
    <3> QED
      BY <1>7, <1>8, <1>10, <3>2
  <2>3. c \in 0..i
    BY <1>9
  <2> HIDE DEF now
  <2>4. Kept(now.rest, data, c, i)
    BY <1>4, <1>6, <2>1, <2>2 DEF Kept
  <2> QED
    BY <1>3, <1>9, <2>1, <2>3, <2>4 DEF FramedSoFar, now, b
<1>11. CASE cut
  <2>1. Delimiter(data, i) /\ i - 1 > c /\ i \in 2..Len(data)
    BY <1>1, <1>7, <1>11 DEF Delimiter
  <2>2. Kept(<<>>, data, i, i)
    <3>1. SubSeq(data, i + 1, i) = <<>>
      BY <1>1
    <3>2. Piece(<<>>, data, i, i)
      BY <1>1, <3>1 DEF Piece
    <3>3. \A e \in i + 2..i : FALSE
      BY <1>1
    <3> QED
      BY <2>1, <3>2, <3>3 DEF Kept
  <2>3. CASE Len(rest) = 1
    <3>1. now = [acc EXCEPT !.rest = <<>>]
      BY <1>11, <2>3 DEF CutAt, rest
    <3>2. now.messages = acc.messages /\ now.rest = <<>>
      BY <3>1, <1>2 DEF Cuts
    <3>3. c = i - 2
      <4>1. (i - 1) - c = 1 /\ c \in Nat /\ i \in Nat
        <5>1. Len(rest) = (i - 1) - c
          BY <1>5
        <5>2. (i - 1) - c = 1
          BY <2>3, <5>1, Zenon
        <5>3. c \in Nat
          BY <1>1
        <5> QED
          BY <1>1, <5>2, <5>3
      <4> QED
        BY <4>1
    <3>4. Text(SubSeq(data, 1, i)) = Text(SubSeq(data, 1, c))
      BY <2>1, <3>3, DelimiterText
    <3>5. i \in 0..i
      BY <1>1
    <3> HIDE DEF now
    <3> QED
      BY <1>3, <1>9, <2>2, <3>2, <3>4, <3>5 DEF FramedSoFar, now, b
  <2>4. CASE Len(rest) # 1
    <3> DEFINE message == Append(rest, b)
               more == Append(acc.messages, message)
    <3>1. now.messages = more /\ now.rest = <<>>
      BY <1>11, <2>4 DEF CutAt, rest
    <3>2. message \in Seq(Byte)
      BY <1>1, <1>5
    <3> HIDE DEF now, message, b
    <3>3. Frame(message, data, c, i)
      <4>1. \A e \in c + 2..i - 1 : ~Delimiter(data, e)
        BY <1>4
      <4>2. c < i
        BY <1>1
      <4> QED
        BY <1>4, <1>6, <2>1, <4>1, <4>2 DEF Frame, message
    <3>4. /\ Len(more) = Len(acc.messages) + 1 /\ more[Len(acc.messages) + 1] = message
          /\ \A k \in 1..Len(acc.messages) : more[k] = acc.messages[k]
          /\ Len(acc.messages) \in Nat
      BY <1>2, <3>2, AppendProperties, LenProperties
    <3>5. Text(FlattenSeq(more)) = Text(SubSeq(data, 1, i))
      <4> DEFINE flat == FlattenSeq(acc.messages)
                 first == SubSeq(data, 0 + 1, c)
                 whole == SubSeq(data, 0 + 1, i)
      <4>1. flat \in Seq(Byte)
        BY <1>2, FlatType
      <4>2. FlattenSeq(more) = flat \o message
        BY <1>2, <3>2, FlatAppend
      <4>3. Joined(FlattenSeq(more), flat, message)
        BY <4>2, Zenon DEF Joined
      <4>4. Joined(Text(FlattenSeq(more)), Text(flat), Text(message))
        <5> HIDE DEF flat, more
        <5> QED
          BY <3>2, <4>1, <4>3, TextJoined
      <4>5. message = SubSeq(data, c + 1, i)
        BY <3>3 DEF Frame, Piece
      <4>6. 0 \in 0..Len(data) /\ c \in 0..Len(data) /\ i \in c..Len(data)
        BY <1>1
      <4>7. Joined(whole, first, message)
        BY <4>5, <4>6, PieceSplits
      <4>8. first \in Seq(Byte)
        <5>1. Piece(first, data, 0, c)
          BY <4>6 DEF Piece
        <5> QED
          BY <5>1, PieceElements
      <4> HIDE DEF first, whole
      <4>9. Joined(Text(whole), Text(first), Text(message))
        BY <3>2, <4>7, <4>8, TextJoined
      <4>10. Text(flat) = Text(first)
        BY <1>3 DEF first
      <4>11. Text(FlattenSeq(more)) = Text(whole)
        <5> HIDE DEF more, flat
        <5> QED
          BY <4>4, <4>9, <4>10, Zenon DEF Joined
      <4> QED
        BY <4>11 DEF whole
    <3> HIDE DEF more
    <3>6. \A k \in 1..Len(more) : \E x, y \in 0..i : Frame(more[k], data, x, y)
      <4> SUFFICES ASSUME NEW k \in 1..Len(more)
                   PROVE  \E x, y \in 0..i : Frame(more[k], data, x, y)
        OBVIOUS
      <4>1. CASE k = Len(acc.messages) + 1
        <5>1. c \in 0..i /\ i \in 0..i
          BY <1>1
        <5> QED
          BY <3>3, <3>4, <4>1, <5>1
      <4>2. CASE k # Len(acc.messages) + 1
        <5>1. k \in 1..Len(acc.messages)
          BY <3>4, <4>2
        <5>2. \E x, y \in 0..i - 1 : Frame(acc.messages[k], data, x, y)
          BY <5>1 DEF FramedSoFar
        <5> QED
          BY <1>9, <3>4, <5>1, <5>2
      <4> QED
        BY <4>1, <4>2
    <3>7. i \in 0..i
      BY <1>1
    <3> QED
      BY <2>2, <3>1, <3>5, <3>6, <3>7 DEF FramedSoFar, now, b
  <2> QED
    BY <2>3, <2>4
<1> QED
  BY <1>10, <1>11

\* push: its messages are what is between delimiters, what is pending has none,
\* and no text is lost.
LEMMA FramedCuts ==
  ASSUME NEW data \in Seq(Byte)
  PROVE  Framed[data] \in Cuts /\ FramedSoFar(Framed[data], data, Len(data))
<1> DEFINE n == Len(data)
<1>1. PICK g : FramedUpTo(g, data)
  BY FramedBuilt
<1>2. /\ g \in [0..n -> Cuts] /\ g[0] = [messages |-> <<>>, rest |-> <<>>]
      /\ \A i \in 1..n : g[i] = CutAt(g[i - 1], data[i])
      /\ Framed[data] = g[n]
  BY <1>1 DEF FramedUpTo
<1>3. n \in Nat /\ 0 \in 0..n /\ n \in 0..n
  BY LenProperties
<1> DEFINE Q == {i \in 0..n : FramedSoFar(g[i], data, i)}
<1>4. 0 \in Q
  <2>1. g[0].messages = <<>> /\ g[0].rest = <<>>
    BY <1>2
  <2>2. SubSeq(data, 1, 0) = <<>> /\ SubSeq(data, 0 + 1, 0) = <<>>
    BY <1>3
  <2>3. Kept(<<>>, data, 0, 0)
    <3>1. Piece(<<>>, data, 0, 0)
      BY <1>3, <2>2 DEF Piece
    <3>2. \A e \in 0 + 2..0 : FALSE
      OBVIOUS
    <3> QED
      BY <3>1, <3>2 DEF Kept
  <2>4. FramedSoFar(g[0], data, 0)
    <3>1. Text(FlattenSeq(<<>>)) = Text(SubSeq(data, 1, 0))
      BY <2>2, FlatEmpty
    <3>2. \A k \in 1..Len(<<>>) : FALSE
      OBVIOUS
    <3>3. 0 \in 0..0
      OBVIOUS
    <3> QED
      BY <2>1, <2>3, <3>1, <3>2, <3>3 DEF FramedSoFar
  <2> QED
    BY <1>3, <2>4
<1>5. ASSUME NEW i \in 1..n, i - 1 \in Q
      PROVE  i \in Q
  <2>1. i \in 0..n /\ i - 1 \in 0..n
    BY <1>3
  <2>2. g[i - 1] \in Cuts /\ FramedSoFar(g[i - 1], data, i - 1)
    BY <1>2, <1>5, <2>1
  <2> QED
    BY <1>2, <2>1, <2>2, FramedStep
<1> HIDE DEF Q
<1>6. 0..n \subseteq Q
  BY <1>3, <1>4, <1>5, UpTo
<1>7. FramedSoFar(g[n], data, n)
  BY <1>3, <1>6 DEF Q
<1> QED
  BY <1>2, <1>3, <1>7

-----------------------------------------------------------------------------
(* What the receiver has made of the stream *)

\* How much of it was read, and where what is pending begins.
At == said - Len(inDev)
From == At - Len(pendingMessage)

\* The receiver's state as pieces of the stream: what is pending begins where a
\* line or a prompt ends and has no delimiter, framed and notified messages are
\* whole, and their texts are what was said before.
StreamInv ==
  /\ talk \in Talks /\ said \in 0..Len(Stream) /\ overflowed \in BOOLEAN
  /\ framed \in Seq(Seq(Byte)) /\ notified \in Seq(Seq(Byte))
  /\ Piece(inDev, Stream, At, said) /\ Piece(pendingMessage, Stream, From, At)
  /\ From \in Ends(talk) \/ overflowed \/ (device = "deaf" /\ From = said)
  /\ \A e \in 1..Len(pendingMessage) : ~Delimiter(pendingMessage, e)
  /\ Len(pendingMessage) <= k_maxPendingMessageSize
  /\ \A k \in 1..Len(framed) : Whole(framed[k])
  /\ \A k \in 1..Len(notified) : Whole(notified[k])
  /\ ~overflowed => Joined(Text(SubSeq(Stream, 1, From)), Text(FlattenSeq(notified)),
                           Text(FlattenSeq(framed)))

\* What is said is a sequence of bytes, of lines and prompts, in which a
\* delimiter is the end of a line.
LEMMA StreamType ==
  ASSUME talk \in Talks
  PROVE  /\ talk \in Seq(Seq(Byte)) /\ Stream \in Seq(Byte) /\ Len(Stream) \in Nat
         /\ \A e \in 1..Len(Stream) : Delimiter(Stream, e) => e \in LineEnds(talk)
<1>1. talk \in Seq(Seq(Byte))
  BY LinkAssumption
<1>2. Stream \in Seq(Byte)
  BY <1>1, FlatType DEF Stream
<1>3. \A e \in 1..Len(Stream) : Delimiter(Stream, e) => e \in LineEnds(talk)
  BY LinkAssumption DEF Stream
<1> QED
  BY <1>1, <1>2, <1>3, LenProperties

\* Delimiters of a piece are those of the sequence.
LEMMA DelimiterOfPiece ==
  ASSUME NEW s \in Seq(Byte), NEW p, NEW x, NEW y, Piece(p, s, x, y), NEW e \in 2..y - x
  PROVE  /\ Delimiter(p, e) <=> Delimiter(s, x + e)
         /\ x + e \in 1..Len(s)
<1>1. /\ \A k \in 1..y - x : p[k] = s[x + k] /\ x + k \in 1..Len(s)
      /\ x \in Nat /\ y \in Nat
  BY PieceElements
<1>2. e - 1 \in 1..y - x /\ e \in 1..y - x /\ x + (e - 1) = (x + e) - 1 /\ x + e >= 2 /\ e >= 2
  BY <1>1
<1>3. p[e - 1] = s[x + (e - 1)] /\ p[e] = s[x + e] /\ x + e \in 1..Len(s)
  BY <1>1, <1>2
<1>4. p[e - 1] = s[(x + e) - 1]
  BY <1>2, <1>3
<1> QED
  BY <1>2, <1>3, <1>4 DEF Delimiter

\* A message without a delimiter but at its end is whole.
LEMMA WholePiece ==
  ASSUME talk \in Talks, said \in 0..Len(Stream),
         NEW x \in 0..said, NEW y \in 0..said, NEW m, x < y, Piece(m, Stream, x, y),
         x \in Ends(talk) \/ overflowed,
         y \in Ends(talk) \/ (device = "deaf" /\ y = said),
         \A e \in x + 2..y - 1 : ~Delimiter(Stream, e)
  PROVE  Whole(m)
<1>1. talk \in Seq(Seq(Byte)) /\ Stream \in Seq(Byte) /\ Len(Stream) \in Nat
  BY StreamType
<1>2. m = SubSeq(Stream, x + 1, y)
  BY DEF Piece
<1>3. ASSUME NEW e \in LineEnds(talk), x < e, e < y
      PROVE  overflowed /\ e = x + 1
  <2>1. /\ e \in 2..Len(Stream) /\ e - 1 \notin Ends(talk) /\ Delimiter(Stream, e)
    BY <1>1, LineEndDelimits DEF Stream
  <2>2. e = x + 1
    <3>1. x \in Int /\ y \in Int /\ e \in Int
      BY <1>1, <2>1
    <3>2. e # x + 1 => e \in x + 2..y - 1
      BY <1>3, <3>1
    <3> QED
      BY <2>1, <3>2
  <2>3. e - 1 = x
    BY <1>1, <2>2
  <2> QED
    BY <2>1, <2>2, <2>3
<1> QED
  BY <1>2, <1>3 DEF Whole

\* A whole message stays whole.
LEMMA WholeStays ==
  ASSUME NEW m, Whole(m), talk' = talk, said \in Nat, said' \in said..said + 1,
         overflowed => overflowed',
         device = "deaf" => device' = "deaf" /\ said' = said
  PROVE  Whole(m)'
<1>1. PICK x \in 0..said, y \in 0..said :
        /\ x < y /\ m = SubSeq(Stream, x + 1, y)
        /\ x \in Ends(talk) \/ overflowed
        /\ y \in Ends(talk) \/ (device = "deaf" /\ y = said)
        /\ \A e \in LineEnds(talk) : x < e /\ e < y => overflowed /\ e = x + 1
  BY DEF Whole
<1>2. x \in 0..said' /\ y \in 0..said'
  OBVIOUS
<1>3. /\ m = SubSeq(Stream', x + 1, y) /\ x < y
      /\ x \in Ends(talk') \/ overflowed'
      /\ y \in Ends(talk') \/ (device' = "deaf" /\ y = said')
      /\ \A e \in LineEnds(talk') : x < e /\ e < y => overflowed' /\ e = x + 1
  BY <1>1 DEF Stream
<1> QED
  BY <1>2, <1>3 DEF Whole

\* Types of what the receiver holds.
LEMMA StreamFacts ==
  ASSUME StreamInv
  PROVE  /\ talk \in Seq(Seq(Byte)) /\ Stream \in Seq(Byte) /\ Len(Stream) \in Nat
         /\ said \in Nat /\ inDev \in Seq(Byte) /\ pendingMessage \in Seq(Byte)
         /\ Len(inDev) \in Nat /\ Len(pendingMessage) \in Nat
         /\ At \in 0..said /\ From \in 0..At
<1>1. /\ talk \in Seq(Seq(Byte)) /\ Stream \in Seq(Byte) /\ Len(Stream) \in Nat
      /\ said \in 0..Len(Stream)
  BY StreamType DEF StreamInv
<1>2. Piece(inDev, Stream, At, said) /\ Piece(pendingMessage, Stream, From, At)
  BY DEF StreamInv
<1>3. inDev \in Seq(Byte) /\ At \in Nat /\ At <= said
  BY <1>1, <1>2, PieceElements
<1>4. pendingMessage \in Seq(Byte) /\ From \in Nat /\ From <= At
  BY <1>1, <1>2, PieceElements
<1> QED
  BY <1>1, <1>3, <1>4, LenProperties

\* What the receiver has before anything is said.
LEMMA InitStream == Init => StreamInv
<1> SUFFICES ASSUME Init
             PROVE  StreamInv
  OBVIOUS
<1>1. /\ talk \in Talks /\ said = 0 /\ inDev = <<>> /\ pendingMessage = <<>>
      /\ framed = <<>> /\ notified = <<>> /\ overflowed = FALSE
  BY DEF Init
<1>2. At = 0 /\ From = 0
  <2>1. Len(<<>>) = 0
    OBVIOUS
  <2>2. Len(inDev) = 0 /\ Len(pendingMessage) = 0 /\ said = 0
    BY <1>1, <2>1, Zenon
  <2>3. At = 0
    BY <2>2 DEF At
  <2> QED
    BY <2>2, <2>3 DEF From
<1>3. talk \in Seq(Seq(Byte)) /\ Stream \in Seq(Byte) /\ Len(Stream) \in Nat
  BY <1>1, StreamType
<1>4. SubSeq(Stream, 0 + 1, 0) = <<>> /\ SubSeq(Stream, 1, 0) = <<>>
  BY <1>3
<1>5. Piece(<<>>, Stream, 0, 0)
  BY <1>3, <1>4 DEF Piece
<1>6. 0 \in Ends(talk)
  <2>1. SubSeq(talk, 1, 0) = <<>> /\ Len(talk) \in Nat
    BY <1>3, LenProperties
  <2>2. End(talk, 0) = 0
    <3>1. FlattenSeq(SubSeq(talk, 1, 0)) = <<>>
      BY <2>1, FlatEmpty, Zenon
    <3>2. Len(<<>>) = 0
      OBVIOUS
    <3> QED
      BY <3>1, <3>2, Zenon DEF End
  <2> QED
    BY <2>1, <2>2 DEF Ends
<1>7. Joined(Text(<<>>), Text(<<>>), Text(<<>>))
  <2>1. Joined(<<>>, <<>>, <<>>)
    BY DEF Joined
  <2>2. <<>> \in Seq(Byte)
    OBVIOUS
  <2> QED
    BY <2>1, <2>2, TextJoined
<1>8. /\ Len(<<>>) = 0 /\ <<>> \in Seq(Seq(Byte)) /\ 0 <= k_maxPendingMessageSize
      /\ 0 \in 0..Len(Stream)
  BY <1>3, LinkAssumption
<1>9. /\ \A k \in 1..0 : FALSE
  OBVIOUS
<1> QED
  BY <1>1, <1>2, <1>4, <1>5, <1>6, <1>7, <1>8, <1>9, FlatEmpty DEF StreamInv

\* Steps that leave the receiver and what is said alone.
LEMMA StreamUnmoved ==
  ASSUME StreamInv, UNCHANGED <<talk, said, inDev, pendingMessage, framed, notified, overflowed>>,
         device = "deaf" => device' = "deaf"
  PROVE  StreamInv'
<1>1. At' = At /\ From' = From /\ Stream' = Stream
  BY DEF At, From, Stream
<1>2. said \in Nat /\ said' \in said..said + 1 /\ talk' = talk /\ (overflowed => overflowed')
  BY StreamFacts
<1>3. \A m : Whole(m) => Whole(m)'
  BY <1>2, WholeStays
<1> QED
  BY <1>1, <1>3 DEF StreamInv

\* The modem says one more byte.
LEMMA StreamSays ==
  ASSUME StreamInv, Says
  PROVE  StreamInv'
<1>1. /\ talk \in Seq(Seq(Byte)) /\ Stream \in Seq(Byte) /\ Len(Stream) \in Nat
      /\ said \in Nat /\ inDev \in Seq(Byte) /\ Len(inDev) \in Nat /\ At \in 0..said
  BY StreamFacts
<1>2. /\ said < Len(Stream) /\ inDev' = Append(inDev, Stream[said + 1]) /\ said' = said + 1
      /\ UNCHANGED <<talk, pendingMessage, framed, notified, overflowed, device>>
      /\ device = "up"
  BY DEF Says, receiver, history
<1>3. Stream' = Stream /\ said + 1 \in 1..Len(Stream) /\ said' \in 0..Len(Stream)
  BY <1>1, <1>2 DEF Stream
<1>4. Len(inDev') = Len(inDev) + 1
  BY <1>1, <1>2
<1>5. At' = At /\ From' = From
  <2>1. At' = At
    BY <1>1, <1>2, <1>4 DEF At
  <2> QED
    BY <1>2, <2>1 DEF From
<1>6. Piece(inDev', Stream', At', said')
  <2> DEFINE one == <<Stream[said + 1]>>
  <2>1. Stream[said + 1] \in Byte
    BY <1>1, <1>3
  <2>2. Piece(one, Stream, said, said + 1)
    <3>1. one \in Seq(Byte) /\ Len(one) = (said + 1) - said
      BY <1>1, <2>1
    <3>2. \A k \in 1..(said + 1) - said : one[k] = Stream[said + k]
      BY <1>1
    <3>3. said \in 0..Len(Stream) /\ said + 1 \in said..Len(Stream)
      BY <1>1, <1>2
    <3> HIDE DEF one
    <3> QED
      BY <1>1, <3>1, <3>2, <3>3, PieceOf
  <2>3. inDev' = inDev \o one
    BY <1>1, <1>2, <2>1, AppendIsConcat
  <2> HIDE DEF one
  <2>4. Piece(inDev, Stream, At, said)
    BY DEF StreamInv
  <2>5. Piece(inDev \o one, Stream, At, said + 1)
    BY <1>1, <2>2, <2>4, PiecesJoined
  <2> QED
    BY <1>2, <1>3, <1>5, <2>3, <2>5, Zenon
<1>7. \A m : Whole(m) => Whole(m)'
  <2>1. said' \in said..said + 1
    BY <1>1, <1>2
  <2> QED
    BY <1>1, <1>2, <2>1, WholeStays
<1>8. (device = "deaf") = FALSE /\ (device' = "deaf") = FALSE
  BY <1>2
<1>9. From \in Ends(talk) \/ overflowed
  BY <1>8 DEF StreamInv
<1>10. Piece(pendingMessage', Stream', From', At')
  BY <1>2, <1>3, <1>5 DEF StreamInv
<1> QED
  BY <1>2, <1>3, <1>5, <1>6, <1>7, <1>9, <1>10 DEF StreamInv

\* A message that is notified goes from the framed ones to the notified.
LEMMA StreamNotifies ==
  ASSUME StreamInv, newMessageNotify
  PROVE  StreamInv'
<1>1. /\ framed # <<>> /\ framed' = Tail(framed) /\ notified' = Append(notified, Head(framed))
      /\ UNCHANGED <<talk, said, inDev, pendingMessage, overflowed, device>>
  BY DEF newMessageNotify, OnlyReceiver, modem
<1>2. At' = At /\ From' = From /\ Stream' = Stream
  BY <1>1 DEF At, From, Stream
<1>3. framed \in Seq(Seq(Byte)) /\ notified \in Seq(Seq(Byte))
  BY DEF StreamInv
<1>4. PICK m \in Seq(Byte) : m = Head(framed) /\ m = framed[1]
  BY <1>1, <1>3
<1>5. /\ Len(framed) \in Nat \ {0} /\ framed' \in Seq(Seq(Byte))
      /\ Len(framed') = Len(framed) - 1
      /\ \A k \in 1..Len(framed') : framed'[k] = framed[k + 1] /\ k + 1 \in 1..Len(framed)
  BY <1>1, <1>3, EmptySeq, LenProperties
<1>6. /\ notified' \in Seq(Seq(Byte)) /\ Len(notified') = Len(notified) + 1
      /\ notified'[Len(notified) + 1] = m /\ Len(notified) \in Nat
      /\ \A k \in 1..Len(notified) : notified'[k] = notified[k]
  BY <1>1, <1>3, <1>4, AppendProperties, LenProperties
<1>7. \A l : Whole(l) => Whole(l)'
  <2>1. said \in Nat /\ said' \in said..said + 1
    BY <1>1, StreamFacts
  <2> QED
    BY <1>1, <2>1, WholeStays
<1>8. (\A k \in 1..Len(framed) : Whole(framed[k]))'
  <2> SUFFICES ASSUME NEW k \in 1..Len(framed')
               PROVE  Whole(framed[k])'
    OBVIOUS
  <2>1. PICK l : l = framed'[k] /\ Whole(l)
    BY <1>5 DEF StreamInv
  <2>2. Whole(l)'
    BY <1>7, <2>1
  <2> QED
    BY <2>1, <2>2 DEF Whole
<1>9. (\A k \in 1..Len(notified) : Whole(notified[k]))'
  <2> SUFFICES ASSUME NEW k \in 1..Len(notified')
               PROVE  Whole(notified[k])'
    OBVIOUS
  <2>1. PICK l : l = notified'[k] /\ Whole(l)
    <3>1. CASE k = Len(notified) + 1
      <4>1. Whole(m)
        BY <1>4, <1>5 DEF StreamInv
      <4> QED
        BY <1>6, <3>1, <4>1
    <3>2. CASE k # Len(notified) + 1
      <4>1. k \in 1..Len(notified)
        BY <1>6, <3>2
      <4> QED
        BY <1>6, <4>1 DEF StreamInv
    <3> QED
      BY <3>1, <3>2
  <2>2. Whole(l)'
    BY <1>7, <2>1
  <2> QED
    BY <2>1, <2>2 DEF Whole
<1>10. ASSUME ~overflowed
       PROVE  Joined(Text(SubSeq(Stream, 1, From)), Text(FlattenSeq(notified')),
                     Text(FlattenSeq(framed')))
  <2> DEFINE s == Text(SubSeq(Stream, 1, From))
             n == FlattenSeq(notified)
             f == FlattenSeq(framed)
             more == FlattenSeq(notified')
             rest == FlattenSeq(framed')
  <2>1. n \in Seq(Byte) /\ f \in Seq(Byte) /\ more \in Seq(Byte) /\ rest \in Seq(Byte)
    BY <1>3, <1>5, <1>6, FlatType
  <2>2. f = m \o rest
    BY <1>1, <1>3, <1>4, FlatHead
  <2>3. more = n \o m
    BY <1>1, <1>3, <1>4, FlatAppend
  <2>4. Joined(s, Text(n), Text(f))
    BY <1>10 DEF StreamInv
  <2> HIDE DEF s, n, f, more, rest
  <2>5. Joined(f, m, rest) /\ Joined(more, n, m)
    BY <2>2, <2>3, Zenon DEF Joined
  <2>6. Joined(Text(f), Text(m), Text(rest)) /\ Joined(Text(more), Text(n), Text(m))
    BY <1>4, <2>1, <2>5, TextJoined
  <2>7. Text(n) \in Seq(Byte) /\ Text(m) \in Seq(Byte) /\ Text(rest) \in Seq(Byte)
    BY <1>4, <2>1, TextType
  <2>8. Joined(s, Text(more), Text(rest))
    BY <2>4, <2>6, <2>7, JoinedShift
  <2> QED
    BY <2>8 DEF s, more, rest
<1> QED
  BY <1>1, <1>2, <1>5, <1>6, <1>8, <1>9, <1>10 DEF StreamInv, Text

\* A pause is no end of a line or a prompt, unless the modem hangs: what is
\* pending is a message.
LEMMA StreamFlushes ==
  ASSUME LinkInv, StreamInv, SelectTimeout
  PROVE  StreamInv'
<1>1. /\ talk \in Seq(Seq(Byte)) /\ Stream \in Seq(Byte) /\ Len(Stream) \in Nat
      /\ said \in Nat /\ pendingMessage \in Seq(Byte)
      /\ Len(pendingMessage) \in Nat /\ At \in 0..said /\ From \in 0..At
  BY StreamFacts
<1>2. /\ rpc = "select" /\ inDev = <<>> /\ pendingMessage' = <<>>
      /\ framed' = IF pendingMessage = <<>> THEN <<>> ELSE <<pendingMessage>>
      /\ UNCHANGED <<talk, said, inDev, notified, overflowed, device>>
  BY DEF SelectTimeout, flushPending, OnlyReceiver, modem, history
<1>3. said \in Ends(talk) \/ device = "deaf"
  BY DEF SelectTimeout, MidItem
<1>4. framed = <<>>
  BY <1>2 DEF LinkInv
<1>5. Len(<<>>) = 0
  OBVIOUS
<1>6. At = said
  <2>1. Len(inDev) = 0
    BY <1>2, <1>5, Zenon
  <2> QED
    BY <1>1, <2>1 DEF At
<1>7. At' = said /\ From' = said /\ Stream' = Stream
  <2>1. Len(inDev') = 0 /\ Len(pendingMessage') = 0 /\ said' = said
    BY <1>2, <1>5, Zenon
  <2>2. At' = said
    BY <1>1, <2>1 DEF At
  <2> QED
    BY <1>1, <1>2, <2>1, <2>2 DEF From, Stream
<1>8. Piece(<<>>, Stream, said, said)
  <2>1. SubSeq(Stream, said + 1, said) = <<>>
    BY <1>1
  <2>2. said \in 0..Len(Stream) /\ said \in said..Len(Stream)
    BY <1>1 DEF StreamInv
  <2> QED
    BY <2>1, <2>2 DEF Piece
<1>9. Piece(pendingMessage, Stream, From, said)
  BY <1>6 DEF StreamInv
<1>10. \A m : Whole(m) => Whole(m)'
  <2>1. said' \in said..said + 1
    BY <1>1, <1>2
  <2> QED
    BY <1>1, <1>2, <2>1, WholeStays
<1>11. (\A k \in 1..Len(notified) : Whole(notified[k]))'
  BY <1>2, <1>10 DEF StreamInv
<1>12. /\ \A e \in 1..Len(<<>>) : FALSE
       /\ Len(<<>>) <= k_maxPendingMessageSize
  BY <1>5, LinkAssumption
<1>13. /\ Piece(inDev', Stream', At', said') /\ Piece(pendingMessage', Stream', From', At')
  BY <1>2, <1>7, <1>8
<1>14. From' \in Ends(talk') \/ overflowed' \/ (device' = "deaf" /\ From' = said')
  BY <1>2, <1>3, <1>7
<1>15. /\ talk' \in Talks /\ said' \in 0..Len(Stream') /\ overflowed' \in BOOLEAN
       /\ notified' \in Seq(Seq(Byte)) /\ notified' = notified
  BY <1>2, <1>7 DEF StreamInv
<1>16. CASE pendingMessage = <<>>
  <2>1. framed' = framed
    BY <1>2, <1>4, <1>16
  <2>2. Len(pendingMessage) = 0
    BY <1>5, <1>16, Zenon
  <2>3. From = said
    BY <1>1, <1>6, <2>2 DEF From
  <2>4. framed' = <<>> /\ <<>> \in Seq(Seq(Byte))
    BY <1>4, <2>1
  <2>5. (\A k \in 1..Len(framed) : Whole(framed[k]))'
    BY <2>4
  <2> QED
    BY <1>2, <1>7, <1>11, <1>12, <1>13, <1>14, <1>15, <2>1, <2>3, <2>4, <2>5
       DEF StreamInv, Text
<1>17. CASE pendingMessage # <<>>
  <2>1. PICK m \in Seq(Byte) : m = pendingMessage /\ m # <<>>
    BY <1>1, <1>17
  <2>2. Len(m) \in Nat \ {0}
    BY <2>1, EmptySeq, LenProperties
  <2>3. From < said /\ From \in 0..said /\ said \in 0..said
    BY <1>1, <1>6, <2>1, <2>2 DEF From
  <2>4. From \in Ends(talk) \/ overflowed
    BY <1>1, <2>3 DEF StreamInv
  <2>5. \A e \in From + 2..said - 1 : ~Delimiter(Stream, e)
    <3> SUFFICES ASSUME NEW e \in From + 2..said - 1, Delimiter(Stream, e)
                 PROVE  FALSE
      OBVIOUS
    <3>1. PICK d \in 2..said - From : e = From + d
      <4>1. e - From \in 2..said - From /\ e = From + (e - From)
        BY <1>1, <2>3
      <4> QED
        BY <4>1
    <3>2. Piece(m, Stream, From, said)
      BY <1>9, <2>1
    <3>3. Delimiter(m, d)
      BY <1>1, <3>1, <3>2, DelimiterOfPiece
    <3>4. d \in 1..Len(m)
      <4>1. PICK f : f = From /\ f \in Nat
        BY <1>1
      <4>2. Piece(m, Stream, f, said)
        BY <3>2, <4>1
      <4>3. Len(m) = said - f
        BY <1>1, <4>2, PieceElements
      <4> QED
        BY <1>1, <4>1, <4>3
    <3> QED
      BY <2>1, <3>3, <3>4 DEF StreamInv
  <2>6. Whole(m)
    <3>1. talk \in Talks /\ said \in 0..Len(Stream)
      BY DEF StreamInv
    <3>2. Piece(m, Stream, From, said)
      BY <1>9, <2>1
    <3> HIDE DEF From
    <3> QED
      BY <1>3, <2>3, <2>4, <2>5, <3>1, <3>2, WholePiece
  <2>7. framed' = <<m>>
    BY <1>2, <1>17, <2>1
  <2>8. Whole(m)'
    BY <1>10, <2>6
  <2>9. (\A k \in 1..Len(framed) : Whole(framed[k]))'
    <3>1. Len(framed') = 1 /\ framed'[1] = m
      BY <2>7
    <3> QED
      BY <2>8, <3>1 DEF Whole
  <2>10. framed' \in Seq(Seq(Byte))
    BY <2>1, <2>7
  <2>11. ASSUME ~overflowed
         PROVE  Joined(Text(SubSeq(Stream, 1, said)), Text(FlattenSeq(notified)),
                       Text(FlattenSeq(framed')))
    <3> DEFINE whole == SubSeq(Stream, 0 + 1, said)
               before == SubSeq(Stream, 0 + 1, From)
               n == FlattenSeq(notified)
    <3>1. FlattenSeq(framed') = m
      BY <2>1, <2>7, FlatOne
    <3>2. m = SubSeq(Stream, From + 1, said)
      BY <1>9, <2>1 DEF Piece
    <3>3. 0 \in 0..Len(Stream) /\ From \in 0..Len(Stream) /\ said \in From..Len(Stream)
      BY <1>1, <2>3 DEF StreamInv
    <3>4. Joined(whole, before, m)
      BY <1>1, <3>2, <3>3, PieceSplits
    <3>5. before \in Seq(Byte)
      <4>1. Piece(before, Stream, 0, From)
        BY <3>3 DEF Piece
      <4> QED
        BY <1>1, <4>1, PieceElements
    <3>6. Joined(Text(before), Text(n), Text(FlattenSeq(<<>>)))
      <4>1. Joined(Text(SubSeq(Stream, 1, From)), Text(FlattenSeq(notified)),
                   Text(FlattenSeq(framed)))
        BY <2>11 DEF StreamInv
      <4> QED
        BY <1>4, <4>1
    <3>7. n \in Seq(Byte)
      BY FlatType DEF StreamInv
    <3> HIDE DEF whole, before, n
    <3>8. Text(before) = Text(n)
      <4>1. FlattenSeq(<<>>) = <<>>
        BY FlatEmpty
      <4>2. Text(<<>>) = <<>>
        BY EmptyText
      <4>3. Text(n) \in Seq(Byte)
        BY <3>7, TextType
      <4>4. \A s \in Seq(Byte) : s \o <<>> = s
        OBVIOUS
      <4> QED
        BY <3>6, <4>1, <4>2, <4>3, <4>4, Zenon DEF Joined
    <3>9. Joined(Text(whole), Text(before), Text(m))
      BY <2>1, <3>4, <3>5, TextJoined
    <3>10. Joined(Text(whole), Text(n), Text(FlattenSeq(framed')))
      BY <3>1, <3>8, <3>9, Zenon
    <3> QED
      BY <3>10 DEF whole, n
  <2> QED
    BY <1>2, <1>7, <1>11, <1>12, <1>13, <1>14, <1>15, <2>9, <2>10, <2>11 DEF StreamInv, Text
<1> QED
  BY <1>16, <1>17

\* How long a piece of the stream is.
LEMMA PieceLength ==
  ASSUME NEW data, NEW f, NEW z, Piece(data, Stream, f, z), Stream \in Seq(Byte)
  PROVE  Len(data) = z - f /\ Len(data) \in Nat /\ data \in Seq(Byte)
<1>1. Len(data) = z - f /\ data \in Seq(Byte)
  BY PieceElements
<1> QED
  BY <1>1, LenProperties

\* A cut in a piece of the stream is where a line or a prompt ends.
LEMMA CutEnds ==
  ASSUME talk \in Talks, NEW data, NEW f \in Nat, NEW z \in Nat, Piece(data, Stream, f, z),
         f \in Ends(talk) \/ overflowed,
         NEW c \in 0..Len(data), c = 0 \/ Delimiter(data, c)
  PROVE  /\ f + c \in Ends(talk) \/ overflowed
         /\ Delimiter(data, c) => f + c \in Ends(talk)
         /\ f + c <= z
<1>1. /\ talk \in Seq(Seq(Byte)) /\ Stream \in Seq(Byte)
      /\ \A e \in 1..Len(Stream) : Delimiter(Stream, e) => e \in LineEnds(talk)
  BY StreamType
<1>2. Len(data) = z - f
  BY <1>1, PieceElements
<1>3. f + c <= z
  BY <1>2
<1>4. ASSUME Delimiter(data, c)
      PROVE  f + c \in Ends(talk)
  <2>1. c \in 2..z - f
    <3>1. c >= 2
      BY <1>4 DEF Delimiter
    <3> QED
      BY <1>2, <3>1
  <2>2. Delimiter(Stream, f + c) /\ f + c \in 1..Len(Stream)
    BY <1>1, <1>4, <2>1, DelimiterOfPiece
  <2>3. f + c \in LineEnds(talk)
    BY <1>1, <2>2
  <2> QED
    BY <1>1, <2>3, LineEndDelimits
<1>5. c = 0 => f + c = f
  OBVIOUS
<1> QED
  BY <1>3, <1>4, <1>5

\* A message that push finds in a piece of the stream is whole.
LEMMA FrameWhole ==
  ASSUME talk \in Talks, said \in 0..Len(Stream),
         NEW data, NEW f \in Nat, NEW z \in 0..said, Piece(data, Stream, f, z),
         f \in Ends(talk) \/ overflowed,
         NEW m, NEW x \in 0..Len(data), NEW y \in 0..Len(data), Frame(m, data, x, y)
  PROVE  Whole(m)
<1>1. /\ Stream \in Seq(Byte) /\ Len(Stream) \in Nat /\ said \in Nat /\ z \in Nat /\ z <= said
  BY StreamType
<1>2. /\ Piece(m, data, x, y) /\ x < y /\ (x = 0 \/ Delimiter(data, x))
      /\ Delimiter(data, y) /\ \A e \in x + 2..y - 1 : ~Delimiter(data, e)
  BY DEF Frame
<1>3. Piece(m, Stream, f + x, f + y)
  BY <1>1, <1>2, PieceOfPiece
<1>4. Len(data) = z - f /\ Len(data) \in Nat
  BY <1>1, PieceLength
<1>5. /\ f + x \in Ends(talk) \/ overflowed
      /\ f + x <= z
  BY <1>1, <1>2, CutEnds
<1>6. /\ f + y \in Ends(talk)
      /\ f + y <= z
  BY <1>1, <1>2, CutEnds
<1>7. f + x \in 0..said /\ f + y \in 0..said /\ f + x < f + y
  BY <1>1, <1>2, <1>4, <1>5, <1>6
<1>8. \A e \in (f + x) + 2..(f + y) - 1 : ~Delimiter(Stream, e)
  <2> SUFFICES ASSUME NEW e \in (f + x) + 2..(f + y) - 1, Delimiter(Stream, e)
               PROVE  FALSE
    OBVIOUS
  <2>1. PICK d \in x + 2..y - 1 : e = f + d /\ d \in 2..z - f
    <3>1. /\ e - f \in x + 2..y - 1 /\ e = f + (e - f) /\ e - f \in 2..z - f
      BY <1>1, <1>4, <1>6
    <3> QED
      BY <3>1
  <2>2. Delimiter(data, d)
    BY <1>1, <2>1, DelimiterOfPiece
  <2> QED
    BY <1>2, <2>1, <2>2
<1> DEFINE u == f + x
           v == f + y
<1>9. /\ u \in 0..said /\ v \in 0..said /\ u < v /\ Piece(m, Stream, u, v)
      /\ u \in Ends(talk) \/ overflowed
      /\ v \in Ends(talk)
      /\ \A e \in u + 2..v - 1 : ~Delimiter(Stream, e)
  BY <1>3, <1>5, <1>6, <1>7, <1>8
<1> HIDE DEF u, v
<1> QED
  BY <1>9, WholePiece

\* A read takes the next piece of the stream, which push puts behind what is
\* pending.
LEMMA ReadPieces ==
  ASSUME StreamInv, NEW n \in 1..Len(inDev)
  PROVE  /\ Piece(pendingMessage \o SubSeq(inDev, 1, n), Stream, From, At + n)
         /\ Piece(SubSeq(inDev, n + 1, Len(inDev)), Stream, At + n, said)
         /\ At + n \in 1..said
<1>1. /\ Stream \in Seq(Byte) /\ Len(Stream) \in Nat /\ said \in Nat
      /\ inDev \in Seq(Byte) /\ Len(inDev) \in Nat /\ At \in Nat
  BY StreamFacts
<1>2. Piece(inDev, Stream, At, said) /\ Piece(pendingMessage, Stream, From, At)
  BY DEF StreamInv
<1>3. said = At + Len(inDev)
  BY <1>1 DEF At
<1> DEFINE chunk == SubSeq(inDev, 0 + 1, n)
           left == SubSeq(inDev, n + 1, Len(inDev))
<1>4. Piece(chunk, inDev, 0, n) /\ Piece(left, inDev, n, Len(inDev))
  BY <1>1 DEF Piece
<1> HIDE DEF chunk, left, At, From
<1>5. Piece(chunk, Stream, At + 0, At + n) /\ Piece(left, Stream, At + n, At + Len(inDev))
  BY <1>1, <1>2, <1>4, PieceOfPiece
<1>6. At + 0 = At /\ At + n \in 1..said
  BY <1>1, <1>3
<1>7. Piece(chunk, Stream, At, At + n) /\ Piece(left, Stream, At + n, said)
  BY <1>3, <1>5, <1>6
<1>8. Piece(pendingMessage \o chunk, Stream, From, At + n)
  BY <1>1, <1>2, <1>7, PiecesJoined
<1> QED
  BY <1>6, <1>7, <1>8 DEF chunk, left

\* A read, and push: what exceeds the limit is thrown away; otherwise the
\* messages are whole, and what stays pending begins where one ends.
LEMMA StreamReads ==
  ASSUME LinkInv, StreamInv, read
  PROVE  StreamInv'
<1>1. /\ talk \in Seq(Seq(Byte)) /\ Stream \in Seq(Byte) /\ Len(Stream) \in Nat
      /\ said \in Nat /\ inDev \in Seq(Byte) /\ pendingMessage \in Seq(Byte)
      /\ Len(inDev) \in Nat /\ Len(pendingMessage) \in Nat
      /\ At \in 0..said /\ From \in 0..At
  BY StreamFacts
<1>2. PICK n \in 1..Len(inDev) : Push(n) /\ inDev' = SubSeq(inDev, n + 1, Len(inDev))
  <2>1. inDev # <<>>
    BY DEF read
  <2>2. Len(inDev) \in Nat \ {0}
    BY <1>1, <2>1, EmptySeq
  <2> DEFINE n == IF Len(inDev) < k_bufferSize THEN Len(inDev) ELSE k_bufferSize
  <2>3. n \in 1..Len(inDev)
    BY <2>2, LinkAssumption
  <2>4. Push(n) /\ inDev' = SubSeq(inDev, n + 1, Len(inDev))
    BY DEF read
  <2> QED
    BY <2>3, <2>4
<1>3. /\ rpc = "select" /\ UNCHANGED <<talk, said, notified, device>>
  BY DEF read, OnlyReceiver, modem
<1>4. framed = <<>>
  BY <1>3 DEF LinkInv
<1> DEFINE data == pendingMessage \o SubSeq(inDev, 1, n)
           z == At + n
           over == Len(data) > k_maxPendingMessageSize
<1>5. /\ Piece(data, Stream, From, z) /\ Piece(inDev', Stream, z, said)
      /\ z \in 1..said
  BY <1>2, ReadPieces
<1>6. /\ overflowed' = (overflowed \/ over)
      /\ framed' = IF over THEN <<>> ELSE Framed[data].messages
      /\ pendingMessage' = IF over THEN <<>> ELSE Framed[data].rest
  BY <1>2 DEF Push
<1> HIDE DEF data, z, over
<1>7. Stream' = Stream
  BY <1>3 DEF Stream
<1>8. At' = z
  <2>1. Len(inDev') = said - z
    BY <1>1, <1>5, PieceLength
  <2> QED
    BY <1>1, <1>3, <1>5, <2>1 DEF At
<1>9. /\ From \in Nat /\ z \in Nat /\ From <= z /\ z \in 0..said /\ z <= Len(Stream)
      /\ Len(data) = z - From /\ Len(data) \in Nat /\ data \in Seq(Byte)
  <2>1. Len(data) = z - From /\ Len(data) \in Nat /\ data \in Seq(Byte)
    BY <1>1, <1>5, PieceLength
  <2>2. z <= Len(Stream)
    BY <1>5 DEF Piece, StreamInv
  <2> QED
    BY <1>1, <1>5, <2>1, <2>2
<1>10. /\ talk' \in Talks /\ said' \in 0..Len(Stream') /\ overflowed' \in BOOLEAN
       /\ notified' \in Seq(Seq(Byte)) /\ notified' = notified
  BY <1>3, <1>6, <1>7 DEF StreamInv
<1>11. \A m : Whole(m) => Whole(m)'
  <2>1. said' \in said..said + 1
    BY <1>1, <1>3
  <2>2. overflowed => overflowed'
    BY <1>6, Zenon
  <2> QED
    BY <1>1, <1>3, <2>1, <2>2, WholeStays
<1>12. (\A k \in 1..Len(notified) : Whole(notified[k]))'
  BY <1>3, <1>11 DEF StreamInv
<1>13. Piece(inDev', Stream', At', said')
  BY <1>3, <1>5, <1>7, <1>8
<1>14. CASE over
  <2>1. framed' = <<>> /\ pendingMessage' = <<>> /\ overflowed' = TRUE
    BY <1>6, <1>14
  <2>2. Len(<<>>) = 0 /\ <<>> \in Seq(Seq(Byte)) /\ 0 <= k_maxPendingMessageSize
    BY LinkAssumption
  <2>3. From' = z
    <3>1. Len(pendingMessage') = 0
      BY <2>1, <2>2, Zenon
    <3> QED
      BY <1>8, <1>9, <3>1 DEF From
  <2>4. Piece(<<>>, Stream, z, z)
    <3>1. SubSeq(Stream, z + 1, z) = <<>>
      BY <1>1, <1>9
    <3> QED
      BY <1>9, <3>1 DEF Piece
  <2>5. Piece(pendingMessage', Stream', From', At')
    BY <1>7, <1>8, <2>1, <2>3, <2>4
  <2>6. (\A k \in 1..Len(framed) : Whole(framed[k]))'
    BY <2>1
  <2>7. \A e \in 1..Len(pendingMessage') : FALSE
    BY <2>1, <2>2
  <2>8. Len(pendingMessage') <= k_maxPendingMessageSize /\ framed' \in Seq(Seq(Byte))
    BY <2>1, <2>2
  <2> QED
    BY <1>10, <1>12, <1>13, <2>1, <2>5, <2>6, <2>7, <2>8 DEF StreamInv
<1>15. CASE ~over
  <2> DEFINE cuts == Framed[data]
             rest == cuts.rest
  <2>1. /\ cuts \in Cuts /\ FramedSoFar(cuts, data, Len(data))
    BY <1>9, FramedCuts
  <2>2. framed' = cuts.messages /\ pendingMessage' = rest /\ overflowed' = overflowed
    BY <1>6, <1>15 DEF StreamInv
  <2> HIDE DEF cuts
  <2>3. framed' \in Seq(Seq(Byte)) /\ rest \in Seq(Byte)
    BY <2>1, <2>2 DEF Cuts
  <2>4. PICK c \in 0..Len(data) : /\ Kept(rest, data, c, Len(data))
                                  /\ Text(FlattenSeq(cuts.messages)) = Text(SubSeq(data, 1, c))
    BY <2>1 DEF FramedSoFar
  <2>5. \A k \in 1..Len(framed') : \E x, y \in 0..Len(data) : Frame(framed'[k], data, x, y)
    BY <2>1, <2>2 DEF FramedSoFar
  <2>6. /\ Piece(rest, data, c, Len(data)) /\ (c = 0 \/ Delimiter(data, c))
        /\ \A e \in c + 2..Len(data) : ~Delimiter(data, e)
    BY <2>4 DEF Kept
  <2> HIDE DEF rest
  <2>7. /\ Len(rest) = Len(data) - c /\ c \in Nat
        /\ Piece(rest, Stream, From + c, From + Len(data))
    <3>1. Len(rest) = Len(data) - c
      BY <1>9, <2>6, PieceElements
    <3>2. Piece(rest, Stream, From + c, From + Len(data))
      BY <1>1, <1>5, <2>6, PieceOfPiece
    <3> QED
      BY <1>9, <3>1, <3>2
  <2>8. From + Len(data) = z /\ From' = From + c
    <3>1. Len(pendingMessage') = Len(data) - c
      BY <2>2, <2>7
    <3>2. From' = z - (Len(data) - c)
      BY <1>8, <3>1 DEF From
    <3> QED
      BY <1>9, <2>7, <3>2
  <2>9. Piece(pendingMessage', Stream', From', At')
    BY <1>7, <1>8, <2>2, <2>7, <2>8
  <2>10. From \in Ends(talk) \/ overflowed
    <3>1. From # said
      <4>1. At + n \in 1..said /\ n \in 1..Len(inDev)
        BY <1>5 DEF z
      <4> QED
        BY <1>1, <4>1
    <3> QED
      BY <3>1 DEF StreamInv
  <2>11. From + c \in Ends(talk) \/ overflowed
    <3>1. talk \in Talks
      BY DEF StreamInv
    <3> QED
      BY <1>5, <1>9, <2>6, <2>10, <3>1, CutEnds
  <2>12. \A e \in 1..Len(rest) : ~Delimiter(rest, e)
    <3> SUFFICES ASSUME NEW e \in 1..Len(rest), Delimiter(rest, e)
                 PROVE  FALSE
      OBVIOUS
    <3>1. e \in 2..Len(data) - c
      BY <2>7 DEF Delimiter
    <3>2. Delimiter(data, c + e)
      BY <1>9, <2>6, <3>1, DelimiterOfPiece
    <3>3. c + e \in c + 2..Len(data)
      BY <1>9, <2>7, <3>1
    <3> QED
      BY <2>6, <3>2, <3>3
  <2>13. Len(pendingMessage') <= k_maxPendingMessageSize
    <3>1. Len(data) <= k_maxPendingMessageSize
      BY <1>9, <1>15, LinkAssumption DEF over
    <3>2. Len(pendingMessage') = Len(data) - c
      BY <2>2, <2>7
    <3> QED
      BY <1>9, <2>7, <3>1, <3>2, LinkAssumption
  <2>14. (\A k \in 1..Len(framed) : Whole(framed[k]))'
    <3> SUFFICES ASSUME NEW k \in 1..Len(framed')
                 PROVE  Whole(framed[k])'
      OBVIOUS
    <3>1. PICK m : m = framed'[k]
      OBVIOUS
    <3>2. PICK x \in 0..Len(data), y \in 0..Len(data) : Frame(m, data, x, y)
      BY <2>5, <3>1
    <3>3. talk \in Talks /\ said \in 0..Len(Stream)
      BY DEF StreamInv
    <3>4. Whole(m)
      BY <1>5, <1>9, <2>10, <3>2, <3>3, FrameWhole
    <3>5. Whole(m)'
      BY <1>11, <3>4
    <3> QED
      BY <3>1, <3>5 DEF Whole
  <2>15. ASSUME ~overflowed
         PROVE  Joined(Text(SubSeq(Stream, 1, From + c)), Text(FlattenSeq(notified)),
                       Text(FlattenSeq(framed')))
    <3> DEFINE whole == SubSeq(Stream, 0 + 1, From + c)
               before == SubSeq(Stream, 0 + 1, From)
               between == SubSeq(Stream, From + 1, From + c)
               first == SubSeq(data, 0 + 1, c)
               said1 == FlattenSeq(notified)
    <3>1. Piece(first, data, 0, c)
      BY <1>9 DEF Piece
    <3>2. Piece(first, Stream, From + 0, From + c)
      BY <1>1, <1>5, <3>1, PieceOfPiece
    <3>3. From + 0 = From /\ From + c <= Len(Stream)
      BY <1>9
    <3>4. first = between
      BY <3>2, <3>3 DEF Piece
    <3>5. /\ 0 \in 0..Len(Stream) /\ From \in 0..Len(Stream)
          /\ From + c \in From..Len(Stream)
      BY <1>1, <1>9, <2>7, <3>3
    <3>6. Joined(whole, before, between)
      BY <1>1, <3>5, PieceSplits
    <3>7. Piece(before, Stream, 0, From)
      BY <3>5 DEF Piece
    <3>8. Joined(Text(before), Text(said1), Text(FlattenSeq(<<>>)))
      <4>1. Joined(Text(SubSeq(Stream, 1, From)), Text(FlattenSeq(notified)),
                   Text(FlattenSeq(framed)))
        BY <2>15 DEF StreamInv
      <4> QED
        BY <1>4, <4>1
    <3>9. said1 \in Seq(Byte)
      BY FlatType DEF StreamInv
    <3> HIDE DEF whole, before, between, first, said1
    <3>10. before \in Seq(Byte) /\ first \in Seq(Byte)
      <4>1. before \in Seq(Byte)
        BY <1>1, <3>7, PieceLength
      <4>2. first \in Seq(Byte)
        BY <1>9, <3>1, PieceElements
      <4> QED
        BY <4>1, <4>2
    <3>11. Text(before) = Text(said1)
      <4>1. FlattenSeq(<<>>) = <<>>
        BY FlatEmpty
      <4>2. Text(<<>>) = <<>>
        BY EmptyText
      <4>3. Text(said1) \in Seq(Byte)
        BY <3>9, TextType
      <4>4. \A s \in Seq(Byte) : s \o <<>> = s
        OBVIOUS
      <4> QED
        BY <3>8, <4>1, <4>2, <4>3, <4>4, Zenon DEF Joined
    <3>12. Joined(Text(whole), Text(before), Text(first))
      <4>1. Joined(whole, before, first)
        BY <3>4, <3>6
      <4> QED
        BY <3>10, <4>1, TextJoined
    <3>13. Text(FlattenSeq(framed')) = Text(first)
      BY <2>2, <2>4 DEF first
    <3>14. Joined(Text(whole), Text(said1), Text(FlattenSeq(framed')))
      BY <3>11, <3>12, <3>13, Zenon
    <3> QED
      BY <3>14 DEF whole, said1
  <2> QED
    BY <1>3, <1>7, <1>10, <1>12, <1>13, <2>2, <2>3, <2>8, <2>9, <2>11, <2>12, <2>13, <2>14,
       <2>15 DEF StreamInv, Text
<1> QED
  BY <1>14, <1>15

\* Every step keeps what the receiver has pieces of the stream.
LEMMA StreamStep ==
  ASSUME LinkInv, StreamInv, [Next]_vars
  PROVE  StreamInv'
<1>1. ASSUME UNCHANGED <<talk, said, inDev, pendingMessage, framed, notified, overflowed>>,
             device = "deaf" => device' = "deaf"
      PROVE  StreamInv'
  BY <1>1, StreamUnmoved
<1>2. CASE Owner
  BY <1>1, <1>2 DEF Owner, setReadEvent, sendMessage, sendChar, Queued, Stop, receiver, modem,
                    history
<1>3. CASE Destructor
  BY <1>1, <1>3 DEF Destructor, DropReadEvent, Close, receiver, modem, history
<1>4. CASE Sender
  <2>1. OnlySender
    BY <1>4 DEF Sender, SenderWakes, writeAllReturns, writeAllFails, Erase, write
  <2> QED
    BY <1>1, <2>1 DEF OnlySender, receiver, modem, history
<1>5. CASE ReceiverTop \/ readOfBroken \/ NotifiedAll
  BY <1>1, <1>5 DEF ReceiverTop, readOfBroken, NotifiedAll, OnlyReceiver, modem, history
<1>6. CASE SelectTimeout
  BY <1>6, StreamFlushes
<1>7. CASE read
  BY <1>7, StreamReads
<1>8. CASE newMessageNotify
  BY <1>8, StreamNotifies
<1>9. CASE Says
  BY <1>9, StreamSays
<1>10. CASE Takes1
  BY <1>1, <1>10 DEF Takes1, receiver, history
<1>11. CASE Fails
  BY <1>1, <1>11 DEF Fails, receiver, modem, history
<1>12. CASE UNCHANGED vars
  BY <1>1, <1>12 DEF vars, receiver, modem, history
<1> QED
  BY <1>2, <1>3, <1>4, <1>5, <1>6, <1>7, <1>8, <1>9, <1>10, <1>11, <1>12
     DEF Next, Receiver, Modem

\* What the receiver has is what was said.
LEMMA StreamGot ==
  ASSUME StreamInv
  PROVE  MessagesWhole
<1>1. /\ Stream \in Seq(Byte) /\ Len(Stream) \in Nat
      /\ said \in Nat /\ inDev \in Seq(Byte) /\ pendingMessage \in Seq(Byte)
      /\ At \in 0..said /\ From \in 0..At
  BY StreamFacts
<1>2. ASSUME ~overflowed
      PROVE  Text(FlattenSeq(notified) \o FlattenSeq(framed) \o pendingMessage \o inDev)
               = Text(SubSeq(Stream, 1, said))
  <2> DEFINE before == SubSeq(Stream, 0 + 1, From)
             there == SubSeq(Stream, 0 + 1, At)
             whole == SubSeq(Stream, 0 + 1, said)
             n == FlattenSeq(notified)
             f == FlattenSeq(framed)
             nf == n \o f
             nfp == nf \o pendingMessage
             got == nfp \o inDev
  <2>1. n \in Seq(Byte) /\ f \in Seq(Byte)
    BY FlatType DEF StreamInv
  <2>2. Joined(Text(before), Text(n), Text(f))
    BY <1>2 DEF StreamInv
  <2>3. /\ pendingMessage = SubSeq(Stream, From + 1, At)
        /\ inDev = SubSeq(Stream, At + 1, said)
    BY DEF StreamInv, Piece
  <2>4. /\ 0 \in 0..Len(Stream) /\ From \in 0..Len(Stream) /\ At \in From..Len(Stream)
        /\ At \in 0..Len(Stream) /\ said \in At..Len(Stream)
    BY <1>1 DEF StreamInv
  <2>5. Joined(there, before, pendingMessage) /\ Joined(whole, there, inDev)
    BY <1>1, <2>3, <2>4, PieceSplits
  <2>6. before \in Seq(Byte) /\ there \in Seq(Byte)
    <3>1. Piece(before, Stream, 0, From) /\ Piece(there, Stream, 0, At)
      BY <2>4 DEF Piece
    <3> HIDE DEF before, there
    <3>2. before \in Seq(Byte)
      BY <1>1, <3>1, PieceLength
    <3>3. there \in Seq(Byte)
      BY <1>1, <3>1, PieceLength
    <3> QED
      BY <3>2, <3>3
  <2> HIDE DEF before, there, whole, n, f
  <2>7. nf \in Seq(Byte)
    BY <2>1
  <2>8. Joined(nf, n, f)
    BY Zenon DEF Joined
  <2> HIDE DEF nf
  <2>9. nfp \in Seq(Byte)
    BY <1>1, <2>7
  <2>10. Joined(nfp, nf, pendingMessage)
    BY Zenon DEF Joined
  <2> HIDE DEF nfp
  <2>11. Joined(got, nfp, inDev)
    BY Zenon DEF Joined
  <2>12. Joined(Text(nf), Text(n), Text(f))
    BY <2>1, <2>8, TextJoined
  <2>13. Joined(Text(nfp), Text(nf), Text(pendingMessage))
    BY <1>1, <2>7, <2>10, TextJoined
  <2> HIDE DEF got
  <2>14. Joined(Text(got), Text(nfp), Text(inDev))
    BY <1>1, <2>9, <2>11, TextJoined
  <2>15. Joined(Text(there), Text(before), Text(pendingMessage))
    BY <1>1, <2>5, <2>6, TextJoined
  <2>16. Joined(Text(whole), Text(there), Text(inDev))
    BY <1>1, <2>5, <2>6, TextJoined
  <2>17. Text(before) = Text(nf)
    BY <2>2, <2>12, Zenon DEF Joined
  <2>18. Text(there) = Text(nfp)
    BY <2>13, <2>15, <2>17, Zenon DEF Joined
  <2>19. Text(whole) = Text(got)
    BY <2>14, <2>16, <2>18, Zenon DEF Joined
  <2> QED
    BY <2>19 DEF whole, got, nfp, nf, n, f
<1> QED
  BY <1>2 DEF MessagesWhole, StreamInv

\* However reads cut what the modem says, and whatever buffers and limits there
\* are, each message that is notified is a line or a prompt and no text is lost:
\* readThread and ATMessageFramer, for every modem whose lines end with CR LF.
THEOREM MessagesAreWhole == Spec => []MessagesWhole
<1> USE DEF Spec
<1>1. LinkInv /\ StreamInv /\ [Next]_vars => LinkInv' /\ StreamInv'
  BY LinkStep, StreamStep
<1> QED
  BY <1>1, InitLinkInv, InitStream, StreamGot, PTL
=============================================================================
