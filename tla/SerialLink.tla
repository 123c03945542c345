----------------------------- MODULE SerialLink -----------------------------
(***************************************************************************)
(* The serial link (Serial.cpp, ATMessageFramer.cpp) between the AT thread *)
(* and the modem, byte by byte: the receiver thread with its framer, the   *)
(* sender thread with its partial writes, the read callback and the order  *)
(* in which everything is constructed and destroyed.                       *)
(*                                                                         *)
(* Only the sender waits with a mutex in hand: while it writes it holds    *)
(* messagesWriteMutex and serialMutex.  Every other critical section is    *)
(* one action, whose guard says that the sender does not write.            *)
(***************************************************************************)
EXTENDS Lists

CONSTANTS
  Byte, CR, LF,
  Talks,                     \* what a modem may say: sequences of lines and prompts
  Commands,                  \* what the AT thread sends: texts, and single characters
  k_bufferSize,
  k_maxPendingMessageSize,
  InCap, OutCap              \* the buffers of the device

Line(s) == Len(s) >= 2 /\ s[Len(s) - 1] = CR /\ s[Len(s)] = LF
Delimiter(s, e) == e >= 2 /\ s[e - 1] = CR /\ s[e] = LF

\* Where the first n lines and prompts of a talk end, where any of them ends,
\* and where a line does.
End(t, n) == Len(FlattenSeq(SubSeq(t, 1, n)))
Ends(t) == {End(t, n) : n \in 0..Len(t)}
LineEnds(t) == {End(t, n) : n \in {k \in 1..Len(t) : Line(t[k])}}

\* A line is what ends with the delimiter.
ASSUME LinkAssumption ==
  /\ CR \in Byte /\ LF \in Byte /\ CR # LF
  /\ Talks \subseteq Seq(Seq(Byte))
  /\ \A t \in Talks : \A e \in 1..Len(FlattenSeq(t)) :
       Delimiter(FlattenSeq(t), e) => e \in LineEnds(t)
  /\ Commands \in Seq([text : Seq(Byte), char : BOOLEAN])
  /\ k_bufferSize \in Nat \ {0} /\ k_maxPendingMessageSize \in Nat \ {0}
  /\ InCap \in Nat \ {0} /\ OutCap \in Nat \ {0}

VARIABLES
  \* the AT thread and the owner of Serial
  life,             \* "running", "stopping", "dropped" (readEvent destroyed), "closed"
  readEventState,
  posted,           \* how many of Commands were handed to Serial
  \* the sender
  spc,              \* "wait", "writing", "ended"
  m_messagesWriteQueue,
  isNewMessageToSend,
  bytesWritten,
  \* the receiver
  rpc,              \* "top", "select", "notify", "ended"
  pendingMessage,
  framed,           \* the messages of the last push or flush that are to be notified
  \* the device
  device,           \* "up", "deaf" (the modem hangs), "gone" (it is unplugged)
  inDev, outDev,
  \* the modem
  talk, said,       \* what it says, and how many bytes of it are said
  taken,            \* the bytes it has read
  \* history
  notified,         \* the messages handed to newMessageNotify
  dropped,          \* how many of them came before the callback
  overflowed        \* did a message exceed k_maxPendingMessageSize?

owner == <<life, readEventState, posted>>
sender == <<spc, m_messagesWriteQueue, isNewMessageToSend, bytesWritten>>
receiver == <<rpc, pendingMessage, framed>>
modem == <<talk, said, taken>>
history == <<notified, dropped, overflowed>>
vars == <<owner, sender, receiver, device, inDev, outDev, modem, history>>

Stream == FlattenSeq(talk)
StopRequested == life # "running"

Init == /\ life = "running" /\ readEventState = "unset" /\ posted = 0
        /\ spc = "wait" /\ m_messagesWriteQueue = <<>> /\ isNewMessageToSend = FALSE
        /\ bytesWritten = 0
        /\ rpc = "top" /\ pendingMessage = <<>> /\ framed = <<>>
        /\ device = "up" /\ inDev = <<>> /\ outDev = <<>>
        /\ talk \in Talks /\ said = 0 /\ taken = <<>>
        /\ notified = <<>> /\ dropped = 0 /\ overflowed = FALSE

-----------------------------------------------------------------------------
(* The owner: ATCommanderScheduler *)

\* The threads run already when the callback is set.
setReadEvent == /\ life = "running" /\ readEventState = "unset"
                /\ readEventState' = "set"
                /\ UNCHANGED <<life, posted, sender, receiver, device, inDev, outDev,
                               modem, history>>

Bytes(command) == IF command.char THEN command.text ELSE command.text \o <<CR>>

Queued(bytes) == /\ posted' = posted + 1
                 /\ m_messagesWriteQueue' = Append(m_messagesWriteQueue, bytes)
                 /\ isNewMessageToSend' = TRUE
                 /\ UNCHANGED <<life, readEventState, spc, bytesWritten, receiver, device,
                                inDev, outDev, modem, history>>

\* mutant: the AT thread is started before the callback is set.
SendsEarly == /\ life = "running" /\ posted < Len(Commands) /\ spc # "writing"

\* The AT thread, which is started after setReadEvent and joined before the
\* destructor of Serial.
Sends == /\ life = "running" /\ posted < Len(Commands) /\ spc # "writing"
         /\ readEventState = "set"

sendMessage == /\ Sends /\ ~Commands[posted + 1].char
               /\ Queued(Bytes(Commands[posted + 1]))
sendChar == /\ Sends /\ Commands[posted + 1].char
            /\ Queued(Bytes(Commands[posted + 1]))

\* ~Serial: both threads are asked to stop ...
Stop == /\ life = "running" /\ life' = "stopping"
        /\ UNCHANGED <<readEventState, posted, sender, receiver, device, inDev, outDev,
                       modem, history>>

\* ... then the members go, the last declared first: readEvent before the
\* threads are joined, fd when both have ended.  readEventState stays "set":
\* a message that is notified meanwhile calls a destroyed function, which in
\* libstdc++ still reaches the scheduler.
DropReadEvent == /\ life = "stopping" /\ life' = "dropped"
                 /\ UNCHANGED <<readEventState, posted, sender, receiver, device, inDev,
                                outDev, modem, history>>
Close == /\ life = "dropped" /\ spc = "ended" /\ rpc = "ended"
         /\ life' = "closed"
         /\ UNCHANGED <<readEventState, posted, sender, receiver, device, inDev, outDev,
                        modem, history>>

-----------------------------------------------------------------------------
(* sendThread *)

OnlySender == UNCHANGED <<owner, receiver, device, inDev, modem, history>>

\* mutant: the flag is cleared for every message.
TakesClearing == /\ spc' = "writing" /\ bytesWritten' = 0 /\ isNewMessageToSend' = FALSE
                 /\ UNCHANGED m_messagesWriteQueue

Takes == /\ spc' = "writing" /\ bytesWritten' = 0
         /\ UNCHANGED <<m_messagesWriteQueue, isNewMessageToSend>>

\* wait_for ends, by the flag or after k_activeTimems.
SenderWakes ==
  /\ spc = "wait"
  /\ \/ /\ StopRequested
        /\ spc' = "ended"
        /\ UNCHANGED <<m_messagesWriteQueue, isNewMessageToSend, bytesWritten>>
     \/ /\ ~StopRequested /\ m_messagesWriteQueue = <<>>
        /\ isNewMessageToSend' = FALSE
        /\ UNCHANGED <<spc, m_messagesWriteQueue, bytesWritten>>
     \/ ~StopRequested /\ m_messagesWriteQueue # <<>> /\ Takes
  /\ OnlySender /\ UNCHANGED outDev

\* mutant: a writer that waits for a full device does not look at the stop token.
NeverGivesUp == FALSE

GivesUp == StopRequested

Writes == spc = "writing" /\ bytesWritten < Len(Head(m_messagesWriteQueue)) /\ ~GivesUp

\* mutant: what is left after a partial write is taken from the beginning.
FromTheBeginning(message, n) == SubSeq(message, 1, n)

\* The next n bytes of the message that is being written.
NextBytes(message, n) == SubSeq(message, bytesWritten + 1, bytesWritten + n)

\* ::write accepts n bytes; with a full device it is tried again later.
write(n) == /\ Writes /\ device # "gone"
            /\ n <= Len(Head(m_messagesWriteQueue)) - bytesWritten
            /\ n <= OutCap - Len(outDev)
            /\ outDev' = outDev \o NextBytes(Head(m_messagesWriteQueue), n)
            /\ bytesWritten' = bytesWritten + n
            /\ UNCHANGED <<spc, m_messagesWriteQueue, isNewMessageToSend>>
            /\ OnlySender

Erase == /\ spc' = "wait" /\ bytesWritten' = 0
         /\ m_messagesWriteQueue' = Tail(m_messagesWriteQueue)
         /\ UNCHANGED <<isNewMessageToSend, outDev>>
         /\ OnlySender

\* The loop of writeAll ends: everything is written, or stop is requested.
WriteEnds == /\ spc = "writing"
             /\ bytesWritten = Len(Head(m_messagesWriteQueue)) \/ GivesUp

writeAllReturns == WriteEnds /\ Erase
writeAllFails == Writes /\ device = "gone" /\ Erase

-----------------------------------------------------------------------------
(* readThread *)

OnlyReceiver == UNCHANGED <<owner, sender, device, outDev, modem>>

ReceiverTop == /\ rpc = "top"
               /\ rpc' = IF StopRequested THEN "ended" ELSE "select"
               /\ UNCHANGED <<pendingMessage, framed, inDev, history>>
               /\ OnlyReceiver

\* A modem that does not hang says a line or a prompt without a pause of
\* k_activeTimeus.
MidItem == said \notin Ends(talk)

\* mutant: what has no delimiter stays pending.
flushNothing == framed' = <<>> /\ UNCHANGED pendingMessage

flushPending == /\ framed' = IF pendingMessage = <<>> THEN <<>> ELSE <<pendingMessage>>
                /\ pendingMessage' = <<>>

SelectTimeout == /\ rpc = "select" /\ inDev = <<>>
                 /\ device = "deaf" \/ (device = "up" /\ ~MidItem)
                 /\ flushPending
                 /\ rpc' = "notify"
                 /\ UNCHANGED <<inDev, history>>
                 /\ OnlyReceiver

\* mutant: a delimiter counts only if one read brought both its bytes.
CutInOneRead(acc, b) ==
  IF b = LF /\ acc.rest # <<>> /\ Last(acc.rest) = CR /\ Len(acc.rest) > Len(pendingMessage)
  THEN [messages |-> Append(acc.messages, Append(acc.rest, b)), rest |-> <<>>]
  ELSE [acc EXCEPT !.rest = Append(@, b)]

\* One more byte: a delimiter ends the message before it, an empty one is skipped.
CutAt(acc, b) ==
  IF b = LF /\ acc.rest # <<>> /\ Last(acc.rest) = CR
  THEN IF Len(acc.rest) = 1
       THEN [acc EXCEPT !.rest = <<>>]
       ELSE [messages |-> Append(acc.messages, Append(acc.rest, b)), rest |-> <<>>]
  ELSE [acc EXCEPT !.rest = Append(@, b)]

\* The messages that push finds in data, and what it keeps pending.
Framed[data \in Seq(Byte)] ==
  LET f[i \in 0..Len(data)] ==
        IF i = 0 THEN [messages |-> <<>>, rest |-> <<>>] ELSE CutAt(f[i - 1], data[i])
  IN  f[Len(data)]

\* ::read of n bytes, and ATMessageFramer::push.
Push(n) ==
  LET data == pendingMessage \o SubSeq(inDev, 1, n)
      overflow == Len(data) > k_maxPendingMessageSize
  IN  /\ overflowed' = (overflowed \/ overflow)
      /\ framed' = IF overflow THEN <<>> ELSE Framed[data].messages
      /\ pendingMessage' = IF overflow THEN <<>> ELSE Framed[data].rest

read == /\ rpc = "select" /\ inDev # <<>> /\ device # "gone" /\ spc # "writing"
        /\ LET n == IF Len(inDev) < k_bufferSize THEN Len(inDev) ELSE k_bufferSize
           IN  Push(n) /\ inDev' = SubSeq(inDev, n + 1, Len(inDev))
        /\ rpc' = "notify"
        /\ UNCHANGED <<notified, dropped>>
        /\ OnlyReceiver

\* A lost device is readable and has nothing, or reading it fails.
readOfBroken == /\ rpc = "select" /\ device = "gone" /\ spc # "writing"
                /\ rpc' \in {"top", "ended"}
                /\ UNCHANGED <<pendingMessage, framed, inDev, history>>
                /\ OnlyReceiver

newMessageNotify == /\ rpc = "notify" /\ framed # <<>>
                    /\ framed' = Tail(framed)
                    /\ notified' = Append(notified, Head(framed))
                    /\ dropped' = dropped + IF readEventState = "set" THEN 0 ELSE 1
                    /\ UNCHANGED <<rpc, pendingMessage, inDev, overflowed>>
                    /\ OnlyReceiver

NotifiedAll == /\ rpc = "notify" /\ framed = <<>>
               /\ rpc' = "top"
               /\ UNCHANGED <<pendingMessage, framed, inDev, history>>
               /\ OnlyReceiver

-----------------------------------------------------------------------------
(* The modem and the device *)

\* The modem says one more byte, if the device has room.
Says == /\ device = "up" /\ said < Len(Stream) /\ Len(inDev) < InCap
        /\ inDev' = Append(inDev, Stream[said + 1])
        /\ said' = said + 1
        /\ UNCHANGED <<owner, sender, receiver, device, outDev, talk, taken, history>>

\* It reads what it is sent whatever it has to say.
Takes1 == /\ device = "up" /\ outDev # <<>>
          /\ taken' = Append(taken, Head(outDev))
          /\ outDev' = Tail(outDev)
          /\ UNCHANGED <<owner, sender, receiver, device, inDev, talk, said, history>>

\* The modem hangs or is unplugged.
Fails == /\ device = "up" /\ device' \in {"deaf", "gone"}
         /\ UNCHANGED <<owner, sender, receiver, inDev, outDev, modem, history>>

-----------------------------------------------------------------------------
Owner == setReadEvent \/ sendMessage \/ sendChar \/ Stop
Destructor == DropReadEvent \/ Close
Sender == \/ SenderWakes \/ writeAllReturns \/ writeAllFails
          \/ \E n \in 1..OutCap : write(n)
Receiver == \/ ReceiverTop \/ SelectTimeout \/ read \/ readOfBroken
            \/ newMessageNotify \/ NotifiedAll
Modem == Says \/ Takes1

Next == Owner \/ Destructor \/ Sender \/ Receiver \/ Modem \/ Fails

Spec == Init /\ [][Next]_vars

\* Threads run, the destructor goes on and the modem's line is never stuck;
\* nothing makes the owner call or stop.
LiveSpec == /\ Spec
            /\ WF_vars(Destructor) /\ WF_vars(Sender) /\ WF_vars(Receiver)
            /\ WF_vars(Says) /\ WF_vars(Takes1)

-----------------------------------------------------------------------------
(* Properties *)

Text(bytes) == Only(bytes, Byte \ {CR, LF})

\* Types, and what the parts rely on: the flag is set while there is a
\* message, the sender writes only the front of the queue and begins at its
\* beginning, nothing is sent before the callback is set, and the device
\* outlives both threads.
LinkInv ==
  /\ life \in {"running", "stopping", "dropped", "closed"}
  /\ readEventState \in {"unset", "set"} /\ posted \in 0..Len(Commands)
  /\ spc \in {"wait", "writing", "ended"} /\ rpc \in {"top", "select", "notify", "ended"}
  /\ m_messagesWriteQueue \in Seq(Seq(Byte)) /\ bytesWritten \in Nat /\ dropped \in Nat
  /\ m_messagesWriteQueue # <<>> => isNewMessageToSend = TRUE
  /\ spc = "writing" => /\ m_messagesWriteQueue # <<>>
                        /\ bytesWritten <= Len(Head(m_messagesWriteQueue))
  /\ spc # "writing" => bytesWritten = 0
  /\ outDev \in Seq(Byte) /\ taken \in Seq(Byte)
  /\ (m_messagesWriteQueue # <<>> \/ outDev # <<>> \/ taken # <<>>)
       => readEventState = "set"
  /\ spc = "ended" => StopRequested
  /\ rpc = "ended" /\ device # "gone" => StopRequested
  /\ framed # <<>> => rpc = "notify"
  /\ life = "closed" => spc = "ended" /\ rpc = "ended"

\* m is what was said from the end of one line or prompt to the end of another
\* with no line's end between; but for the beginning after an overflow, which
\* leaves an LF if it came between CR and LF, and the end of what a modem that
\* hangs said last.
Whole(m) ==
  \E x, y \in 0..said :
    /\ x < y /\ m = SubSeq(Stream, x + 1, y)
    /\ x \in Ends(talk) \/ overflowed
    /\ y \in Ends(talk) \/ (device = "deaf" /\ y = said)
    /\ \A e \in LineEnds(talk) : x < e /\ e < y => overflowed /\ e = x + 1

\* However reads cut the stream, a message is one line or prompt of the modem,
\* or prompts with what followed them; none is lost, doubled or out of order,
\* unless one overflows.
MessagesWhole ==
  LET got == FlattenSeq(notified) \o FlattenSeq(framed) \o pendingMessage \o inDev
  IN  /\ Len(pendingMessage) <= k_maxPendingMessageSize
      /\ \A k \in 1..Len(notified) : Whole(notified[k])
      /\ ~overflowed => Text(got) = Text(SubSeq(Stream, 1, said))

\* The modem reads the messages of the AT thread one after the other, each
\* whole, whatever partial writes it takes; a stop or a lost device cuts the
\* line but never leaves a hole in it, and what is being written goes on where
\* it was.
WireInOrder ==
  LET all == FlattenSeq([k \in 1..posted |-> Bytes(Commands[k])])
      line == taken \o outDev
      rest == FlattenSeq(m_messagesWriteQueue)
  IN  /\ IsPrefix(line, all)
      /\ (~StopRequested \/ spc = "writing") /\ device # "gone" =>
           all = line \o SubSeq(rest, bytesWritten + 1, Len(rest))

\* Messages are dropped only before the modem has seen a command: no answer is
\* lost to a callback that is not set yet.
AnswersNotDropped == [][taken # <<>> => dropped' = dropped]_vars

\* The destructor ends, even while the device takes nothing.
StopEnds == StopRequested ~> life = "closed"

\* While the link is up, what is sent reaches the modem and what the modem says
\* is notified.
EverythingArrives ==
  /\ \A k \in 1..Len(Commands) :
       posted = k ~> \/ StopRequested \/ device # "up" \/ posted > k
                     \/ taken = FlattenSeq([i \in 1..k |-> Bytes(Commands[i])])
  /\ said < Len(Stream) ~> \/ StopRequested \/ device # "up" \/ overflowed
                           \/ Text(FlattenSeq(notified)) = Text(Stream)
=============================================================================
