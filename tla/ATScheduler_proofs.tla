-------------------------- MODULE ATScheduler_proofs --------------------------
(***************************************************************************)
(* Proofs about ATScheduler, for every modem, every set of requests and    *)
(* messages and every bound: type correctness, the memory safety of the    *)
(* waits on cvATReceiver, and that no request with a promise is lost or    *)
(* answered twice.                                                         *)
(***************************************************************************)
EXTENDS ATScheduler, SequenceTheorems, TLAPS

-----------------------------------------------------------------------------
(* Sequences *)

\* deque::erase: the sequence without its element i keeps its type and loses
\* one element.
LEMMA RemoveAtType ==
  ASSUME NEW S, NEW s \in Seq(S), NEW i \in 1..Len(s)
  PROVE  RemoveAt(s, i) \in Seq(S) /\ Len(RemoveAt(s, i)) = Len(s) - 1
<1> DEFINE a == SubSeq(s, 1, i - 1)
           b == SubSeq(s, i + 1, Len(s))
<1>1. a \in Seq(S) /\ Len(a) = i - 1
  OBVIOUS
<1>2. b \in Seq(S) /\ Len(b) = Len(s) - i
  OBVIOUS
<1>3. Len(s) \in Nat /\ RemoveAt(s, i) = a \o b
  BY DEF RemoveAt
<1> HIDE DEF a, b
<1>4. a \o b \in Seq(S) /\ Len(a \o b) = Len(a) + Len(b)
  BY <1>1, <1>2, ConcatProperties
<1> QED
  BY <1>1, <1>2, <1>3, <1>4

\* pop_back, pop_front, back() and front() of a queue that is not empty.
LEMMA EndsType ==
  ASSUME NEW S, NEW s \in Seq(S), s # <<>>
  PROVE  /\ Len(s) \in Nat \ {0}
         /\ Front(s) \in Seq(S) /\ Last(s) \in S /\ Len(Front(s)) = Len(s) - 1
         /\ Tail(s) \in Seq(S) /\ Head(s) \in S /\ Len(Tail(s)) = Len(s) - 1
<1>1. Len(s) \in Nat \ {0} /\ \A i \in 1..Len(s) : s[i] \in S
  BY EmptySeq, ElementOfSeq
<1>2. Tail(s) \in Seq(S) /\ Head(s) \in S /\ Len(Tail(s)) = Len(s) - 1
  BY HeadTailProperties
<1>3. 1 \in Int /\ Len(s) - 1 \in Int /\ \A i \in 1..(Len(s) - 1) : s[i] \in S
  BY <1>1
<1> DEFINE f == SubSeq(s, 1, Len(s) - 1)
<1>4. f \in Seq(S) /\ Len(f) = IF 1 <= Len(s) - 1 THEN (Len(s) - 1) - 1 + 1 ELSE 0
  BY <1>3, SubSeqProperties
<1>5. Front(s) = f
  BY DEF Front
<1> HIDE DEF f
<1>6. Len(f) = Len(s) - 1
  BY <1>1, <1>4
<1>7. Last(s) \in S
  <2>1. Last(s) = s[Len(s)]
    BY DEF Last
  <2>2. Len(s) \in 1..Len(s)
    BY <1>1
  <2> QED
    BY <1>1, <2>1, <2>2
<1> QED
  BY <1>1, <1>2, <1>4, <1>5, <1>6, <1>7

\* push: the element is added at the end, and a queue without duplicates
\* stays one unless the element is a request that was already in it.
LEMMA PushQueue ==
  ASSUME NEW S, NEW s \in Seq(S), NEW e \in S
  PROVE  /\ Append(s, e) \in Seq(S) /\ Len(Append(s, e)) = Len(s) + 1
         /\ ToSet(Append(s, e)) = ToSet(s) \cup {e}
         /\ NoDuplicates(s) /\ (e \in Promised => e \notin ToSet(s))
              => NoDuplicates(Append(s, e))
<1> DEFINE t == Append(s, e)
<1>1. /\ t \in Seq(S) /\ Len(t) = Len(s) + 1 /\ t[Len(s) + 1] = e
      /\ \A i \in 1..Len(s) : t[i] = s[i]
  BY AppendProperties
<1>2. Len(s) \in Nat /\ DOMAIN s = 1..Len(s) /\ DOMAIN t = 1..(Len(s) + 1)
  BY <1>1, LenProperties
<1> HIDE DEF t
<1>3. \A i \in DOMAIN t : i = Len(s) + 1 \/ i \in DOMAIN s
  BY <1>2
<1>4. ToSet(t) = ToSet(s) \cup {e}
  BY <1>1, <1>2, <1>3 DEF ToSet
<1>5. ASSUME NoDuplicates(s), e \in Promised => e \notin ToSet(s)
      PROVE  NoDuplicates(t)
  <2> SUFFICES ASSUME NEW i \in DOMAIN t, NEW j \in DOMAIN t,
                      t[i] = t[j], t[i] \in Promised
               PROVE  i = j
    BY DEF NoDuplicates
  <2>1. CASE i \in DOMAIN s /\ j \in DOMAIN s
    BY <1>1, <1>2, <1>5, <2>1 DEF NoDuplicates
  <2>2. CASE i \in DOMAIN s /\ j = Len(s) + 1
    BY <1>1, <1>2, <1>5, <2>2 DEF ToSet
  <2>3. CASE i = Len(s) + 1 /\ j \in DOMAIN s
    BY <1>1, <1>2, <1>5, <2>3 DEF ToSet
  <2> QED
    BY <1>3, <2>1, <2>2, <2>3
<1> QED
  BY <1>1, <1>4, <1>5 DEF t

\* front() and pop(): the element leaves the queue, and does not come again
\* if the queue had no duplicates.
LEMMA PopQueue ==
  ASSUME NEW S, NEW s \in Seq(S), s # <<>>
  PROVE  /\ ToSet(s) = ToSet(Tail(s)) \cup {Head(s)}
         /\ NoDuplicates(s) =>
              /\ NoDuplicates(Tail(s))
              /\ Head(s) \in Promised => Head(s) \notin ToSet(Tail(s))
<1> DEFINE t == Tail(s)
<1>1. /\ t \in Seq(S) /\ Len(t) = Len(s) - 1
      /\ \A i \in 1..Len(t) : t[i] = s[i + 1]
  BY HeadTailProperties
<1>2. Len(s) \in Nat \ {0} /\ DOMAIN s = 1..Len(s) /\ DOMAIN t = 1..(Len(s) - 1)
  BY <1>1, LenProperties, EmptySeq
<1>3. Head(s) = s[1]
  OBVIOUS
<1> HIDE DEF t
<1>4. \A i \in DOMAIN t : i + 1 \in DOMAIN s /\ t[i] = s[i + 1]
  BY <1>1, <1>2
<1>5. \A i \in DOMAIN s : i = 1 \/ (i - 1 \in DOMAIN t /\ t[i - 1] = s[i])
  BY <1>1, <1>2
<1>6. 1 \in DOMAIN s
  BY <1>2
<1>7. ToSet(s) = ToSet(t) \cup {s[1]}
  <2>1. ASSUME NEW i \in DOMAIN s
        PROVE  s[i] \in ToSet(t) \cup {s[1]}
    BY <1>5 DEF ToSet
  <2>2. ASSUME NEW i \in DOMAIN t
        PROVE  t[i] \in ToSet(s)
    BY <1>4 DEF ToSet
  <2> QED
    BY <1>6, <2>1, <2>2 DEF ToSet
<1>8. ASSUME NoDuplicates(s) PROVE NoDuplicates(t)
  <2> SUFFICES ASSUME NEW i \in DOMAIN t, NEW j \in DOMAIN t,
                      t[i] = t[j], t[i] \in Promised
               PROVE  i = j
    BY DEF NoDuplicates
  <2>1. i + 1 = j + 1
    BY <1>4, <1>8 DEF NoDuplicates
  <2> QED
    BY <1>2, <2>1
<1>9. ASSUME NoDuplicates(s), s[1] \in Promised, NEW i \in DOMAIN t, t[i] = s[1]
      PROVE  FALSE
  <2>1. 1 = i + 1
    BY <1>4, <1>6, <1>9 DEF NoDuplicates
  <2> QED
    BY <1>2, <2>1
<1> QED
  BY <1>3, <1>7, <1>8, <1>9 DEF t, ToSet

-----------------------------------------------------------------------------
(* The surroundings *)

\* Whatever reads Serial's write queue does no more than change it.
ModemReads == /\ toModem' \in Seq(Command)
              /\ UNCHANGED <<thread, rx, requests, completion, caller, inbox, life>>

\* The steps of the engine among any surroundings: any message at any time.
\* The proofs are about these, and so hold for the open system of ATScheduler
\* and for the closed one of GSMEngine.
OpenNext == \/ ATStep \/ ATTimeout \/ ClientStep \/ Tick
            \/ ModemReads \/ \E m \in Message : ReadEvent(m)

\* The surroundings of ATScheduler are among them.
LEMMA NextIsOpen ==
  ASSUME TypeOK, [Next]_vars
  PROVE  [OpenNext]_vars
<1>1. CASE SerialWrite
  BY <1>1, EndsType DEF SerialWrite, ModemReads, OpenNext, TypeOK
<1>2. ASSUME NEW m \in EnvMessages, ReadEvent(m)
      PROVE  OpenNext
  BY <1>2, SchedulerAssumption DEF OpenNext
<1> QED
  BY <1>1, <1>2 DEF Next, Environment, OpenNext

-----------------------------------------------------------------------------
(* Types, and the waits on cvATReceiver *)

\* Serial's write queue keeps its type when an item is added to it.
LEMMA SendType ==
  ASSUME TypeOK, NEW t \in Task \cup {NoTask},
         NEW kind \in {"ATE0", "AT", "CONFIG", "ATH", "CMGS", "TEXT", "SUB"},
         SendFor(kind, t)
  PROVE  toModem' \in Seq(Command)
<1>1. [kind |-> kind, req |-> t] \in Command
  BY DEF Command
<1>2. toModem \in Seq(Command)
  BY DEF TypeOK
<1> QED
  BY <1>1, <1>2, AppendProperties DEF SendFor

\* Taking the newest message in the ATE0 dialogue, when there is one.
LEMMA TakeLastType ==
  ASSUME TypeOK, receivedCommands # <<>>, TakeLast
  PROVE  receivedCommands' \in Seq(Message) /\ pc' \in {"loop", "ate0Second", "exited"}
BY EndsType DEF TypeOK, TakeLast

\* Storing a message as the text of an SMS, when there is one.
LEMMA StoreSmsType ==
  ASSUME TypeOK, receivedCommands # <<>>, StoreSms
  PROVE  /\ receivedSmses' \in Seq([number : InSms \cup InCalls \cup {NoId}, msg : Message])
         /\ receivedCommands' \in Seq(Message)
         /\ smsHeader' = NoId /\ pc' = "drain"
<1> DEFINE SmsInfo == [number : InSms \cup InCalls \cup {NoId}, msg : Message]
           e == [number |-> smsHeader, msg |-> Head(receivedCommands)]
<1>1. receivedCommands \in Seq(Message) /\ receivedSmses \in Seq(SmsInfo)
      /\ smsHeader \in InSms \cup InCalls \cup {NoId}
  BY DEF TypeOK
<1>2. Head(receivedCommands) \in Message /\ Tail(receivedCommands) \in Seq(Message)
  BY <1>1, EndsType
<1>3. e \in SmsInfo
  BY <1>1, <1>2
<1>4. Append(receivedSmses, e) \in Seq(SmsInfo)
  BY <1>1, <1>3, AppendProperties
<1> QED
  BY <1>2, <1>4 DEF StoreSms, FrontOf, Popped

\* What the answer to a request, or its absence, does to the types of the
\* request's state.
LEMMA RespondedType ==
  ASSUME TypeOK, ThreadInv, pc = "await", NEW ok \in BOOLEAN, Responded(ok)
  PROVE  /\ task' \in Task \cup {NoTask} /\ expect' \in Seq(Tokens)
         /\ success' \in BOOLEAN /\ older' \in Nat
         /\ completion' \in [Promised -> {"pending", "succeeded", "failed"}]
         /\ pc' \in {"config", "sms", "text", "await"}
         /\ task' # NoTask <=> pc' \in {"await", "text"}
         /\ pc' \in {"await", "text"} => expect' # <<>>
<1>1. expect \in Seq(Tokens) /\ expect # <<>> /\ task # NoTask
      /\ task \in Task \cup {NoTask} /\ success \in BOOLEAN /\ older \in Nat
      /\ completion \in [Promised -> {"pending", "succeeded", "failed"}]
  BY DEF TypeOK, ThreadInv
<1> DEFINE Finished ==
             /\ task' = NoTask /\ expect' = <<>> /\ success' = TRUE /\ older' = 0
             /\ (pc' = "config" \/ pc' = "sms")
             /\ completion' \in [Promised -> {"pending", "succeeded", "failed"}]
<1>3. CASE ~ok /\ task \in SmsTask /\ Finish(FALSE)
  <2>1. Finished
    BY <1>1, <1>3 DEF Finish, SetPromise
  <2> QED
    BY <2>1, EmptySeq
<1>4. CASE Finish(success /\ ok)
  <2>1. Finished
    BY <1>1, <1>4 DEF Finish, SetPromise
  <2> QED
    BY <2>1, EmptySeq
<1>5. CASE /\ Len(expect) > 1
           /\ expect' = Tail(expect)
           /\ success' = (success /\ ok)
           /\ pc' = IF Head(expect) = "PROMPT" THEN "text" ELSE "await"
           /\ UNCHANGED <<task, older, completion>>
  <2>1. Tail(expect) \in Seq(Tokens) /\ Len(Tail(expect)) = Len(expect) - 1
    BY <1>1, EndsType
  <2>2. Tail(expect) # <<>>
    <3> DEFINE rest == Tail(expect)
    <3>1. Len(rest) # 0
      BY <1>1, <1>5, <2>1, LenProperties
    <3> HIDE DEF rest
    <3>2. rest # <<>>
      BY <3>1, EmptySeq
    <3> QED
      BY <3>2 DEF rest
  <2> QED
    BY <1>1, <1>5, <2>1, <2>2
<1> QED
  BY <1>3, <1>4, <1>5 DEF Responded

\* The AT thread's state, every conjunct of TypeOK and ThreadInv but those
\* about what a step leaves unchanged, is kept by every step.
LEMMA ThreadStep ==
  TypeOK /\ ThreadInv /\ [OpenNext]_vars => TypeOK' /\ ThreadInv'
<1> SUFFICES ASSUME TypeOK, ThreadInv, [OpenNext]_vars
             PROVE  TypeOK' /\ ThreadInv'
  OBVIOUS
<1> USE DEF thread, local, rx, requests, inbox, life, shared
<1>0. Len(receivedCommands) \in Nat /\ receivedCommands \in Seq(Message)
      /\ ((waiting /\ isNewMsgFromAt) => receivedCommands # <<>>)
  BY LenProperties, EmptySeq DEF TypeOK, ThreadInv, WakeFindsMessage
<1>1. CASE SendATE0
  <2>1. toModem' \in Seq(Command)
    BY <1>1, SendType DEF SendATE0
  <2> QED
    BY <1>1, <2>1 DEF SendATE0, TypeOK, ThreadInv, WakeFindsMessage, PCs
<1>2. CASE ATE0Get
  <2>1. CASE receivedCommands # <<>> /\ TakeLast /\ UNCHANGED <<waiting, isNewMsgFromAt>>
    BY <1>2, <2>1, TakeLastType DEF ATE0Get, TypeOK, ThreadInv, WakeFindsMessage, PCs
  <2>2. CASE BeginWait /\ UNCHANGED <<pc, receivedCommands>>
    <3>1. /\ pc \in {"ate0First", "ate0Second"} /\ UNCHANGED <<local, shared>>
          /\ overdue' = (overdue /\ pc' # "loop")
      BY <1>2 DEF ATE0Get
    <3>2. waiting' /\ ~isNewMsgFromAt' /\ numberOfMsg' = 0
      BY <2>2, <3>1 DEF BeginWait, ThreadInv
    <3>3. TypeOK'
      BY <2>2, <3>1 DEF BeginWait, TypeOK
    <3>4. ThreadInv'
      BY <1>0, <2>2, <3>1, <3>2 DEF ThreadInv, WakeFindsMessage
    <3> QED
      BY <3>3, <3>4
  <2> QED
    BY <1>2, <2>1, <2>2 DEF ATE0Get
<1>3. CASE ATE0Wake
  BY <1>0, <1>3, TakeLastType DEF ATE0Wake, Woken, TypeOK, ThreadInv, WakeFindsMessage, PCs
<1>4. CASE ATE0Timeout
  BY <1>4 DEF ATE0Timeout, TimeUp, Exit, TypeOK, ThreadInv, WakeFindsMessage, PCs
<1>5. CASE Loop
  BY <1>5 DEF Loop, TypeOK, ThreadInv, WakeFindsMessage, PCs
<1>6. CASE Drain
  <2>1. CASE receivedCommands = <<>> /\ pc' = "configCheck"
             /\ UNCHANGED <<receivedCommands, smsHeader, atRequestsQueue, calls>>
    BY <1>6, <2>1 DEF Drain, TypeOK, ThreadInv, WakeFindsMessage, PCs
  <2>2. ASSUME receivedCommands # <<>>, receivedCommands' = Popped(receivedCommands),
               NEW m, m = FrontOf(receivedCommands),
               SmsProcessing(m) \/ CallingProcessing(m) \/ Skipped(m)
        PROVE  TypeOK' /\ ThreadInv'
    <3>1. m \in Message /\ receivedCommands' \in Seq(Message)
      BY <1>0, <2>2, EndsType DEF FrontOf, Popped
    <3>2. m.id \in InSms \cup InCalls \cup {NoId}
      BY <3>1 DEF Message
    <3>3. ATH \in ConfigTask
      BY DEF ConfigTask
    <3>4. /\ smsHeader' \in InSms \cup InCalls \cup {NoId}
          /\ atRequestsQueue' \in Seq(ConfigTask)
          /\ calls' \in Seq(InSms \cup InCalls \cup {NoId})
          /\ pc' \in {"smsText", "drain"}
      <4>1. CASE SmsProcessing(m)
        BY <1>6, <3>2, <4>1 DEF Drain, SmsProcessing, TypeOK
      <4>2. CASE CallingProcessing(m)
        BY <1>6, <3>2, <3>3, <4>2, AppendProperties DEF Drain, CallingProcessing, TypeOK
      <4>3. CASE Skipped(m)
        BY <1>6, <4>3 DEF Drain, Skipped, TypeOK
      <4> QED
        BY <2>2, <4>1, <4>2, <4>3
    <3> QED
      BY <1>6, <3>1, <3>4 DEF Drain, TypeOK, ThreadInv, WakeFindsMessage, PCs
  <2> QED
    BY <1>6, <2>1, <2>2 DEF Drain
<1>7. CASE SmsTextGet
  <2>1. CASE receivedCommands # <<>> /\ StoreSms /\ UNCHANGED <<waiting, isNewMsgFromAt>>
    BY <1>7, <2>1, StoreSmsType
       DEF SmsTextGet, smsTextKeeps, TypeOK, ThreadInv, WakeFindsMessage, PCs
  <2>2. CASE BeginWait /\ UNCHANGED <<pc, receivedCommands, smsHeader, receivedSmses>>
    <3>1. pc = "smsText" /\ UNCHANGED <<overdue, smsTextKeeps>>
      BY <1>7 DEF SmsTextGet
    <3>2. waiting' /\ ~isNewMsgFromAt' /\ numberOfMsg' = 0
      BY <2>2, <3>1 DEF smsTextKeeps, BeginWait, ThreadInv
    <3>3. TypeOK'
      BY <2>2, <3>1 DEF smsTextKeeps, BeginWait, TypeOK
    <3>4. ThreadInv'
      BY <1>0, <2>2, <3>1, <3>2 DEF smsTextKeeps, ThreadInv, WakeFindsMessage
    <3> QED
      BY <3>3, <3>4
  <2> QED
    BY <1>7, <2>1, <2>2 DEF SmsTextGet
<1>8. CASE SmsTextWake
  BY <1>0, <1>8, StoreSmsType
     DEF SmsTextWake, Woken, smsTextKeeps, TypeOK, ThreadInv, WakeFindsMessage, PCs
<1>9. CASE SmsTextTimeout
  BY <1>9 DEF SmsTextTimeout, TimeUp, smsTextKeeps, TypeOK, ThreadInv, WakeFindsMessage, PCs
<1>10. CASE ConfigCheck
  BY <1>10 DEF ConfigCheck, Check, TypeOK, ThreadInv, WakeFindsMessage, PCs
<1>11. CASE SmsCheck
  BY <1>11 DEF SmsCheck, Check, TypeOK, ThreadInv, WakeFindsMessage, PCs
<1>12. CASE TakeConfig
  <2>1. CASE atRequestsQueue = <<>> /\ NoMore("smsCheck")
    BY <1>12, <2>1 DEF TakeConfig, NoMore, serveKeeps, TypeOK, ThreadInv, WakeFindsMessage, PCs
  <2>2. ASSUME atRequestsQueue # <<>>, NEW t, t = FrontOf(atRequestsQueue),
               IF t = ATH THEN Begin(t, "ATH", <<"NOCARRIER", "OK">>)
                          ELSE Begin(t, "CONFIG", <<"OK">>),
               atRequestsQueue' = Popped(atRequestsQueue), UNCHANGED atSmsRequestQueue
        PROVE  TypeOK' /\ ThreadInv'
    <3>1. t \in ConfigTask /\ atRequestsQueue' \in Seq(ConfigTask)
      BY <2>2, EndsType DEF FrontOf, Popped, TypeOK
    <3>2. t \in Task /\ t # NoTask
      BY <3>1, SchedulerAssumption DEF Task
    <3> DEFINE Begun == /\ toModem' \in Seq(Command)
                        /\ expect' \in Seq(Tokens) /\ expect' # <<>>
                        /\ pc' = "await" /\ task' = t /\ older' \in Nat
    <3>3. ASSUME Begin(t, "ATH", <<"NOCARRIER", "OK">>) PROVE Begun
      BY <1>0, <3>2, <3>3, SendType DEF Begin, Tokens
    <3>4. ASSUME Begin(t, "CONFIG", <<"OK">>) PROVE Begun
      BY <1>0, <3>2, <3>4, SendType DEF Begin, Tokens
    <3>5. Begun
      BY <2>2, <3>3, <3>4
    <3> QED
      BY <1>12, <2>2, <3>1, <3>2, <3>5
         DEF TakeConfig, serveKeeps, TypeOK, ThreadInv, WakeFindsMessage, PCs
  <2> QED
    BY <1>12, <2>1, <2>2 DEF TakeConfig
<1>13. CASE TakeSms
  <2>1. CASE atSmsRequestQueue = <<>> /\ NoMore("beat")
    BY <1>13, <2>1 DEF TakeSms, NoMore, serveKeeps, TypeOK, ThreadInv, WakeFindsMessage, PCs
  <2>2. ASSUME atSmsRequestQueue # <<>>, NEW t, t = FrontOf(atSmsRequestQueue),
               Begin(t, "CMGS", <<"PROMPT", "CMGS", "OK">>),
               atSmsRequestQueue' = Popped(atSmsRequestQueue), UNCHANGED atRequestsQueue
        PROVE  TypeOK' /\ ThreadInv'
    <3>1. t \in SmsTask /\ atSmsRequestQueue' \in Seq(SmsTask)
      BY <2>2, EndsType DEF FrontOf, Popped, TypeOK
    <3>2. t \in Task /\ t # NoTask
      BY <3>1, SchedulerAssumption DEF Task
    <3>3. toModem' \in Seq(Command)
      BY <2>2, <3>2, SendType DEF Begin
    <3>4. expect' \in Seq(Tokens) /\ expect' # <<>>
      BY <2>2 DEF Begin, Tokens
    <3>5. pc' = "await" /\ task' = t /\ older' \in Nat
      BY <1>0, <2>2 DEF Begin
    <3> QED
      BY <1>13, <2>2, <3>1, <3>2, <3>3, <3>4, <3>5
         DEF TakeSms, serveKeeps, TypeOK, ThreadInv, WakeFindsMessage, PCs
  <2> QED
    BY <1>13, <2>1, <2>2 DEF TakeSms
<1>14. CASE SendText
  <2>1. /\ [kind |-> "TEXT", req |-> task] \in Command
        /\ [kind |-> "SUB", req |-> task] \in Command
    BY DEF Command, TypeOK
  <2>2. toModem' \in Seq(Command)
    BY <1>14, <2>1, ConcatProperties DEF SendText, TypeOK
  <2> QED
    BY <1>0, <1>14, <2>2 DEF SendText, serveKeeps, TypeOK, ThreadInv, WakeFindsMessage, PCs
<1>15. CASE pc = "await" /\ (AwaitScan \/ AwaitWake \/ AwaitTimeout)
  <2>1. /\ pc \in {"await"} /\ older \in Nat /\ numberOfMsg \in Nat
        /\ UNCHANGED awaitKeeps
        /\ overdue' \in BOOLEAN /\ isNewMsgFromAt' \in BOOLEAN
    BY <1>15 DEF AwaitScan, AwaitWake, AwaitTimeout, BeginWait, Woken, TimeUp, TypeOK
  <2>2. \A n \in Nat, token \in Tokens :
          Matches(n, token) \subseteq 1..Len(receivedCommands)
    BY <1>0 DEF Matches
  <2>3. ASSUME NEW i \in 1..Len(receivedCommands), Found(i), waiting' = FALSE, numberOfMsg' = 0
        PROVE  TypeOK' /\ ThreadInv'
    <3>1. receivedCommands' \in Seq(Message)
      BY <1>0, <2>3, RemoveAtType DEF Found
    <3>2. Responded(TRUE)
      BY <2>3 DEF Found
    <3> QED
      BY <2>1, <2>3, <3>1, <3>2, RespondedType
         DEF awaitKeeps, TypeOK, ThreadInv, WakeFindsMessage, PCs
  <2>4. ASSUME NotFound, isNewMsgFromAt' = FALSE, waiting' = TRUE
        PROVE  TypeOK' /\ ThreadInv'
    <3>1. numberOfMsg' \in Nat /\ numberOfMsg' = Len(receivedCommands')
      BY <1>0, <2>4 DEF NotFound
    <3>2. TypeOK'
      BY <2>1, <2>4, <3>1 DEF NotFound, awaitKeeps, TypeOK
    <3>3. ThreadInv'
      BY <1>0, <2>1, <2>4, <3>1 DEF NotFound, awaitKeeps, ThreadInv, WakeFindsMessage
    <3> QED
      BY <3>2, <3>3
  <2>5. Head(expect) \in Tokens
    BY <2>1, EndsType DEF TypeOK, ThreadInv
  <2>6. CASE AwaitScan
    <3>1. numberOfMsg = 0 /\ waiting = FALSE
      BY <2>6 DEF AwaitScan, ThreadInv, TypeOK
    <3>2. ASSUME NEW i \in Matches(older, Head(expect)), Found(i),
                 UNCHANGED <<waiting, isNewMsgFromAt, numberOfMsg>>
          PROVE  TypeOK' /\ ThreadInv'
      BY <2>1, <2>2, <2>3, <2>5, <3>1, <3>2
    <3>3. CASE NotFound /\ BeginWait
      BY <2>4, <3>3 DEF BeginWait
    <3> QED
      BY <2>6, <3>2, <3>3 DEF AwaitScan
  <2>7. CASE AwaitWake
    <3>1. ASSUME NEW i \in Matches(numberOfMsg, Head(expect)), Found(i),
                 waiting' = FALSE, numberOfMsg' = 0
          PROVE  TypeOK' /\ ThreadInv'
      BY <2>1, <2>2, <2>3, <2>5, <3>1
    <3>2. CASE NotFound /\ UNCHANGED waiting
      BY <2>4, <2>7, <3>2 DEF AwaitWake, Woken
    <3> QED
      BY <2>7, <3>1, <3>2 DEF AwaitWake
  <2>8. CASE AwaitTimeout
    <3>1. Responded(FALSE) /\ waiting' = FALSE /\ numberOfMsg' = 0
          /\ UNCHANGED receivedCommands
      BY <2>8 DEF AwaitTimeout
    <3> QED
      BY <2>1, <3>1, RespondedType
         DEF awaitKeeps, TypeOK, ThreadInv, WakeFindsMessage, PCs
  <2> QED
    BY <1>15, <2>6, <2>7, <2>8
<1>16. CASE Beat
  <2>1. toModem' \in Seq(Command)
    BY <1>16, SendType DEF Beat, TypeOK
  <2> QED
    BY <1>16, <2>1 DEF Beat, TypeOK, ThreadInv, WakeFindsMessage, PCs
<1>17. CASE SyncScan
  <2>1. \A i \in Matches(0, "OK") : i \in 1..Len(receivedCommands)
    BY <1>0 DEF Matches
  <2>2. ASSUME NEW i \in Matches(0, "OK"), receivedCommands' = RemoveAt(receivedCommands, i),
               pc' = "synced", UNCHANGED <<waiting, isNewMsgFromAt>>
        PROVE  TypeOK' /\ ThreadInv'
    <3>1. receivedCommands' \in Seq(Message)
      BY <1>0, <2>1, <2>2, RemoveAtType
    <3> QED
      BY <1>17, <2>2, <3>1 DEF SyncScan, syncKeeps, TypeOK, ThreadInv, WakeFindsMessage, PCs
  <2>3. CASE BeginWait /\ UNCHANGED <<pc, receivedCommands>>
    <3>1. pc = "sync" /\ UNCHANGED <<overdue, life, syncKeeps>>
      BY <1>17 DEF SyncScan
    <3>2. waiting' /\ ~isNewMsgFromAt' /\ numberOfMsg' = 0
      BY <2>3, <3>1 DEF syncKeeps, BeginWait, ThreadInv
    <3>3. TypeOK'
      BY <2>3, <3>1 DEF syncKeeps, BeginWait, TypeOK
    <3>4. ThreadInv'
      BY <1>0, <2>3, <3>1, <3>2 DEF syncKeeps, ThreadInv, WakeFindsMessage
    <3> QED
      BY <3>3, <3>4
  <2> QED
    BY <1>17, <2>2, <2>3 DEF SyncScan
<1>18. CASE SyncWake
  <2>1. Tail(receivedCommands) \in Seq(Message)
    BY <1>0, <1>18, EndsType DEF SyncWake, Woken
  <2> QED
    BY <1>18, <2>1 DEF SyncWake, Woken, HeartBeatFailed, Exit, syncKeeps,
                       TypeOK, ThreadInv, WakeFindsMessage, PCs
<1>19. CASE SyncTimeout
  BY <1>19 DEF SyncTimeout, TimeUp, HeartBeatFailed, Exit, syncKeeps,
               TypeOK, ThreadInv, WakeFindsMessage, PCs
<1>20. CASE Synced
  <2>1. CASE /\ pc' = "loop" /\ overdue' = FALSE
             /\ UNCHANGED <<waiting, life, rx, syncKeeps>>
    BY <1>20, <2>1 DEF Synced, syncKeeps, TypeOK, ThreadInv, WakeFindsMessage, PCs
  <2>2. CASE HeartBeatFailed /\ UNCHANGED <<overdue, rx, syncKeeps>>
    BY <1>20, <2>2 DEF Synced, HeartBeatFailed, Exit, syncKeeps,
                       TypeOK, ThreadInv, WakeFindsMessage, PCs
  <2> QED
    BY <1>20, <2>1, <2>2 DEF Synced
<1>21. CASE ClientStep
  <2>1. ASSUME NEW r \in Requests, MayCall(r), NEW state \in {"waiting", "succeeded"},
               Submitted(r, state),
               atRequestsQueue' \in Seq(ConfigTask), atSmsRequestQueue' \in Seq(SmsTask)
        PROVE  TypeOK' /\ ThreadInv'
    BY <2>1 DEF Submitted, TypeOK, ThreadInv, WakeFindsMessage
  <2>2. ASSUME NEW r \in ConfigReqs, SetConfig(r)
        PROVE  TypeOK' /\ ThreadInv'
    BY <2>1, <2>2, AppendProperties DEF SetConfig, TypeOK, Requests, Promised, ConfigTask
  <2>3. ASSUME NEW r \in SmsSync, SendSmsSync(r)
        PROVE  TypeOK' /\ ThreadInv'
    BY <2>1, <2>3, AppendProperties DEF SendSmsSync, TypeOK, Requests, Promised, SmsTask
  <2>4. ASSUME NEW r \in SmsAsync, SendSms(r)
        PROVE  TypeOK' /\ ThreadInv'
    BY <2>1, <2>4, AppendProperties DEF SendSms, TypeOK, Requests, SmsTask
  <2>5. ASSUME NEW r \in Promised, ReturnResult(r) \/ ReturnTimeout(r)
        PROVE  TypeOK' /\ ThreadInv'
    <3>1. caller' \in [Requests -> {"idle", "waiting", "succeeded", "failed", "timeout"}]
      BY <2>5 DEF ReturnResult, ReturnTimeout, TypeOK, Requests
    <3> QED
      BY <2>5, <3>1 DEF ReturnResult, ReturnTimeout, clientKeeps, TypeOK, ThreadInv, WakeFindsMessage
  <2>6. CASE GetLastSms
    BY <2>6, EndsType DEF GetLastSms, clientKeeps, TypeOK, ThreadInv, WakeFindsMessage
  <2>7. CASE GetLastCall
    BY <2>7, EndsType DEF GetLastCall, clientKeeps, TypeOK, ThreadInv, WakeFindsMessage
  <2>8. CASE Shutdown
    BY <2>8 DEF Shutdown, clientKeeps, TypeOK, ThreadInv, WakeFindsMessage
  <2> QED
    BY <1>21, <2>2, <2>3, <2>4, <2>5, <2>6, <2>7, <2>8 DEF ClientStep, ClientCall, ClientReturn
<1>22. CASE Tick \/ ModemReads \/ \E m \in Message : ReadEvent(m)
  <2>1. ASSUME NEW m \in Message, ReadEvent(m)
        PROVE  TypeOK' /\ ThreadInv'
    <3>1. /\ receivedCommands' \in Seq(Message)
          /\ Len(receivedCommands') = Len(receivedCommands) + 1
      BY <1>0, <2>1, AppendProperties DEF ReadEvent
    <3>2. TypeOK'
      BY <2>1, <3>1 DEF ReadEvent, TypeOK
    <3>3. ThreadInv'
      BY <1>0, <2>1, <3>1 DEF ReadEvent, TypeOK, ThreadInv, WakeFindsMessage
    <3> QED
      BY <3>2, <3>3
  <2>2. CASE ModemReads
    BY <2>2 DEF ModemReads, TypeOK, ThreadInv, WakeFindsMessage
  <2>3. CASE Tick
    BY <2>3 DEF Tick, TypeOK, ThreadInv, WakeFindsMessage
  <2> QED
    BY <1>22, <2>1, <2>2, <2>3
<1>23. CASE UNCHANGED vars
  BY <1>23 DEF vars, TypeOK, ThreadInv, WakeFindsMessage
<1> QED
  BY <1>1, <1>2, <1>3, <1>4, <1>5, <1>6, <1>7, <1>8, <1>9, <1>10, <1>11, <1>12,
     <1>13, <1>14, <1>15, <1>16, <1>17, <1>18, <1>19, <1>20, <1>21, <1>22, <1>23
     DEF OpenNext, ATStep, ATTimeout, AwaitScan, AwaitWake, AwaitTimeout

-----------------------------------------------------------------------------
(* The requests that carry a promise *)

\* A request with a promise is in one of the queues, never in both; ATH
\* carries none.
LEMMA QueuesDisjoint ==
  ASSUME TypeOK
  PROVE  /\ ToSet(atRequestsQueue) \subseteq ConfigTask
         /\ ToSet(atSmsRequestQueue) \subseteq SmsTask
         /\ ConfigTask \cap SmsTask = {} /\ ATH \notin Promised /\ NoTask \notin Promised
<1>1. /\ \A i \in DOMAIN atRequestsQueue : atRequestsQueue[i] \in ConfigTask
      /\ \A i \in DOMAIN atSmsRequestQueue : atSmsRequestQueue[i] \in SmsTask
  BY ElementOfSeq, LenProperties DEF TypeOK
<1> QED
  BY <1>1, SchedulerAssumption DEF ToSet, ConfigTask, SmsTask, Requests, Promised, Task

\* What a step can do to the requests: a call returns or nothing happens ...
Untouched == /\ UNCHANGED <<requests, task, completion>>
         /\ \A r \in Requests : caller'[r] = "idle" <=> caller[r] = "idle"

\* ... a client, or the engine itself for ATH, adds one ...
Queued(r) ==
  /\ r \in Requests => caller[r] = "idle"
  /\ \A q \in Requests : caller'[q] = "idle" <=> caller[q] = "idle" /\ q # r
  /\ \/ /\ r \in ConfigTask /\ UNCHANGED atSmsRequestQueue
        /\ atRequestsQueue' = Append(atRequestsQueue, r)
     \/ /\ r \in SmsTask /\ UNCHANGED atRequestsQueue
        /\ atSmsRequestQueue' = Append(atSmsRequestQueue, r)
  /\ UNCHANGED <<task, completion>>

\* ... the AT thread takes one ...
Taken ==
  /\ task = NoTask
  /\ \/ /\ atRequestsQueue # <<>> /\ UNCHANGED atSmsRequestQueue
        /\ task' = Head(atRequestsQueue) /\ atRequestsQueue' = Tail(atRequestsQueue)
     \/ /\ atSmsRequestQueue # <<>> /\ UNCHANGED atRequestsQueue
        /\ task' = Head(atSmsRequestQueue) /\ atSmsRequestQueue' = Tail(atSmsRequestQueue)
  /\ UNCHANGED <<completion, caller>>

\* ... or answers the one it took.
Answered(ok) ==
  /\ task # NoTask /\ task' = NoTask
  /\ \A r \in Promised : completion'[r] = IF r # task THEN completion[r]
                                          ELSE IF ok THEN "succeeded" ELSE "failed"
  /\ UNCHANGED <<requests, caller>>

\* Every step of every thread does one of the four things to the requests.
LEMMA StepKinds ==
  ASSUME TypeOK, ThreadInv, [OpenNext]_vars
  PROVE  \/ Untouched \/ Taken
         \/ \E r \in Requests \cup {ATH} : Queued(r)
         \/ \E ok \in BOOLEAN : Answered(ok)
<1> USE DEF thread, local, rx, requests, inbox, life, shared
<1>1. ASSUME UNCHANGED <<atRequestsQueue, atSmsRequestQueue, task, completion, caller>>
      PROVE  Untouched
  BY <1>1 DEF Untouched
<1>2. CASE \/ SendATE0 \/ ATE0Get \/ ATE0Wake \/ ATE0Timeout \/ Loop
           \/ SmsTextGet \/ SmsTextWake \/ SmsTextTimeout
           \/ ConfigCheck \/ SmsCheck \/ SendText
  BY <1>1, <1>2 DEF SendATE0, ATE0Get, ATE0Wake, ATE0Timeout, Loop, SmsTextGet, SmsTextWake,
     SmsTextTimeout, smsTextKeeps, ConfigCheck, SmsCheck, Check, SendText, serveKeeps
<1>3. CASE Beat \/ SyncScan \/ SyncWake \/ SyncTimeout \/ Synced \/ Tick \/ ModemReads
           \/ UNCHANGED vars \/ \E m \in Message : ReadEvent(m)
  BY <1>1, <1>3 DEF Beat, SyncScan, SyncWake, SyncTimeout, Synced, syncKeeps,
     ReadEvent, ModemReads, Tick, vars
<1>4. CASE GetLastSms \/ GetLastCall \/ Shutdown
  BY <1>1, <1>4 DEF GetLastSms, GetLastCall, Shutdown, clientKeeps
<1>5. CASE Drain
  <2>1. CASE UNCHANGED atRequestsQueue
    BY <1>1, <1>5, <2>1 DEF Drain
  <2>2. CASE atRequestsQueue' = Append(atRequestsQueue, ATH)
    <3>1. Queued(ATH)
      BY <1>5, <2>2, SchedulerAssumption DEF Drain, Queued, ConfigTask
    <3> QED
      BY <3>1
  <2> QED
    BY <1>5, <2>1, <2>2 DEF Drain, SmsProcessing, CallingProcessing, Skipped
<1>6. CASE TakeConfig
  <2>1. CASE NoMore("smsCheck")
    BY <1>1, <1>6, <2>1 DEF NoMore, TakeConfig, serveKeeps
  <2>2. CASE ~NoMore("smsCheck")
    BY <1>6, <2>2 DEF Taken, TakeConfig, Begin, FrontOf, Popped, serveKeeps, ThreadInv
  <2> QED
    BY <2>1, <2>2
<1>7. CASE TakeSms
  <2>1. CASE NoMore("beat")
    BY <1>1, <1>7, <2>1 DEF NoMore, TakeSms, serveKeeps
  <2>2. CASE ~NoMore("beat")
    BY <1>7, <2>2 DEF Taken, TakeSms, Begin, FrontOf, Popped, serveKeeps, ThreadInv
  <2> QED
    BY <2>1, <2>2
<1>8. CASE AwaitScan \/ AwaitWake \/ AwaitTimeout
  <2>1. UNCHANGED <<atRequestsQueue, atSmsRequestQueue, caller>> /\ task # NoTask
    BY <1>8 DEF AwaitScan, AwaitWake, AwaitTimeout, awaitKeeps, ThreadInv
  <2>2. CASE UNCHANGED <<task, completion>>
    BY <1>1, <2>1, <2>2
  <2>3. ASSUME NEW ok \in BOOLEAN, Finish(ok)
        PROVE  Answered(ok)
    BY <2>1, <2>3 DEF Answered, Finish, SetPromise, TypeOK
  <2>4. \/ UNCHANGED <<task, completion>>
        \/ \E ok \in BOOLEAN : Responded(ok)
    BY <1>8 DEF AwaitScan, AwaitWake, AwaitTimeout, Found, NotFound
  <2>5. ASSUME NEW ok \in BOOLEAN, Responded(ok)
        PROVE  \/ UNCHANGED <<task, completion>>
               \/ Finish(FALSE) \/ Finish(success /\ ok)
    BY <2>5 DEF Responded
  <2> QED
    BY <2>2, <2>3, <2>4, <2>5 DEF TypeOK
<1>9. ASSUME NEW r \in Requests, MayCall(r), NEW state \in {"waiting", "succeeded"},
             Submitted(r, state),
             \/ /\ r \in ConfigTask /\ UNCHANGED atSmsRequestQueue
                /\ atRequestsQueue' = Append(atRequestsQueue, r)
             \/ /\ r \in SmsTask /\ UNCHANGED atRequestsQueue
                /\ atSmsRequestQueue' = Append(atSmsRequestQueue, r)
      PROVE  Queued(r)
  BY <1>9 DEF MayCall, Submitted, Queued, TypeOK
<1>10. CASE ClientCall \/ ClientReturn
  <2>1. ASSUME NEW r \in ConfigReqs, SetConfig(r)
        PROVE  r \in Requests /\ Queued(r)
    BY <1>9, <2>1 DEF SetConfig, Requests, Promised, ConfigTask
  <2>2. ASSUME NEW r \in SmsSync, SendSmsSync(r)
        PROVE  r \in Requests /\ Queued(r)
    BY <1>9, <2>2 DEF SendSmsSync, Requests, Promised, SmsTask
  <2>3. ASSUME NEW r \in SmsAsync, SendSms(r)
        PROVE  r \in Requests /\ Queued(r)
    BY <1>9, <2>3 DEF SendSms, Requests, SmsTask
  <2>4. ASSUME NEW r \in Promised, ReturnResult(r) \/ ReturnTimeout(r)
        PROVE  Untouched
    <3>1. /\ caller[r] # "idle" /\ caller'[r] # "idle"
          /\ \A q \in Requests \ {r} : caller'[q] = caller[q]
      BY <2>4 DEF ReturnResult, ReturnTimeout, TypeOK, Requests
    <3> QED
      BY <2>4, <3>1 DEF ReturnResult, ReturnTimeout, clientKeeps, Untouched
  <2> QED
    BY <1>4, <1>10, <2>1, <2>2, <2>3, <2>4 DEF ClientCall, ClientReturn
<1> QED
  BY <1>2, <1>3, <1>4, <1>5, <1>6, <1>7, <1>8, <1>10
     DEF OpenNext, ATStep, ATTimeout, ClientStep

\* Each request with a promise stays in exactly one place until its promise is
\* set.
LEMMA RequestsStep ==
  ASSUME TypeOK, ThreadInv, PromiseInv, NoRequestLost, [OpenNext]_vars
  PROVE  PromiseInv' /\ NoRequestLost'
<1>0. Promised \subseteq Requests
  BY DEF Requests
<1>1. CASE Untouched
  BY <1>0, <1>1 DEF Untouched, requests, PromiseInv, NoRequestLost, NoDuplicates
<1>2. ASSUME NEW r \in Requests \cup {ATH}, Queued(r)
      PROVE  PromiseInv' /\ NoRequestLost'
  <2>1. r \in Promised => /\ caller[r] = "idle" /\ completion[r] = "pending" /\ task # r
                          /\ r \notin ToSet(atRequestsQueue) \cup ToSet(atSmsRequestQueue)
    BY <1>0, <1>2 DEF Queued, PromiseInv
  <2>2. /\ ToSet(atRequestsQueue') \cup ToSet(atSmsRequestQueue')
             = ToSet(atRequestsQueue) \cup ToSet(atSmsRequestQueue) \cup {r}
        /\ NoDuplicates(atRequestsQueue') /\ NoDuplicates(atSmsRequestQueue')
    <3>1. CASE /\ r \in ConfigTask /\ UNCHANGED atSmsRequestQueue
               /\ atRequestsQueue' = Append(atRequestsQueue, r)
      BY <2>1, <3>1, PushQueue DEF TypeOK, PromiseInv
    <3>2. CASE /\ r \in SmsTask /\ UNCHANGED atRequestsQueue
               /\ atSmsRequestQueue' = Append(atSmsRequestQueue, r)
      BY <2>1, <3>2, PushQueue DEF TypeOK, PromiseInv
    <3> QED
      BY <1>2, <3>1, <3>2 DEF Queued
  <2> QED
    BY <1>0, <1>2, <2>1, <2>2 DEF Queued, PromiseInv, NoRequestLost, NoDuplicates
<1>3. CASE Taken
  <2>1. CASE atRequestsQueue # <<>> /\ UNCHANGED atSmsRequestQueue
             /\ task' = Head(atRequestsQueue) /\ atRequestsQueue' = Tail(atRequestsQueue)
    <3>1. /\ ToSet(atRequestsQueue) = ToSet(atRequestsQueue') \cup {task'}
          /\ NoDuplicates(atRequestsQueue')
          /\ task' \in Promised => task' \notin ToSet(atRequestsQueue')
      BY <2>1, PopQueue DEF TypeOK, PromiseInv
    <3> QED
      BY <1>3, <2>1, <3>1, QueuesDisjoint DEF Taken, PromiseInv, NoRequestLost, NoDuplicates
  <2>2. CASE atSmsRequestQueue # <<>> /\ UNCHANGED atRequestsQueue
             /\ task' = Head(atSmsRequestQueue) /\ atSmsRequestQueue' = Tail(atSmsRequestQueue)
    <3>1. /\ ToSet(atSmsRequestQueue) = ToSet(atSmsRequestQueue') \cup {task'}
          /\ NoDuplicates(atSmsRequestQueue')
          /\ task' \in Promised => task' \notin ToSet(atSmsRequestQueue')
      BY <2>2, PopQueue DEF TypeOK, PromiseInv
    <3> QED
      BY <1>3, <2>2, <3>1, QueuesDisjoint DEF Taken, PromiseInv, NoRequestLost, NoDuplicates
  <2> QED
    BY <1>3, <2>1, <2>2 DEF Taken
<1>4. ASSUME NEW ok \in BOOLEAN, Answered(ok)
      PROVE  PromiseInv' /\ NoRequestLost'
  BY <1>4, QueuesDisjoint DEF Answered, requests, PromiseInv, NoRequestLost, NoDuplicates
<1> QED
  BY <1>1, <1>2, <1>3, <1>4, StepKinds

-----------------------------------------------------------------------------
(* The theorems *)

\* The engine starts with no wait, no request and no promise set.
LEMMA InitIInv == Init => IInv
<1> SUFFICES ASSUME Init PROVE IInv
  OBVIOUS
<1>1. TypeOK
  BY EmptySeq DEF Init, TypeOK, PCs
<1>2. ThreadInv
  BY DEF Init, ThreadInv, WakeFindsMessage
<1>3. PromiseInv /\ NoRequestLost
  <2>1. /\ ToSet(atRequestsQueue) = {} /\ ToSet(atSmsRequestQueue) = {}
        /\ DOMAIN atRequestsQueue = {} /\ DOMAIN atSmsRequestQueue = {}
    BY DEF Init, ToSet
  <2>2. /\ task \notin Promised
        /\ \A r \in Promised : caller[r] = "idle" /\ completion[r] = "pending"
    BY SchedulerAssumption DEF Init, Requests, Promised, Task, ConfigTask, SmsTask
  <2> QED
    BY <2>1, <2>2 DEF PromiseInv, NoRequestLost, NoDuplicates
<1> QED
  BY <1>1, <1>2, <1>3 DEF IInv

\* Every step of the engine keeps it, whatever surrounds the engine.
LEMMA InvStep == IInv /\ [OpenNext]_vars => IInv'
BY ThreadStep, RequestsStep DEF IInv

\* The invariant the other theorems rest on: every wait of the AT thread looks
\* at messages that are there, and every request with a promise is in exactly
\* one place.
THEOREM Invariance == Spec => []IInv
<1>1. IInv /\ [Next]_vars => IInv'
  BY InvStep, NextIsOpen DEF IInv
<1> QED
  BY InitIInv, <1>1, PTL DEF Spec

\* Every variable of the engine always has its type.
THEOREM TypeCorrect == Spec => []TypeOK
<1>1. IInv => TypeOK
  BY DEF IInv
<1> QED
  BY Invariance, <1>1, PTL

\* Whatever the modem says and whenever the waits end, begin(), front(), back()
\* and begin() + numberOfMsg are only read from messages that are in
\* receivedCommands.
THEOREM WakeSafe == Spec => []WakeFindsMessage
<1>1. IInv => WakeFindsMessage
  BY DEF IInv, ThreadInv
<1> QED
  BY Invariance, <1>1, PTL

\* A request whose client was given a future is queued, in the AT thread's
\* hands or answered, for any number of clients and requests.
THEOREM RequestsKept == Spec => []NoRequestLost
<1>1. IInv => NoRequestLost
  BY DEF IInv
<1> QED
  BY Invariance, <1>1, PTL

\* A promise that is set is left alone by every step.
LEMMA PromiseStep ==
  ASSUME IInv, [OpenNext]_vars, NEW r \in Promised, completion[r] # "pending"
  PROVE  completion'[r] = completion[r]
<1>1. task # r
  BY DEF IInv, PromiseInv
<1> QED
  BY <1>1, StepKinds DEF IInv, Untouched, Queued, Taken, Answered

\* std::promise::set_value is never called twice for a request, for any
\* modem, whoever gave up waiting.
THEOREM PromiseOnce == Spec => PromiseSetOnce
<1>1. IInv /\ [Next]_vars
        => [\A r \in Promised : completion[r] # "pending" => completion'[r] = completion[r]]_vars
  BY PromiseStep, NextIsOpen DEF IInv
<1> QED
  BY Invariance, <1>1, PTL DEF Spec, PromiseSetOnce
=============================================================================
