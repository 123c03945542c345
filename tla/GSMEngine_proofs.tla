---------------------------- MODULE GSMEngine_proofs ----------------------------
(***************************************************************************)
(* The engine together with its modem: it serves requests as the scheduler *)
(* does, answers are true and settings in order as long as no answer comes *)
(* late or in another line, and SMS messages are delivered in order as     *)
(* long as nothing comes between their two lines.                          *)
(***************************************************************************)
EXTENDS GSMEngine, ATQueues_proofs

-----------------------------------------------------------------------------
(* Lines in sequences *)

\* Two sequences joined hold a line as often as both together.
LEMMA JoinedLines ==
  ASSUME NEW S, NEW s \in Seq(S), NEW t \in Seq(S), NEW kind
  PROVE  /\ NoneOf(s \o t, kind) <=> NoneOf(s, kind) /\ NoneOf(t, kind)
         /\ OneOf(s \o t, kind) <=> \/ OneOf(s, kind) /\ NoneOf(t, kind)
                                    \/ NoneOf(s, kind) /\ OneOf(t, kind)
<1> DEFINE u == s \o t
           n == Len(s)
<1>1. /\ n \in Nat /\ Len(t) \in Nat
      /\ DOMAIN s = 1..n /\ DOMAIN t = 1..Len(t) /\ DOMAIN u = 1..(n + Len(t))
      /\ \A i \in 1..(n + Len(t)) : u[i] = IF i <= n THEN s[i] ELSE t[i - n]
  BY ConcatProperties, LenProperties
<1> HIDE DEF u, n
<1>2. \A i \in DOMAIN s : i \in DOMAIN u /\ u[i] = s[i]
  BY <1>1
<1>3. \A i \in DOMAIN t : i + n \in DOMAIN u /\ u[i + n] = t[i] /\ i + n \notin DOMAIN s
  BY <1>1
<1>4. \A i \in DOMAIN u : i \in DOMAIN s \/ (i - n \in DOMAIN t /\ i = (i - n) + n)
  BY <1>1
<1>5. \A i, j \in DOMAIN t : i + n = j + n => i = j
  BY <1>1
<1>6. \A i \in DOMAIN u : \/ i \in DOMAIN s /\ u[i] = s[i]
                          \/ \E j \in DOMAIN t : i = j + n /\ u[i] = t[j]
  BY <1>2, <1>3, <1>4
<1>7. NoneOf(u, kind) <=> NoneOf(s, kind) /\ NoneOf(t, kind)
  <2>1. ASSUME NoneOf(u, kind) PROVE NoneOf(s, kind) /\ NoneOf(t, kind)
    BY <1>2, <1>3, <2>1 DEF NoneOf
  <2>2. ASSUME NoneOf(s, kind), NoneOf(t, kind) PROVE NoneOf(u, kind)
    BY <1>6, <2>2 DEF NoneOf
  <2> QED
    BY <2>1, <2>2
<1>8. ASSUME OneOf(s, kind), NoneOf(t, kind) PROVE OneOf(u, kind)
  <2>1. PICK i \in DOMAIN s : /\ s[i].kind = kind
                              /\ \A j \in DOMAIN s : s[j].kind = kind => j = i
    BY <1>8 DEF OneOf
  <2>2. i \in DOMAIN u /\ u[i].kind = kind
    BY <1>2, <2>1
  <2>3. \A j \in DOMAIN u : u[j].kind = kind => j = i
    BY <1>6, <1>8, <2>1 DEF NoneOf
  <2> QED
    BY <2>2, <2>3 DEF OneOf
<1>9. ASSUME NoneOf(s, kind), OneOf(t, kind) PROVE OneOf(u, kind)
  <2>1. PICK i \in DOMAIN t : /\ t[i].kind = kind
                              /\ \A j \in DOMAIN t : t[j].kind = kind => j = i
    BY <1>9 DEF OneOf
  <2>2. i + n \in DOMAIN u /\ u[i + n].kind = kind
    BY <1>3, <2>1
  <2>3. \A j \in DOMAIN u : u[j].kind = kind => j = i + n
    BY <1>6, <1>9, <2>1 DEF NoneOf
  <2> QED
    BY <2>2, <2>3 DEF OneOf
<1>10. ASSUME OneOf(u, kind)
       PROVE  \/ OneOf(s, kind) /\ NoneOf(t, kind)
              \/ NoneOf(s, kind) /\ OneOf(t, kind)
  <2>1. PICK i \in DOMAIN u : /\ u[i].kind = kind
                              /\ \A j \in DOMAIN u : u[j].kind = kind => j = i
    BY <1>10 DEF OneOf
  <2>2. CASE i \in DOMAIN s
    <3>1. OneOf(s, kind)
      BY <1>2, <2>1, <2>2 DEF OneOf
    <3>2. NoneOf(t, kind)
      BY <1>3, <2>1, <2>2 DEF NoneOf
    <3> QED
      BY <3>1, <3>2
  <2>3. ASSUME NEW k \in DOMAIN t, i = k + n
        PROVE  NoneOf(s, kind) /\ OneOf(t, kind)
    <3>1. t[k].kind = kind /\ i \notin DOMAIN s
      BY <1>3, <2>1, <2>3
    <3>2. \A j \in DOMAIN t : t[j].kind = kind => j = k
      BY <1>3, <1>5, <2>1, <2>3
    <3>3. NoneOf(s, kind)
      BY <1>2, <2>1, <3>1 DEF NoneOf
    <3> QED
      BY <3>1, <3>2, <3>3 DEF OneOf
  <2> QED
    BY <1>6, <2>2, <2>3
<1> QED
  BY <1>7, <1>8, <1>9, <1>10 DEF u

\* No line in the empty sequence, and the one line in a sequence of one.
LEMMA FewLines ==
  ASSUME NEW m, NEW kind
  PROVE  /\ NoneOf(<<>>, kind) /\ ~OneOf(<<>>, kind)
         /\ NoneOf(<<m>>, kind) <=> m.kind # kind
         /\ OneOf(<<m>>, kind) <=> m.kind = kind
<1>1. DOMAIN <<>> = {} /\ DOMAIN <<m>> = {1} /\ <<m>>[1] = m
  OBVIOUS
<1> DEFINE s == <<m>>
           e == <<>>
<1> HIDE DEF s, e
<1>2. DOMAIN e = {} /\ DOMAIN s = {1} /\ s[1] = m
  BY <1>1 DEF s, e
<1>3. /\ NoneOf(e, kind) /\ ~OneOf(e, kind)
      /\ NoneOf(s, kind) <=> m.kind # kind
      /\ OneOf(s, kind) <=> m.kind = kind
  BY <1>2 DEF NoneOf, OneOf
<1> QED
  BY <1>3 DEF s, e

\* No kind of line is there both once and never.
LEMMA NotBoth ==
  ASSUME NEW s, NEW kind
  PROVE  ~(OneOf(s, kind) /\ NoneOf(s, kind))
BY DEF OneOf, NoneOf

\* A line at the end.
LEMMA AddedLine ==
  ASSUME NEW S, NEW s \in Seq(S), NEW m \in S, NEW kind
  PROVE  /\ NoneOf(Append(s, m), kind) <=> NoneOf(s, kind) /\ m.kind # kind
         /\ OneOf(Append(s, m), kind) <=> \/ OneOf(s, kind) /\ m.kind # kind
                                          \/ NoneOf(s, kind) /\ m.kind = kind
<1>1. <<m>> \in Seq(S) /\ Append(s, m) = s \o <<m>>
  BY AppendIsConcat
<1> DEFINE t == <<m>>
<1> HIDE DEF t
<1>2. t \in Seq(S) /\ Append(s, m) = s \o t
  BY <1>1 DEF t
<1>3. /\ NoneOf(t, kind) <=> m.kind # kind
      /\ OneOf(t, kind) <=> m.kind = kind
  BY FewLines DEF t
<1> QED
  BY <1>2, <1>3, JoinedLines

\* front() and pop(), back() and pop_back() are erase() at the ends.
LEMMA EndsAreErased ==
  ASSUME NEW S, NEW s \in Seq(S), s # <<>>
  PROVE  /\ Tail(s) = RemoveAt(s, 1) /\ Head(s) = s[1] /\ 1 \in 1..Len(s)
         /\ Front(s) = RemoveAt(s, Len(s)) /\ Last(s) = s[Len(s)] /\ Len(s) \in 1..Len(s)
<1>1. Len(s) \in Nat \ {0}
  BY EmptySeq
<1>2. Tail(s) = SubSeq(s, 2, Len(s)) /\ Tail(s) \in Seq(S)
  BY TailIsSubSeq, HeadTailProperties
<1>3. Front(s) = SubSeq(s, 1, Len(s) - 1) /\ Front(s) \in Seq(S)
  BY EndsType DEF Front
<1>4. SubSeq(s, 1, 1 - 1) = <<>> /\ SubSeq(s, Len(s) + 1, Len(s)) = <<>>
  BY <1>1, SubSeqEmpty
<1>5. RemoveAt(s, 1) = <<>> \o Tail(s)
  BY <1>2, <1>4 DEF RemoveAt
<1>6. RemoveAt(s, Len(s)) = Front(s) \o <<>>
  BY <1>3, <1>4 DEF RemoveAt
<1>7. <<>> \o Tail(s) = Tail(s) /\ Front(s) \o <<>> = Front(s)
  BY <1>2, <1>3, ConcatEmptySeq
<1>8. Head(s) = s[1] /\ Last(s) = s[Len(s)]
  BY DEF Last
<1>9. 1 \in 1..Len(s) /\ Len(s) \in 1..Len(s)
  BY <1>1
<1> QED
  BY <1>5, <1>6, <1>7, <1>8, <1>9

\* A line that is erased.
LEMMA ErasedLine ==
  ASSUME NEW S, NEW s \in Seq(S), NEW i \in 1..Len(s), NEW kind
  PROVE  /\ s[i].kind # kind => /\ NoneOf(RemoveAt(s, i), kind) <=> NoneOf(s, kind)
                                /\ OneOf(RemoveAt(s, i), kind) <=> OneOf(s, kind)
         /\ s[i].kind = kind => /\ ~NoneOf(s, kind)
                                /\ NoneOf(RemoveAt(s, i), kind) <=> OneOf(s, kind)
<1> DEFINE a == SubSeq(s, 1, i - 1)
           b == SubSeq(s, i + 1, Len(s))
           c == SubSeq(s, i, Len(s))
           m == <<s[i]>>
<1>1. Len(s) \in Nat /\ s[i] \in S
  BY LenProperties, ElementOfSeq
<1>2. a \in Seq(S) /\ b \in Seq(S) /\ c \in Seq(S) /\ m \in Seq(S)
  <2>1. \A j \in 1..Len(s) : s[j] \in S
    BY ElementOfSeq
  <2>2. a \in Seq(S)
    BY <1>1, <2>1, SubSeqProperties
  <2>3. b \in Seq(S) /\ c \in Seq(S)
    BY <1>1, <2>1, SubSeqProperties
  <2> QED
    BY <1>1, <2>2, <2>3
<1>3. c = m \o b
  BY <1>1, SubSeqRecursiveFirst
<1>4. s = a \o c
  <2> DEFINE k == i - 1
  <2>1. SubSeq(s, 1, k) \o SubSeq(s, k + 1, Len(s)) = SubSeq(s, 1, Len(s))
    <3>1. 1 \in 1..(Len(s) + 1) /\ k \in (1 - 1)..Len(s) /\ Len(s) \in k..Len(s)
      BY <1>1
    <3> HIDE DEF k
    <3> QED
      BY <3>1, ConcatAdjacentSubSeq
  <2>2. k + 1 = i
    OBVIOUS
  <2> QED
    BY <2>1, <2>2, SubSeqFull
<1>5. RemoveAt(s, i) = a \o b
  BY DEF RemoveAt
<1>6. /\ NoneOf(m, kind) <=> s[i].kind # kind
      /\ OneOf(m, kind) <=> s[i].kind = kind
  BY FewLines
<1> HIDE DEF a, b, c, m
<1>7. /\ NoneOf(c, kind) <=> NoneOf(m, kind) /\ NoneOf(b, kind)
      /\ OneOf(c, kind) <=> \/ OneOf(m, kind) /\ NoneOf(b, kind)
                            \/ NoneOf(m, kind) /\ OneOf(b, kind)
  BY <1>2, <1>3, JoinedLines
<1>8. /\ NoneOf(s, kind) <=> NoneOf(a, kind) /\ NoneOf(c, kind)
      /\ OneOf(s, kind) <=> \/ OneOf(a, kind) /\ NoneOf(c, kind)
                            \/ NoneOf(a, kind) /\ OneOf(c, kind)
  BY <1>2, <1>4, JoinedLines
<1>9. /\ NoneOf(RemoveAt(s, i), kind) <=> NoneOf(a, kind) /\ NoneOf(b, kind)
      /\ OneOf(RemoveAt(s, i), kind) <=> \/ OneOf(a, kind) /\ NoneOf(b, kind)
                                         \/ NoneOf(a, kind) /\ OneOf(b, kind)
  BY <1>2, <1>5, JoinedLines
<1>10. ~(OneOf(a, kind) /\ NoneOf(a, kind)) /\ ~(OneOf(b, kind) /\ NoneOf(b, kind))
  BY NotBoth
<1> QED
  BY <1>6, <1>7, <1>8, <1>9, <1>10

-----------------------------------------------------------------------------
(* The composition: types *)

\* A client that calls, or the engine and the modem at their work, takes a step
\* of the engine among some surroundings.
LEMMA EngineStepIsOpen ==
  ASSUME EngineTypeOK, [EngineNext]_engineVars
  PROVE  [OpenNext]_vars
<1>1. CASE Step \/ Timeout \/ Return \/ Call \/ Fetch \/ HeartBeatDue
  BY <1>1 DEF Step, Timeout, Return, Call, Fetch, HeartBeatDue, OpenNext, ClientStep
<1>2. CASE Receive
  <2>1. wire \in Seq(Message) /\ wire # <<>>
    BY <1>2, LenProperties, EmptySeq DEF EngineTypeOK, Receive
  <2>2. Head(wire) \in Message
    BY <2>1, EndsType
  <2> QED
    BY <1>2, <2>2 DEF Receive, OpenNext
<1>3. CASE ModemRead
  <2>1. toModem \in Seq(Command) /\ toModem # <<>> /\ Len(toModem) \in Nat
    BY <1>3, LenProperties DEF ModemRead, EngineTypeOK, TypeOK
  <2>2. Tail(toModem) \in Seq(Command) /\ Len(Tail(toModem)) = Len(toModem) - 1
    BY <2>1, EndsType
  <2>3. ASSUME Len(toModem) > 1
        PROVE  Tail(Tail(toModem)) \in Seq(Command)
    <3> DEFINE t == Tail(toModem)
    <3>1. Len(t) # 0
      BY <2>1, <2>2, <2>3
    <3>2. t \in Seq(Command)
      BY <2>2
    <3> HIDE DEF t
    <3>3. t # <<>>
      BY <3>1, EmptySeq
    <3>4. Tail(t) \in Seq(Command)
      BY <3>2, <3>3, EndsType
    <3> QED
      BY <3>4 DEF t
  <2>4. toModem' \in Seq(Command)
    BY <1>3, <2>2, <2>3 DEF ModemRead
  <2> QED
    BY <1>3, <2>4 DEF ModemRead, ModemReads, OpenNext
<1>4. CASE \/ ModemReply \/ ConsoleWrite \/ UNCHANGED engineVars
           \/ (\E i \in InSms : ReceiveSms(i)) \/ (\E n \in InCalls : ReceiveCall(n))
  BY <1>4 DEF ModemReply, ConsoleWrite, ReceiveSms, ReceiveCall, engineVars
<1> QED
  BY <1>1, <1>2, <1>3, <1>4 DEF EngineNext

\* What handle_command and process_sms answer.
LEMMA AnswerTypes ==
  ASSUME NEW command, NEW answer \in Answers(command),
         command.kind \in {"ATE0", "AT", "CONFIG", "ATH", "CMGS"}
  PROVE  /\ answer \in Seq(Kinds)
         /\ Echoed(command) \in Seq(Kinds)
         /\ Lines(Echoed(command) \o answer) \in Seq(Message)
<1>1. \A k \in Kinds : Line(k) \in Message
  BY DEF Line, Message
<1>2. <<"OK">> \in Seq(Kinds) /\ <<"ERROR">> \in Seq(Kinds) /\ <<"PROMPT">> \in Seq(Kinds)
      /\ <<"NOCARRIER", "OK">> \in Seq(Kinds)
  BY DEF Kinds, Tokens
<1>3. answer \in Seq(Kinds)
  <2>1. CASE command.kind \in {"AT", "ATE0"}
    BY <1>2, <2>1 DEF Answers
  <2>2. CASE command.kind = "CONFIG"
    BY <1>2, <2>2 DEF Answers
  <2>3. CASE command.kind = "ATH"
    BY <1>2, <2>3 DEF Answers
  <2>4. CASE command.kind = "CMGS"
    BY <1>2, <2>4 DEF Answers
  <2> QED
    BY <2>1, <2>2, <2>3, <2>4
<1>4. Echoed(command) \in Seq(Kinds)
  <2>1. <<"ECHO">> \in Seq(Kinds) /\ <<"OTHER">> \in Seq(Kinds) /\ <<>> \in Seq(Kinds)
    BY DEF Kinds, Tokens
  <2> QED
    BY <2>1 DEF Echoed
<1>5. Echoed(command) \o answer \in Seq(Kinds)
  BY <1>3, <1>4, ConcatProperties
<1>6. ASSUME NEW k \in Seq(Kinds) PROVE Lines(k) \in Seq(Message)
  <2>1. Len(k) \in Nat /\ DOMAIN k = 1..Len(k) /\ \A i \in 1..Len(k) : k[i] \in Kinds
    BY <1>6, LenProperties, ElementOfSeq
  <2>2. \A i \in 1..Len(k) : Line(k[i]) \in Message
    BY <1>1, <2>1
  <2>3. [i \in 1..Len(k) |-> Line(k[i])] \in Seq(Message)
    BY <2>1, <2>2, IsASeq
  <2> QED
    BY <2>1, <2>3 DEF Lines
<1> QED
  BY <1>3, <1>4, <1>5, <1>6

\* Adding an item of the right kind to Serial's write queue.
LEMMA SendSent ==
  ASSUME SentInv, NEW kind, NEW t, SendFor(kind, t), Item(kind, t) \in Sent
  PROVE  toModem' \in Seq(Sent)
BY AppendProperties DEF SentInv, SendFor, Item

\* What is sent keeps being what it is called.
LEMMA SentStep ==
  ASSUME EngineTypeOK, IInv, SentInv, [EngineNext]_engineVars
  PROVE  SentInv'
<1> USE DEF thread, local, rx, requests, inbox, life, shared
<1>0. TypeOK /\ ThreadInv /\ task \in Task \cup {NoTask} /\ expect \in Seq(Tokens)
  BY DEF EngineTypeOK, IInv, TypeOK
<1>1. ASSUME UNCHANGED <<task, expect>>, toModem' \in Seq(Sent), pc' # "text"
      PROVE  SentInv'
  BY <1>1 DEF SentInv
<1>2. ASSUME UNCHANGED <<toModem, task, expect>>, pc' # "text" \/ pc' = pc
      PROVE  SentInv'
  BY <1>2 DEF SentInv
<1>3. CASE SendATE0 \/ Beat
  <2>1. Item("ATE0", NoTask) \in Sent /\ Item("AT", NoTask) \in Sent
    BY DEF Item, Sent, Command
  <2>2. toModem' \in Seq(Sent)
    BY <1>3, <2>1, SendSent DEF SendATE0, Beat, SentInv
  <2> QED
    BY <1>1, <1>3, <2>2 DEF SendATE0, Beat
<1>4. CASE TakeConfig
  <2>1. CASE NoMore("smsCheck")
    BY <1>2, <1>4, <2>1 DEF NoMore
  <2>2. ASSUME atRequestsQueue # <<>>, NEW t, t = FrontOf(atRequestsQueue),
               IF t = ATH THEN Begin(t, "ATH", <<"NOCARRIER", "OK">>)
                          ELSE Begin(t, "CONFIG", <<"OK">>)
        PROVE  SentInv'
    <3>1. t \in ConfigTask
      BY <1>0, <2>2, EndsType DEF FrontOf, TypeOK
    <3>2. (t = ATH => Item("ATH", t) \in Sent) /\ (t # ATH => Item("CONFIG", t) \in Sent)
      BY <3>1 DEF Item, Sent, Command, Task, ConfigTask
    <3>3. toModem' \in Seq(Sent)
      BY <2>2, <3>2, SendSent DEF Begin
    <3>4. pc' = "await" /\ (expect' = <<"NOCARRIER", "OK">> \/ expect' = <<"OK">>)
      BY <2>2 DEF Begin
    <3>5. \A i \in DOMAIN expect' : expect'[i] # "PROMPT"
      BY <3>4
    <3> QED
      BY <3>3, <3>4, <3>5 DEF SentInv
  <2> QED
    BY <1>4, <2>1, <2>2 DEF TakeConfig
<1>5. CASE TakeSms
  <2>1. CASE NoMore("beat")
    BY <1>2, <1>5, <2>1 DEF NoMore
  <2>2. CASE atSmsRequestQueue # <<>>
             /\ Begin(FrontOf(atSmsRequestQueue), "CMGS", <<"PROMPT", "CMGS", "OK">>)
    <3> DEFINE t == FrontOf(atSmsRequestQueue)
    <3>1. t \in SmsTask
      BY <1>0, <2>2, EndsType DEF FrontOf, TypeOK
    <3>2. Item("CMGS", t) \in Sent
      BY <3>1 DEF Item, Sent, Command, Task
    <3>3. toModem' \in Seq(Sent)
      BY <2>2, <3>2, SendSent DEF Begin
    <3> QED
      BY <2>2, <3>1, <3>3 DEF Begin, SentInv
  <2> QED
    BY <1>5, <2>1, <2>2 DEF TakeSms
<1>6. CASE SendText
  <2>1. task \in SmsTask
    BY <1>6 DEF SendText, SentInv
  <2>2. Item("TEXT", task) \in Sent /\ Item("SUB", task) \in Sent
    BY <2>1 DEF Item, Sent, Command, Task
  <2>3. <<Item("TEXT", task), Item("SUB", task)>> \in Seq(Sent)
    BY <2>2
  <2>4. toModem' \in Seq(Sent)
    BY <1>6, <2>3, ConcatProperties DEF SendText, Item, SentInv
  <2> QED
    BY <1>1, <1>6, <2>4 DEF SendText
<1>7. CASE AwaitScan \/ AwaitWake \/ AwaitTimeout
  <2>1. toModem' = toModem /\ pc = "await" /\ expect # <<>>
    BY <1>0, <1>7 DEF AwaitScan, AwaitWake, AwaitTimeout, awaitKeeps, ThreadInv
  <2>2. CASE NotFound
    BY <1>2, <2>1, <2>2 DEF NotFound
  <2>3. ASSUME NEW ok \in BOOLEAN, Responded(ok)
        PROVE  SentInv'
    <3>1. ASSUME NEW done \in BOOLEAN, Finish(done)
          PROVE  SentInv'
      BY <2>1, <3>1 DEF Finish, SentInv
    <3>2. CASE /\ expect' = Tail(expect) /\ UNCHANGED task
               /\ pc' = IF Head(expect) = "PROMPT" THEN "text" ELSE "await"
      <4>1. /\ Tail(expect) \in Seq(Tokens) /\ Len(Tail(expect)) = Len(expect) - 1
            /\ \A i \in 1..Len(Tail(expect)) : Tail(expect)[i] = expect[i + 1]
            /\ Len(expect) \in Nat \ {0} /\ DOMAIN expect = 1..Len(expect)
            /\ Head(expect) = expect[1]
        BY <1>0, <2>1, HeadTailProperties, LenProperties, EmptySeq
      <4>2. DOMAIN Tail(expect) = 1..(Len(expect) - 1)
        BY <4>1, LenProperties
      <4>3. \A i \in DOMAIN Tail(expect) : Tail(expect)[i] = "PROMPT" => task \in SmsTask
        BY <4>1, <4>2 DEF SentInv
      <4>4. pc' = "text" => task \in SmsTask
        BY <3>2, <4>1 DEF SentInv
      <4> QED
        BY <2>1, <3>2, <4>3, <4>4 DEF SentInv
    <3> QED
      BY <1>0, <2>3, <3>1, <3>2 DEF Responded, TypeOK
  <2> QED
    BY <1>7, <2>2, <2>3 DEF AwaitScan, AwaitWake, AwaitTimeout, Found
<1>8. CASE ModemRead
  <2>1. toModem \in Seq(Sent) /\ toModem # <<>> /\ Len(toModem) \in Nat
    BY <1>8, LenProperties DEF ModemRead, SentInv
  <2>2. Tail(toModem) \in Seq(Sent) /\ Len(Tail(toModem)) = Len(toModem) - 1
    BY <2>1, EndsType
  <2>3. ASSUME Len(toModem) > 1
        PROVE  Tail(Tail(toModem)) \in Seq(Sent)
    <3> DEFINE t == Tail(toModem)
    <3>1. Len(t) # 0 /\ t \in Seq(Sent)
      BY SMTT(30), <2>1, <2>2, <2>3
    <3> HIDE DEF t
    <3>2. t # <<>>
      BY <3>1, EmptySeq
    <3>3. Tail(t) \in Seq(Sent)
      BY <3>1, <3>2, EndsType
    <3> QED
      BY <3>3 DEF t
  <2>4. toModem' \in Seq(Sent)
    BY <1>8, <2>2, <2>3 DEF ModemRead
  <2> QED
    BY <1>8, <2>4 DEF ModemRead, SentInv
<1>9. CASE \/ ATE0Get \/ ATE0Wake \/ ATE0Timeout \/ Loop \/ Drain
           \/ SmsTextGet \/ SmsTextWake \/ SmsTextTimeout
  BY <1>2, <1>9 DEF ATE0Get, ATE0Wake, ATE0Timeout, TakeLast, BeginWait, Exit, Loop, Drain,
     SmsProcessing, CallingProcessing, Skipped, SmsTextGet, SmsTextWake, SmsTextTimeout,
     StoreSms, smsTextKeeps
<1>10. CASE \/ ConfigCheck \/ SmsCheck
            \/ SyncScan \/ SyncWake \/ SyncTimeout \/ Synced
  BY <1>2, <1>10 DEF ConfigCheck, SmsCheck, Check, SyncScan, SyncWake,
     SyncTimeout, Synced, syncKeeps, HeartBeatFailed, Exit
<1>11. CASE ClientStep \/ Tick \/ Receive
  BY <1>2, <1>11 DEF ClientStep, ClientCall, ClientReturn, SetConfig, SendSmsSync, SendSms,
     Submitted, ReturnResult, ReturnTimeout, GetLastSms, GetLastCall, Shutdown, clientKeeps,
     Tick, Receive, ReadEvent
<1>12. CASE \/ ModemReply \/ ConsoleWrite \/ UNCHANGED engineVars
            \/ (\E i \in InSms : ReceiveSms(i)) \/ (\E n \in InCalls : ReceiveCall(n))
  BY <1>2, <1>12 DEF ModemReply, ConsoleWrite, ReceiveSms, ReceiveCall, engineVars, vars
<1> QED
  BY <1>3, <1>4, <1>5, <1>6, <1>7, <1>8, <1>9, <1>10, <1>11, <1>12
     DEF EngineNext, Step, Timeout, Return, Call, Fetch, HeartBeatDue, ATStep, ATTimeout,
         ClientStep

\* The modem's variables keep their types.
LEMMA ModemStep ==
  ASSUME EngineTypeOK, SentInv, [EngineNext]_engineVars
  PROVE  /\ wire' \in Seq(Message) /\ reply' \in Seq(Message) /\ console' \in Seq(Message)
         /\ echo' \in BOOLEAN /\ waiting_for_sms' \in BOOLEAN
         /\ accepted' \subseteq Requests /\ arrived' \in Seq(InSms) /\ rang' \subseteq InCalls
         /\ fetched' \in Seq([number : InSms \cup InCalls \cup {NoId}, msg : Message])
<1> DEFINE SmsInfo == [number : InSms \cup InCalls \cup {NoId}, msg : Message]
<1>a. fetched' \in Seq(SmsInfo)
  <2>1. fetched \in Seq(SmsInfo) /\ receivedSmses \in Seq(SmsInfo)
    BY DEF EngineTypeOK, TypeOK
  <2>2. CASE UNCHANGED fetched
    BY <2>1, <2>2
  <2>3. CASE receivedSmses # <<>> /\ fetched' = Append(fetched, Head(receivedSmses))
    <3> HIDE DEF SmsInfo
    <3>1. Head(receivedSmses) \in SmsInfo
      BY <2>1, <2>3, EndsType
    <3> QED
      BY <2>1, <2>3, <3>1, AppendProperties
  <2> QED
    BY <2>2, <2>3 DEF EngineNext, Step, Timeout, Receive, ModemRead, ModemReply, ConsoleWrite,
       ReceiveSms, ReceiveCall, Return, Call, Fetch, GetLastSms, HeartBeatDue, engineVars
<1> DEFINE ModemOK ==
      /\ wire \in Seq(Message) /\ reply \in Seq(Message) /\ console \in Seq(Message)
      /\ echo \in BOOLEAN /\ waiting_for_sms \in BOOLEAN
      /\ accepted \subseteq Requests /\ arrived \in Seq(InSms) /\ rang \subseteq InCalls
<1> SUFFICES ModemOK'
  BY <1>a
<1>0. ModemOK
  BY DEF EngineTypeOK
<1>1. ASSUME UNCHANGED modem PROVE ModemOK'
  BY <1>0, <1>1 DEF modem
<1>2. CASE Step \/ Timeout \/ Return \/ Call \/ Fetch \/ HeartBeatDue \/ UNCHANGED engineVars
  BY <1>1, <1>2 DEF Step, Timeout, Return, Call, Fetch, HeartBeatDue, engineVars
<1>3. CASE Receive
  <2>1. PICK n \in 1..2 : /\ n <= Len(wire)
                          /\ wire' = SubSeq(wire, n + 1, Len(wire))
                          /\ UNCHANGED <<reply, console, echo, waiting_for_sms, accepted,
                                         arrived, rang>>
    BY <1>3 DEF Receive
  <2>2. Len(wire) \in Nat /\ \A i \in 1..Len(wire) : wire[i] \in Message
    BY <1>0, LenProperties, ElementOfSeq
  <2>3. n + 1 \in Int /\ \A i \in (n + 1)..Len(wire) : wire[i] \in Message
    BY <2>2
  <2>4. wire' \in Seq(Message)
    BY <2>1, <2>2, <2>3, SubSeqProperties
  <2> QED
    BY <1>0, <2>1, <2>4
<1>4. CASE ModemRead
  <2>1. toModem \in Seq(Sent) /\ toModem # <<>>
        /\ UNCHANGED <<wire, console, arrived, rang>>
    BY <1>4 DEF ModemRead, SentInv
  <2> DEFINE item == Head(toModem)
  <2>2. item \in Sent
    BY <2>1, EndsType
  <2>3. ASSUME item.kind \notin {"TEXT", "SUB"}, HandleCommand(item)
        PROVE  ModemOK'
    <3>1. item.kind \in {"ATE0", "AT", "CONFIG", "ATH", "CMGS"}
      BY <2>2, <2>3 DEF Sent, Command
    <3>2. PICK answer \in Answers(item) :
            /\ reply' = Lines(Echoed(item) \o answer)
            /\ accepted' = IF item.kind = "CONFIG" /\ answer = <<"OK">>
                           THEN accepted \cup {item.req} ELSE accepted
      BY <2>3 DEF HandleCommand
    <3>3. reply' \in Seq(Message)
      BY <3>1, <3>2, AnswerTypes
    <3>4. accepted' \subseteq Requests
      BY <1>0, <2>2, <3>2 DEF Sent, Requests, Promised
    <3>5. echo' \in BOOLEAN /\ waiting_for_sms' \in BOOLEAN
      BY <2>3 DEF HandleCommand
    <3> QED
      BY <1>0, <2>1, <3>3, <3>4, <3>5
  <2>4. ASSUME item.kind \in {"TEXT", "SUB"}, ProcessSms(item.req)
        PROVE  ModemOK'
    <3>1. reply' = Lines(<<"CMGS", "OK">>)
      BY <2>4 DEF ProcessSms
    <3>2. reply' = <<Line("CMGS"), Line("OK")>>
      BY <3>1 DEF Lines
    <3>3. Line("CMGS") \in Message /\ Line("OK") \in Message
      BY DEF Line, Message, Kinds, Tokens
    <3>4. accepted' \subseteq Requests
      BY <1>0, <2>2, <2>4 DEF ProcessSms, Sent, Requests, Promised, SmsTask
    <3>5. reply' \in Seq(Message)
      BY <3>2, <3>3
    <3> QED
      BY <1>0, <2>1, <2>4, <3>4, <3>5 DEF ProcessSms
  <2>5. ASSUME reply' = Lines(<<"ERROR">>), UNCHANGED <<echo, waiting_for_sms, accepted>>
        PROVE  ModemOK'
    <3>1. reply' = <<Line("ERROR")>>
      BY <2>5 DEF Lines
    <3>2. Line("ERROR") \in Message
      BY DEF Line, Message, Kinds
    <3>3. reply' \in Seq(Message)
      BY <3>1, <3>2
    <3> QED
      BY <1>0, <2>1, <2>5, <3>3
  <2> QED
    BY <1>4, <2>3, <2>4, <2>5 DEF ModemRead
<1>5. CASE ModemReply
  <2>1. Head(reply) \in Message /\ Tail(reply) \in Seq(Message)
    BY <1>0, <1>5, EndsType DEF ModemReply
  <2> QED
    BY <1>0, <1>5, <2>1, AppendProperties DEF ModemReply
<1>6. ASSUME NEW i \in InSms, ReceiveSms(i)
      PROVE  ModemOK'
  <2>1. /\ [kind |-> "CMT", id |-> i] \in Message
        /\ [kind |-> "BODY", id |-> i] \in Message
    BY DEF Message, Kinds
  <2>2. console' \in Seq(Message)
    BY <1>6, <2>1 DEF ReceiveSms
  <2> QED
    BY <1>0, <1>6, <2>2, AppendProperties DEF ReceiveSms
<1>7. ASSUME NEW n \in InCalls, ReceiveCall(n)
      PROVE  ModemOK'
  <2>1. /\ [kind |-> "RING", id |-> NoId] \in Message
        /\ [kind |-> "CLIP", id |-> n] \in Message
    BY DEF Message, Kinds
  <2>2. console' \in Seq(Message)
    BY <1>7, <2>1 DEF ReceiveCall
  <2> QED
    BY <1>0, <1>7, <2>2 DEF ReceiveCall
<1>8. CASE ConsoleWrite
  <2>1. Head(console) \in Message /\ Tail(console) \in Seq(Message)
    BY <1>0, <1>8, EndsType DEF ConsoleWrite
  <2>2. <<>> \in Seq(Message)
    BY EmptySeq
  <2>3. Append(wire, Head(console)) \in Seq(Message) /\ wire \o console \in Seq(Message)
    BY <1>0, <2>1, AppendProperties, ConcatProperties
  <2> QED
    BY <1>0, <1>8, <2>1, <2>2, <2>3 DEF ConsoleWrite
<1> QED
  BY <1>2, <1>3, <1>4, <1>5, <1>6, <1>7, <1>8 DEF EngineNext

\* Types, the places of the requests and what is sent, step by step.
LEMMA EngineTypeStep ==
  ASSUME EngineTypeOK, IInv, SentInv, [EngineNext]_engineVars
  PROVE  EngineTypeOK' /\ IInv' /\ SentInv'
<1>1. IInv'
  BY EngineStepIsOpen, InvStep
<1> QED
  BY <1>1, ModemStep, SentStep DEF EngineTypeOK, IInv

LEMMA EngineTypeInit ==
  EngineInit => EngineTypeOK /\ IInv /\ SentInv
<1> SUFFICES ASSUME EngineInit PROVE EngineTypeOK /\ IInv /\ SentInv
  OBVIOUS
<1>1. Init /\ IInv /\ TypeOK
  BY InitIInv DEF EngineInit, IInv
<1>2. EngineTypeOK
  BY <1>1, EmptySeq DEF EngineInit, EngineTypeOK
<1>3. SentInv
  BY <1>1, EmptySeq DEF Init, SentInv
<1> QED
  BY <1>1, <1>2, <1>3

\* Every variable of the engine and the modem always has its type, whatever
\* the surroundings do.
THEOREM EngineTypeCorrect == EngineSpec => []EngineTypeOK
<1> DEFINE Inv == EngineTypeOK /\ IInv /\ SentInv
<1>1. Inv /\ [EngineNext]_engineVars => Inv'
  BY EngineTypeStep
<1>2. EngineInit => Inv
  BY EngineTypeInit
<1>3. Inv => EngineTypeOK
  OBVIOUS
<1> HIDE DEF Inv
<1> QED
  BY <1>1, <1>2, <1>3, PTL DEF EngineSpec

\* With the modem, the line and the clients in place of the arbitrary
\* environment the scheduler still reads only messages that are there, and
\* serves and answers requests as TaskQueue does.
THEOREM EngineServes ==
  EngineSpec => /\ []WakeFindsMessage /\ []NoRequestLost /\ PromiseSetOnce
                /\ ConfigServedInOrder /\ SmsServedInOrder
<1> DEFINE Inv == EngineTypeOK /\ IInv /\ SentInv
           Once == \A r \in Promised : completion[r] # "pending" => completion'[r] = completion[r]
<1>1. Inv /\ [EngineNext]_engineVars => Inv'
  BY EngineTypeStep
<1>2. Inv /\ [EngineNext]_engineVars => [OpenNext]_vars
  BY EngineStepIsOpen
<1>3. Inv => IInv /\ WakeFindsMessage /\ NoRequestLost
  BY DEF IInv, ThreadInv
<1>4. EngineInit => Inv /\ Init
  BY EngineTypeInit DEF EngineInit
<1>5. Init => ConfigQueue!Init /\ SmsQueue!Init
  BY CurrentType, InitIInv
     DEF IInv, Init, ConfigQueue!Init, SmsQueue!Init, outcomeOf, Requests, Promised
<1>6. IInv /\ [OpenNext]_vars => [Once]_vars
  BY PromiseStep DEF IInv
<1>7. IInv /\ [OpenNext]_vars => /\ [ConfigQueue!Next]_(ConfigQueue!vars)
                                /\ [SmsQueue!Next]_(SmsQueue!vars)
  BY ConfigQueueStep, SmsQueueStep
<1> HIDE DEF Inv
<1> QED
  BY <1>1, <1>2, <1>3, <1>4, <1>5, <1>6, <1>7, PTL
     DEF EngineSpec, PromiseSetOnce, ConfigServedInOrder, SmsServedInOrder, ConfigQueue!Spec,
         SmsQueue!Spec

-----------------------------------------------------------------------------
(* What is on the line *)

\* No answer is added, lost or doubled.
SameLine == \A kind \in AnswerTokens : /\ UnderWay(kind)' <=> UnderWay(kind)
                                       /\ Absent(kind)' <=> Absent(kind)

LEMMA SameOnLine ==
  ASSUME SameLine, NEW kinds
  PROVE  OnLine(kinds)' <=> OnLine(kinds)
BY DEF SameLine, OnLine

\* The dialogue only depends on the answers under way, not on where they are.
LEMMA SameDialogue ==
  ASSUME Dialogue, SameLine, UNCHANGED <<pc, task, expect, toModem, accepted>>,
         \A i \in DOMAIN console' : console'[i].kind \notin AnswerTokens
  PROVE  Dialogue'
<1>1. \A kinds \in SUBSET AnswerTokens : OnLine(kinds)' <=> OnLine(kinds)
  BY SameOnLine
<1>2. /\ OnLine({})' <=> OnLine({})
      /\ OnLine({"OK"})' <=> OnLine({"OK"})
      /\ OnLine({"PROMPT"})' <=> OnLine({"PROMPT"})
      /\ OnLine({"CMGS", "OK"})' <=> OnLine({"CMGS", "OK"})
      /\ OnLine({"NOCARRIER", "OK"})' <=> OnLine({"NOCARRIER", "OK"})
  BY SameOnLine
<1>3. /\ Told({})' <=> Told({})
      /\ Told({"OK"})' <=> Told({"OK"})
      /\ Told({"PROMPT"})' <=> Told({"PROMPT"})
      /\ Told({"CMGS", "OK"})' <=> Told({"CMGS", "OK"})
      /\ Told({"NOCARRIER", "OK"})' <=> Told({"NOCARRIER", "OK"})
  BY <1>2 DEF Told
<1>4. /\ Asked(<<>>)' <=> Asked(<<>>)
      /\ Asked(<<Item("ATE0", NoTask)>>)' <=> Asked(<<Item("ATE0", NoTask)>>)
      /\ Asked(<<Item("AT", NoTask)>>)' <=> Asked(<<Item("AT", NoTask)>>)
      /\ Asked(<<Item("ATH", ATH)>>)' <=> Asked(<<Item("ATH", ATH)>>)
      /\ Asked(<<Item("CONFIG", task)>>)' <=> Asked(<<Item("CONFIG", task)>>)
      /\ Asked(<<Item("CMGS", task)>>)' <=> Asked(<<Item("CMGS", task)>>)
      /\ Asked(<<Item("SUB", task)>>)' <=> Asked(<<Item("SUB", task)>>)
      /\ Asked(<<Item("TEXT", task), Item("SUB", task)>>)'
           <=> Asked(<<Item("TEXT", task), Item("SUB", task)>>)
  BY <1>2 DEF Asked, Item
<1>5. AwaitsSetting' <=> AwaitsSetting
  <2>1. CASE task \in accepted
    BY <1>3, <1>4, <2>1 DEF AwaitsSetting
  <2>2. CASE task \notin accepted
    BY <1>3, <1>4, <2>2 DEF AwaitsSetting
  <2> QED
    BY <2>1, <2>2
<1>6. AwaitsHangUp' <=> AwaitsHangUp
  BY <1>3, <1>4 DEF AwaitsHangUp
<1>7. AwaitsSms' <=> AwaitsSms
  BY <1>3, <1>4 DEF AwaitsSms
<1> QED
  BY <1>3, <1>4, <1>5, <1>6, <1>7 DEF Dialogue

\* serial_loop writes a line of its answer, the console its lines, and
\* Serial::readThread hands the next one over.
LEMMA ReplyMoves ==
  ASSUME EngineTypeOK, ModemReply
  PROVE  SameLine
<1> SUFFICES ASSUME NEW kind \in AnswerTokens
             PROVE  /\ UnderWay(kind)' <=> UnderWay(kind)
                    /\ Absent(kind)' <=> Absent(kind)
  BY DEF SameLine
<1> DEFINE m == reply[1]
<1>1. reply \in Seq(Message) /\ wire \in Seq(Message) /\ reply # <<>>
      /\ UNCHANGED receivedCommands
  BY DEF EngineTypeOK, ModemReply, vars, rx
<1>2. 1 \in 1..Len(reply) /\ reply' = RemoveAt(reply, 1) /\ wire' = Append(wire, m)
  BY <1>1, EndsAreErased DEF ModemReply
<1>3. m \in Message
  BY <1>1, <1>2, ElementOfSeq
<1> HIDE DEF m
<1>4. /\ NoneOf(wire', kind) <=> NoneOf(wire, kind) /\ m.kind # kind
      /\ OneOf(wire', kind) <=> \/ OneOf(wire, kind) /\ m.kind # kind
                                \/ NoneOf(wire, kind) /\ m.kind = kind
  BY <1>1, <1>2, <1>3, AddedLine
<1>5. /\ m.kind # kind => /\ NoneOf(reply', kind) <=> NoneOf(reply, kind)
                          /\ OneOf(reply', kind) <=> OneOf(reply, kind)
      /\ m.kind = kind => /\ ~NoneOf(reply, kind)
                          /\ NoneOf(reply', kind) <=> OneOf(reply, kind)
  BY <1>1, <1>2, ErasedLine DEF m
<1>6. ~(OneOf(reply', kind) /\ NoneOf(reply', kind)) /\ ~(OneOf(wire, kind) /\ NoneOf(wire, kind))
  BY NotBoth
<1>7. /\ NoneOf(receivedCommands, kind)' <=> NoneOf(receivedCommands, kind)
      /\ OneOf(receivedCommands, kind)' <=> OneOf(receivedCommands, kind)
  BY <1>1 DEF NoneOf, OneOf
<1>8. /\ NoneOf(wire, kind)' <=> NoneOf(wire', kind)
      /\ OneOf(wire, kind)' <=> OneOf(wire', kind)
      /\ NoneOf(reply, kind)' <=> NoneOf(reply', kind)
      /\ OneOf(reply, kind)' <=> OneOf(reply', kind)
  BY DEF NoneOf, OneOf
<1> QED
  BY <1>4, <1>5, <1>6, <1>7, <1>8 DEF UnderWay, Absent

\* Without "merge" one message is received at a time.
LEMMA ReceivesOne ==
  ASSUME EngineTypeOK, Reliable, Receive
  PROVE  /\ wire # <<>> /\ wire' = RemoveAt(wire, 1) /\ wire[1] \in Message
         /\ receivedCommands' = Append(receivedCommands, wire[1]) /\ isNewMsgFromAt'
         /\ UNCHANGED <<thread, shared, reply, console, accepted, arrived, fetched>>
<1>1. PICK n \in 1..2 : /\ n <= Len(wire) /\ (n = 2 => "merge" \in Faults)
                        /\ ReadEvent(Head(wire))
                        /\ wire' = SubSeq(wire, n + 1, Len(wire))
                        /\ UNCHANGED <<reply, console, accepted, arrived, fetched>>
  BY DEF Receive
<1>2. wire \in Seq(Message) /\ wire # <<>>
  BY <1>1, LenProperties, EmptySeq DEF EngineTypeOK
<1>3. n = 1
  BY <1>1 DEF Reliable
<1>4. wire' = SubSeq(wire, 2, Len(wire))
  BY <1>1, <1>3
<1>5. /\ wire' = RemoveAt(wire, 1) /\ Head(wire) = wire[1] /\ 1 \in 1..Len(wire)
  BY <1>2, <1>4, TailIsSubSeq, EndsAreErased
<1> QED
  BY <1>1, <1>2, <1>5, ElementOfSeq DEF ReadEvent

LEMMA ReceiveMoves ==
  ASSUME EngineTypeOK, Reliable, Receive
  PROVE  SameLine
<1> SUFFICES ASSUME NEW kind \in AnswerTokens
             PROVE  /\ UnderWay(kind)' <=> UnderWay(kind)
                    /\ Absent(kind)' <=> Absent(kind)
  BY DEF SameLine
<1> DEFINE m == wire[1]
<1>1. receivedCommands \in Seq(Message) /\ wire \in Seq(Message) /\ wire # <<>>
      /\ UNCHANGED reply
  BY ReceivesOne DEF EngineTypeOK, TypeOK
<1>2. 1 \in 1..Len(wire) /\ wire' = RemoveAt(wire, 1)
      /\ receivedCommands' = Append(receivedCommands, m) /\ m \in Message
  BY <1>1, EndsAreErased, ReceivesOne
<1> HIDE DEF m
<1>4. /\ NoneOf(receivedCommands', kind) <=> NoneOf(receivedCommands, kind) /\ m.kind # kind
      /\ OneOf(receivedCommands', kind) <=> \/ OneOf(receivedCommands, kind) /\ m.kind # kind
                                            \/ NoneOf(receivedCommands, kind) /\ m.kind = kind
  BY <1>1, <1>2, AddedLine
<1>5. /\ m.kind # kind => /\ NoneOf(wire', kind) <=> NoneOf(wire, kind)
                          /\ OneOf(wire', kind) <=> OneOf(wire, kind)
      /\ m.kind = kind => /\ ~NoneOf(wire, kind)
                          /\ NoneOf(wire', kind) <=> OneOf(wire, kind)
  BY <1>1, <1>2, ErasedLine DEF m
<1>6. /\ ~(OneOf(wire', kind) /\ NoneOf(wire', kind))
      /\ ~(OneOf(receivedCommands, kind) /\ NoneOf(receivedCommands, kind))
  BY NotBoth
<1>7. /\ NoneOf(reply, kind)' <=> NoneOf(reply, kind)
      /\ OneOf(reply, kind)' <=> OneOf(reply, kind)
  BY <1>1 DEF NoneOf, OneOf
<1>8. /\ NoneOf(wire, kind)' <=> NoneOf(wire', kind)
      /\ OneOf(wire, kind)' <=> OneOf(wire', kind)
      /\ NoneOf(receivedCommands, kind)' <=> NoneOf(receivedCommands', kind)
      /\ OneOf(receivedCommands, kind)' <=> OneOf(receivedCommands', kind)
  BY DEF NoneOf, OneOf
<1> QED
  BY <1>4, <1>5, <1>6, <1>7, <1>8 DEF UnderWay, Absent

LEMMA ConsoleMoves ==
  ASSUME EngineTypeOK, ConsoleWrite,
         \A i \in DOMAIN console : console[i].kind \notin AnswerTokens
  PROVE  SameLine /\ \A i \in DOMAIN console' : console'[i].kind \notin AnswerTokens
<1>1. /\ wire \in Seq(Message) /\ console \in Seq(Message) /\ console # <<>>
      /\ UNCHANGED <<reply, receivedCommands>>
  BY DEF EngineTypeOK, ConsoleWrite, vars, rx
<1>2. ASSUME NEW kind \in AnswerTokens
      PROVE  /\ NoneOf(wire', kind) <=> NoneOf(wire, kind)
             /\ OneOf(wire', kind) <=> OneOf(wire, kind)
  <2>1. NoneOf(console, kind) /\ ~OneOf(console, kind)
    BY DEF NoneOf, OneOf
  <2>2. CASE wire' = wire \o console
    BY <1>1, <2>1, <2>2, JoinedLines
  <2>3. CASE wire' = Append(wire, Head(console))
    <3>1. Head(console) = console[1] /\ 1 \in 1..Len(console)
      BY <1>1, EndsAreErased
    <3>2. Head(console) \in Message /\ Head(console).kind # kind
      BY <1>1, <3>1, ElementOfSeq, LenProperties
    <3> QED
      BY <1>1, <2>3, <3>2, AddedLine
  <2> QED
    BY <2>2, <2>3 DEF ConsoleWrite
<1>3. SameLine
  <2> SUFFICES ASSUME NEW kind \in AnswerTokens
               PROVE  /\ UnderWay(kind)' <=> UnderWay(kind)
                      /\ Absent(kind)' <=> Absent(kind)
    BY DEF SameLine
  <2>1. /\ NoneOf(wire, kind)' <=> NoneOf(wire, kind)
        /\ OneOf(wire, kind)' <=> OneOf(wire, kind)
    BY <1>2 DEF NoneOf, OneOf
  <2>2. /\ NoneOf(reply, kind)' <=> NoneOf(reply, kind)
        /\ OneOf(reply, kind)' <=> OneOf(reply, kind)
        /\ NoneOf(receivedCommands, kind)' <=> NoneOf(receivedCommands, kind)
        /\ OneOf(receivedCommands, kind)' <=> OneOf(receivedCommands, kind)
    BY <1>1 DEF NoneOf, OneOf
  <2> QED
    BY <2>1, <2>2 DEF UnderWay, Absent
<1>4. \A i \in DOMAIN console' : console'[i].kind \notin AnswerTokens
  <2>1. CASE console' = <<>>
    BY <2>1
  <2>2. CASE console' = Tail(console)
    <3>1. /\ Len(console) \in Nat /\ DOMAIN console = 1..Len(console)
          /\ DOMAIN Tail(console) = 1..(Len(console) - 1)
          /\ \A i \in 1..(Len(console) - 1) : Tail(console)[i] = console[i + 1]
      <4>1. /\ Tail(console) \in Seq(Message) /\ Len(Tail(console)) = Len(console) - 1
            /\ \A i \in 1..Len(Tail(console)) : Tail(console)[i] = console[i + 1]
        BY <1>1, HeadTailProperties
      <4> QED
        BY <1>1, <4>1, LenProperties
    <3>2. \A i \in 1..(Len(console) - 1) : i + 1 \in DOMAIN console
      BY <3>1
    <3> QED
      BY <2>2, <3>1, <3>2
  <2> QED
    BY <2>1, <2>2 DEF ConsoleWrite
<1> QED
  BY <1>3, <1>4

\* A message the engine takes: an answer that was under way no longer is, and
\* taking any other line changes nothing.
LEMMA TakenLine ==
  ASSUME EngineTypeOK, NEW kinds, OnLine(kinds), UNCHANGED <<reply, wire>>,
         NEW i \in 1..Len(receivedCommands),
         receivedCommands' = RemoveAt(receivedCommands, i),
         NEW kind, receivedCommands[i].kind = kind
  PROVE  IF kind \in AnswerTokens THEN kind \in kinds /\ OnLine(kinds \ {kind})'
                                  ELSE OnLine(kinds)'
<1>1. receivedCommands \in Seq(Message) /\ i \in DOMAIN receivedCommands
  BY LenProperties DEF EngineTypeOK, TypeOK
<1>2. \A k \in AnswerTokens :
        /\ NoneOf(wire, k)' <=> NoneOf(wire, k)
        /\ OneOf(wire, k)' <=> OneOf(wire, k)
        /\ NoneOf(reply, k)' <=> NoneOf(reply, k)
        /\ OneOf(reply, k)' <=> OneOf(reply, k)
        /\ NoneOf(receivedCommands, k)' <=> NoneOf(receivedCommands', k)
        /\ OneOf(receivedCommands, k)' <=> OneOf(receivedCommands', k)
  BY DEF NoneOf, OneOf
<1>3. \A k \in AnswerTokens :
        /\ kind # k => /\ NoneOf(receivedCommands', k) <=> NoneOf(receivedCommands, k)
                       /\ OneOf(receivedCommands', k) <=> OneOf(receivedCommands, k)
        /\ kind = k => /\ ~NoneOf(receivedCommands, k)
                       /\ NoneOf(receivedCommands', k) <=> OneOf(receivedCommands, k)
  BY <1>1, ErasedLine
<1>4. \A k \in AnswerTokens :
        k # kind => (UnderWay(k)' <=> UnderWay(k)) /\ (Absent(k)' <=> Absent(k))
  BY <1>2, <1>3 DEF UnderWay, Absent
<1>5. CASE kind \notin AnswerTokens
  BY <1>4, <1>5 DEF OnLine
<1>6. CASE kind \in AnswerTokens
  <2>1. ~NoneOf(receivedCommands, kind)
    BY <1>3, <1>6
  <2>2. kind \in kinds
    BY <1>6, <2>1 DEF OnLine, Absent
  <2>3. UnderWay(kind)
    BY <1>6, <2>2 DEF OnLine
  <2>4. Absent(kind)'
    BY <1>2, <1>3, <1>6, <2>1, <2>3 DEF UnderWay, Absent
  <2>5. OnLine(kinds \ {kind})'
    <3> SUFFICES ASSUME NEW k \in AnswerTokens
                 PROVE  IF k \in kinds \ {kind} THEN UnderWay(k)' ELSE Absent(k)'
      BY DEF OnLine
    <3>1. CASE k = kind
      BY <2>4, <3>1
    <3>2. CASE k # kind
      BY <1>4, <3>2 DEF OnLine
    <3> QED
      BY <3>1, <3>2
  <2> QED
    BY <1>6, <2>2, <2>5
<1> QED
  BY <1>5, <1>6

-----------------------------------------------------------------------------
(* What the modem answers *)

\* The indices of a sequence tell its length.
LEMMA SameLength ==
  ASSUME NEW m \in Nat, NEW n \in Nat, 1..m = 1..n
  PROVE  m = n
<1>1. CASE m < n
  <2>1. n \in 1..n /\ n \notin 1..m
    BY <1>1
  <2> QED
    BY <2>1
<1>2. CASE n < m
  <2>1. m \in 1..m /\ m \notin 1..n
    BY <1>2
  <2> QED
    BY <2>1
<1> QED
  BY <1>1, <1>2

\* The lines of two lists of kinds, one after the other.
LEMMA LinesJoined ==
  ASSUME NEW s \in Seq(Kinds), NEW t \in Seq(Kinds)
  PROVE  /\ Lines(s) \in Seq(Message) /\ Lines(t) \in Seq(Message)
         /\ Lines(s \o t) = Lines(s) \o Lines(t)
<1> DEFINE u == s \o t
<1>1. \A k \in Kinds : Line(k) \in Message
  BY DEF Line, Message
<1>2. ASSUME NEW k \in Seq(Kinds)
      PROVE  /\ Lines(k) \in Seq(Message) /\ Len(Lines(k)) = Len(k)
             /\ \A i \in 1..Len(k) : Lines(k)[i] = Line(k[i])
  <2>1. Len(k) \in Nat /\ DOMAIN k = 1..Len(k) /\ \A i \in 1..Len(k) : k[i] \in Kinds
    BY <1>2, LenProperties, ElementOfSeq
  <2>2. \A i \in 1..Len(k) : Line(k[i]) \in Message
    BY <1>1, <2>1
  <2> DEFINE l == [i \in 1..Len(k) |-> Line(k[i])]
  <2>3. l \in Seq(Message)
    BY <2>1, <2>2, IsASeq
  <2>4. DOMAIN l = 1..Len(l) /\ Len(l) \in Nat
    BY SMTT(30), <2>3, LenProperties
  <2>5. Len(l) = Len(k)
    <3>1. DOMAIN l = 1..Len(k)
      OBVIOUS
    <3> HIDE DEF l
    <3> QED
      BY <2>1, <2>4, <3>1, SameLength
  <2>6. Lines(k) = l
    BY <2>1 DEF Lines
  <2>7. \A i \in 1..Len(k) : l[i] = Line(k[i])
    OBVIOUS
  <2> HIDE DEF l
  <2> QED
    BY <2>3, <2>5, <2>6, <2>7
<1>3. /\ u \in Seq(Kinds) /\ Len(u) = Len(s) + Len(t)
      /\ \A i \in 1..(Len(s) + Len(t)) : u[i] = IF i <= Len(s) THEN s[i] ELSE t[i - Len(s)]
      /\ Len(s) \in Nat /\ Len(t) \in Nat
  BY ConcatProperties, LenProperties
<1> HIDE DEF u
<1> DEFINE a == Lines(s)
           b == Lines(t)
           c == Lines(u)
<1>4. /\ a \in Seq(Message) /\ b \in Seq(Message) /\ c \in Seq(Message)
      /\ Len(a) = Len(s) /\ Len(b) = Len(t) /\ Len(c) = Len(s) + Len(t)
      /\ \A i \in 1..Len(s) : a[i] = Line(s[i])
      /\ \A i \in 1..Len(t) : b[i] = Line(t[i])
      /\ \A i \in 1..(Len(s) + Len(t)) : c[i] = Line(u[i])
  BY <1>2, <1>3
<1> HIDE DEF a, b, c
<1> DEFINE d == a \o b
<1>5. /\ d \in Seq(Message) /\ Len(d) = Len(s) + Len(t)
      /\ \A i \in 1..(Len(s) + Len(t)) : d[i] = IF i <= Len(s) THEN a[i] ELSE b[i - Len(s)]
  <2>0. a \in Seq(Message) /\ b \in Seq(Message)
    BY <1>4
  <2>1. /\ d \in Seq(Message) /\ Len(d) = Len(a) + Len(b)
        /\ \A i \in 1..(Len(a) + Len(b)) : d[i] = IF i <= Len(a) THEN a[i] ELSE b[i - Len(a)]
    BY <2>0, ConcatProperties
  <2> HIDE DEF d
  <2> QED
    BY <1>4, <2>1
<1> HIDE DEF d
<1>6. ASSUME NEW i \in 1..(Len(s) + Len(t))
      PROVE  c[i] = d[i]
  <2>1. CASE i <= Len(s)
    <3>1. i \in 1..Len(s)
      BY <1>3, <2>1
    <3> QED
      BY <1>3, <1>4, <1>5, <2>1, <3>1
  <2>2. CASE ~(i <= Len(s))
    <3>1. i - Len(s) \in 1..Len(t)
      BY <1>3, <2>2
    <3> QED
      BY <1>3, <1>4, <1>5, <2>2, <3>1
  <2> QED
    BY <2>1, <2>2
<1>7. c = d
  BY <1>4, <1>5, <1>6, SeqEqual
<1> QED
  BY <1>2, <1>7 DEF a, b, c, d, u

\* The answers the modem may give, line by line.
LEMMA ShortLines ==
  ASSUME NEW a, NEW b, a # b, NEW kind
  PROVE  /\ NoneOf(Lines(<<>>), kind)
         /\ NoneOf(Lines(<<a>>), kind) <=> kind # a
         /\ OneOf(Lines(<<a>>), kind) <=> kind = a
         /\ NoneOf(Lines(<<a, b>>), kind) <=> kind \notin {a, b}
         /\ OneOf(Lines(<<a, b>>), kind) <=> kind \in {a, b}
<1>1. /\ DOMAIN Lines(<<>>) = {}
      /\ DOMAIN Lines(<<a>>) = {1} /\ Lines(<<a>>)[1].kind = a
      /\ DOMAIN Lines(<<a, b>>) = {1, 2}
      /\ Lines(<<a, b>>)[1].kind = a /\ Lines(<<a, b>>)[2].kind = b
  BY DEF Lines, Line
<1> DEFINE e == Lines(<<>>)
           s == Lines(<<a>>)
           t == Lines(<<a, b>>)
<1>2. /\ DOMAIN e = {} /\ DOMAIN s = {1} /\ s[1].kind = a
      /\ DOMAIN t = {1, 2} /\ t[1].kind = a /\ t[2].kind = b
  BY <1>1
<1> HIDE DEF e, s, t
<1>3. /\ NoneOf(e, kind)
      /\ NoneOf(s, kind) <=> kind # a
      /\ OneOf(s, kind) <=> kind = a
      /\ NoneOf(t, kind) <=> kind \notin {a, b}
  BY <1>2 DEF NoneOf, OneOf
<1>4. OneOf(t, kind) <=> kind \in {a, b}
  <2>1. OneOf(t, kind) => kind \in {a, b}
    BY <1>2 DEF OneOf
  <2>2. CASE kind = a
    BY <1>2, <2>2 DEF OneOf
  <2>3. CASE kind = b
    BY <1>2, <2>3 DEF OneOf
  <2> QED
    BY <2>1, <2>2, <2>3
<1> QED
  BY <1>3, <1>4 DEF e, s, t

\* The echo of a command is no answer to it.
LEMMA EchoIsNoAnswer ==
  ASSUME NEW command, NEW answer \in Answers(command),
         command.kind \in {"ATE0", "AT", "CONFIG", "ATH", "CMGS"},
         NEW kind \in AnswerTokens
  PROVE  LET all == Lines(Echoed(command) \o answer) IN
         /\ NoneOf(all, kind) <=> NoneOf(Lines(answer), kind)
         /\ OneOf(all, kind) <=> OneOf(Lines(answer), kind)
<1> DEFINE a == Lines(Echoed(command))
           b == Lines(answer)
<1>1. /\ a \in Seq(Message) /\ b \in Seq(Message)
      /\ Lines(Echoed(command) \o answer) = a \o b
  BY AnswerTypes, LinesJoined
<1>2. NoneOf(a, kind)
  <2>1. /\ NoneOf(Lines(<<>>), kind)
        /\ NoneOf(Lines(<<"ECHO">>), kind) <=> kind # "ECHO"
        /\ NoneOf(Lines(<<"OTHER">>), kind) <=> kind # "OTHER"
    <3>1. "ECHO" # "OTHER"
      OBVIOUS
    <3> QED
      BY <3>1, ShortLines
  <2>2. kind # "ECHO" /\ kind # "OTHER"
    BY DEF AnswerTokens
  <2> QED
    BY <2>1, <2>2 DEF Echoed
<1> HIDE DEF a, b
<1>3. ~OneOf(a, kind)
  BY <1>2, NotBoth
<1>4. /\ NoneOf(a \o b, kind) <=> NoneOf(b, kind)
      /\ OneOf(a \o b, kind) <=> OneOf(b, kind)
  BY <1>1, <1>2, <1>3, JoinedLines
<1> QED
  BY <1>1, <1>4 DEF b

\* An answer written while none is under way.
LEMMA NewReply ==
  ASSUME reply = <<>>, OnLine({}), UNCHANGED <<wire, receivedCommands>>, NEW kinds,
         \A kind \in AnswerTokens :
           IF kind \in kinds THEN OneOf(reply', kind) ELSE NoneOf(reply', kind)
  PROVE  OnLine(kinds)'
<1> SUFFICES ASSUME NEW kind \in AnswerTokens
             PROVE  IF kind \in kinds THEN UnderWay(kind)' ELSE Absent(kind)'
  BY DEF OnLine
<1>1. NoneOf(wire, kind) /\ NoneOf(receivedCommands, kind)
  BY DEF OnLine, Absent
<1>2. NoneOf(wire, kind)' /\ NoneOf(receivedCommands, kind)'
  BY <1>1 DEF NoneOf
<1>3. /\ NoneOf(reply, kind)' <=> NoneOf(reply', kind)
      /\ OneOf(reply, kind)' <=> OneOf(reply', kind)
  BY DEF NoneOf, OneOf
<1> QED
  BY <1>2, <1>3 DEF UnderWay, Absent

\* The answer to a command is under way once the modem has read it.
LEMMA CommandHandled ==
  ASSUME OnLine({}), ModemRead, NEW item, toModem = <<item>>,
         item.kind \in {"ATE0", "AT", "CONFIG", "ATH", "CMGS"}
  PROVE  /\ toModem' = <<>>
         /\ \/ item.kind \in {"ATE0", "AT"} /\ OnLine({"OK"})' /\ accepted' = accepted
            \/ item.kind = "CONFIG" /\ OnLine({"OK"})' /\ accepted' = accepted \cup {item.req}
            \/ item.kind = "CONFIG" /\ OnLine({})' /\ accepted' = accepted
            \/ /\ item.kind = "ATH" /\ accepted' = accepted
               /\ OnLine({})' \/ OnLine({"NOCARRIER", "OK"})'
            \/ item.kind = "CMGS" /\ OnLine({"PROMPT"})' /\ accepted' = accepted
<1>1. Head(toModem) = item /\ Tail(toModem) = <<>>
  OBVIOUS
<1>2. HandleCommand(item) /\ toModem' = <<>> /\ reply = <<>>
      /\ UNCHANGED <<wire, receivedCommands>>
  BY <1>1 DEF ModemRead, rx
<1>3. PICK answer \in Answers(item) :
        /\ reply' = Lines(Echoed(item) \o answer)
        /\ accepted' = IF item.kind = "CONFIG" /\ answer = <<"OK">>
                       THEN accepted \cup {item.req} ELSE accepted
  BY <1>2 DEF HandleCommand
<1>4. ASSUME NEW kinds,
             \A kind \in AnswerTokens : IF kind \in kinds THEN OneOf(Lines(answer), kind)
                                        ELSE NoneOf(Lines(answer), kind)
      PROVE  OnLine(kinds)'
  <2>1. \A kind \in AnswerTokens :
          IF kind \in kinds THEN OneOf(reply', kind) ELSE NoneOf(reply', kind)
    BY <1>3, <1>4, EchoIsNoAnswer
  <2> QED
    BY <1>2, <2>1, NewReply
<1>5. CASE answer = <<"OK">>
  <2>1. \A kind \in AnswerTokens : IF kind \in {"OK"} THEN OneOf(Lines(answer), kind)
                                   ELSE NoneOf(Lines(answer), kind)
    <3>1. "OK" # "NOCARRIER"
      OBVIOUS
    <3> QED
      BY <1>5, <3>1, ShortLines
  <2>2. OnLine({"OK"})'
    BY <1>4, <2>1
  <2>3. item.kind \in {"AT", "ATE0", "CONFIG"}
    BY <1>3, <1>5 DEF Answers
  <2> QED
    BY <1>2, <1>3, <1>5, <2>2, <2>3
<1>6. CASE answer = <<"ERROR">>
  <2>1. \A kind \in AnswerTokens : IF kind \in {} THEN OneOf(Lines(answer), kind)
                                   ELSE NoneOf(Lines(answer), kind)
    <3>1. "ERROR" # "OK" /\ "ERROR" \notin AnswerTokens
      BY DEF AnswerTokens
    <3> QED
      BY <1>6, <3>1, ShortLines
  <2>2. OnLine({})'
    BY <1>4, <2>1
  <2>3. item.kind \in {"CONFIG", "ATH"} /\ answer # <<"OK">>
    BY <1>3, <1>6 DEF Answers
  <2> QED
    BY <1>2, <1>3, <2>2, <2>3
<1>7. CASE answer = <<"PROMPT">>
  <2>1. \A kind \in AnswerTokens : IF kind \in {"PROMPT"} THEN OneOf(Lines(answer), kind)
                                   ELSE NoneOf(Lines(answer), kind)
    <3>1. "PROMPT" # "OK"
      OBVIOUS
    <3> QED
      BY <1>7, <3>1, ShortLines
  <2>2. OnLine({"PROMPT"})'
    BY <1>4, <2>1
  <2>3. item.kind = "CMGS"
    BY <1>3, <1>7 DEF Answers
  <2> QED
    BY <1>2, <1>3, <2>2, <2>3
<1>8. CASE answer = <<"NOCARRIER", "OK">>
  <2>1. \A kind \in AnswerTokens :
          IF kind \in {"NOCARRIER", "OK"} THEN OneOf(Lines(answer), kind)
          ELSE NoneOf(Lines(answer), kind)
    <3>1. "NOCARRIER" # "OK"
      OBVIOUS
    <3> QED
      BY <1>8, <3>1, ShortLines
  <2>2. OnLine({"NOCARRIER", "OK"})'
    BY <1>4, <2>1
  <2>3. item.kind = "ATH"
    BY <1>3, <1>8 DEF Answers
  <2> QED
    BY <1>2, <1>3, <2>2, <2>3
<1>9. answer \in {<<"OK">>, <<"ERROR">>, <<"PROMPT">>, <<"NOCARRIER", "OK">>}
  BY <1>3 DEF Answers
<1> QED
  BY <1>5, <1>6, <1>7, <1>8, <1>9

\* SUB ends the text of an SMS, which the modem then confirms.
LEMMA TextHandled ==
  ASSUME OnLine({}), ModemRead, NEW req,
         toModem \in {<<Item("TEXT", req), Item("SUB", req)>>, <<Item("SUB", req)>>}
  PROVE  \/ toModem' = <<>> /\ OnLine({"CMGS", "OK"})' /\ accepted' = accepted \cup {req}
         \/ toModem' = <<Item("SUB", req)>> /\ OnLine({})' /\ accepted' = accepted
<1>0. reply = <<>> /\ UNCHANGED <<wire, receivedCommands>>
  BY DEF ModemRead, rx
<1> DEFINE item == Head(toModem)
<1>1. /\ item.req = req /\ item.kind \in {"TEXT", "SUB"}
      /\ item.kind = "TEXT" => /\ Tail(toModem) = <<Item("SUB", req)>>
                               /\ Tail(Tail(toModem)) = <<>>
      /\ item.kind = "SUB" => Tail(toModem) = <<>>
  <2>1. CASE toModem = <<Item("TEXT", req), Item("SUB", req)>>
    BY <2>1 DEF Item
  <2>2. CASE toModem = <<Item("SUB", req)>>
    BY <2>2 DEF Item
  <2> QED
    BY <2>1, <2>2
<1>2. CASE ProcessSms(req) /\ toModem' = <<>>
  <2>1. \A kind \in AnswerTokens :
          IF kind \in {"CMGS", "OK"} THEN OneOf(reply', kind) ELSE NoneOf(reply', kind)
    <3>1. "CMGS" # "OK"
      OBVIOUS
    <3> QED
      BY <1>2, <3>1, ShortLines DEF ProcessSms
  <2>2. OnLine({"CMGS", "OK"})'
    BY <1>0, <2>1, NewReply
  <2> QED
    BY <1>2, <2>2 DEF ProcessSms
<1>3. CASE /\ reply' = Lines(<<"ERROR">>) /\ toModem' = <<Item("SUB", req)>>
           /\ UNCHANGED accepted
  <2>1. \A kind \in AnswerTokens :
          IF kind \in {} THEN OneOf(reply', kind) ELSE NoneOf(reply', kind)
    <3>1. "ERROR" # "OK" /\ "ERROR" \notin AnswerTokens
      BY DEF AnswerTokens
    <3> QED
      BY <1>3, <3>1, ShortLines
  <2>2. OnLine({})'
    BY <1>0, <2>1, NewReply
  <2> QED
    BY <1>3, <2>2
<1> HIDE DEF item
<1>4. \/ item.kind = "TEXT" /\ ProcessSms(item.req) /\ toModem' = Tail(Tail(toModem))
      \/ /\ item.kind = "TEXT" /\ reply' = Lines(<<"ERROR">>) /\ toModem' = Tail(toModem)
         /\ UNCHANGED accepted
      \/ item.kind = "SUB" /\ ProcessSms(item.req) /\ toModem' = Tail(toModem)
  BY <1>1 DEF ModemRead, item
<1> QED
  BY <1>1, <1>2, <1>3, <1>4

\* The modem takes a command out of its buffer: the answer the engine waits for
\* gets under way, and tells what became of the request.
LEMMA ModemReadStep ==
  ASSUME IInv, Dialogue, Truth, ModemRead
  PROVE  Dialogue' /\ Truth' /\ accepted' \in {accepted, accepted \cup {task}}
<1>0. /\ toModem # <<>>
      /\ UNCHANGED <<pc, task, expect, success, completion, console>>
  BY DEF ModemRead, thread, local
<1>1. ASSUME accepted' \in {accepted, accepted \cup {task}}
      PROVE  Truth'
  BY <1>0, <1>1 DEF Truth, AnswerIsTrue, IInv, PromiseInv
<1>2. ~Asked(<<>>) /\ ~Told({}) /\ ~Told({"OK"}) /\ ~Told({"PROMPT"})
      /\ ~Told({"CMGS", "OK"}) /\ ~Told({"NOCARRIER", "OK"})
  BY <1>0 DEF Asked, Told
<1>3. \A i \in DOMAIN console' : console'[i].kind \notin AnswerTokens
  BY <1>0 DEF Dialogue
<1>4. pc \notin NothingAsked
  BY <1>2 DEF Dialogue
<1>5. pc \in {"ate0First", "ate0Second", "sync", "await", "exited"}
  BY <1>4 DEF IInv, TypeOK, PCs, NothingAsked
<1>6. CASE pc \in {"ate0First", "ate0Second", "sync"}
  <2> DEFINE command == IF pc = "sync" THEN Item("AT", NoTask) ELSE Item("ATE0", NoTask)
  <2>1. toModem = <<command>> /\ OnLine({}) /\ command.kind \in {"ATE0", "AT"}
    BY <1>2, <1>6 DEF Dialogue, Asked, Item
  <2> HIDE DEF command
  <2>2. toModem' = <<>> /\ OnLine({"OK"})' /\ accepted' = accepted
    BY <2>1, CommandHandled
  <2>3. Told({"OK"})'
    BY <2>2 DEF Told
  <2> QED
    BY <1>0, <1>1, <1>3, <1>6, <2>2, <2>3 DEF Dialogue, NothingAsked
<1>7. CASE pc = "exited"
  <2>1. /\ toModem \in Seq(Command)
        /\ \A i \in DOMAIN toModem : toModem[i].kind \in {"ATE0", "AT"}
    BY <1>7 DEF Dialogue, IInv, TypeOK
  <2>2. /\ Len(toModem) \in Nat \ {0} /\ DOMAIN toModem = 1..Len(toModem)
        /\ Head(toModem) = toModem[1]
        /\ Len(Tail(toModem)) = Len(toModem) - 1
        /\ DOMAIN Tail(toModem) = 1..Len(Tail(toModem))
        /\ \A i \in 1..Len(Tail(toModem)) : Tail(toModem)[i] = toModem[i + 1]
    BY <1>0, <2>1, LenProperties, EmptySeq, HeadTailProperties
  <2>3. Head(toModem).kind \in {"ATE0", "AT"}
    BY <2>1, <2>2
  <2>4. toModem' = Tail(toModem) /\ accepted' = accepted
    BY <2>3 DEF ModemRead, HandleCommand
  <2>5. \A i \in DOMAIN toModem' : toModem'[i].kind \in {"ATE0", "AT"}
    BY <2>1, <2>2, <2>4
  <2> QED
    BY <1>0, <1>1, <1>3, <1>7, <2>4, <2>5 DEF Dialogue, NothingAsked
<1>8. CASE pc = "await"
  <2>1. ASSUME task \in ConfigReqs, AwaitsSetting
        PROVE  AwaitsSetting' /\ accepted' \in {accepted, accepted \cup {task}}
    <3>1. /\ expect = <<"OK">> /\ task \notin accepted
          /\ toModem = <<Item("CONFIG", task)>> /\ OnLine({})
      <4>1. ~Told(IF task \in accepted THEN {"OK"} ELSE {})
        BY <1>2
      <4> QED
        BY <2>1, <4>1 DEF AwaitsSetting, Asked
    <3>2. Item("CONFIG", task).kind = "CONFIG" /\ Item("CONFIG", task).req = task
      BY DEF Item
    <3>3. \/ toModem' = <<>> /\ OnLine({"OK"})' /\ accepted' = accepted \cup {task}
          \/ toModem' = <<>> /\ OnLine({})' /\ accepted' = accepted
      BY <3>1, <3>2, CommandHandled
    <3>4. CASE toModem' = <<>> /\ OnLine({"OK"})' /\ accepted' = accepted \cup {task}
      BY <1>0, <3>1, <3>4 DEF AwaitsSetting, Told
    <3>5. CASE toModem' = <<>> /\ OnLine({})' /\ accepted' = accepted
      BY <1>0, <3>1, <3>5 DEF AwaitsSetting, Told
    <3> QED
      BY <3>3, <3>4, <3>5
  <2>2. ASSUME AwaitsHangUp
        PROVE  AwaitsHangUp' /\ accepted' \in {accepted, accepted \cup {task}}
    <3>1. /\ expect = <<"NOCARRIER", "OK">>
          /\ toModem = <<Item("ATH", ATH)>> /\ OnLine({})
      BY <1>2, <2>2 DEF AwaitsHangUp, Asked
    <3>2. Item("ATH", ATH).kind = "ATH"
      BY DEF Item
    <3>3. /\ toModem' = <<>> /\ accepted' = accepted
          /\ OnLine({})' \/ OnLine({"NOCARRIER", "OK"})'
      BY <3>1, <3>2, CommandHandled
    <3> QED
      BY <1>0, <3>1, <3>3 DEF AwaitsHangUp, Told
  <2>3. ASSUME AwaitsSms
        PROVE  AwaitsSms' /\ accepted' \in {accepted, accepted \cup {task}}
    <3>1. CASE expect = <<"PROMPT", "CMGS", "OK">> /\ Asked(<<Item("CMGS", task)>>)
      <4>1. Item("CMGS", task).kind = "CMGS"
        BY DEF Item
      <4>2. toModem' = <<>> /\ accepted' = accepted /\ OnLine({"PROMPT"})'
        BY <3>1, <4>1, CommandHandled DEF Asked
      <4> QED
        BY <1>0, <3>1, <4>2 DEF AwaitsSms, Told
    <3>2. CASE /\ expect = <<"CMGS", "OK">>
               /\ \/ Asked(<<Item("TEXT", task), Item("SUB", task)>>)
                  \/ Asked(<<Item("SUB", task)>>)
      <4>1. \/ toModem' = <<>> /\ OnLine({"CMGS", "OK"})' /\ accepted' = accepted \cup {task}
            \/ toModem' = <<Item("SUB", task)>> /\ OnLine({})' /\ accepted' = accepted
        BY <3>2, TextHandled DEF Asked
      <4>2. CASE toModem' = <<>> /\ OnLine({"CMGS", "OK"})' /\ accepted' = accepted \cup {task}
        BY <1>0, <3>2, <4>2 DEF AwaitsSms, Told
      <4>3. CASE toModem' = <<Item("SUB", task)>> /\ OnLine({})' /\ accepted' = accepted
        BY <1>0, <3>2, <4>3 DEF AwaitsSms, Asked, Item
      <4> QED
        BY <4>1, <4>2, <4>3
    <3> QED
      BY <1>2, <2>3, <3>1, <3>2 DEF AwaitsSms
  <2> QED
    BY <1>0, <1>1, <1>3, <1>8, <2>1, <2>2, <2>3 DEF Dialogue, NothingAsked
<1> QED
  BY <1>5, <1>6, <1>7, <1>8

-----------------------------------------------------------------------------
(* The AT thread between two commands, and at those without a request *)

\* Nothing is under way and nothing gets under way by taking a message.
LEMMA NothingTaken ==
  ASSUME EngineTypeOK, OnLine({}), UNCHANGED <<reply, wire>>,
         \/ UNCHANGED receivedCommands
         \/ \E i \in 1..Len(receivedCommands) :
              receivedCommands' = RemoveAt(receivedCommands, i)
  PROVE  OnLine({})'
<1>1. CASE UNCHANGED receivedCommands
  BY <1>1 DEF OnLine, Absent, UnderWay, NoneOf, OneOf
<1>2. ASSUME NEW i \in 1..Len(receivedCommands),
             receivedCommands' = RemoveAt(receivedCommands, i)
      PROVE  OnLine({})'
  <2>1. ASSUME NEW kind, receivedCommands[i].kind = kind
        PROVE  IF kind \in AnswerTokens THEN kind \in {} /\ OnLine({} \ {kind})'
                                        ELSE OnLine({})'
    BY <1>2, <2>1, TakenLine
  <2> QED
    BY <2>1
<1> QED
  BY <1>1, <1>2

\* The AT thread goes on between two commands, or ends.
LEMMA BetweenCommands ==
  ASSUME EngineTypeOK, Dialogue, Truth, pc \in NothingAsked,
         pc' \in (NothingAsked \ {"text"}) \cup {"exited"},
         UNCHANGED <<toModem, reply, wire, console, accepted, task, completion, success>>,
         \/ UNCHANGED receivedCommands
         \/ \E i \in 1..Len(receivedCommands) :
              receivedCommands' = RemoveAt(receivedCommands, i)
  PROVE  Dialogue' /\ NotPassedOver' /\ Truth'
<1>1. toModem = <<>> /\ OnLine({})
  BY DEF Dialogue, Asked
<1>2. OnLine({})'
  BY <1>1, NothingTaken
<1>3. Asked(<<>>)'
  BY <1>1, <1>2 DEF Asked
<1>4. pc' \notin {"text", "await", "sync", "ate0First", "ate0Second"}
      /\ (pc' = "exited" => toModem' = <<>>)
  BY <1>1 DEF NothingAsked
<1>5. \A i \in DOMAIN console' : console'[i].kind \notin AnswerTokens
  BY DEF Dialogue
<1> QED
  BY <1>3, <1>4, <1>5 DEF Dialogue, NotPassedOver, Truth, AnswerIsTrue

\* A command that is answered by OK alone: OK is taken, or something else is.
LEMMA OKTaken ==
  ASSUME EngineTypeOK, NEW items, items # <<>>, Asked(items) \/ Told({"OK"}),
         UNCHANGED <<toModem, reply, wire>>, NEW i \in 1..Len(receivedCommands),
         receivedCommands' = RemoveAt(receivedCommands, i)
  PROVE  /\ receivedCommands[i].kind = "OK" => Asked(<<>>)'
         /\ receivedCommands[i].kind # "OK" => Asked(items)' \/ Told({"OK"})'
<1>1. ASSUME NEW kinds, OnLine(kinds), NEW kind, receivedCommands[i].kind = kind
      PROVE  IF kind \in AnswerTokens THEN kind \in kinds /\ OnLine(kinds \ {kind})'
                                      ELSE OnLine(kinds)'
  BY <1>1, TakenLine
<1>2. ASSUME receivedCommands[i].kind = "OK"
      PROVE  Asked(<<>>)'
  <2>1. ~OnLine({})
    BY <1>1, <1>2 DEF AnswerTokens
  <2>2. toModem = <<>> /\ OnLine({"OK"})
    BY <2>1 DEF Asked, Told
  <2>3. OnLine({"OK"} \ {"OK"})'
    BY <1>1, <1>2, <2>2 DEF AnswerTokens
  <2>4. {"OK"} \ {"OK"} = {}
    OBVIOUS
  <2> QED
    BY <2>2, <2>3, <2>4 DEF Asked
<1>3. ASSUME NEW kind, receivedCommands[i].kind = kind, kind # "OK"
      PROVE  Asked(items)' \/ Told({"OK"})'
  <2>1. CASE Asked(items)
    BY <1>1, <1>3, <2>1 DEF Asked
  <2>2. CASE Told({"OK"})
    BY <1>1, <1>3, <2>2 DEF Told
  <2> QED
    BY <2>1, <2>2
<1> QED
  BY <1>2, <1>3

\* A step of the AT thread that neither takes a message nor sends anything.
LEMMA NothingMoves ==
  ASSUME UNCHANGED <<reply, wire, receivedCommands>>
  PROVE  SameLine
BY DEF SameLine, UnderWay, Absent, NoneOf, OneOf

\* setConfigATE0, after the command was sent.
LEMMA ATE0Step ==
  ASSUME EngineTypeOK, IInv, Reliable, Dialogue, Truth, UNCHANGED modem,
         ATE0Get \/ ATE0Wake \/ ATE0Timeout
  PROVE  Dialogue' /\ NotPassedOver' /\ Truth'
<1> DEFINE items == <<Item("ATE0", NoTask)>>
<1>0. /\ pc \in {"ate0First", "ate0Second"}
      /\ UNCHANGED <<toModem, reply, wire, console, accepted, task, expect,
                    completion, success>>
  BY DEF ATE0Get, ATE0Wake, ATE0Timeout, local, shared, modem
<1>1. Asked(items) \/ Told({"OK"})
  BY <1>0 DEF Dialogue
<1>2. items # <<>>
  OBVIOUS
<1>3. toModem = items \/ toModem = <<>>
  BY <1>1 DEF Asked, Told
<1>4. \A i \in DOMAIN toModem' : toModem'[i].kind \in {"ATE0", "AT"}
  BY <1>0, <1>3 DEF Item
<1> HIDE DEF items
<1>5. \A i \in DOMAIN console' : console'[i].kind \notin AnswerTokens
  BY <1>0 DEF Dialogue
<1>6. Truth'
  BY <1>0 DEF Truth, AnswerIsTrue
<1>7. ASSUME pc' \in {"ate0First", "ate0Second"}, Asked(items)' \/ Told({"OK"})'
      PROVE  Dialogue' /\ NotPassedOver'
  BY <1>5, <1>7 DEF Dialogue, NotPassedOver, NothingAsked, items
<1>8. ASSUME pc' = "loop", Asked(<<>>)'
      PROVE  Dialogue' /\ NotPassedOver'
  BY <1>5, <1>8 DEF Dialogue, NotPassedOver
<1>9. ASSUME pc' = "exited"
      PROVE  Dialogue' /\ NotPassedOver'
  BY <1>4, <1>5, <1>9 DEF Dialogue, NotPassedOver, NothingAsked
<1>10. ASSUME receivedCommands # <<>>, TakeLast
       PROVE  Dialogue' /\ NotPassedOver'
  <2>1. /\ receivedCommands \in Seq(Message)
        /\ receivedCommands' = RemoveAt(receivedCommands, Len(receivedCommands))
        /\ Last(receivedCommands) = receivedCommands[Len(receivedCommands)]
        /\ Len(receivedCommands) \in 1..Len(receivedCommands)
    BY <1>10, EndsAreErased DEF TakeLast, IInv, TypeOK
  <2>2. /\ receivedCommands[Len(receivedCommands)].kind = "OK" => Asked(<<>>)'
        /\ receivedCommands[Len(receivedCommands)].kind # "OK"
             => Asked(items)' \/ Told({"OK"})'
    BY <1>0, <1>1, <1>2, <2>1, OKTaken
  <2>3. Carries(Last(receivedCommands), "OK")
          <=> receivedCommands[Len(receivedCommands)].kind = "OK"
    BY <2>1 DEF Carries, Reliable
  <2>4. pc' = "loop" <=> Carries(Last(receivedCommands), "OK")
    BY <1>10 DEF TakeLast
  <2>5. pc' \in {"loop", "ate0Second", "exited"}
    BY <1>10 DEF TakeLast
  <2> QED
    BY <1>7, <1>8, <1>9, <2>2, <2>3, <2>4, <2>5
<1>11. CASE UNCHANGED <<pc, receivedCommands>>
  <2>1. SameLine
    BY <1>0, <1>11, NothingMoves
  <2>2. Dialogue'
    BY <1>0, <1>5, <1>11, <2>1, SameDialogue
  <2> QED
    BY <1>0, <1>6, <1>11, <2>2 DEF NotPassedOver
<1>12. receivedCommands # <<>> \/ ~(waiting /\ isNewMsgFromAt)
  BY EmptySeq DEF IInv, TypeOK, ThreadInv, WakeFindsMessage
<1> QED
  BY <1>6, <1>9, <1>10, <1>11, <1>12 DEF ATE0Get, ATE0Wake, ATE0Timeout, Exit, Woken

\* waitForSyncConfirm and what sendSync does when it returns.
LEMMA SyncStep ==
  ASSUME EngineTypeOK, IInv, Reliable, Dialogue, Truth, UNCHANGED modem,
         SyncScan \/ SyncWake \/ SyncTimeout
  PROVE  Dialogue' /\ NotPassedOver' /\ Truth'
<1> DEFINE items == <<Item("AT", NoTask)>>
<1>0. /\ pc = "sync"
      /\ UNCHANGED <<toModem, reply, wire, console, accepted, task, expect,
                     completion, success>>
  BY DEF SyncScan, SyncWake, SyncTimeout, syncKeeps, local, modem
<1>1. Asked(items) \/ Told({"OK"})
  BY <1>0 DEF Dialogue
<1>2. items # <<>>
  OBVIOUS
<1>3. toModem = items \/ toModem = <<>>
  BY <1>1 DEF Asked, Told
<1>4. \A i \in DOMAIN toModem' : toModem'[i].kind \in {"ATE0", "AT"}
  BY <1>0, <1>3 DEF Item
<1> HIDE DEF items
<1>5. \A i \in DOMAIN console' : console'[i].kind \notin AnswerTokens
  BY <1>0 DEF Dialogue
<1>6. Truth'
  BY <1>0 DEF Truth, AnswerIsTrue
<1>7. ASSUME pc' = "synced", Asked(<<>>)'
      PROVE  Dialogue' /\ NotPassedOver'
  BY <1>5, <1>7 DEF Dialogue, NotPassedOver
<1>8. ASSUME pc' = "exited"
      PROVE  Dialogue' /\ NotPassedOver'
  BY <1>4, <1>5, <1>8 DEF Dialogue, NotPassedOver, NothingAsked
<1>9. ASSUME NEW i \in 1..Len(receivedCommands), Carries(receivedCommands[i], "OK"),
             receivedCommands' = RemoveAt(receivedCommands, i), pc' = "synced"
      PROVE  Dialogue' /\ NotPassedOver'
  <2>1. receivedCommands[i].kind = "OK"
    BY <1>9 DEF Carries, Reliable
  <2>2. Asked(<<>>)'
    BY <1>0, <1>1, <1>2, <1>9, <2>1, OKTaken
  <2> QED
    BY <1>7, <1>9, <2>2
<1>10. CASE UNCHANGED <<pc, receivedCommands>>
  <2>1. SameLine
    BY <1>0, <1>10, NothingMoves
  <2>2. Dialogue'
    BY <1>0, <1>5, <1>10, <2>1, SameDialogue
  <2> QED
    BY <1>0, <1>6, <1>10, <2>2 DEF NotPassedOver
<1>11. CASE SyncScan
  <2>1. \A i \in Matches(0, "OK") :
          i \in 1..Len(receivedCommands) /\ Carries(receivedCommands[i], "OK")
    BY LenProperties DEF Matches, IInv, TypeOK
  <2> QED
    BY <1>6, <1>9, <1>10, <1>11, <2>1 DEF SyncScan
<1>12. CASE SyncWake
  <2>1. receivedCommands # <<>> /\ receivedCommands \in Seq(Message)
    BY <1>12, EmptySeq DEF SyncWake, Woken, IInv, TypeOK, ThreadInv, WakeFindsMessage
  <2>2. /\ Tail(receivedCommands) = RemoveAt(receivedCommands, 1)
        /\ Head(receivedCommands) = receivedCommands[1] /\ 1 \in 1..Len(receivedCommands)
    BY <2>1, EndsAreErased
  <2> QED
    BY <1>6, <1>8, <1>9, <1>12, <2>2 DEF SyncWake, HeartBeatFailed, Exit
<1>13. CASE SyncTimeout
  BY <1>6, <1>8, <1>13 DEF SyncTimeout, HeartBeatFailed, Exit
<1> QED
  BY <1>11, <1>12, <1>13

\* The AT thread at what it does while no command is out.
LEMMA BetweenStep ==
  ASSUME EngineTypeOK, IInv, Dialogue, Truth, UNCHANGED modem,
         \/ Loop \/ Drain \/ SmsTextGet \/ SmsTextWake \/ SmsTextTimeout
         \/ ConfigCheck \/ SmsCheck \/ Synced
         \/ TakeConfig /\ NoMore("smsCheck")
         \/ TakeSms /\ NoMore("beat")
         \/ Beat /\ pc' = "loop"
  PROVE  Dialogue' /\ NotPassedOver' /\ Truth'
<1>0. receivedCommands \in Seq(Message)
  BY DEF IInv, TypeOK
<1>1. UNCHANGED <<reply, wire, console, accepted>>
  BY DEF modem
<1>2. ASSUME receivedCommands # <<>>
      PROVE  \E i \in 1..Len(receivedCommands) :
               Popped(receivedCommands) = RemoveAt(receivedCommands, i)
  BY <1>0, <1>2, EndsAreErased DEF Popped
<1>3. CASE Loop \/ ConfigCheck \/ SmsCheck \/ Synced
  <2>1. /\ pc \in NothingAsked /\ pc' \in (NothingAsked \ {"text"}) \cup {"exited"}
        /\ UNCHANGED <<toModem, task, completion, success, receivedCommands>>
    BY <1>3 DEF Loop, ConfigCheck, SmsCheck, Check, Synced, HeartBeatFailed, Exit,
                NothingAsked, local, rx, shared, syncKeeps
  <2> QED
    BY <1>1, <2>1, BetweenCommands
<1>4. CASE \/ TakeConfig /\ NoMore("smsCheck")
           \/ TakeSms /\ NoMore("beat")
           \/ Beat /\ pc' = "loop"
  <2>1. /\ pc \in NothingAsked /\ pc' \in (NothingAsked \ {"text"}) \cup {"exited"}
        /\ UNCHANGED <<toModem, task, completion, success, receivedCommands>>
    BY <1>4 DEF TakeConfig, TakeSms, NoMore, serveKeeps, Beat, NothingAsked, local, rx
  <2> QED
    BY <1>1, <2>1, BetweenCommands
<1>5. CASE SmsTextGet \/ SmsTextWake \/ SmsTextTimeout
  <2>1. /\ pc \in NothingAsked /\ pc' \in (NothingAsked \ {"text"}) \cup {"exited"}
        /\ UNCHANGED <<toModem, task, completion, success>>
    BY <1>5 DEF SmsTextGet, SmsTextWake, SmsTextTimeout, StoreSms, smsTextKeeps, NothingAsked
  <2>2. receivedCommands # <<>> \/ ~(waiting /\ isNewMsgFromAt)
    BY EmptySeq DEF IInv, TypeOK, ThreadInv, WakeFindsMessage
  <2>3. \/ UNCHANGED receivedCommands
        \/ receivedCommands # <<>> /\ receivedCommands' = Popped(receivedCommands)
    BY <1>5, <2>2 DEF SmsTextGet, SmsTextWake, SmsTextTimeout, StoreSms, Woken
  <2> QED
    BY <1>1, <1>2, <2>1, <2>3, BetweenCommands
<1>6. CASE Drain
  <2>1. /\ pc \in NothingAsked /\ pc' \in (NothingAsked \ {"text"}) \cup {"exited"}
        /\ UNCHANGED <<toModem, task, completion, success>>
    BY <1>6 DEF Drain, SmsProcessing, CallingProcessing, Skipped, NothingAsked
  <2>2. \/ UNCHANGED receivedCommands
        \/ receivedCommands # <<>> /\ receivedCommands' = Popped(receivedCommands)
    BY <1>6 DEF Drain
  <2> QED
    BY <1>1, <1>2, <2>1, <2>2, BetweenCommands
<1> QED
  BY <1>3, <1>4, <1>5, <1>6

-----------------------------------------------------------------------------
(* The AT thread sends *)

\* What is sent while nothing is asked is all there is on the line.
LEMMA Sending ==
  ASSUME EngineTypeOK, Dialogue, pc \in NothingAsked,
         UNCHANGED <<reply, wire, console, receivedCommands>>, NEW items, toModem' = items
  PROVE  /\ toModem = <<>>
         /\ toModem' = items /\ OnLine({})'
         /\ \A i \in DOMAIN receivedCommands' : receivedCommands'[i].kind \notin AnswerTokens
         /\ \A i \in DOMAIN console' : console'[i].kind \notin AnswerTokens
<1>1. toModem = <<>> /\ OnLine({})
  BY DEF Dialogue, Asked
<1>2. OnLine({})'
  BY <1>1, NothingTaken
<1>3. \A kind \in AnswerTokens : NoneOf(receivedCommands, kind)
  BY <1>1 DEF OnLine, Absent
<1>4. \A i \in DOMAIN receivedCommands : receivedCommands[i].kind \notin AnswerTokens
  BY <1>3 DEF NoneOf
<1> QED
  BY <1>1, <1>2, <1>4 DEF Dialogue

\* The time is noted when a command is sent, so that no message is newer yet.
LEMMA NothingNewer ==
  ASSUME EngineTypeOK, ThreadInv, pc \in {"config", "sms", "text"},
         UNCHANGED <<waiting, receivedCommands>>, older' = Len(receivedCommands),
         \A i \in DOMAIN receivedCommands' : receivedCommands'[i].kind \notin AnswerTokens
  PROVE  NotPassedOver'
<1>1. ~waiting' /\ Len(receivedCommands) \in Nat
  BY LenProperties DEF ThreadInv, EngineTypeOK, TypeOK
<1> QED
  BY <1>1 DEF NotPassedOver

\* setConfigATE0 and sendSync send.
LEMMA SyncSendStep ==
  ASSUME EngineTypeOK, IInv, Dialogue, Truth, UNCHANGED modem,
         SendATE0 \/ (Beat /\ pc' = "sync")
  PROVE  Dialogue' /\ NotPassedOver' /\ Truth'
<1> DEFINE items == IF pc = "start" THEN <<Item("ATE0", NoTask)>> ELSE <<Item("AT", NoTask)>>
<1>1. /\ pc \in NothingAsked /\ pc \in {"start", "beat"}
      /\ UNCHANGED <<reply, wire, console, accepted, task, completion, success,
                     receivedCommands>>
      /\ pc' = IF pc = "start" THEN "ate0First" ELSE "sync"
  BY DEF SendATE0, Beat, NothingAsked, local, rx, modem
<1>2. toModem = <<>>
  BY <1>1 DEF Dialogue, Asked
<1>3. toModem' = items
  BY <1>2 DEF SendATE0, Beat, SendFor, Item
<1> HIDE DEF items
<1>4. /\ toModem' = items /\ OnLine({})'
      /\ \A i \in DOMAIN console' : console'[i].kind \notin AnswerTokens
  BY <1>1, <1>3, Sending
<1>5. Dialogue'
  BY <1>1, <1>4 DEF Dialogue, Asked, NothingAsked, items
<1> QED
  BY <1>1, <1>5 DEF NotPassedOver, Truth, AnswerIsTrue

\* A request is taken from its queue: the modem has not seen it before.
LEMMA TakeStep ==
  ASSUME EngineTypeOK, IInv, Dialogue, Truth, UNCHANGED modem,
         \/ TakeConfig /\ atRequestsQueue # <<>>
         \/ TakeSms /\ atSmsRequestQueue # <<>>
  PROVE  Dialogue' /\ NotPassedOver' /\ Truth'
<1> DEFINE t == IF pc = "config" THEN Head(atRequestsQueue) ELSE Head(atSmsRequestQueue)
           kind == IF pc = "sms" THEN "CMGS" ELSE IF t = ATH THEN "ATH" ELSE "CONFIG"
           tokens == IF pc = "sms" THEN <<"PROMPT", "CMGS", "OK">>
                     ELSE IF t = ATH THEN <<"NOCARRIER", "OK">> ELSE <<"OK">>
<1>0. TypeOK /\ ThreadInv /\ PromiseInv
  BY DEF IInv
<1>1. /\ pc \in {"config", "sms"} /\ pc \in NothingAsked
      /\ UNCHANGED <<reply, wire, console, accepted, completion, success,
                     receivedCommands, waiting>>
      /\ Begin(t, kind, tokens)
  <2>1. CASE pc = "config"
    BY <2>1 DEF TakeConfig, TakeSms, NoMore, serveKeeps, rx, modem, NothingAsked, FrontOf
  <2>2. CASE pc = "sms"
    BY <2>2 DEF TakeConfig, TakeSms, NoMore, serveKeeps, rx, modem, NothingAsked, FrontOf
  <2> QED
    BY <2>1, <2>2 DEF TakeConfig, TakeSms
<1>2. /\ pc = "config" => t \in ConfigTask /\ t \in ToSet(atRequestsQueue)
      /\ pc = "sms" => t \in SmsTask /\ t \in ToSet(atSmsRequestQueue)
  <2>1. CASE pc = "config"
    <3>1. atRequestsQueue # <<>> /\ atRequestsQueue \in Seq(ConfigTask)
      BY <1>0, <2>1 DEF TakeSms, TypeOK
    <3> QED
      BY <2>1, <3>1, EndsType, PopQueue
  <2>2. CASE pc = "sms"
    <3>1. atSmsRequestQueue # <<>> /\ atSmsRequestQueue \in Seq(SmsTask)
      BY <1>0, <2>2 DEF TakeConfig, TypeOK
    <3> QED
      BY <2>2, <3>1, EndsType, PopQueue
  <2> QED
    BY <1>1, <2>1, <2>2
<1>3. toModem = <<>>
  BY <1>1 DEF Dialogue, Asked
<1>4. toModem' = <<Item(kind, t)>> /\ pc' = "await" /\ task' = t /\ expect' = tokens
      /\ older' = Len(receivedCommands)
  BY <1>1, <1>3 DEF Begin, SendFor, Item
<1> HIDE DEF t, kind, tokens
<1>5. /\ toModem' = <<Item(kind, t)>> /\ OnLine({})'
      /\ \A i \in DOMAIN receivedCommands' : receivedCommands'[i].kind \notin AnswerTokens
      /\ \A i \in DOMAIN console' : console'[i].kind \notin AnswerTokens
  BY <1>1, <1>4, Sending
<1>6. NotPassedOver'
  BY <1>0, <1>1, <1>4, <1>5, NothingNewer
<1>7. task = NoTask /\ NoTask \notin Promised /\ task # ATH /\ ATH \notin Promised
  BY <1>0, <1>1, QueuesDisjoint, SchedulerAssumption DEF ThreadInv, Task, ConfigTask
<1>8. Truth'
  BY <1>1, <1>7 DEF Truth, AnswerIsTrue
<1>9. CASE pc = "config" /\ t # ATH
  <2>1. t \in ConfigReqs /\ t \in Promised /\ completion[t] = "pending"
    BY <1>0, <1>2, <1>9 DEF PromiseInv, ConfigTask, Promised
  <2>2. t \notin accepted
    BY <1>7, <2>1 DEF Truth
  <2>3. kind = "CONFIG" /\ tokens = <<"OK">>
    BY <1>9 DEF kind, tokens
  <2>4. AwaitsSetting'
    BY <1>1, <1>4, <1>5, <2>2, <2>3 DEF AwaitsSetting, Asked, Item
  <2>5. Dialogue'
    BY <1>4, <1>5, <2>1, <2>4 DEF Dialogue, NothingAsked
  <2> QED
    BY <1>6, <1>8, <2>5
<1>10. CASE pc = "config" /\ t = ATH
  <2>1. kind = "ATH" /\ tokens = <<"NOCARRIER", "OK">>
    BY <1>10 DEF kind, tokens
  <2>2. AwaitsHangUp'
    BY <1>4, <1>5, <1>10, <2>1 DEF AwaitsHangUp, Asked, Item
  <2>3. Dialogue'
    BY <1>4, <1>5, <1>10, <2>2 DEF Dialogue, NothingAsked
  <2> QED
    BY <1>6, <1>8, <2>3
<1>11. CASE pc = "sms"
  <2>1. kind = "CMGS" /\ tokens = <<"PROMPT", "CMGS", "OK">> /\ t \in SmsTask
    BY <1>2, <1>11 DEF kind, tokens
  <2>2. AwaitsSms'
    BY <1>4, <1>5, <2>1 DEF AwaitsSms, Asked, Item
  <2>3. Dialogue'
    BY <1>4, <1>5, <2>1, <2>2 DEF Dialogue, NothingAsked
  <2> QED
    BY <1>6, <1>8, <2>3
<1> QED
  BY <1>1, <1>9, <1>10, <1>11

\* The text of an SMS is sent after its prompt.
LEMMA SendTextStep ==
  ASSUME EngineTypeOK, IInv, Dialogue, Truth, UNCHANGED modem, SendText
  PROVE  Dialogue' /\ NotPassedOver' /\ Truth'
<1> DEFINE items == <<Item("TEXT", task), Item("SUB", task)>>
<1>1. /\ pc = "text" /\ pc \in NothingAsked /\ pc' = "await"
      /\ UNCHANGED <<reply, wire, console, accepted, completion, success, task, expect,
                     receivedCommands, waiting>>
      /\ older' = Len(receivedCommands)
  BY DEF SendText, serveKeeps, rx, modem, NothingAsked
<1>2. toModem = <<>> /\ task \in SmsTask /\ expect = <<"CMGS", "OK">>
  BY <1>1 DEF Dialogue, Asked
<1>3. toModem' = items
  <2>1. items \in Seq({Item("TEXT", task), Item("SUB", task)})
    OBVIOUS
  <2>2. toModem' = <<>> \o items
    BY <1>2 DEF SendText, Item
  <2> HIDE DEF items
  <2> QED
    BY <2>1, <2>2, ConcatEmptySeq
<1> HIDE DEF items
<1>4. /\ toModem' = items /\ OnLine({})'
      /\ \A i \in DOMAIN receivedCommands' : receivedCommands'[i].kind \notin AnswerTokens
      /\ \A i \in DOMAIN console' : console'[i].kind \notin AnswerTokens
  BY <1>1, <1>3, Sending
<1>5. NotPassedOver'
  BY <1>1, <1>4, NothingNewer DEF IInv
<1>6. AwaitsSms'
  BY <1>1, <1>2, <1>4 DEF AwaitsSms, Asked, Item, items
<1>7. Dialogue'
  BY <1>1, <1>2, <1>4, <1>6 DEF Dialogue, NothingAsked
<1> QED
  BY <1>1, <1>5, <1>7 DEF Truth, AnswerIsTrue

-----------------------------------------------------------------------------
(* The AT thread waits for an answer *)

\* What is left keeps its order: a line behind the erased one moves up by one.
LEMMA ErasedIndex ==
  ASSUME NEW S, NEW s \in Seq(S), NEW i \in 1..Len(s)
  PROVE  /\ RemoveAt(s, i) \in Seq(S) /\ Len(RemoveAt(s, i)) = Len(s) - 1
         /\ DOMAIN RemoveAt(s, i) = 1..(Len(s) - 1)
         /\ \A j \in 1..(Len(s) - 1) :
              RemoveAt(s, i)[j] = IF j < i THEN s[j] ELSE s[j + 1]
<1> DEFINE a == SubSeq(s, 1, i - 1)
           b == SubSeq(s, i + 1, Len(s))
<1>1. Len(s) \in Nat /\ \A j \in 1..Len(s) : s[j] \in S
  BY LenProperties, ElementOfSeq
<1>2. a \in Seq(S) /\ Len(a) = i - 1 /\ \A j \in 1..(i - 1) : a[j] = s[j]
  BY <1>1
<1>3. b \in Seq(S) /\ Len(b) = Len(s) - i /\ \A j \in 1..(Len(s) - i) : b[j] = s[i + j]
  BY <1>1
<1>4. RemoveAt(s, i) = a \o b
  BY DEF RemoveAt
<1> HIDE DEF a, b
<1> DEFINE u == a \o b
<1>5. /\ u \in Seq(S) /\ Len(u) = Len(a) + Len(b)
      /\ \A j \in 1..(Len(a) + Len(b)) : u[j] = IF j <= Len(a) THEN a[j] ELSE b[j - Len(a)]
  BY <1>2, <1>3, ConcatProperties
<1> HIDE DEF u
<1>6. DOMAIN u = 1..Len(u)
  BY <1>5, LenProperties
<1>7. ASSUME NEW j \in 1..(Len(s) - 1)
      PROVE  u[j] = IF j < i THEN s[j] ELSE s[j + 1]
  <2>1. CASE j < i
    <3>1. j \in 1..(i - 1) /\ j <= Len(a) /\ j \in 1..(Len(a) + Len(b))
      BY <1>1, <1>2, <1>3, <2>1
    <3> QED
      BY <1>2, <1>5, <2>1, <3>1
  <2>2. CASE ~(j < i)
    <3>1. /\ ~(j <= Len(a)) /\ j - Len(a) \in 1..(Len(s) - i) /\ j \in 1..(Len(a) + Len(b))
          /\ i + (j - Len(a)) = j + 1
      BY <1>1, <1>2, <1>3, <2>2
    <3> QED
      BY <1>3, <1>5, <2>2, <3>1
  <2> QED
    BY <2>1, <2>2
<1> QED
  BY <1>1, <1>2, <1>3, <1>4, <1>5, <1>6, <1>7 DEF u

\* Every request is of one kind, and the line it waits for is an answer.
LEMMA AwaitedAnswer ==
  ASSUME TypeOK, Dialogue, pc = "await"
  PROVE  /\ expect # <<>> /\ Head(expect) \in AnswerTokens
         /\ task \in ConfigReqs => task \in ConfigTask /\ task # ATH /\ task \notin SmsTask
         /\ task = ATH => task \in ConfigTask /\ task \notin SmsTask /\ task \notin Promised
         /\ task \in SmsTask => task \notin ConfigTask /\ task # ATH
         /\ NoTask \notin Promised /\ NoTask # ATH
<1>1. /\ expect \in {<<"OK">>, <<"NOCARRIER", "OK">>, <<"PROMPT", "CMGS", "OK">>, <<"CMGS", "OK">>}
  BY DEF Dialogue, AwaitsSetting, AwaitsHangUp, AwaitsSms
<1>2. expect # <<>> /\ Head(expect) \in AnswerTokens
  BY <1>1 DEF AnswerTokens
<1> QED
  BY <1>2, QueuesDisjoint, SchedulerAssumption
     DEF ConfigTask, SmsTask, Task, Promised, Requests

\* The last answer came, or did not: the promise says what the modem did.
LEMMA FinishStep ==
  ASSUME EngineTypeOK, IInv, Dialogue, Truth, pc = "await", NEW ok \in BOOLEAN, Finish(ok),
         UNCHANGED <<accepted, console>>, Asked(<<>>)',
         task \in Promised => (ok <=> task \in accepted)
  PROVE  Dialogue' /\ NotPassedOver' /\ Truth'
<1>0. TypeOK /\ completion \in [Promised -> {"pending", "succeeded", "failed"}]
  BY DEF IInv, TypeOK
<1>1. pc' \in {"config", "sms"} /\ task' = NoTask /\ success'
  BY DEF Finish
<1>2. NoTask \notin Promised /\ NoTask # ATH
  BY <1>0, AwaitedAnswer
<1>3. ASSUME NEW r \in Promised
      PROVE  /\ r # task => completion'[r] = completion[r]
             /\ r = task => completion'[r] = IF ok THEN "succeeded" ELSE "failed"
  BY <1>0, <1>3 DEF Finish, SetPromise
<1>4. Truth'
  BY <1>1, <1>2, <1>3 DEF Truth, AnswerIsTrue
<1>5. Dialogue'
  BY <1>1 DEF Dialogue, NothingAsked
<1> QED
  BY <1>1, <1>4, <1>5 DEF NotPassedOver

\* The next answer is awaited.
LEMMA NextAnswerStep ==
  ASSUME Dialogue, Truth, pc = "await",
         pc' = "await", ~waiting', NotPassedOver',
         UNCHANGED <<accepted, console, task, completion>>,
         \/ task = ATH /\ AwaitsHangUp'
         \/ task \in SmsTask /\ AwaitsSms' /\ task # ATH /\ UNCHANGED success
  PROVE  Dialogue' /\ NotPassedOver' /\ Truth'
<1>1. Dialogue'
  BY DEF Dialogue, NothingAsked
<1> QED
  BY <1>1 DEF Truth, AnswerIsTrue

\* The line that is looked for is found.
LEMMA FoundStep ==
  ASSUME EngineTypeOK, IInv, Reliable, Dialogue, NotPassedOver, Truth, pc = "await",
         NEW i \in 1..Len(receivedCommands), NEW kind, kind = Head(expect),
         receivedCommands[i].kind = kind, Found(i), ~waiting', UNCHANGED <<toModem, reply, wire, console, accepted>>
  PROVE  Dialogue' /\ NotPassedOver' /\ Truth'
<1>0. TypeOK /\ receivedCommands \in Seq(Message) /\ Len(receivedCommands) \in Nat
      /\ DOMAIN receivedCommands = 1..Len(receivedCommands)
  BY LenProperties DEF EngineTypeOK, TypeOK
<1>1. receivedCommands' = RemoveAt(receivedCommands, i) /\ Responded(TRUE)
  BY DEF Found
<1>2. ASSUME NEW kinds, OnLine(kinds)
      PROVE  kind \in kinds /\ OnLine(kinds \ {kind})'
  <2>1. kind \in AnswerTokens
    BY <1>0, AwaitedAnswer
  <2> QED
    BY <1>1, <1>2, <2>1, TakenLine
<1>2a. ~OnLine({})
  <2>1. ASSUME OnLine({}) PROVE kind \in {}
    BY <1>2, <2>1
  <2> QED
    BY <2>1
<1>3. /\ task \in ConfigReqs => task \in ConfigTask /\ task # ATH /\ task \notin SmsTask
      /\ task = ATH => task \in ConfigTask /\ task \notin SmsTask /\ task \notin Promised
      /\ task \in SmsTask => task \notin ConfigTask /\ task # ATH
  BY <1>0, AwaitedAnswer
<1>4. ASSUME pc' = "await", UNCHANGED older
      PROVE  NotPassedOver'
  <2>1. older \in Nat /\ older < i
    <3>1. receivedCommands[i].kind \in AnswerTokens
      BY SMTT(30), <1>0, AwaitedAnswer
    <3> QED
      BY <1>0, <3>1 DEF NotPassedOver, TypeOK
  <2>2. /\ Len(receivedCommands') = Len(receivedCommands) - 1
        /\ DOMAIN receivedCommands' = 1..(Len(receivedCommands) - 1)
        /\ \A j \in 1..(Len(receivedCommands) - 1) :
             receivedCommands'[j] = IF j < i THEN receivedCommands[j]
                                    ELSE receivedCommands[j + 1]
    BY <1>0, <1>1, ErasedIndex
  <2>3. ASSUME NEW j \in DOMAIN receivedCommands', receivedCommands'[j].kind \in AnswerTokens
        PROVE  older < j
    <3>1. CASE j < i
      <4>1. j \in DOMAIN receivedCommands /\ receivedCommands'[j] = receivedCommands[j]
        BY <1>0, <2>2, <3>1
      <4> QED
        BY <2>3, <4>1 DEF NotPassedOver
    <3>2. CASE ~(j < i)
      BY <2>1, <2>2, <3>2
    <3> QED
      BY <3>1, <3>2
  <2>4. older <= Len(receivedCommands) - 1
    BY <1>0, <2>1
  <2> QED
    BY <1>4, <2>2, <2>3, <2>4 DEF NotPassedOver
<1>5. ASSUME toModem = <<>>, OnLine({})', Len(expect) = 1, task # ATH => task \in accepted
      PROVE  Dialogue' /\ NotPassedOver' /\ Truth'
  <2>1. Asked(<<>>)'
    BY <1>5 DEF Asked
  <2>2. Finish(success)
    BY <1>0, <1>1, <1>5 DEF Responded, TypeOK
  <2>3. task \in Promised => (success <=> task \in accepted)
    BY <1>3, <1>5 DEF Truth
  <2>4. success \in BOOLEAN
    BY <1>0 DEF TypeOK
  <2> QED
    BY <2>1, <2>2, <2>3, <2>4, FinishStep
<1>6. ASSUME Len(expect) > 1
      PROVE  /\ expect' = Tail(expect) /\ success' = success
             /\ pc' = IF Head(expect) = "PROMPT" THEN "text" ELSE "await"
             /\ UNCHANGED <<task, older, completion>>
  <2>0. Len(expect) \in Nat
    BY <1>0, LenProperties DEF TypeOK
  <2>1. Len(expect) # 1
    <3>1. \A n \in Nat : n > 1 => n # 1
      OBVIOUS
    <3> QED
      BY <1>6, <2>0, <3>1, Zenon
  <2>2. success \in BOOLEAN
    BY <1>0 DEF TypeOK
  <2> QED
    BY <1>1, <1>6, <2>1, <2>2, Zenon DEF Responded
<1>7. CASE task \in ConfigReqs /\ AwaitsSetting
  <2>1. expect = <<"OK">> /\ Head(expect) = "OK" /\ Len(expect) = 1
    BY <1>7 DEF AwaitsSetting
  <2>2. task \in accepted /\ Told({"OK"})
    <3> QED
      BY <1>7, <1>2a DEF AwaitsSetting, Asked, Told
  <2>3. OnLine({})'
    <3>1. OnLine({"OK"} \ {kind})'
      BY <1>2, <2>1, <2>2 DEF Told
    <3>2. {"OK"} \ {kind} = {}
      BY <2>1
    <3> QED
      BY <3>1, <3>2
  <2> QED
    BY <1>5, <2>1, <2>2, <2>3 DEF Told
<1>8. CASE task = ATH /\ AwaitsHangUp
  <2>1. CASE expect = <<"NOCARRIER", "OK">>
    <3>1. Told({"NOCARRIER", "OK"}) /\ Head(expect) = "NOCARRIER" /\ Tail(expect) = <<"OK">>
          /\ Len(expect) > 1
      BY <1>8, <1>2a, <2>1 DEF AwaitsHangUp, Asked, Told
    <3>2. OnLine({"NOCARRIER", "OK"} \ {kind})'
      BY <1>2, <3>1 DEF Told
    <3>3. {"NOCARRIER", "OK"} \ {kind} = {"OK"}
      BY <3>1
    <3>4. OnLine({"OK"})'
      BY <3>2, <3>3
    <3>5. AwaitsHangUp' /\ pc' = "await" /\ NotPassedOver'
      BY <1>4, <1>6, <3>1, <3>4 DEF AwaitsHangUp, Told
    <3> QED
      BY <1>6, <1>8, <3>1, <3>5, NextAnswerStep
  <2>2. CASE expect = <<"OK">>
    <3>1. Told({"OK"}) /\ Head(expect) = "OK" /\ Len(expect) = 1
      BY <1>8, <1>2a, <2>2 DEF AwaitsHangUp, Told
    <3>2. OnLine({"OK"} \ {kind})'
      BY <1>2, <3>1 DEF Told
    <3>3. {"OK"} \ {kind} = {}
      BY <3>1
    <3>4. OnLine({})'
      BY <3>2, <3>3
    <3> QED
      BY <1>5, <1>8, <3>1, <3>4 DEF Told
  <2> QED
    BY <1>8, <2>1, <2>2 DEF AwaitsHangUp
<1>9. CASE task \in SmsTask /\ AwaitsSms
  <2>1. CASE expect = <<"PROMPT", "CMGS", "OK">>
    <3>1. Told({"PROMPT"}) /\ Head(expect) = "PROMPT" /\ Tail(expect) = <<"CMGS", "OK">>
          /\ Len(expect) > 1
      BY <1>9, <1>2a, <2>1 DEF AwaitsSms, Asked, Told
    <3>2. OnLine({"PROMPT"} \ {kind})'
      BY <1>2, <3>1 DEF Told
    <3>3. {"PROMPT"} \ {kind} = {}
      BY <3>1
    <3>4. OnLine({})'
      BY <3>2, <3>3
    <3>5. Asked(<<>>)' /\ pc' = "text" /\ expect' = <<"CMGS", "OK">> /\ task' = task
      BY <1>6, <3>1, <3>4 DEF Asked, Told
    <3>6. Dialogue' /\ NotPassedOver'
      BY <1>9, <3>5 DEF Dialogue, NotPassedOver
    <3> QED
      BY <1>6, <3>1, <3>6 DEF Truth, AnswerIsTrue
  <2>2. CASE expect = <<"CMGS", "OK">>
    <3>1. /\ Told({"CMGS", "OK"}) /\ task \in accepted
          /\ Head(expect) = "CMGS" /\ Tail(expect) = <<"OK">> /\ Len(expect) > 1
      BY <1>9, <1>2a, <2>2 DEF AwaitsSms, Asked, Told
    <3>2. OnLine({"CMGS", "OK"} \ {kind})'
      BY <1>2, <3>1 DEF Told
    <3>3. {"CMGS", "OK"} \ {kind} = {"OK"}
      BY <3>1
    <3>4. OnLine({"OK"})'
      BY <3>2, <3>3
    <3>5. AwaitsSms' /\ pc' = "await" /\ NotPassedOver'
      BY <1>4, <1>6, <3>1, <3>4 DEF AwaitsSms, Told
    <3> QED
      BY <1>3, <1>6, <1>9, <3>1, <3>5, NextAnswerStep
  <2>3. CASE expect = <<"OK">>
    <3>1. Told({"OK"}) /\ task \in accepted /\ Head(expect) = "OK" /\ Len(expect) = 1
      BY <1>9, <2>3 DEF AwaitsSms
    <3>2. OnLine({"OK"} \ {kind})'
      BY <1>2, <3>1 DEF Told
    <3>3. {"OK"} \ {kind} = {}
      BY <3>1
    <3>4. OnLine({})'
      BY <3>2, <3>3
    <3> QED
      BY <1>5, <3>1, <3>4 DEF Told
  <2> QED
    BY <1>9, <2>1, <2>2, <2>3 DEF AwaitsSms
<1> QED
  BY <1>7, <1>8, <1>9 DEF Dialogue

\* None is found, and the wait begins or goes on: all there is was searched.
LEMMA NotFoundStep ==
  ASSUME EngineTypeOK, IInv, Reliable, Dialogue, NotPassedOver, Truth, pc = "await",
         NotFound, waiting', ~isNewMsgFromAt',
         UNCHANGED <<toModem, reply, wire, console, accepted>>,
         \/ Matches(older, Head(expect)) = {}
         \/ waiting /\ Matches(numberOfMsg, Head(expect)) = {}
  PROVE  Dialogue' /\ NotPassedOver' /\ Truth'
<1>0. /\ receivedCommands \in Seq(Message) /\ Len(receivedCommands) \in Nat
      /\ DOMAIN receivedCommands = 1..Len(receivedCommands)
      /\ older \in Nat /\ numberOfMsg \in Nat
  BY LenProperties DEF EngineTypeOK, TypeOK
<1>1. /\ UNCHANGED <<pc, receivedCommands, task, expect, success, older, completion>>
      /\ numberOfMsg' = Len(receivedCommands)
  BY DEF NotFound
<1>2. \A i \in DOMAIN receivedCommands : receivedCommands[i].kind # Head(expect)
  <2> SUFFICES ASSUME NEW i \in DOMAIN receivedCommands,
                      receivedCommands[i].kind = Head(expect)
               PROVE  FALSE
    OBVIOUS
  <2>1. receivedCommands[i].kind \in AnswerTokens
    BY AwaitedAnswer DEF IInv
  <2>2. older < i /\ (waiting => numberOfMsg < i)
    BY <2>1 DEF NotPassedOver
  <2>3. \A n \in Nat : n < i => i \in Matches(n, Head(expect))
    BY <1>0 DEF Matches, Carries
  <2> QED
    BY <1>0, <2>2, <2>3
<1>3. SameLine
  BY <1>1, NothingMoves
<1>4. \A i \in DOMAIN console' : console'[i].kind \notin AnswerTokens
  BY DEF Dialogue
<1>5. Dialogue'
  BY <1>1, <1>3, <1>4, SameDialogue
<1>6. NotPassedOver'
  BY <1>1, <1>2 DEF NotPassedOver
<1> QED
  BY <1>1, <1>5, <1>6 DEF Truth, AnswerIsTrue

\* The time is up: the modem has nothing more to say, and said no to the request.
LEMMA TimedOutStep ==
  ASSUME EngineTypeOK, IInv, Reliable, Dialogue, NotPassedOver, Truth, pc = "await",
         Quiet, AwaitTimeout, UNCHANGED <<reply, wire, console, accepted>>
  PROVE  Dialogue' /\ NotPassedOver' /\ Truth'
<1>0. /\ TypeOK /\ receivedCommands \in Seq(Message) /\ Len(receivedCommands) \in Nat
      /\ DOMAIN receivedCommands = 1..Len(receivedCommands)
      /\ numberOfMsg \in Nat /\ success \in BOOLEAN
  BY LenProperties DEF EngineTypeOK, TypeOK
<1>1. /\ UNCHANGED <<receivedCommands, toModem>> /\ ~waiting' /\ Responded(FALSE)
      /\ toModem = <<>> /\ reply = <<>> /\ wire = <<>> /\ waiting
      /\ ~isNewMsgFromAt \/ Matches(numberOfMsg, Head(expect)) = {}
  BY DEF AwaitTimeout, TimeUp, Woken, awaitKeeps, Quiet
<1>2. \A i \in DOMAIN receivedCommands : receivedCommands[i].kind # Head(expect)
  <2> SUFFICES ASSUME NEW i \in DOMAIN receivedCommands,
                      receivedCommands[i].kind = Head(expect)
               PROVE  FALSE
    OBVIOUS
  <2>0. receivedCommands[i].kind \in AnswerTokens
    BY <1>0, AwaitedAnswer
  <2>1. numberOfMsg < i
    BY <1>1, <2>0 DEF NotPassedOver
  <2>1a. i \in Matches(numberOfMsg, Head(expect))
    BY <1>0, <2>1 DEF Matches, Carries
  <2>2. ~isNewMsgFromAt
    BY <1>1, <2>1a
  <2>3. numberOfMsg = Len(receivedCommands)
    BY <1>1, <2>2 DEF NotPassedOver
  <2> QED
    BY <1>0, <2>1, <2>3
<1>3. ASSUME NEW kinds, OnLine(kinds)
      PROVE  Head(expect) \notin kinds
  <2>1. Head(expect) \in AnswerTokens
    BY <1>0, AwaitedAnswer
  <2>2. ~UnderWay(Head(expect))
    BY <1>1, <1>2 DEF UnderWay, OneOf
  <2> QED
    BY <1>3, <2>1, <2>2 DEF OnLine
<1>4. /\ task \in ConfigReqs => task \in ConfigTask /\ task # ATH /\ task \notin SmsTask
      /\ task = ATH => task \in ConfigTask /\ task \notin SmsTask /\ task \notin Promised
  BY <1>0, AwaitedAnswer
<1>4a. ASSUME task \notin SmsTask
       PROVE  \/ Len(expect) = 1 /\ Finish(success /\ FALSE)
              \/ /\ Len(expect) > 1 /\ expect' = Tail(expect)
                 /\ pc' = IF Head(expect) = "PROMPT" THEN "text" ELSE "await"
                 /\ UNCHANGED <<task, older, completion>>
  BY <1>1, <1>4a, Zenon DEF Responded
<1>5. ASSUME NEW kinds, OnLine(kinds)
      PROVE  OnLine(kinds)'
  BY <1>1, <1>5 DEF OnLine, UnderWay, Absent, OneOf, NoneOf
<1>6. ASSUME OnLine({}), Finish(success /\ FALSE), task \in Promised => task \notin accepted
      PROVE  Dialogue' /\ NotPassedOver' /\ Truth'
  <2>1. Asked(<<>>)'
    BY <1>1, <1>5, <1>6 DEF Asked
  <2>2. Finish(FALSE)
    BY <1>6
  <2> QED
    BY <1>6, <2>1, <2>2, FinishStep
<1>7. ~Asked(<<Item("CONFIG", task)>>) /\ ~Asked(<<Item("ATH", ATH)>>)
      /\ ~Asked(<<Item("CMGS", task)>>) /\ ~Asked(<<Item("SUB", task)>>)
      /\ ~Asked(<<Item("TEXT", task), Item("SUB", task)>>)
  BY <1>1 DEF Asked
<1>8. CASE task \in ConfigReqs /\ AwaitsSetting
  <2>1. expect = <<"OK">> /\ Head(expect) = "OK" /\ Len(expect) = 1
    BY <1>8 DEF AwaitsSetting
  <2>2. task \notin accepted /\ OnLine({})
    <3>1. ~OnLine({"OK"})
      BY <1>3, <2>1
    <3> QED
      BY <1>7, <1>8, <3>1 DEF AwaitsSetting, Told
  <2>3. Finish(success /\ FALSE)
    BY <1>4, <1>4a, <1>8, <2>1
  <2> QED
    BY <1>6, <2>2, <2>3
<1>9. CASE task = ATH /\ AwaitsHangUp
  <2>1. ~OnLine({"NOCARRIER", "OK"})
    <3>1. Head(expect) \in {"NOCARRIER", "OK"}
      BY <1>9 DEF AwaitsHangUp
    <3> QED
      BY <1>3, <3>1
  <2>2. expect = <<"OK">> => ~OnLine({"OK"})
    <3>1. expect = <<"OK">> => Head(expect) \in {"OK"}
      OBVIOUS
    <3> QED
      BY <1>3, <3>1
  <2>3. Told({})
    BY <1>7, <1>9, <2>1, <2>2 DEF AwaitsHangUp, Told
  <2>4. CASE expect = <<"OK">>
    <3>1. Finish(success /\ FALSE)
      BY <1>4, <1>4a, <1>9, <2>4
    <3> QED
      BY <1>4, <1>6, <1>9, <2>3, <3>1 DEF Told
  <2>5. CASE expect = <<"NOCARRIER", "OK">>
    <3>1. /\ Len(expect) = 2 /\ Tail(expect) = <<"OK">> /\ Head(expect) = "NOCARRIER"
      BY <2>5
    <3>1a. Len(expect) # 1 /\ Head(expect) # "PROMPT"
      BY <3>1
    <3>2. /\ expect' = <<"OK">> /\ pc' = "await"
          /\ UNCHANGED <<task, older, completion>>
      BY <1>4, <1>4a, <1>9, <3>1, <3>1a, Zenon
    <3>3. AwaitsHangUp'
      BY <1>1, <1>5, <2>3, <3>2 DEF AwaitsHangUp, Told
    <3>4. NotPassedOver'
      BY <1>1, <3>2 DEF NotPassedOver
    <3> QED
      BY <1>1, <1>9, <3>2, <3>3, <3>4, NextAnswerStep
  <2> QED
    BY <1>9, <2>4, <2>5 DEF AwaitsHangUp
<1>10. CASE task \in SmsTask /\ AwaitsSms
  <2>1. /\ expect = <<"PROMPT", "CMGS", "OK">> => Head(expect) \in {"PROMPT"}
        /\ expect = <<"CMGS", "OK">> => Head(expect) \in {"CMGS", "OK"}
        /\ expect = <<"OK">> => Head(expect) \in {"OK"}
    OBVIOUS
  <2>2. /\ expect = <<"PROMPT", "CMGS", "OK">> => ~OnLine({"PROMPT"})
        /\ expect = <<"CMGS", "OK">> => ~OnLine({"CMGS", "OK"})
        /\ expect = <<"OK">> => ~OnLine({"OK"})
    BY <1>3, <2>1
  <2> QED
    BY <1>7, <1>10, <2>2 DEF AwaitsSms, Told
<1> QED
  BY <1>8, <1>9, <1>10 DEF Dialogue

\* waitForMessageTimeout.
LEMMA AwaitStep ==
  ASSUME EngineTypeOK, IInv, Reliable, Dialogue, NotPassedOver, Truth, UNCHANGED modem,
         AwaitScan \/ AwaitWake \/ (AwaitTimeout /\ Quiet)
  PROVE  Dialogue' /\ NotPassedOver' /\ Truth'
<1>1. /\ pc = "await"
      /\ UNCHANGED <<toModem, reply, wire, console, accepted>>
  BY DEF AwaitScan, AwaitWake, AwaitTimeout, awaitKeeps, modem
<1>2. /\ older \in Nat /\ numberOfMsg \in Nat /\ Len(receivedCommands) \in Nat
  BY LenProperties DEF IInv, TypeOK
<1>3. ASSUME NEW n \in Nat, NEW i \in Matches(n, Head(expect)), Found(i), ~waiting'
      PROVE  Dialogue' /\ NotPassedOver' /\ Truth'
  <2>1. i \in 1..Len(receivedCommands) /\ receivedCommands[i].kind = Head(expect)
    BY <1>2, <1>3 DEF Matches, Carries, Reliable
  <2> QED
    BY <1>1, <1>3, <2>1, FoundStep
<1>4. CASE AwaitScan
  <2>1. ASSUME NEW i \in Matches(older, Head(expect)), Found(i), UNCHANGED waiting
        PROVE  Dialogue' /\ NotPassedOver' /\ Truth'
    BY <1>2, <1>3, <1>4, <2>1 DEF AwaitScan
  <2>2. CASE Matches(older, Head(expect)) = {} /\ NotFound /\ BeginWait
    BY <1>1, <2>2, NotFoundStep DEF BeginWait
  <2> QED
    BY <1>4, <2>1, <2>2 DEF AwaitScan
<1>5. CASE AwaitWake
  <2>1. ASSUME NEW i \in Matches(numberOfMsg, Head(expect)), Found(i), waiting' = FALSE
        PROVE  Dialogue' /\ NotPassedOver' /\ Truth'
    BY <1>2, <1>3, <2>1
  <2>2. CASE Matches(numberOfMsg, Head(expect)) = {} /\ NotFound /\ UNCHANGED waiting
    BY <1>1, <1>5, <2>2, NotFoundStep DEF AwaitWake, Woken
  <2> QED
    BY <1>5, <2>1, <2>2 DEF AwaitWake
<1>6. CASE AwaitTimeout /\ Quiet
  BY <1>1, <1>6, TimedOutStep
<1> QED
  BY <1>4, <1>5, <1>6

-----------------------------------------------------------------------------
(* AnswerIsTrue *)

\* A step of the modem or of a client that leaves the AT thread alone.
LEMMA ElsewhereStep ==
  ASSUME Dialogue, Truth, SameLine,
         UNCHANGED <<pc, task, expect, success, completion, toModem, accepted>>,
         \A i \in DOMAIN console' : console'[i].kind \notin AnswerTokens
  PROVE  Dialogue' /\ Truth'
BY SameDialogue DEF Truth, AnswerIsTrue

\* ReadEvent adds a message behind everything that was searched.
LEMMA ReceivedIsNewer ==
  ASSUME EngineTypeOK, IInv, Reliable, NotPassedOver, Receive
  PROVE  NotPassedOver'
<1> DEFINE m == wire[1]
<1>1. /\ receivedCommands' = Append(receivedCommands, m) /\ isNewMsgFromAt' /\ m \in Message
      /\ UNCHANGED <<pc, waiting, older, numberOfMsg, expect>>
  BY ReceivesOne DEF thread, local
<1>2. /\ receivedCommands \in Seq(Message) /\ Len(receivedCommands) \in Nat
      /\ DOMAIN receivedCommands = 1..Len(receivedCommands)
      /\ older \in Nat /\ numberOfMsg \in Nat
      /\ waiting => numberOfMsg <= Len(receivedCommands)
  BY LenProperties DEF IInv, TypeOK, ThreadInv, WakeFindsMessage
<1> HIDE DEF m
<1> DEFINE s == Append(receivedCommands, m)
<1>3. /\ s \in Seq(Message) /\ Len(s) = Len(receivedCommands) + 1
      /\ \A i \in 1..Len(receivedCommands) : s[i] = receivedCommands[i]
  BY <1>1, <1>2, AppendProperties
<1> HIDE DEF s
<1>4. DOMAIN s = 1..(Len(receivedCommands) + 1)
  BY <1>3, LenProperties
<1> SUFFICES ASSUME pc = "await"
             PROVE  /\ older <= Len(s)
                    /\ \A i \in DOMAIN s :
                         /\ s[i].kind \in AnswerTokens => older < i
                         /\ waiting /\ s[i].kind = Head(expect) => numberOfMsg < i
  BY <1>1 DEF NotPassedOver, s
<1>5. older <= Len(receivedCommands)
  BY DEF NotPassedOver
<1>6. ASSUME NEW i \in DOMAIN s
      PROVE  /\ s[i].kind \in AnswerTokens => older < i
             /\ waiting /\ s[i].kind = Head(expect) => numberOfMsg < i
  <2>1. CASE i \in DOMAIN receivedCommands
    <3>1. s[i] = receivedCommands[i]
      BY <1>2, <1>3, <2>1
    <3> QED
      BY <2>1, <3>1 DEF NotPassedOver
  <2>2. CASE i = Len(receivedCommands) + 1
    BY <1>2, <1>5, <2>2
  <2> QED
    BY <1>2, <1>4, <2>1, <2>2
<1> QED
  BY <1>2, <1>3, <1>5, <1>6

\* Only clients change what their calls have returned.
LEMMA CallsChange ==
  ASSUME [EngineNext]_engineVars, ~Call, ~Return
  PROVE  UNCHANGED caller
<1> USE DEF shared, syncKeeps, awaitKeeps, serveKeeps, smsTextKeeps
<1>1. ASSUME ATStep \/ ATTimeout
      PROVE  UNCHANGED caller
  <2>1. CASE \/ SendATE0 \/ ATE0Get \/ ATE0Wake \/ Loop \/ Drain \/ SmsTextGet \/ SmsTextWake
             \/ ConfigCheck \/ TakeConfig \/ SmsCheck \/ TakeSms \/ SendText
    BY <2>1 DEF SendATE0, ATE0Get, ATE0Wake, Loop, Drain, SmsTextGet, SmsTextWake,
                ConfigCheck, SmsCheck, Check, TakeConfig, TakeSms, SendText
  <2>2. CASE \/ AwaitScan \/ AwaitWake \/ Beat \/ SyncScan \/ SyncWake \/ Synced \/ ATTimeout
    BY <2>2 DEF AwaitScan, AwaitWake, Beat, SyncScan, SyncWake, Synced, ATTimeout,
                ATE0Timeout, SmsTextTimeout, AwaitTimeout, SyncTimeout
  <2> QED
    BY <1>1, <2>1, <2>2 DEF ATStep
<1>2. CASE Step \/ Timeout
  BY <1>1, <1>2 DEF Step, Timeout
<1>3. CASE \/ Receive \/ ModemRead \/ ModemReply \/ ConsoleWrite \/ UNCHANGED engineVars
           \/ HeartBeatDue \/ Fetch
           \/ (\E i \in InSms : ReceiveSms(i)) \/ (\E n \in InCalls : ReceiveCall(n))
  BY <1>3 DEF Receive, ReadEvent, ModemRead, ModemReply, ConsoleWrite, engineVars, vars,
              HeartBeatDue, Tick, Fetch, GetLastSms, ReceiveSms, ReceiveCall
<1> QED
  BY <1>2, <1>3 DEF EngineNext

\* What a call of the client API may return, and when.
LEMMA CallerStep ==
  ASSUME TypeOK, [EngineNext]_engineVars, NEW r \in Promised
  PROVE  \/ caller'[r] = caller[r]
         \/ caller[r] = "idle" /\ caller'[r] = "waiting"
         \/ caller[r] = "waiting" /\ caller'[r] = "timeout"
         \/ caller[r] = "waiting" /\ caller'[r] = completion[r] /\ completion[r] # "pending"
<1>0. /\ caller \in [Requests -> {"idle", "waiting", "succeeded", "failed", "timeout"}]
      /\ r \in Requests /\ r \notin SmsAsync /\ Promised \subseteq Requests
  BY SchedulerAssumption DEF TypeOK, Requests, Promised, SmsTask
<1>1. CASE Call
  <2>1. ASSUME NEW q \in Requests, MayCall(q), NEW state \in {"waiting", "succeeded"},
               Submitted(q, state), state = "succeeded" => q \in SmsAsync
        PROVE  caller'[r] = caller[r] \/ (caller[r] = "idle" /\ caller'[r] = "waiting")
    BY <1>0, <2>1 DEF MayCall, Submitted
  <2>2. CASE \E q \in Promised : SetConfig(q) \/ SendSmsSync(q)
    BY <1>0, <2>1, <2>2 DEF SetConfig, SendSmsSync
  <2>3. CASE \E q \in SmsAsync : SendSms(q)
    BY <1>0, <2>1, <2>3 DEF SendSms, Requests
  <2>4. CASE \E q \in Promised : ReturnTimeout(q)
    BY <1>0, <2>4 DEF ReturnTimeout
  <2>5. CASE GetLastCall \/ Shutdown
    BY <2>5 DEF GetLastCall, Shutdown
  <2> QED
    BY <1>1, <2>2, <2>3, <2>4, <2>5 DEF Call, ClientCall, Promised
<1>2. CASE Return
  BY <1>0, <1>2 DEF Return, ClientReturn, ReturnResult
<1> QED
  BY <1>1, <1>2, CallsChange

\* What the modem carries out is the request in the AT thread's hands.
LEMMA AcceptsTask ==
  ASSUME IInv, Dialogue, Truth, [EngineNext]_engineVars
  PROVE  accepted' \in {accepted, accepted \cup {task}}
<1>1. CASE ModemRead
  BY <1>1, ModemReadStep
<1>2. CASE ~ModemRead
  BY <1>2 DEF EngineNext, Step, Timeout, Receive, ModemReply, ConsoleWrite, ReceiveSms,
              ReceiveCall, Return, Call, Fetch, HeartBeatDue, modem, engineVars
<1> QED
  BY <1>1, <1>2

LEMMA CallersStep ==
  ASSUME EngineTypeOK, IInv, Dialogue, Truth, CallersTold, [EngineNext]_engineVars
  PROVE  CallersTold'
<1>0. TypeOK /\ PromiseInv
      /\ completion \in [Promised -> {"pending", "succeeded", "failed"}]
  BY DEF IInv, TypeOK
<1>1. ASSUME NEW r \in Promised
      PROVE  /\ caller[r] # "idle" => caller'[r] # "idle"
             /\ caller[r] = "succeeded" => caller'[r] = "succeeded"
             /\ caller'[r] = "succeeded" => caller[r] = "succeeded" \/ completion[r] = "succeeded"
  BY <1>0, <1>1, CallerStep
<1>2. ASSUME NEW r \in Promised, r \in accepted'
      PROVE  caller'[r] # "idle"
  <2>1. CASE r \in accepted
    BY <1>1, <2>1 DEF CallersTold
  <2>2. CASE r = task
    BY <1>0, <1>1, <2>2 DEF PromiseInv
  <2> QED
    BY <1>2, <2>1, <2>2, AcceptsTask
<1>3. ASSUME NEW r \in Promised, caller'[r] = "succeeded"
      PROVE  completion'[r] = "succeeded"
  <2>1. completion[r] = "succeeded"
    BY <1>1, <1>3 DEF CallersTold
  <2>2. [OpenNext]_vars
    BY EngineStepIsOpen
  <2> QED
    BY <2>1, <2>2, PromiseStep
<1>4a. ASSUME NEW r \in Promised, caller[r] = "idle", Return
       PROVE  caller'[r] = "idle"
  <2>1. PICK q \in Promised : ReturnResult(q)
    BY <1>4a DEF Return, ClientReturn
  <2>2. caller[q] = "waiting" /\ caller' = [caller EXCEPT ![q] = completion[q]]
    BY <2>1 DEF ReturnResult
  <2> QED
    BY <1>0, <1>4a, <2>2 DEF TypeOK, Requests
<1>4. ASSUME NEW i \in DOMAIN DefaultConfig, NEW j \in DOMAIN DefaultConfig,
             i < j, caller'[DefaultConfig[j]] # "idle"
      PROVE  caller'[DefaultConfig[i]] = "succeeded"
  <2>1. DefaultConfig[i] \in Promised /\ DefaultConfig[j] \in ConfigReqs
        /\ DefaultConfig[j] \in Promised /\ i \in 1..(j - 1)
    BY <1>4, DefaultConfigAssumption, ElementOfSeq, LenProperties DEF Promised
  <2>2. CASE caller[DefaultConfig[j]] # "idle"
    BY <1>1, <1>4, <2>1, <2>2 DEF CallersTold
  <2>3. CASE caller[DefaultConfig[j]] = "idle"
    <3>1. Call
      <4>1. caller' # caller
        BY <1>4, <2>3
      <4>2. ~Return
        BY <1>4, <1>4a, <2>1, <2>3
      <4> QED
        BY <4>1, <4>2, CallsChange
    <3>2. SettingDue(DefaultConfig[j])
      BY <1>4, <2>1, <2>3, <3>1 DEF Call
    <3>3. caller[DefaultConfig[i]] = "succeeded"
      BY <2>1, <3>2 DEF SettingDue
    <3> QED
      BY <1>1, <2>1, <3>3
  <2> QED
    BY <2>2, <2>3
<1> QED
  BY <1>2, <1>3, <1>4 DEF CallersTold

\* The dialogue, step by step.
LEMMA DialogueStep ==
  ASSUME EngineTypeOK, IInv, Reliable, Dialogue, NotPassedOver, Truth,
         [EngineNext]_engineVars
  PROVE  Dialogue' /\ NotPassedOver' /\ Truth'
<1>1. \A i \in DOMAIN console : console[i].kind \notin AnswerTokens
  BY DEF Dialogue
<1>2. ASSUME UNCHANGED <<pc, waiting, local, rx>>
      PROVE  NotPassedOver'
  BY <1>2 DEF NotPassedOver, local, rx
<1>3. CASE Step
  <2>1. ATStep /\ UNCHANGED modem
    BY <1>3 DEF Step
  <2>2. CASE \/ Loop \/ Drain \/ SmsTextGet \/ SmsTextWake \/ ConfigCheck \/ SmsCheck \/ Synced
    BY <2>1, <2>2, BetweenStep
  <2>3. CASE TakeConfig
    <3>1. CASE atRequestsQueue # <<>>
      BY <2>1, <2>3, <3>1, TakeStep
    <3>2. CASE atRequestsQueue = <<>>
      BY <2>1, <2>3, <3>2, BetweenStep DEF TakeConfig
    <3> QED
      BY <3>1, <3>2
  <2>4. CASE TakeSms
    <3>1. CASE atSmsRequestQueue # <<>>
      BY <2>1, <2>4, <3>1, TakeStep
    <3>2. CASE atSmsRequestQueue = <<>>
      BY <2>1, <2>4, <3>2, BetweenStep DEF TakeSms
    <3> QED
      BY <3>1, <3>2
  <2>5. CASE Beat
    BY <2>1, <2>5, BetweenStep, SyncSendStep DEF Beat
  <2>6. CASE SendATE0
    BY <2>1, <2>6, SyncSendStep
  <2>7. CASE SendText
    BY <2>1, <2>7, SendTextStep
  <2>8. CASE AwaitScan \/ AwaitWake
    BY <2>1, <2>8, AwaitStep
  <2>9. CASE ATE0Get \/ ATE0Wake
    BY <2>1, <2>9, ATE0Step
  <2>10. CASE SyncScan \/ SyncWake
    BY <2>1, <2>10, SyncStep
  <2> QED
    BY <2>1, <2>2, <2>3, <2>4, <2>5, <2>6, <2>7, <2>8, <2>9, <2>10 DEF ATStep
<1>4. CASE Timeout
  <2>1. ATTimeout /\ UNCHANGED modem /\ Quiet
    BY <1>4 DEF Timeout, Reliable
  <2> QED
    BY <2>1, ATE0Step, BetweenStep, AwaitStep, SyncStep DEF ATTimeout
<1>5. CASE Receive
  <2>1. SameLine /\ UNCHANGED <<thread, shared, console, accepted>>
    BY <1>5, ReceiveMoves, ReceivesOne
  <2>2. Dialogue' /\ Truth'
    BY <1>1, <2>1, ElsewhereStep DEF thread, local, shared
  <2> QED
    BY <1>5, <2>2, ReceivedIsNewer
<1>6. CASE ModemRead
  <2>1. NotPassedOver'
    BY <1>2, <1>6 DEF ModemRead, thread
  <2> QED
    BY <1>6, <2>1, ModemReadStep
<1>7. CASE ModemReply
  <2>1. SameLine /\ UNCHANGED <<vars, console, accepted>>
    BY <1>7, ReplyMoves DEF ModemReply
  <2> QED
    BY <1>1, <1>2, <2>1, ElsewhereStep DEF vars, thread, local, shared
<1>8. CASE ConsoleWrite
  <2>1. SameLine /\ UNCHANGED <<vars, accepted>>
    BY <1>1, <1>8, ConsoleMoves DEF ConsoleWrite
  <2>2. \A i \in DOMAIN console' : console'[i].kind \notin AnswerTokens
    BY <1>1, <1>8, ConsoleMoves
  <2> QED
    BY <1>2, <2>1, <2>2, ElsewhereStep DEF vars, thread, local, shared
<1>9. CASE (\E i \in InSms : ReceiveSms(i)) \/ (\E n \in InCalls : ReceiveCall(n))
  <2>1. UNCHANGED <<vars, reply, wire, accepted>>
    BY <1>9 DEF ReceiveSms, ReceiveCall
  <2>2. SameLine
    BY <2>1, NothingMoves DEF vars, rx
  <2>3. \A i \in DOMAIN console' : console'[i].kind \notin AnswerTokens
    BY <1>9 DEF ReceiveSms, ReceiveCall, AnswerTokens
  <2> QED
    BY <1>2, <2>1, <2>2, <2>3, ElsewhereStep DEF vars, thread, local, shared
<1>10. CASE Return \/ Call \/ Fetch \/ HeartBeatDue \/ UNCHANGED engineVars
  <2>1. UNCHANGED <<pc, waiting, local, rx, completion, toModem, reply, wire, console, accepted>>
    <3>1. CASE UNCHANGED engineVars
      BY <3>1 DEF engineVars, vars, thread, shared, modem
    <3>2. CASE HeartBeatDue
      BY <3>2 DEF HeartBeatDue, Tick, shared, modem
    <3>3. CASE Return \/ Fetch
      BY <3>3 DEF Return, Fetch, ClientReturn, ReturnResult, GetLastSms, clientKeeps, thread, modem
    <3>4. CASE Call
      BY <3>4 DEF Call, ClientCall, SetConfig, SendSmsSync, SendSms, Submitted, ReturnTimeout,
                  GetLastCall, Shutdown, clientKeeps, thread, modem
    <3> QED
      BY <1>10, <3>1, <3>2, <3>3, <3>4
  <2>2. SameLine
    BY <2>1, NothingMoves DEF rx
  <2> QED
    BY <1>1, <1>2, <2>1, <2>2, ElsewhereStep DEF local
<1> QED
  BY <1>3, <1>4, <1>5, <1>6, <1>7, <1>8, <1>9, <1>10 DEF EngineNext

LEMMA DialogueInit ==
  EngineInit => Dialogue /\ NotPassedOver /\ Truth /\ CallersTold
<1> SUFFICES ASSUME EngineInit PROVE Dialogue /\ NotPassedOver /\ Truth /\ CallersTold
  OBVIOUS
<1>1. /\ pc = "start" /\ toModem = <<>> /\ reply = <<>> /\ wire = <<>> /\ console = <<>>
      /\ receivedCommands = <<>> /\ accepted = {} /\ success
      /\ completion = [r \in Promised |-> "pending"]
  BY DEF EngineInit, Init
<1>2. OnLine({})
  BY <1>1 DEF OnLine, Absent, NoneOf
<1>3. Dialogue /\ NotPassedOver /\ Truth
  BY <1>1, <1>2 DEF Dialogue, Asked, NotPassedOver, Truth, AnswerIsTrue, NothingAsked
<1>4. \A i \in DOMAIN DefaultConfig : DefaultConfig[i] \in ConfigReqs
  BY DefaultConfigAssumption, ElementOfSeq, LenProperties
<1>5. \A r \in Requests : caller[r] = "idle"
  BY DEF EngineInit, Init
<1>6. CallersTold
  BY <1>1, <1>4, <1>5 DEF CallersTold, Requests, Promised
<1> QED
  BY <1>3, <1>6

\* One command at a time, its answer alone on the line, the wait for it never
\* past it, and every request known for what the modem did with it.
THEOREM EngineInvariance == EngineSpec => [](EngineTypeOK /\ IInv /\ DialogueInv)
<1> DEFINE Inv == EngineTypeOK /\ IInv /\ DialogueInv
<1>1. Inv /\ [EngineNext]_engineVars => Inv'
  BY EngineTypeStep, DialogueStep, CallersStep DEF DialogueInv
<1>2. EngineInit => Inv
  BY EngineTypeInit, DialogueInit DEF DialogueInv
<1> HIDE DEF Inv
<1>3. EngineSpec => []Inv
  BY <1>1, <1>2, PTL DEF EngineSpec
<1> QED
  BY <1>3 DEF Inv

\* The answer a client gets is what the modem did, for every number of clients
\* and requests and however calls and SMS messages fall between the answers, as
\* long as no answer comes late or in the line of another message.
THEOREM AnswersTrue == Reliable => (EngineSpec => []AnswerIsTrue)
<1> SUFFICES ASSUME Reliable PROVE EngineSpec => []AnswerIsTrue
  OBVIOUS
<1>1. EngineTypeOK /\ IInv /\ DialogueInv => AnswerIsTrue
  BY DEF DialogueInv, Truth
<1> QED
  BY <1>1, EngineInvariance, PTL

\* No default setting is made before one that failed, for every list of default
\* settings, under the same condition.
THEOREM SettingsOrdered == Reliable => (EngineSpec => []SettingsInOrder)
<1> SUFFICES ASSUME Reliable PROVE EngineSpec => []SettingsInOrder
  OBVIOUS
<1>1. ASSUME DialogueInv PROVE SettingsInOrder
  <2>1. Truth /\ CallersTold
    BY <1>1 DEF DialogueInv
  <2>2. \A i \in DOMAIN DefaultConfig : DefaultConfig[i] \in Promised
    BY DefaultConfigAssumption, ElementOfSeq, LenProperties DEF Promised
  <2>3. ASSUME NEW i \in DOMAIN DefaultConfig, NEW j \in DOMAIN DefaultConfig,
               i < j, DefaultConfig[j] \in accepted
        PROVE  DefaultConfig[i] \in accepted
    <3>1. caller[DefaultConfig[i]] = "succeeded"
      BY <2>1, <2>2, <2>3 DEF CallersTold
    <3>2. completion[DefaultConfig[i]] = "succeeded"
      BY <2>1, <2>2, <3>1 DEF CallersTold
    <3> QED
      BY <2>1, <2>2, <3>2 DEF Truth, AnswerIsTrue
  <2> QED
    BY <2>3 DEF SettingsInOrder
<1> QED
  BY <1>1, EngineInvariance, PTL

-----------------------------------------------------------------------------
(* SMS messages on the line *)

\* A line that belongs to no SMS is taken from among them.
LEMMA OtherTaken ==
  ASSUME NEW S, NEW s \in Seq(S), NEW i \in 1..Len(s), s[i].kind \notin {"CMT", "BODY"},
         NEW sms, NEW from \in Nat, NEW to \in Int, \A k \in from..to : sms[k] # NoId,
         Carried(s, NoId, sms, from, to)
  PROVE  Carried(RemoveAt(s, i), NoId, sms, from, to)
<1> DEFINE D == from..to
           u == RemoveAt(s, i)
<1>1. Len(s) \in Nat /\ DOMAIN s = 1..Len(s) /\ DOMAIN u = 1..(Len(s) - 1)
      /\ \A j \in 1..(Len(s) - 1) : u[j] = IF j < i THEN s[j] ELSE s[j + 1]
  BY ErasedIndex, LenProperties
<1>2. PICK at \in [D -> DOMAIN s] : InPlace(at, s, NoId, sms)
  BY DEF Carried
<1> HIDE DEF u, D
<1>3. DOMAIN at = D /\ \A k \in D : at[k] \in 1..Len(s)
  BY <1>1, <1>2
<1>4. ASSUME NEW k \in D
      PROVE  /\ s[at[k]] = Text(sms[k]) /\ at[k] # i /\ at[k] # 1
             /\ s[at[k] - 1] = Header(sms[k]) /\ at[k] - 1 # i
  <2>1. /\ s[at[k]] = Text(sms[k])
        /\ IF at[k] = 1 THEN NoId = sms[k] ELSE s[at[k] - 1] = Header(sms[k])
    BY <1>2, <1>3 DEF InPlace
  <2>2. sms[k] # NoId
    BY DEF D
  <2>3. at[k] # 1 /\ s[at[k] - 1] = Header(sms[k])
    BY <2>1, <2>2
  <2>4. s[at[k]].kind = "BODY" /\ s[at[k] - 1].kind = "CMT"
    BY <2>1, <2>3 DEF Text, Header
  <2> QED
    BY <2>1, <2>3, <2>4
<1> DEFINE at2 == [k \in D |-> IF at[k] < i THEN at[k] ELSE at[k] - 1]
<1>5. ASSUME NEW k \in D
      PROVE  /\ at2[k] = IF at[k] < i THEN at[k] ELSE at[k] - 1
             /\ at2[k] \in DOMAIN u /\ at2[k] # 1
             /\ u[at2[k]] = s[at[k]] /\ u[at2[k] - 1] = s[at[k] - 1]
  <2>1. /\ at[k] \in 1..Len(s) /\ at[k] # i /\ at[k] # 1 /\ at[k] - 1 # i
        /\ at2[k] = IF at[k] < i THEN at[k] ELSE at[k] - 1
    BY <1>3, <1>4
  <2> HIDE DEF at2
  <2>2. CASE at[k] < i
    <3>1. at[k] \in 1..(Len(s) - 1) /\ at[k] - 1 \in 1..(Len(s) - 1) /\ at[k] - 1 < i
      BY <1>1, <2>1, <2>2
    <3> QED
      BY <1>1, <2>1, <2>2, <3>1
  <2>3. CASE ~(at[k] < i)
    <3>1. /\ at[k] - 1 \in 1..(Len(s) - 1) /\ at[k] - 2 \in 1..(Len(s) - 1)
          /\ ~(at[k] - 1 < i) /\ ~(at[k] - 2 < i)
          /\ (at[k] - 1) + 1 = at[k] /\ (at[k] - 1) - 1 = at[k] - 2
          /\ (at[k] - 2) + 1 = at[k] - 1 /\ at[k] - 1 # 1
      BY <1>1, <2>1, <2>3
    <3>2. at2[k] = at[k] - 1
      BY <2>1, <2>3
    <3> QED
      BY <1>1, <3>1, <3>2
  <2> QED
    BY <2>2, <2>3
<1>6. at2 \in [D -> DOMAIN u] /\ DOMAIN at2 = D
  BY <1>5
<1> HIDE DEF at2
<1>7. ASSUME NEW j \in D, NEW k \in D, j < k
      PROVE  at2[j] < at2[k]
  <2>1. at[j] < at[k]
    BY <1>2, <1>3, <1>7 DEF InPlace
  <2> QED
    BY <1>3, <1>4, <1>5, <2>1
<1>8. ASSUME NEW p \in DOMAIN u, NEW n \in {p, p + 1}, NEW k \in D,
             at[k] = IF p < i THEN n ELSE n + 1
      PROVE  at2[k] = n
  BY <1>1, <1>4, <1>5, <1>8
<1>9. ASSUME NEW p \in DOMAIN u
      PROVE  /\ u[p].kind = "BODY" => \E k \in D : at2[k] = p
             /\ u[p].kind = "CMT" => \E k \in D : at2[k] = p + 1
  <2> DEFINE q == IF p < i THEN p ELSE p + 1
  <2>1. q \in DOMAIN s /\ u[p] = s[q] /\ q + 1 = IF p < i THEN p + 1 ELSE (p + 1) + 1
    BY <1>1
  <2>2. /\ u[p].kind = "BODY" => \E k \in D : at[k] = q
        /\ u[p].kind = "CMT" => \E k \in D : at[k] = q + 1
    BY <1>2, <1>3, <2>1 DEF InPlace
  <2> QED
    BY <1>8, <2>1, <2>2
<1>10. InPlace(at2, u, NoId, sms)
  BY <1>4, <1>5, <1>6, <1>7, <1>9 DEF InPlace
<1> QED
  BY <1>6, <1>10 DEF Carried, u, D

\* The header of an SMS is taken: its text is the next line.
LEMMA HeaderTaken ==
  ASSUME NEW S, NEW s \in Seq(S), 1 \in 1..Len(s), s[1].kind = "CMT",
         NEW sms, NEW from \in Nat, NEW to \in Int, \A k \in from..to : sms[k] # NoId,
         Carried(s, NoId, sms, from, to)
  PROVE  s[1].id # NoId /\ Carried(RemoveAt(s, 1), s[1].id, sms, from, to)
<1> DEFINE D == from..to
           u == RemoveAt(s, 1)
<1>1. Len(s) \in Nat /\ DOMAIN s = 1..Len(s) /\ DOMAIN u = 1..(Len(s) - 1)
      /\ \A j \in 1..(Len(s) - 1) : u[j] = s[j + 1]
  <2>1. \A j \in 1..(Len(s) - 1) : u[j] = IF j < 1 THEN s[j] ELSE s[j + 1]
    BY ErasedIndex
  <2>2. Len(s) \in Nat /\ DOMAIN s = 1..Len(s) /\ DOMAIN u = 1..(Len(s) - 1)
    BY ErasedIndex, LenProperties
  <2> HIDE DEF u
  <2> QED
    BY <2>1, <2>2
<1>2. PICK at \in [D -> DOMAIN s] : InPlace(at, s, NoId, sms)
  BY DEF Carried
<1> HIDE DEF u, D
<1>3. DOMAIN at = D /\ \A k \in D : at[k] \in 1..Len(s)
  BY <1>1, <1>2
<1>4. ASSUME NEW k \in D
      PROVE  s[at[k]] = Text(sms[k]) /\ at[k] # 1 /\ s[at[k] - 1] = Header(sms[k])
  BY <1>2, <1>3 DEF InPlace, D
<1>5. PICK first \in D : at[first] = 1 + 1
  BY <1>1, <1>2, <1>3 DEF InPlace
<1>6. s[1] = Header(sms[first]) /\ s[1].id = sms[first] /\ s[1].id # NoId
  <2>1. at[first] - 1 = 1
    BY <1>5
  <2> QED
    BY <1>4, <2>1 DEF Header, D
<1> DEFINE at2 == [k \in D |-> at[k] - 1]
<1>7. ASSUME NEW k \in D
      PROVE  /\ at2[k] = at[k] - 1 /\ at2[k] \in DOMAIN u /\ u[at2[k]] = s[at[k]]
             /\ at2[k] # 1 => u[at2[k] - 1] = s[at[k] - 1]
             /\ at2[k] = 1 => at[k] - 1 = 1
  <2>1. at[k] \in 1..Len(s) /\ at[k] # 1 /\ at2[k] = at[k] - 1
    BY <1>3, <1>4
  <2> HIDE DEF at2
  <2>2. at[k] - 1 \in 1..(Len(s) - 1) /\ (at[k] - 1) + 1 = at[k]
    BY <1>1, <2>1
  <2>3. ASSUME at[k] - 1 # 1
        PROVE  (at[k] - 1) - 1 \in 1..(Len(s) - 1) /\ ((at[k] - 1) - 1) + 1 = at[k] - 1
    BY <1>1, <2>1, <2>3
  <2> QED
    BY <1>1, <2>1, <2>2, <2>3
<1>8. at2 \in [D -> DOMAIN u] /\ DOMAIN at2 = D
  BY <1>7
<1> HIDE DEF at2
<1>9. ASSUME NEW j \in D, NEW k \in D, j < k
      PROVE  at2[j] < at2[k]
  <2>1. at[j] < at[k]
    BY <1>2, <1>3, <1>9 DEF InPlace
  <2> QED
    BY <1>3, <1>7, <2>1
<1>10. ASSUME NEW k \in D
       PROVE  IF at2[k] = 1 THEN s[1].id = sms[k] ELSE u[at2[k] - 1] = Header(sms[k])
  BY <1>4, <1>7 DEF Header
<1>11. ASSUME NEW p \in DOMAIN u
       PROVE  /\ u[p].kind = "BODY" => \E k \in D : at2[k] = p
              /\ u[p].kind = "CMT" => \E k \in D : at2[k] = p + 1
  <2>1. p + 1 \in DOMAIN s /\ u[p] = s[p + 1]
    BY <1>1
  <2>2. /\ u[p].kind = "BODY" => \E k \in D : at[k] = p + 1
        /\ u[p].kind = "CMT" => \E k \in D : at[k] = (p + 1) + 1
    BY <1>2, <1>3, <2>1 DEF InPlace
  <2>3. ASSUME NEW k \in D, NEW n \in {p, p + 1}, at[k] = n + 1
        PROVE  at2[k] = n
    BY <1>1, <1>7, <2>3
  <2>4. ASSUME NEW k \in D, at[k] = p + 1 PROVE at2[k] = p
    BY <2>3, <2>4
  <2>5. ASSUME NEW k \in D, at[k] = (p + 1) + 1 PROVE at2[k] = p + 1
    BY <2>3, <2>5
  <2> QED
    BY <2>1, <2>2, <2>4, <2>5
<1>12. at2[first] = 1
  BY <1>5, <1>7
<1>13. InPlace(at2, u, s[1].id, sms)
  BY <1>4, <1>7, <1>8, <1>9, <1>10, <1>11, <1>12 DEF InPlace
<1> QED
  BY <1>6, <1>8, <1>13 DEF Carried, u, D

\* The text of an SMS is taken: it is that of the oldest one.
LEMMA TextTaken ==
  ASSUME NEW S, NEW s \in Seq(S), NEW taken, taken # NoId,
         NEW sms, NEW from \in Nat, NEW to \in Int, \A k \in from..to : sms[k] # NoId,
         Carried(s, taken, sms, from, to)
  PROVE  /\ 1 \in 1..Len(s) /\ from <= to
         /\ taken = sms[from] /\ s[1] = Text(sms[from])
         /\ Carried(RemoveAt(s, 1), NoId, sms, from + 1, to)
<1> DEFINE D == from..to
           E == (from + 1)..to
           u == RemoveAt(s, 1)
<1>1. PICK at \in [D -> DOMAIN s] : InPlace(at, s, taken, sms)
  BY DEF Carried
<1>2. Len(s) \in Nat /\ DOMAIN s = 1..Len(s)
  BY LenProperties
<1>3. DOMAIN at = D /\ \A k \in D : at[k] \in 1..Len(s)
  BY <1>1, <1>2
<1>4. PICK first \in D : at[first] = 1
  BY <1>1, <1>3 DEF InPlace
<1>5. from \in D /\ from <= to /\ 1 \in 1..Len(s) /\ (first = from \/ from < first)
  BY <1>2, <1>3, <1>4
<1>6. first = from
  <2>1. from < first => at[from] < at[first]
    BY <1>1, <1>3, <1>5 DEF InPlace
  <2> QED
    BY <1>3, <1>4, <1>5, <2>1
<1>7. taken = sms[from] /\ s[1] = Text(sms[from])
  BY <1>1, <1>3, <1>4, <1>6 DEF InPlace
<1>8. /\ DOMAIN u = 1..(Len(s) - 1) /\ \A j \in 1..(Len(s) - 1) : u[j] = s[j + 1]
  <2>1. \A j \in 1..(Len(s) - 1) : u[j] = IF j < 1 THEN s[j] ELSE s[j + 1]
    BY <1>5, ErasedIndex
  <2>2. DOMAIN u = 1..(Len(s) - 1)
    BY <1>5, ErasedIndex
  <2> HIDE DEF u
  <2> QED
    BY SMTT(30), <1>2, <2>1, <2>2
<1>9. /\ \A k \in E : k \in D /\ from < k
      /\ \A k \in D : k = from \/ k \in E
  OBVIOUS
<1> HIDE DEF u, D, E
<1>10. ASSUME NEW k \in E
       PROVE  at[k] # 1 /\ s[at[k]] = Text(sms[k]) /\ s[at[k] - 1] = Header(sms[k])
              /\ at[k] - 1 # 1
  <2>1. at[from] < at[k]
    BY <1>1, <1>3, <1>5, <1>9 DEF InPlace
  <2>2. at[k] # 1
    BY <1>3, <1>4, <1>6, <1>9, <2>1
  <2>3. s[at[k]] = Text(sms[k]) /\ s[at[k] - 1] = Header(sms[k])
    BY <1>1, <1>3, <1>9, <2>2 DEF InPlace
  <2>4. at[k] - 1 # 1
    BY <1>7, <2>3 DEF Text, Header
  <2> QED
    BY <2>2, <2>3, <2>4
<1> DEFINE at2 == [k \in E |-> at[k] - 1]
<1>11. ASSUME NEW k \in E
       PROVE  /\ at2[k] = at[k] - 1 /\ at2[k] \in DOMAIN u /\ at2[k] # 1
              /\ u[at2[k]] = s[at[k]] /\ u[at2[k] - 1] = s[at[k] - 1]
  <2>1. at[k] \in 1..Len(s) /\ at[k] # 1 /\ at[k] - 1 # 1 /\ at2[k] = at[k] - 1
    BY <1>3, <1>9, <1>10
  <2> HIDE DEF at2
  <2>2. /\ at[k] - 1 \in 1..(Len(s) - 1) /\ (at[k] - 1) + 1 = at[k]
        /\ (at[k] - 1) - 1 \in 1..(Len(s) - 1) /\ ((at[k] - 1) - 1) + 1 = at[k] - 1
    BY <1>2, <2>1
  <2> QED
    BY <1>8, <2>1, <2>2
<1>12. at2 \in [E -> DOMAIN u] /\ DOMAIN at2 = E
  BY <1>11
<1> HIDE DEF at2
<1>13. ASSUME NEW j \in E, NEW k \in E, j < k
       PROVE  at2[j] < at2[k]
  <2>1. at[j] < at[k]
    BY <1>1, <1>3, <1>9, <1>13 DEF InPlace
  <2> QED
    BY <1>3, <1>9, <1>11, <2>1
<1>14. ASSUME NEW p \in DOMAIN u
       PROVE  /\ u[p].kind = "BODY" => \E k \in E : at2[k] = p
              /\ u[p].kind = "CMT" => \E k \in E : at2[k] = p + 1
  <2>1. p + 1 \in DOMAIN s /\ u[p] = s[p + 1] /\ p + 1 # 1 /\ (p + 1) + 1 # 1
    BY <1>2, <1>8
  <2>2. /\ u[p].kind = "BODY" => \E k \in D : at[k] = p + 1
        /\ u[p].kind = "CMT" => \E k \in D : at[k] = (p + 1) + 1
    BY <1>1, <1>3, <2>1 DEF InPlace
  <2>3. /\ u[p].kind = "BODY" => \E k \in E : at[k] = p + 1
        /\ u[p].kind = "CMT" => \E k \in E : at[k] = (p + 1) + 1
    BY <1>4, <1>6, <1>9, <2>1, <2>2
  <2> QED
    BY <1>2, <1>8, <1>11, <2>3
<1>15. InPlace(at2, u, NoId, sms)
  BY <1>10, <1>11, <1>12, <1>13, <1>14 DEF InPlace
<1> QED
  BY <1>5, <1>7, <1>12, <1>15 DEF Carried, u, E

\* A line that is no part of an SMS is written behind them.
LEMMA OthersWritten ==
  ASSUME NEW S, NEW s \in Seq(S), NEW t \in Seq(S),
         \A i \in DOMAIN t : t[i].kind \notin {"CMT", "BODY"},
         NEW taken, NEW sms, NEW from \in Nat, NEW to \in Int, Carried(s, taken, sms, from, to)
  PROVE  Carried(s \o t, taken, sms, from, to)
<1> DEFINE D == from..to
           u == s \o t
<1>1. PICK at \in [D -> DOMAIN s] : InPlace(at, s, taken, sms)
  BY DEF Carried
<1>2. /\ Len(s) \in Nat /\ Len(t) \in Nat /\ DOMAIN s = 1..Len(s) /\ DOMAIN t = 1..Len(t)
      /\ DOMAIN u = 1..(Len(s) + Len(t))
      /\ \A i \in 1..(Len(s) + Len(t)) : u[i] = IF i <= Len(s) THEN s[i] ELSE t[i - Len(s)]
  BY ConcatProperties, LenProperties
<1>3. DOMAIN at = D /\ \A k \in D : at[k] \in 1..Len(s)
  BY <1>1, <1>2
<1> HIDE DEF u, D
<1>4. \A i \in 1..Len(s) : i \in DOMAIN u /\ u[i] = s[i]
  BY <1>2
<1>5. ASSUME NEW p \in DOMAIN u, u[p].kind \in {"CMT", "BODY"}
      PROVE  p \in DOMAIN s
  <2>1. CASE p <= Len(s)
    BY <1>2, <2>1
  <2>2. CASE ~(p <= Len(s))
    <3>1. p - Len(s) \in DOMAIN t /\ u[p] = t[p - Len(s)]
      BY <1>2, <2>2
    <3> QED
      BY <1>5, <3>1
  <2> QED
    BY <2>1, <2>2
<1>6. at \in [D -> DOMAIN u]
  BY <1>1, <1>2, <1>3
<1>7. ASSUME NEW k \in D
      PROVE  /\ u[at[k]] = Text(sms[k])
             /\ IF at[k] = 1 THEN taken = sms[k] ELSE u[at[k] - 1] = Header(sms[k])
  <2>1. /\ s[at[k]] = Text(sms[k]) /\ at[k] \in 1..Len(s) /\ u[at[k]] = s[at[k]]
        /\ IF at[k] = 1 THEN taken = sms[k] ELSE s[at[k] - 1] = Header(sms[k])
    BY <1>1, <1>3, <1>4 DEF InPlace
  <2>2. ASSUME at[k] # 1 PROVE u[at[k] - 1] = s[at[k] - 1]
    <3>1. at[k] - 1 \in 1..Len(s)
      BY <1>2, <2>1, <2>2
    <3> QED
      BY <1>4, <3>1
  <2> QED
    BY <2>1, <2>2
<1>8. ASSUME NEW p \in DOMAIN u
      PROVE  /\ u[p].kind = "BODY" => \E k \in D : at[k] = p
             /\ u[p].kind = "CMT" => \E k \in D : at[k] = p + 1
  <2>1. CASE u[p].kind \in {"CMT", "BODY"}
    BY <1>1, <1>2, <1>3, <1>4, <1>5, <2>1 DEF InPlace
  <2> QED
    BY <2>1
<1>9. /\ \A j, k \in DOMAIN at : j < k => at[j] < at[k]
      /\ taken # NoId => \E k \in DOMAIN at : at[k] = 1
  BY <1>1 DEF InPlace
<1>10. InPlace(at, u, taken, sms)
  BY <1>3, <1>7, <1>8, <1>9 DEF InPlace
<1> QED
  BY <1>6, <1>10 DEF Carried, u, D

\* The two lines of the next SMS are written behind the others.
LEMMA SmsWritten ==
  ASSUME NEW S, NEW s \in Seq(S), NEW m, Header(m) \in S, Text(m) \in S,
         NEW taken, NEW sms, NEW from \in Nat, NEW to \in Int, from <= to + 1, sms[to + 1] = m,
         Carried(s, taken, sms, from, to)
  PROVE  Carried(s \o <<Header(m), Text(m)>>, taken, sms, from, to + 1)
<1> DEFINE D == from..to
           E == from..(to + 1)
           t == <<Header(m), Text(m)>>
           u == s \o t
           n == Len(s)
<1>1. PICK at \in [D -> DOMAIN s] : InPlace(at, s, taken, sms)
  BY DEF Carried
<1>2. t \in Seq(S) /\ Len(t) = 2 /\ t[1] = Header(m) /\ t[2] = Text(m)
  OBVIOUS
<1> HIDE DEF t
<1>3. /\ n \in Nat /\ DOMAIN s = 1..n /\ DOMAIN u = 1..(n + 2)
      /\ \A i \in 1..(n + 2) : u[i] = IF i <= n THEN s[i] ELSE t[i - n]
  <2>1. t \in Seq(S)
    BY <1>2
  <2>2. /\ u \in Seq(S) /\ Len(u) = n + Len(t)
        /\ \A i \in 1..(n + Len(t)) : u[i] = IF i <= n THEN s[i] ELSE t[i - n]
    BY <2>1, ConcatProperties
  <2>3. n \in Nat /\ DOMAIN s = 1..n /\ DOMAIN u = 1..Len(u)
    BY <2>2, LenProperties
  <2> HIDE DEF u, n
  <2> QED
    BY <1>2, <2>2, <2>3
<1>4. DOMAIN at = D /\ \A k \in D : at[k] \in 1..n
  BY <1>1, <1>3
<1>5. /\ to + 1 \in E /\ to + 1 \notin D
      /\ \A k \in E : k \in D \/ k = to + 1
      /\ \A k \in D : k \in E /\ k < to + 1
      /\ \A k \in E : k <= to + 1
  OBVIOUS
<1> HIDE DEF u, n, D, E
<1>6. \A i \in 1..n : i \in DOMAIN u /\ u[i] = s[i]
  BY <1>3
<1>7. u[n + 1] = Header(m) /\ u[n + 2] = Text(m) /\ n + 2 \in DOMAIN u
  <2>1. /\ n + 1 \in 1..(n + 2) /\ ~(n + 1 <= n) /\ (n + 1) - n = 1
        /\ n + 2 \in 1..(n + 2) /\ ~(n + 2 <= n) /\ (n + 2) - n = 2
    BY <1>3
  <2> QED
    BY <1>2, <1>3, <2>1
<1>8. \A p \in DOMAIN u : p \in 1..n \/ p = n + 1 \/ p = n + 2
  BY <1>3
<1> DEFINE at2 == [k \in E |-> IF k = to + 1 THEN n + 2 ELSE at[k]]
<1>9. at2[to + 1] = n + 2 /\ \A k \in D : at2[k] = at[k]
  BY <1>5
<1>10. at2 \in [E -> DOMAIN u] /\ DOMAIN at2 = E
  BY <1>3, <1>4, <1>5, <1>7
<1> HIDE DEF at2
<1>11. ASSUME NEW j \in E, NEW k \in E, j < k
       PROVE  at2[j] < at2[k]
  <2>1. CASE j \in D /\ k \in D
    BY <1>1, <1>4, <1>9, <1>11, <2>1 DEF InPlace
  <2>2. CASE j \in D /\ k = to + 1
    <3>1. at[j] \in 1..n /\ at2[j] = at[j] /\ at2[k] = n + 2
      BY <1>4, <1>9, <2>2
    <3> QED
      BY <1>3, <3>1
  <2>3. CASE j = to + 1
    <3>1. k <= to + 1 /\ k \in Int
      BY <1>5 DEF E
    <3> QED
      BY <1>11, <2>3, <3>1
  <2> QED
    BY <1>5, <2>1, <2>2, <2>3
<1>12. ASSUME NEW k \in E
       PROVE  /\ u[at2[k]] = Text(sms[k])
              /\ IF at2[k] = 1 THEN taken = sms[k] ELSE u[at2[k] - 1] = Header(sms[k])
  <2>1. CASE k = to + 1
    <3>1. n + 2 # 1 /\ (n + 2) - 1 = n + 1
      BY <1>3
    <3> QED
      BY <1>7, <1>9, <2>1, <3>1
  <2>2. CASE k \in D
    <3>1. /\ s[at[k]] = Text(sms[k]) /\ at[k] \in 1..n /\ u[at[k]] = s[at[k]]
          /\ IF at[k] = 1 THEN taken = sms[k] ELSE s[at[k] - 1] = Header(sms[k])
          /\ at2[k] = at[k]
      BY <1>1, <1>4, <1>6, <1>9, <2>2 DEF InPlace
    <3>2. ASSUME at[k] # 1 PROVE u[at[k] - 1] = s[at[k] - 1]
      <4>1. at[k] - 1 \in 1..n
        BY <1>3, <3>1, <3>2
      <4> QED
        BY <1>6, <4>1
    <3> QED
      BY <3>1, <3>2
  <2> QED
    BY <1>5, <2>1, <2>2
<1>13. ASSUME NEW p \in DOMAIN u
       PROVE  /\ u[p].kind = "BODY" => \E k \in E : at2[k] = p
              /\ u[p].kind = "CMT" => \E k \in E : at2[k] = p + 1
  <2>1. CASE p \in 1..n
    <3>1. /\ s[p].kind = "BODY" => \E k \in D : at[k] = p
          /\ s[p].kind = "CMT" => \E k \in D : at[k] = p + 1
      BY <1>1, <1>3, <1>4, <2>1 DEF InPlace
    <3> QED
      BY <1>5, <1>6, <1>9, <2>1, <3>1
  <2>2. CASE p = n + 1
    <3>1. u[p].kind = "CMT" /\ p + 1 = n + 2
      BY <1>3, <1>7, <2>2 DEF Header
    <3> QED
      BY <1>5, <1>9, <3>1
  <2>3. CASE p = n + 2
    <3>1. u[p].kind = "BODY"
      BY <1>7, <2>3 DEF Text
    <3> QED
      BY <1>5, <1>9, <2>3, <3>1
  <2> QED
    BY <1>8, <2>1, <2>2, <2>3
<1>14. taken # NoId => \E k \in E : at2[k] = 1
  <2>1. taken # NoId => \E k \in D : at[k] = 1
    BY <1>1, <1>4 DEF InPlace
  <2> QED
    BY <1>5, <1>9, <2>1
<1>15. InPlace(at2, u, taken, sms)
  BY <1>10, <1>11, <1>12, <1>13, <1>14 DEF InPlace
<1> QED
  BY <1>10, <1>15 DEF Carried, u, t, E

\* More SMS messages arrive behind those on the line.
LEMMA SameSms ==
  ASSUME NEW s, NEW taken, NEW sms, NEW sms2, NEW from, NEW to,
         \A k \in from..to : sms2[k] = sms[k], Carried(s, taken, sms, from, to)
  PROVE  Carried(s, taken, sms2, from, to)
<1> DEFINE D == from..to
<1>1. PICK at \in [D -> DOMAIN s] : InPlace(at, s, taken, sms)
  BY DEF Carried
<1>2. \A k \in DOMAIN at : sms2[k] = sms[k]
  BY <1>1
<1>3. InPlace(at, s, taken, sms2)
  BY <1>1, <1>2 DEF InPlace
<1> QED
  BY <1>3 DEF Carried

\* What is taken out of the first part of the line is taken out of the line.
LEMMA TakenFromLine ==
  ASSUME NEW S, NEW a \in Seq(S), NEW b \in Seq(S), NEW i \in 1..Len(a)
  PROVE  /\ RemoveAt(a, i) \o b = RemoveAt(a \o b, i)
         /\ a \o b \in Seq(S) /\ i \in 1..Len(a \o b) /\ (a \o b)[i] = a[i]
<1> DEFINE c == a \o b
           l == RemoveAt(a, i)
           d == l \o b
           e == RemoveAt(c, i)
           n == Len(a)
           m == Len(b)
<1>1. n \in Nat /\ m \in Nat
  BY LenProperties
<1>2. /\ c \in Seq(S) /\ Len(c) = n + m
      /\ \A j \in 1..(n + m) : c[j] = IF j <= n THEN a[j] ELSE b[j - n]
  BY ConcatProperties
<1>3. l \in Seq(S) /\ Len(l) = n - 1 /\ \A j \in 1..(n - 1) : l[j] = IF j < i THEN a[j] ELSE a[j + 1]
  BY ErasedIndex
<1> HIDE DEF c, l
<1>4. /\ d \in Seq(S) /\ Len(d) = Len(l) + m
      /\ \A j \in 1..(Len(l) + m) : d[j] = IF j <= Len(l) THEN l[j] ELSE b[j - Len(l)]
  BY <1>3, ConcatProperties
<1>5. i \in 1..Len(c) /\ c[i] = a[i]
  BY <1>1, <1>2
<1>6. /\ e \in Seq(S) /\ Len(e) = Len(c) - 1
      /\ \A j \in 1..(Len(c) - 1) : e[j] = IF j < i THEN c[j] ELSE c[j + 1]
  BY <1>2, <1>5, ErasedIndex
<1> HIDE DEF d, e, n, m
<1>7. i \in 1..n /\ Len(d) = n + m - 1 /\ Len(e) = n + m - 1
  BY <1>1, <1>2, <1>3, <1>4, <1>6 DEF n
<1>8. ASSUME NEW j \in 1..(n + m - 1)
      PROVE  d[j] = e[j]
  <2>1. CASE j < i
    <3>1. j \in 1..(n - 1) /\ j <= n /\ j <= n - 1 /\ j \in 1..(n + m)
      BY <1>1, <1>7, <2>1
    <3>2. d[j] = a[j]
      BY <1>3, <1>4, <1>7, <2>1, <3>1
    <3>3. e[j] = a[j]
      BY <1>2, <1>6, <1>7, <2>1, <3>1
    <3> QED
      BY <3>2, <3>3
  <2>2. CASE ~(j < i) /\ j <= n - 1
    <3>1. j \in 1..(n - 1) /\ j + 1 <= n /\ j + 1 \in 1..(n + m)
      BY <1>1, <1>7, <2>2
    <3>2. d[j] = a[j + 1]
      BY <1>3, <1>4, <1>7, <2>2, <3>1
    <3>3. e[j] = a[j + 1]
      BY <1>2, <1>6, <1>7, <2>2, <3>1
    <3> QED
      BY <3>2, <3>3
  <2>3. CASE ~(j <= n - 1)
    <3>1. ~(j < i) /\ ~(j + 1 <= n) /\ j + 1 \in 1..(n + m) /\ j - (n - 1) = (j + 1) - n
      BY <1>1, <1>7, <2>3
    <3>2. d[j] = b[j - (n - 1)]
      BY <1>3, <1>4, <1>7, <2>3
    <3>3. e[j] = b[(j + 1) - n]
      BY <1>2, <1>6, <1>7, <3>1
    <3> QED
      BY <3>1, <3>2, <3>3
  <2> QED
    BY <2>1, <2>2, <2>3
<1>9. d = e
  BY <1>4, <1>6, <1>7, <1>8, SeqEqual
<1> QED
  BY <1>2, <1>5, <1>9 DEF c, d, e, l

\* What moves from the head of one sequence to the end of the other stays where
\* it was in both together.
LEMMA HandedOn ==
  ASSUME NEW S, NEW a \in Seq(S), NEW b \in Seq(S), b # <<>>
  PROVE  Append(a, Head(b)) \o Tail(b) = a \o b
<1> DEFINE m == <<Head(b)>>
           t == Tail(b)
<1>1. Head(b) \in S /\ t \in Seq(S)
  BY EndsType
<1>2. b = m \o t
  <2>1. Len(b) \in Nat \ {0}
    BY EndsType
  <2>2. /\ m \in Seq(S) /\ Len(m) = 1 /\ m[1] = b[1] /\ Len(t) = Len(b) - 1
        /\ \A i \in 1..(Len(b) - 1) : t[i] = b[i + 1]
    BY <1>1, HeadTailProperties
  <2> HIDE DEF m, t
  <2> DEFINE c == m \o t
  <2>3. /\ c \in Seq(S) /\ Len(c) = Len(b)
        /\ \A i \in 1..Len(b) : c[i] = IF i <= 1 THEN m[i] ELSE t[i - 1]
    <3>1. /\ c \in Seq(S) /\ Len(c) = Len(m) + Len(t)
          /\ \A i \in 1..(Len(m) + Len(t)) : c[i] = IF i <= Len(m) THEN m[i] ELSE t[i - Len(m)]
      <4>1. m \in Seq(S) /\ t \in Seq(S)
        BY <1>1, <2>2
      <4> QED
        BY <4>1, ConcatProperties
    <3>2. Len(m) + Len(t) = Len(b)
      BY <2>1, <2>2
    <3> HIDE DEF c
    <3> QED
      BY <2>2, <3>1, <3>2
  <2> HIDE DEF c
  <2>4. ASSUME NEW i \in 1..Len(b) PROVE c[i] = b[i]
    <3>1. CASE i = 1
      BY <2>1, <2>2, <2>3, <3>1
    <3>2. CASE i # 1
      <4>1. ~(i <= 1) /\ i - 1 \in 1..(Len(b) - 1) /\ (i - 1) + 1 = i
        BY <2>1, <3>2
      <4> QED
        BY <2>2, <2>3, <4>1
    <3> QED
      BY <3>1, <3>2
  <2>5. b = c
    BY <2>3, <2>4, SeqEqual
  <2> QED
    BY <2>5 DEF c
<1>3. Append(a, Head(b)) = a \o m
  BY <1>1, AppendIsConcat
<1>4. m \in Seq(S)
  BY <1>1
<1> HIDE DEF m, t
<1>5. (a \o m) \o t = a \o (m \o t)
  BY <1>1, <1>4, ConcatAssociative
<1> QED
  BY <1>2, <1>3, <1>5 DEF t

-----------------------------------------------------------------------------
(* SMS messages on their way *)

\* The line between the modem and the engine, and the part of it that is an SMS.
LEMMA TheLine ==
  ASSUME EngineTypeOK, Len(Delivered) <= Written
  PROVE  /\ receivedCommands \in Seq(Message) /\ wire \in Seq(Message)
         /\ receivedCommands \o wire \in Seq(Message)
         /\ Delivered \in Seq([number : InSms \cup InCalls \cup {NoId}, msg : Message])
         /\ Len(Delivered) \in Nat /\ Len(arrived) \in Nat /\ Written \in Int
         /\ Written <= Len(arrived)
         /\ \A k \in (Len(Delivered) + 1)..Written : arrived[k] # NoId
<1>1. receivedCommands \in Seq(Message) /\ wire \in Seq(Message) /\ arrived \in Seq(InSms)
      /\ receivedSmses \in Seq([number : InSms \cup InCalls \cup {NoId}, msg : Message])
      /\ fetched \in Seq([number : InSms \cup InCalls \cup {NoId}, msg : Message])
  BY DEF EngineTypeOK, TypeOK
<1>2. receivedCommands \o wire \in Seq(Message)
  BY <1>1, ConcatProperties
<1>3. Delivered \in Seq([number : InSms \cup InCalls \cup {NoId}, msg : Message])
  BY <1>1, ConcatProperties DEF Delivered
<1>4. Len(Delivered) \in Nat /\ Len(arrived) \in Nat
  BY <1>1, <1>3, LenProperties
<1>5. Written \in Int /\ Written <= Len(arrived)
  BY <1>4 DEF Written
<1>6. ASSUME NEW k \in (Len(Delivered) + 1)..Written
      PROVE  arrived[k] # NoId
  <2>1. k \in 1..Len(arrived)
    BY <1>4, <1>5
  <2>2. arrived[k] \in InSms
    BY <1>1, <2>1, ElementOfSeq
  <2> QED
    BY <2>2, SchedulerAssumption
<1> QED
  BY <1>1, <1>2, <1>3, <1>4, <1>5, <1>6

\* A step of the engine that delivers nothing.
LEMMA NothingDelivered ==
  ASSUME SmsOnTheWay, UNCHANGED <<console, reply, arrived, Delivered>>,
         smsHeader' # NoId <=> pc' = "smsText",
         pc' = "smsText" /\ waiting' /\ ~isNewMsgFromAt' => receivedCommands' = <<>>,
         pc' # "exited" => Carried(receivedCommands' \o wire', smsHeader', arrived,
                                   Len(Delivered) + 1, Written)
  PROVE  SmsOnTheWay'
<1>1. Written' = Written /\ ConsoleInv'
  BY DEF Written, SmsOnTheWay, ConsoleInv
<1> QED
  BY <1>1 DEF SmsOnTheWay

\* A step that has nothing to do with the line.
LEMMA LineUntouched ==
  ASSUME SmsOnTheWay,
         UNCHANGED <<receivedCommands, wire, smsHeader, console, reply, arrived, Delivered>>,
         pc = "exited" => pc' = "exited", pc' = "smsText" <=> pc = "smsText",
         pc = "smsText" => UNCHANGED <<waiting, isNewMsgFromAt>> \/ receivedCommands = <<>>
  PROVE  SmsOnTheWay'
<1>1. smsHeader' # NoId <=> pc' = "smsText"
  BY DEF SmsOnTheWay
<1>2. pc' = "smsText" /\ waiting' /\ ~isNewMsgFromAt' => receivedCommands' = <<>>
  BY DEF SmsOnTheWay
<1>3. pc' # "exited" => Carried(receivedCommands' \o wire', smsHeader', arrived,
                                Len(Delivered) + 1, Written)
  BY DEF SmsOnTheWay
<1> QED
  BY <1>1, <1>2, <1>3, NothingDelivered

\* What the engine takes from its queue it takes from the line.
LEMMA EngineTakes ==
  ASSUME receivedCommands \in Seq(Message), wire \in Seq(Message),
         NEW i \in 1..Len(receivedCommands),
         receivedCommands' = RemoveAt(receivedCommands, i), wire' = wire
  PROVE  /\ receivedCommands' \o wire' = RemoveAt(receivedCommands \o wire, i)
         /\ i \in 1..Len(receivedCommands \o wire)
         /\ (receivedCommands \o wire)[i] = receivedCommands[i]
<1>1. RemoveAt(receivedCommands, i) \o wire = RemoveAt(receivedCommands \o wire, i)
  BY TakenFromLine
<1>2. /\ i \in 1..Len(receivedCommands \o wire)
      /\ (receivedCommands \o wire)[i] = receivedCommands[i]
  BY TakenFromLine
<1> QED
  BY <1>1, <1>2

\* The engine takes a line that belongs to no SMS.
LEMMA OtherErased ==
  ASSUME EngineTypeOK, SmsOnTheWay, NEW i \in 1..Len(receivedCommands),
         receivedCommands[i].kind \notin {"CMT", "BODY"},
         receivedCommands' = RemoveAt(receivedCommands, i),
         UNCHANGED <<wire, smsHeader, console, reply, arrived, Delivered>>,
         pc \notin {"smsText", "exited"}, pc' # "smsText"
  PROVE  SmsOnTheWay'
<1>1. smsHeader = NoId
  BY DEF SmsOnTheWay
<1>2. Carried(receivedCommands \o wire, NoId, arrived, Len(Delivered) + 1, Written)
  BY <1>1 DEF SmsOnTheWay
<1> DEFINE line == receivedCommands \o wire
<1>3. Len(Delivered) <= Written
  BY DEF SmsOnTheWay
<1>4. /\ line \in Seq(Message) /\ Len(Delivered) + 1 \in Nat /\ Written \in Int
      /\ receivedCommands \in Seq(Message) /\ wire \in Seq(Message)
      /\ \A k \in (Len(Delivered) + 1)..Written : arrived[k] # NoId
  BY <1>3, TheLine
<1>5. /\ receivedCommands' \o wire' = RemoveAt(line, i)
      /\ i \in 1..Len(line) /\ line[i].kind \notin {"CMT", "BODY"}
  BY <1>4, EngineTakes
<1> HIDE DEF line
<1>6. Carried(RemoveAt(line, i), NoId, arrived, Len(Delivered) + 1, Written)
  BY <1>2, <1>4, <1>5, OtherTaken DEF line
<1> QED
  BY <1>1, <1>5, <1>6, NothingDelivered

\* Draining the queue: a header starts an SMS, and no text is there without one.
LEMMA DrainStep ==
  ASSUME EngineTypeOK, IInv, SmsOnTheWay, Drain,
         UNCHANGED <<wire, console, reply, arrived, fetched>>
  PROVE  SmsOnTheWay'
<1>1. /\ UNCHANGED <<waiting, isNewMsgFromAt, receivedSmses>> /\ Delivered' = Delivered
      /\ pc = "drain" /\ smsHeader = NoId /\ ~waiting
  BY DEF Drain, Delivered, SmsOnTheWay, IInv, ThreadInv
<1>2. CASE receivedCommands = <<>> /\ pc' = "configCheck"
           /\ UNCHANGED <<receivedCommands, smsHeader>>
  BY <1>1, <1>2, LineUntouched
<1>3. CASE /\ receivedCommands # <<>> /\ receivedCommands' = Tail(receivedCommands)
           /\ LET m == Head(receivedCommands) IN
              SmsProcessing(m) \/ CallingProcessing(m) \/ Skipped(m)
  <2> DEFINE m == receivedCommands[1]
             line == receivedCommands \o wire
  <2>0. Len(Delivered) <= Written
    BY DEF SmsOnTheWay
  <2>1. /\ line \in Seq(Message) /\ Len(Delivered) + 1 \in Nat /\ Written \in Int
        /\ receivedCommands \in Seq(Message) /\ wire \in Seq(Message)
        /\ \A k \in (Len(Delivered) + 1)..Written : arrived[k] # NoId
    BY <2>0, TheLine
  <2>2. /\ receivedCommands' = RemoveAt(receivedCommands, 1) /\ 1 \in 1..Len(receivedCommands)
        /\ Head(receivedCommands) = m
    BY <1>3, <2>1, EndsAreErased
  <2>3. /\ receivedCommands' \o wire' = RemoveAt(line, 1) /\ 1 \in 1..Len(line) /\ line[1] = m
    BY <2>1, <2>2, EngineTakes
  <2>4. Carried(line, NoId, arrived, Len(Delivered) + 1, Written)
    BY <1>1 DEF SmsOnTheWay
  <2>5. SmsProcessing(m) \/ CallingProcessing(m) \/ Skipped(m)
    BY <1>3, <2>2
  <2> HIDE DEF line, m
  <2>6. CASE SmsProcessing(m)
    <3>1. m.kind = "CMT" /\ smsHeader' = m.id /\ pc' = "smsText"
      BY <2>6 DEF SmsProcessing
    <3>2. m.id # NoId /\ Carried(RemoveAt(line, 1), m.id, arrived, Len(Delivered) + 1, Written)
      BY <2>1, <2>3, <2>4, <3>1, HeaderTaken
    <3>3. ~waiting' \/ isNewMsgFromAt' \/ receivedCommands' = <<>>
      BY <1>1
    <3> QED
      BY <1>1, <2>3, <3>1, <3>2, <3>3, NothingDelivered
  <2>7. CASE CallingProcessing(m) \/ Skipped(m)
    <3>1. m.kind # "CMT" /\ UNCHANGED <<pc, smsHeader>>
      BY <2>7 DEF CallingProcessing, Skipped
    <3>2. m.kind # "BODY"
      <4>1. PICK at \in [(Len(Delivered) + 1)..Written -> DOMAIN line] :
                   InPlace(at, line, NoId, arrived)
        BY <2>4 DEF Carried
      <4>2. ASSUME NEW k \in (Len(Delivered) + 1)..Written PROVE at[k] # 1
        <5>1. at[k] = 1 => NoId = arrived[k]
          BY <4>1 DEF InPlace
        <5> QED
          BY <2>1, <5>1
      <4>3. 1 \in DOMAIN line
        BY <2>1, <2>3, LenProperties
      <4>4. line[1].kind = "BODY" => \E k \in (Len(Delivered) + 1)..Written : at[k] = 1
        BY <4>1, <4>3 DEF InPlace
      <4> QED
        BY <2>3, <4>2, <4>4
    <3> QED
      BY <1>1, <2>2, <3>1, <3>2, OtherErased DEF m
  <2> QED
    BY <2>5, <2>6, <2>7
<1> QED
  BY <1>2, <1>3 DEF Drain, FrontOf, Popped

\* The next line after a header is the text that belongs to it.
LEMMA StoreStep ==
  ASSUME EngineTypeOK, SmsOnTheWay, pc = "smsText", receivedCommands # <<>>, StoreSms,
         UNCHANGED <<wire, console, reply, arrived, fetched>>
  PROVE  SmsOnTheWay'
<1> DEFINE line == receivedCommands \o wire
           from == Len(Delivered) + 1
           x == [number |-> smsHeader, msg |-> Head(receivedCommands)]
           R == [number : InSms \cup InCalls \cup {NoId}, msg : Message]
<1>0. Len(Delivered) <= Written
  BY DEF SmsOnTheWay
<1>1. /\ line \in Seq(Message) /\ from \in Nat /\ Written \in Int /\ Len(Delivered) \in Nat
      /\ Written <= Len(arrived) /\ Len(arrived) \in Nat
      /\ receivedCommands \in Seq(Message) /\ wire \in Seq(Message) /\ Delivered \in Seq(R)
      /\ \A k \in from..Written : arrived[k] # NoId
  BY <1>0, TheLine
<1>2. /\ receivedCommands' = RemoveAt(receivedCommands, 1) /\ 1 \in 1..Len(receivedCommands)
      /\ Head(receivedCommands) = receivedCommands[1] /\ smsHeader' = NoId /\ pc' = "drain"
      /\ wire' = wire
  BY <1>1, EndsAreErased DEF StoreSms, Popped
<1>3. /\ receivedCommands' \o wire' = RemoveAt(line, 1)
      /\ line[1] = Head(receivedCommands)
  BY <1>1, <1>2, EngineTakes
<1>4. smsHeader # NoId /\ Carried(line, smsHeader, arrived, from, Written)
  BY DEF SmsOnTheWay
<1>5. Delivered' = Append(Delivered, x)
  <2>1. /\ fetched \in Seq(R) /\ receivedSmses \in Seq(R) /\ x \in R
    <3>1. smsHeader \in InSms \cup InCalls \cup {NoId} /\ Head(receivedCommands) \in Message
      BY <1>1, EndsType DEF EngineTypeOK, TypeOK
    <3> QED
      BY <3>1 DEF EngineTypeOK, TypeOK
  <2>2. receivedSmses' = Append(receivedSmses, x) /\ fetched' = fetched
    BY DEF StoreSms, FrontOf
  <2> DEFINE one == <<x>>
  <2>3. one \in Seq(R)
    BY <2>1
  <2>4. Append(receivedSmses, x) = receivedSmses \o one
    BY <2>1, AppendIsConcat
  <2>5. Append(fetched \o receivedSmses, x) = (fetched \o receivedSmses) \o one
    <3>1. fetched \o receivedSmses \in Seq(R)
      BY <2>1, ConcatProperties
    <3> QED
      BY <2>1, <3>1, AppendIsConcat
  <2> HIDE DEF one, x, R
  <2>6. (fetched \o receivedSmses) \o one = fetched \o (receivedSmses \o one)
    BY <2>1, <2>3, ConcatAssociative
  <2> QED
    BY <2>2, <2>4, <2>5, <2>6 DEF Delivered
<1>6. x \in R
  BY <1>1, EndsType DEF EngineTypeOK, TypeOK
<1> HIDE DEF line, from, R
<1>7. /\ from <= Written /\ smsHeader = arrived[from] /\ line[1] = Text(arrived[from])
      /\ Carried(RemoveAt(line, 1), NoId, arrived, from + 1, Written)
  BY SMTT(30), <1>1, <1>4, TextTaken
<1>8. x = [number |-> arrived[from], msg |-> Text(arrived[from])]
  BY <1>3, <1>7
<1> HIDE DEF x
<1>9. /\ Len(Delivered') = from /\ DOMAIN Delivered' = 1..from /\ Delivered'[from] = x
      /\ \A j \in 1..Len(Delivered) : Delivered'[j] = Delivered[j]
      /\ DOMAIN Delivered = 1..Len(Delivered)
  <2> DEFINE d == Append(Delivered, x)
  <2>1. /\ d \in Seq(R) /\ Len(d) = Len(Delivered) + 1 /\ d[Len(Delivered) + 1] = x
        /\ \A j \in 1..Len(Delivered) : d[j] = Delivered[j]
    BY <1>1, <1>6, AppendProperties
  <2> HIDE DEF d
  <2>2. DOMAIN d = 1..Len(d) /\ DOMAIN Delivered = 1..Len(Delivered)
    BY <1>1, <2>1, LenProperties
  <2>3. Delivered' = d
    BY <1>5 DEF d
  <2> QED
    BY <2>1, <2>2, <2>3 DEF from
<1>10. Written' = Written /\ ConsoleInv'
  BY DEF Written, SmsOnTheWay, ConsoleInv
<1>11. \A j \in DOMAIN Delivered' :
         Delivered'[j] = [number |-> arrived[j], msg |-> Text(arrived[j])]
  <2>1. ASSUME NEW j \in 1..from
        PROVE  Delivered'[j] = [number |-> arrived[j], msg |-> Text(arrived[j])]
    <3>1. CASE j = from
      BY <1>8, <1>9, <3>1
    <3>2. CASE j \in 1..Len(Delivered)
      BY <1>9, <3>2 DEF SmsOnTheWay
    <3>3. j = from \/ j \in 1..Len(Delivered)
      BY <1>1 DEF from
    <3> QED
      BY <3>1, <3>2, <3>3
  <2> QED
    BY <1>9, <2>1
<1>12. Carried(receivedCommands' \o wire', NoId, arrived, Len(Delivered') + 1, Written)
  BY <1>3, <1>7, <1>9
<1>13. /\ \A i \in DOMAIN reply' : reply'[i].kind \notin {"CMT", "BODY"}
       /\ Len(Delivered') <= Written
  BY <1>7, <1>9 DEF SmsOnTheWay
<1> QED
  BY <1>2, <1>10, <1>11, <1>12, <1>13 DEF SmsOnTheWay

\* The text is not given up: when nothing more is under way, it has come.
LEMMA TextIsThere ==
  ASSUME EngineTypeOK, SmsOnTheWay, pc = "smsText", waiting, ~isNewMsgFromAt, Quiet
  PROVE  FALSE
<1>1. receivedCommands = <<>> /\ wire = <<>> /\ smsHeader # NoId
  BY DEF SmsOnTheWay, Quiet
<1> DEFINE line == receivedCommands \o wire
<1>2. DOMAIN line = {}
  <2>1. /\ Len(receivedCommands) = 0 /\ Len(wire) = 0
        /\ receivedCommands \in Seq(Message) /\ wire \in Seq(Message)
    BY <1>1 DEF EngineTypeOK, TypeOK
  <2>2. line \in Seq(Message) /\ Len(line) = Len(receivedCommands) + Len(wire)
    BY <2>1, ConcatProperties
  <2> HIDE DEF line
  <2>3. DOMAIN line = 1..0
    BY <2>1, <2>2, LenProperties
  <2> QED
    BY <2>3
<1>3. Carried(line, smsHeader, arrived, Len(Delivered) + 1, Written)
  BY DEF SmsOnTheWay
<1> HIDE DEF line
<1>4. PICK at \in [(Len(Delivered) + 1)..Written -> DOMAIN line] :
             InPlace(at, line, smsHeader, arrived)
  BY <1>3 DEF Carried
<1>5. PICK k \in (Len(Delivered) + 1)..Written : at[k] = 1
  BY <1>1, <1>4 DEF InPlace
<1> QED
  BY <1>2, <1>4, <1>5

\* Waiting for the text of an SMS.
LEMMA SmsTextStep ==
  ASSUME Undisturbed, EngineTypeOK, IInv, SmsOnTheWay,
         \/ SmsTextGet \/ SmsTextWake
         \/ SmsTextTimeout /\ ("late" \in Faults \/ Quiet),
         UNCHANGED <<wire, console, reply, arrived, fetched>>
  PROVE  SmsOnTheWay'
<1>1. pc = "smsText"
  BY DEF SmsTextGet, SmsTextWake, SmsTextTimeout
<1>2. CASE StoreSms /\ (receivedCommands # <<>> \/ Woken)
  <2>1. receivedCommands # <<>>
    BY <1>2 DEF Woken, IInv, EngineTypeOK, TypeOK, ThreadInv, WakeFindsMessage
  <2> QED
    BY <1>1, <1>2, <2>1, StoreStep
<1>3. CASE /\ receivedCommands = <<>>
           /\ UNCHANGED <<pc, receivedCommands, smsHeader, receivedSmses>>
  <2>1. Delivered' = Delivered
    BY <1>3 DEF Delivered
  <2> QED
    BY <1>1, <1>3, <2>1, LineUntouched
<1>4. CASE SmsTextTimeout /\ ("late" \in Faults \/ Quiet)
  BY <1>4, TextIsThere DEF SmsTextTimeout, TimeUp, Undisturbed
<1> QED
  BY <1>2, <1>3, <1>4 DEF SmsTextGet, SmsTextWake

\* The engine takes the answer it looks for: a text contains none.
LEMMA AnswerErased ==
  ASSUME Undisturbed, EngineTypeOK, SmsOnTheWay, NEW token \in Tokens,
         NEW i \in 1..Len(receivedCommands), Carries(receivedCommands[i], token),
         receivedCommands' = RemoveAt(receivedCommands, i),
         UNCHANGED <<wire, smsHeader, console, reply, arrived, Delivered>>,
         pc \notin {"smsText", "exited"}, pc' # "smsText"
  PROVE  SmsOnTheWay'
<1>1. receivedCommands[i].kind \notin {"CMT", "BODY"}
  BY DEF Undisturbed, Carries, Tokens
<1> QED
  BY <1>1, OtherErased

\* Steps of the AT thread, other than draining and waiting for a text.
LEMMA AnswersSmsStep ==
  ASSUME Undisturbed, EngineTypeOK, IInv, SmsOnTheWay,
         ATE0Get \/ ATE0Wake \/ AwaitScan \/ AwaitWake \/ SyncScan \/ SyncWake,
         UNCHANGED <<wire, console, reply, arrived, fetched>>
  PROVE  SmsOnTheWay'
<1>1. /\ pc \in {"ate0First", "ate0Second", "await", "sync"}
      /\ UNCHANGED <<smsHeader, receivedSmses>> /\ smsHeader = NoId
      /\ Delivered' = Delivered /\ pc' # "smsText"
  <2>1. pc \in {"ate0First", "ate0Second", "await", "sync"}
    BY DEF ATE0Get, ATE0Wake, AwaitScan, AwaitWake, SyncScan, SyncWake
  <2>2. pc' # "smsText" /\ UNCHANGED <<smsHeader, receivedSmses>>
    BY DEF ATE0Get, ATE0Wake, AwaitScan, AwaitWake, SyncScan, SyncWake, TakeLast, Found,
           Responded, Finish, NotFound, HeartBeatFailed, Exit, awaitKeeps, syncKeeps,
           local, shared, inbox
  <2> QED
    BY <2>1, <2>2 DEF Delivered, SmsOnTheWay
<1>2. receivedCommands # <<>> \/ ~(waiting /\ isNewMsgFromAt)
  BY EmptySeq DEF IInv, TypeOK, ThreadInv, WakeFindsMessage
<1>3. ASSUME pc' = "exited"
      PROVE  SmsOnTheWay'
  BY <1>1, <1>3, NothingDelivered
<1>4. ASSUME UNCHANGED <<pc, receivedCommands>>
      PROVE  SmsOnTheWay'
  BY <1>1, <1>4, LineUntouched
<1>5. receivedCommands \in Seq(Message) /\ expect \in Seq(Tokens)
  BY DEF EngineTypeOK, TypeOK
<1>6. ASSUME receivedCommands # <<>>, TakeLast
      PROVE  SmsOnTheWay'
  <2>1. /\ receivedCommands' = RemoveAt(receivedCommands, Len(receivedCommands))
        /\ Last(receivedCommands) = receivedCommands[Len(receivedCommands)]
        /\ Len(receivedCommands) \in 1..Len(receivedCommands)
    BY <1>5, <1>6, EndsAreErased DEF TakeLast
  <2>2. \/ Carries(receivedCommands[Len(receivedCommands)], "OK")
        \/ Carries(receivedCommands[Len(receivedCommands)], "ECHO")
        \/ pc' = "exited"
    BY <1>6, <2>1 DEF TakeLast
  <2>3. "OK" \in Tokens /\ "ECHO" \in Tokens
    BY DEF Tokens
  <2> QED
    BY <1>1, <1>3, <2>1, <2>2, <2>3, AnswerErased
<1>7. CASE ATE0Get \/ ATE0Wake
  BY <1>2, <1>4, <1>6, <1>7 DEF ATE0Get, ATE0Wake, Woken
<1>8. CASE AwaitScan \/ AwaitWake
  <2>1. pc = "await"
    BY <1>8 DEF AwaitScan, AwaitWake
  <2>2. Head(expect) \in Tokens
    BY <1>5, <2>1, EndsType DEF IInv, ThreadInv
  <2>3. ASSUME NEW n \in Nat, NEW i \in Matches(n, Head(expect)), Found(i)
        PROVE  SmsOnTheWay'
    <3>1. i \in 1..Len(receivedCommands) /\ Carries(receivedCommands[i], Head(expect))
      BY <1>5, <2>3, LenProperties DEF Matches
    <3> QED
      BY <1>1, <2>2, <2>3, <3>1, AnswerErased DEF Found
  <2>4. older \in Nat /\ numberOfMsg \in Nat
    BY DEF EngineTypeOK, TypeOK
  <2>5. CASE NotFound
    BY <1>4, <2>5 DEF NotFound
  <2> QED
    BY <1>8, <2>3, <2>4, <2>5 DEF AwaitScan, AwaitWake
<1>9. CASE SyncScan
  <2>1. ASSUME NEW i \in Matches(0, "OK"), receivedCommands' = RemoveAt(receivedCommands, i)
        PROVE  SmsOnTheWay'
    <3>1. i \in 1..Len(receivedCommands) /\ Carries(receivedCommands[i], "OK")
      BY <1>5, <2>1, LenProperties DEF Matches
    <3>2. "OK" \in Tokens
      BY DEF Tokens
    <3> QED
      BY <1>1, <2>1, <3>1, <3>2, AnswerErased
  <2> QED
    BY <1>4, <1>9, <2>1 DEF SyncScan
<1>10. CASE SyncWake
  <2>1. CASE HeartBeatFailed
    BY <1>3, <2>1 DEF HeartBeatFailed, Exit
  <2>2. CASE Carries(Head(receivedCommands), "OK") /\ receivedCommands' = Tail(receivedCommands)
    <3>1. receivedCommands # <<>>
      BY <1>2, <1>10 DEF SyncWake, Woken
    <3>2. /\ receivedCommands' = RemoveAt(receivedCommands, 1)
          /\ Head(receivedCommands) = receivedCommands[1] /\ 1 \in 1..Len(receivedCommands)
      BY <1>5, <2>2, <3>1, EndsAreErased
    <3>3. "OK" \in Tokens
      BY DEF Tokens
    <3> QED
      BY <1>1, <2>2, <3>2, <3>3, AnswerErased
  <2> QED
    BY <1>10, <2>1, <2>2 DEF SyncWake
<1> QED
  BY <1>7, <1>8, <1>9, <1>10

LEMMA ThreadSmsStep ==
  ASSUME Undisturbed, EngineTypeOK, IInv, SmsOnTheWay, Step \/ Timeout
  PROVE  SmsOnTheWay'
<1>1. /\ UNCHANGED <<wire, console, reply, arrived, fetched>>
      /\ ATStep \/ (ATTimeout /\ ("late" \in Faults \/ Quiet))
  BY DEF Step, Timeout, modem
<1>2. ASSUME UNCHANGED <<receivedCommands, smsHeader, receivedSmses>>,
             pc \notin {"smsText", "exited"}, pc' # "smsText"
      PROVE  SmsOnTheWay'
  <2>1. Delivered' = Delivered
    BY <1>1, <1>2 DEF Delivered
  <2> QED
    BY <1>1, <1>2, <2>1, LineUntouched
<1>3. CASE SendATE0 \/ Loop \/ ConfigCheck \/ SmsCheck \/ SendText \/ Beat \/ Synced
  BY <1>2, <1>3 DEF SendATE0, Loop, ConfigCheck, SmsCheck, Check, SendText, serveKeeps, Beat,
       Synced, HeartBeatFailed, Exit, syncKeeps, local, rx, inbox, shared
<1>4. CASE TakeConfig \/ TakeSms
  <2>1. UNCHANGED <<receivedCommands, smsHeader, receivedSmses>>
    BY <1>4 DEF TakeConfig, TakeSms, serveKeeps, rx, inbox
  <2>2. pc \notin {"smsText", "exited"} /\ pc' # "smsText"
    BY <1>4 DEF TakeConfig, TakeSms, NoMore, Begin
  <2> QED
    BY <1>2, <2>1, <2>2
<1>5. CASE ATE0Timeout \/ SyncTimeout \/ AwaitTimeout
  BY <1>2, <1>5 DEF ATE0Timeout, SyncTimeout, AwaitTimeout, HeartBeatFailed, Exit, Responded,
       Finish, awaitKeeps, syncKeeps, local, shared, inbox
<1>6. CASE Drain
  BY <1>1, <1>6, DrainStep
<1>7. CASE ATE0Get \/ ATE0Wake \/ AwaitScan \/ AwaitWake \/ SyncScan \/ SyncWake
  BY <1>1, <1>7, AnswersSmsStep
<1>8. CASE \/ SmsTextGet \/ SmsTextWake
           \/ SmsTextTimeout /\ ("late" \in Faults \/ Quiet)
  BY <1>1, <1>8, SmsTextStep
<1> QED
  BY <1>1, <1>3, <1>4, <1>5, <1>6, <1>7, <1>8 DEF ATStep, ATTimeout

\* No answer of the modem looks like an SMS.
LEMMA ReplyIsNoSms ==
  ASSUME EngineTypeOK, ModemRead
  PROVE  \A i \in DOMAIN reply' : reply'[i].kind \notin {"CMT", "BODY"}
<1> DEFINE Plain == Tokens \cup {"ERROR", "OTHER"}
<1>1. "CMT" \notin Plain /\ "BODY" \notin Plain
  BY DEF Tokens
<1>2. ASSUME NEW kinds \in Seq(Plain), reply' = Lines(kinds)
      PROVE  \A i \in DOMAIN reply' : reply'[i].kind \notin {"CMT", "BODY"}
  <2>1. \A i \in DOMAIN kinds : kinds[i] \in Plain
    BY ElementOfSeq, LenProperties
  <2>2. DOMAIN reply' = DOMAIN kinds /\ \A i \in DOMAIN kinds : reply'[i].kind = kinds[i]
    BY <1>2 DEF Lines, Line
  <2> HIDE DEF Plain
  <2> QED
    BY <1>1, <2>1, <2>2
<1>3. /\ <<"OK">> \in Seq(Plain) /\ <<"ERROR">> \in Seq(Plain) /\ <<"PROMPT">> \in Seq(Plain)
      /\ <<"NOCARRIER", "OK">> \in Seq(Plain) /\ <<"CMGS", "OK">> \in Seq(Plain)
      /\ <<"ECHO">> \in Seq(Plain) /\ <<"OTHER">> \in Seq(Plain) /\ <<>> \in Seq(Plain)
  BY DEF Tokens
<1>4. toModem # <<>> /\ Head(toModem) \in Command
  BY EndsType DEF ModemRead, EngineTypeOK, TypeOK
<1> HIDE DEF Plain
<1>5. CASE HandleCommand(Head(toModem)) /\ Head(toModem).kind \notin {"TEXT", "SUB"}
  <2> DEFINE item == Head(toModem)
  <2>1. item.kind \in {"ATE0", "AT", "CONFIG", "ATH", "CMGS"}
    BY <1>4, <1>5 DEF Command
  <2>2. PICK answer \in Answers(item) : reply' = Lines(Echoed(item) \o answer)
    BY <1>5 DEF HandleCommand
  <2> HIDE DEF item
  <2>3. answer \in Seq(Plain)
    <3>1. CASE item.kind \in {"AT", "ATE0"}
      BY <1>3, <2>2, <3>1 DEF Answers
    <3>2. CASE item.kind = "CONFIG"
      BY <1>3, <2>2, <3>2 DEF Answers
    <3>3. CASE item.kind = "ATH"
      BY <1>3, <2>2, <3>3 DEF Answers
    <3>4. CASE item.kind = "CMGS"
      BY <1>3, <2>2, <3>4 DEF Answers
    <3> QED
      BY <2>1, <3>1, <3>2, <3>3, <3>4
  <2>4. Echoed(item) \in Seq(Plain)
    BY <1>3 DEF Echoed
  <2>5. Echoed(item) \o answer \in Seq(Plain)
    BY <2>3, <2>4, ConcatProperties
  <2> QED
    BY <1>2, <2>2, <2>5
<1>6. CASE reply' = Lines(<<"ERROR">>) \/ reply' = Lines(<<"CMGS", "OK">>)
  BY <1>2, <1>3, <1>6
<1> QED
  BY <1>5, <1>6 DEF ModemRead, ProcessSms

\* What the modem writes comes behind what is on the line.
LEMMA LineWritten ==
  ASSUME EngineTypeOK, NEW t \in Seq(Message), wire' = wire \o t,
         UNCHANGED receivedCommands
  PROVE  receivedCommands' \o wire' = (receivedCommands \o wire) \o t
<1>1. receivedCommands \in Seq(Message) /\ wire \in Seq(Message)
  BY DEF EngineTypeOK, TypeOK
<1> QED
  BY SMTT(30), <1>1, ConcatAssociative

LEMMA ReplySmsStep ==
  ASSUME EngineTypeOK, SmsOnTheWay, ModemReply
  PROVE  SmsOnTheWay'
<1> DEFINE line == receivedCommands \o wire
           from == Len(Delivered) + 1
           one == <<Head(reply)>>
<1>1. /\ UNCHANGED <<vars, console, arrived, fetched>> /\ reply # <<>>
      /\ reply' = Tail(reply) /\ wire' = Append(wire, Head(reply))
  BY DEF ModemReply
<1>2. /\ UNCHANGED <<pc, waiting, isNewMsgFromAt, receivedCommands, smsHeader>>
      /\ Delivered' = Delivered /\ Written' = Written /\ ConsoleInv'
  BY <1>1 DEF vars, thread, local, rx, shared, inbox, Delivered, Written, SmsOnTheWay, ConsoleInv
<1>3. reply \in Seq(Message) /\ wire \in Seq(Message)
  BY DEF EngineTypeOK
<1>4. /\ Head(reply) = reply[1] /\ reply' = RemoveAt(reply, 1) /\ 1 \in 1..Len(reply)
      /\ Head(reply) \in Message /\ DOMAIN reply = 1..Len(reply) /\ Len(reply) \in Nat
  BY <1>1, <1>3, EndsAreErased, EndsType, LenProperties
<1>5. Head(reply).kind \notin {"CMT", "BODY"}
  BY <1>4 DEF SmsOnTheWay
<1>6. \A i \in DOMAIN reply' : reply'[i].kind \notin {"CMT", "BODY"}
  <2>1. /\ DOMAIN RemoveAt(reply, 1) = 1..(Len(reply) - 1)
        /\ \A j \in 1..(Len(reply) - 1) :
             RemoveAt(reply, 1)[j] = IF j < 1 THEN reply[j] ELSE reply[j + 1]
    BY <1>3, <1>4, ErasedIndex
  <2>2. ASSUME NEW j \in 1..(Len(reply) - 1)
        PROVE  RemoveAt(reply, 1)[j].kind \notin {"CMT", "BODY"}
    <3>1. RemoveAt(reply, 1)[j] = reply[j + 1] /\ j + 1 \in DOMAIN reply
      BY <1>4, <2>1
    <3> QED
      BY <3>1 DEF SmsOnTheWay
  <2> QED
    BY <1>4, <2>1, <2>2
<1>7. one \in Seq(Message) /\ \A i \in DOMAIN one : one[i].kind \notin {"CMT", "BODY"}
  <2>1. one \in Seq(Message)
    BY <1>4
  <2>2. \A i \in DOMAIN one : one[i] = Head(reply)
    OBVIOUS
  <2> QED
    BY <1>5, <2>1, <2>2
<1>8. wire' = wire \o one
  BY <1>1, <1>3, <1>4, AppendIsConcat
<1> HIDE DEF one
<1>9. receivedCommands' \o wire' = line \o one
  BY <1>2, <1>7, <1>8, LineWritten
<1>10. Len(Delivered) <= Written
  BY DEF SmsOnTheWay
<1>11. line \in Seq(Message) /\ from \in Nat /\ Written \in Int
  BY <1>10, TheLine
<1>12. pc # "exited" => Carried(line, smsHeader, arrived, from, Written)
  BY DEF SmsOnTheWay
<1> HIDE DEF line, from
<1>13. pc # "exited" => Carried(line \o one, smsHeader, arrived, from, Written)
  BY <1>7, <1>11, <1>12, OthersWritten
<1>14. pc' # "exited" => Carried(receivedCommands' \o wire', smsHeader', arrived',
                                 Len(Delivered') + 1, Written')
  BY <1>1, <1>2, <1>9, <1>13 DEF from
<1>15. /\ Len(Delivered') <= Written'
       /\ \A j \in DOMAIN Delivered' :
            Delivered'[j] = [number |-> arrived'[j], msg |-> Text(arrived'[j])]
       /\ smsHeader' # NoId <=> pc' = "smsText"
       /\ pc' = "smsText" /\ waiting' /\ ~isNewMsgFromAt' => receivedCommands' = <<>>
  BY <1>1, <1>2 DEF SmsOnTheWay
<1> QED
  BY <1>2, <1>6, <1>14, <1>15 DEF SmsOnTheWay

\* The console writes both lines of an SMS at once.
LEMMA ConsoleSmsStep ==
  ASSUME Undisturbed, EngineTypeOK, SmsOnTheWay, ConsoleWrite
  PROVE  SmsOnTheWay'
<1> DEFINE line == receivedCommands \o wire
           from == Len(Delivered) + 1
<1>1. /\ UNCHANGED <<vars, reply, arrived, fetched>> /\ console # <<>>
      /\ wire' = wire \o console /\ console' = <<>>
  BY DEF ConsoleWrite, Undisturbed
<1>2. /\ UNCHANGED <<pc, waiting, isNewMsgFromAt, receivedCommands, smsHeader>>
      /\ Delivered' = Delivered
  BY <1>1 DEF vars, thread, local, rx, shared, inbox, Delivered
<1>3. console \in Seq(Message)
  BY DEF EngineTypeOK
<1>4. receivedCommands' \o wire' = line \o console
  BY <1>1, <1>2, <1>3, LineWritten
<1>5. Written' = Len(arrived) /\ ConsoleInv'
  BY <1>1 DEF Written, ConsoleInv
<1>6. Len(Delivered) <= Written
  BY DEF SmsOnTheWay
<1>7. /\ line \in Seq(Message) /\ from \in Nat /\ Written \in Int /\ Len(Delivered) \in Nat
      /\ Len(arrived) \in Nat /\ Written <= Len(arrived) /\ from <= Written + 1
  BY <1>6, TheLine
<1>8. pc # "exited" => Carried(line, smsHeader, arrived, from, Written)
  BY DEF SmsOnTheWay
<1> HIDE DEF line, from
<1>9. pc # "exited" => Carried(line \o console, smsHeader, arrived, from, Len(arrived))
  <2>1. CASE arrived # <<>> /\ console = <<Header(Last(arrived)), Text(Last(arrived))>>
    <3> DEFINE m == Last(arrived)
    <3>1. arrived[Len(arrived)] = m
      BY DEF Last
    <3>2. Written = Len(arrived) - 1
      <4>1. Head(console) = Header(m)
        BY <2>1
      <4> QED
        BY <1>1, <4>1 DEF Written, Header
    <3>3. m \in InSms
      BY <2>1, EndsType DEF EngineTypeOK
    <3>4. Header(m) \in Message /\ Text(m) \in Message
      BY <3>3 DEF Header, Text, Message, Kinds
    <3>5. Written + 1 = Len(arrived)
      BY <1>7, <3>2
    <3>6. arrived[Written + 1] = m
      BY <3>1, <3>5
    <3> HIDE DEF m
    <3>7. pc # "exited" => Carried(line \o <<Header(m), Text(m)>>, smsHeader, arrived, from,
                                   Written + 1)
      BY <1>7, <1>8, <3>4, <3>6, SmsWritten
    <3> QED
      BY <2>1, <3>5, <3>7 DEF m
  <2>2. ASSUME NEW n \in InCalls,
               console = <<[kind |-> "RING", id |-> NoId], [kind |-> "CLIP", id |-> n]>>
        PROVE  pc # "exited" => Carried(line \o console, smsHeader, arrived, from, Len(arrived))
    <3>1. \A i \in DOMAIN console : console[i].kind \notin {"CMT", "BODY"}
      <4>1. DOMAIN console = {1, 2} /\ console[1].kind = "RING" /\ console[2].kind = "CLIP"
        BY <2>2
      <4> QED
        BY <4>1
    <3>2. Written = Len(arrived)
      <4>1. Head(console).kind = "RING"
        BY <2>2
      <4> QED
        BY <4>1 DEF Written
    <3> QED
      BY <1>3, <1>7, <1>8, <3>1, <3>2, OthersWritten
  <2> QED
    BY <1>1, <2>1, <2>2 DEF SmsOnTheWay, ConsoleInv
<1>10. pc' # "exited" => Carried(receivedCommands' \o wire', smsHeader', arrived',
                                 Len(Delivered') + 1, Written')
  BY <1>1, <1>2, <1>4, <1>5, <1>9 DEF from
<1>11. Len(Delivered') <= Written'
  BY <1>2, <1>5, <1>6, <1>7
<1>12. /\ \A i \in DOMAIN reply' : reply'[i].kind \notin {"CMT", "BODY"}
       /\ \A j \in DOMAIN Delivered' :
            Delivered'[j] = [number |-> arrived'[j], msg |-> Text(arrived'[j])]
       /\ smsHeader' # NoId <=> pc' = "smsText"
       /\ pc' = "smsText" /\ waiting' /\ ~isNewMsgFromAt' => receivedCommands' = <<>>
  BY <1>1, <1>2 DEF SmsOnTheWay
<1> QED
  BY <1>5, <1>10, <1>11, <1>12 DEF SmsOnTheWay

\* An SMS or a call comes in: the console has its lines to write.
LEMMA ArrivalStep ==
  ASSUME EngineTypeOK, SmsOnTheWay,
         (\E i \in InSms : ReceiveSms(i)) \/ (\E n \in InCalls : ReceiveCall(n))
  PROVE  SmsOnTheWay'
<1> DEFINE from == Len(Delivered) + 1
<1>1. /\ UNCHANGED <<vars, wire, reply, fetched>> /\ console = <<>>
  BY DEF ReceiveSms, ReceiveCall
<1>2. /\ UNCHANGED <<pc, waiting, isNewMsgFromAt, receivedCommands, smsHeader>>
      /\ Delivered' = Delivered
  BY <1>1 DEF vars, thread, local, rx, shared, inbox, Delivered
<1>3. Written = Len(arrived)
  BY <1>1 DEF Written
<1>4. Len(Delivered) <= Written
  BY DEF SmsOnTheWay
<1>5. Len(Delivered) \in Nat /\ Len(arrived) \in Nat /\ arrived \in Seq(InSms)
      /\ DOMAIN Delivered = 1..Len(Delivered)
  BY <1>4, TheLine, LenProperties DEF EngineTypeOK
<1>6. Written' = Written /\ ConsoleInv' /\ \A j \in 1..Len(arrived) : arrived'[j] = arrived[j]
  <2>1. ASSUME NEW i \in InSms, ReceiveSms(i)
        PROVE  Written' = Written /\ ConsoleInv' /\ \A j \in 1..Len(arrived) : arrived'[j] = arrived[j]
    <3>1. arrived' = Append(arrived, i) /\ console' = <<Header(i), Text(i)>>
      BY <2>1 DEF ReceiveSms, Header, Text
    <3> DEFINE a == Append(arrived, i)
    <3>2. /\ a # <<>> /\ Len(a) = Len(arrived) + 1 /\ a[Len(arrived) + 1] = i
          /\ \A j \in 1..Len(arrived) : a[j] = arrived[j]
      BY <1>5, AppendProperties
    <3> HIDE DEF a
    <3>3. arrived' = a
      BY <3>1 DEF a
    <3>4. Last(a) = i
      BY <3>2 DEF Last
    <3>5. console' # <<>> /\ Head(console') = Header(i)
      BY <3>1
    <3>6. Written' = Len(a) - 1
      BY <3>3, <3>5 DEF Written, Header
    <3>7. ConsoleInv'
      BY <3>1, <3>2, <3>3, <3>4 DEF ConsoleInv
    <3> QED
      BY <1>3, <1>5, <3>2, <3>3, <3>6, <3>7
  <2>2. ASSUME NEW n \in InCalls, ReceiveCall(n)
        PROVE  Written' = Written /\ ConsoleInv' /\ \A j \in 1..Len(arrived) : arrived'[j] = arrived[j]
    <3>1. /\ console' = <<[kind |-> "RING", id |-> NoId], [kind |-> "CLIP", id |-> n]>>
          /\ arrived' = arrived
      BY <2>2 DEF ReceiveCall
    <3>2. Head(console').kind = "RING"
      BY <3>1
    <3>3. Written' = Len(arrived)
      BY <3>1, <3>2 DEF Written
    <3>4. ConsoleInv'
      BY <3>1 DEF ConsoleInv
    <3> QED
      BY <1>3, <3>1, <3>3, <3>4
  <2> QED
    BY <2>1, <2>2
<1>7. pc # "exited" => Carried(receivedCommands \o wire, smsHeader, arrived', from, Written)
  <2>1. \A k \in from..Written : arrived'[k] = arrived[k]
    BY <1>3, <1>5, <1>6
  <2>2. pc # "exited" => Carried(receivedCommands \o wire, smsHeader, arrived, from, Written)
    BY DEF SmsOnTheWay
  <2> HIDE DEF from
  <2> QED
    BY <2>1, <2>2, SameSms
<1>8. \A j \in DOMAIN Delivered' : Delivered'[j] = [number |-> arrived'[j], msg |-> Text(arrived'[j])]
  <2>1. ASSUME NEW j \in 1..Len(Delivered)
        PROVE  Delivered[j] = [number |-> arrived'[j], msg |-> Text(arrived'[j])]
    <3>1. j \in 1..Len(arrived)
      BY <1>3, <1>4, <1>5
    <3> QED
      BY <1>5, <1>6, <3>1 DEF SmsOnTheWay
  <2> QED
    BY <1>2, <1>5, <2>1
<1>9. pc' # "exited" => Carried(receivedCommands' \o wire', smsHeader', arrived',
                                Len(Delivered') + 1, Written')
  BY <1>1, <1>2, <1>6, <1>7
<1>10. /\ \A i \in DOMAIN reply' : reply'[i].kind \notin {"CMT", "BODY"}
       /\ Len(Delivered') <= Written'
       /\ smsHeader' # NoId <=> pc' = "smsText"
       /\ pc' = "smsText" /\ waiting' /\ ~isNewMsgFromAt' => receivedCommands' = <<>>
  BY <1>1, <1>2, <1>6 DEF SmsOnTheWay
<1> QED
  BY <1>6, <1>8, <1>9, <1>10 DEF SmsOnTheWay

\* The receiver hands a line over: it stays where it was among the others.
LEMMA ReceiveSmsStep ==
  ASSUME Undisturbed, EngineTypeOK, SmsOnTheWay, Receive
  PROVE  SmsOnTheWay'
<1>0. Reliable
  BY DEF Undisturbed, Reliable
<1>1. /\ wire # <<>> /\ wire' = RemoveAt(wire, 1) /\ isNewMsgFromAt'
      /\ receivedCommands' = Append(receivedCommands, wire[1])
      /\ UNCHANGED <<thread, shared, reply, console, arrived, fetched>>
  BY <1>0, ReceivesOne
<1>2. receivedCommands \in Seq(Message) /\ wire \in Seq(Message)
  BY DEF EngineTypeOK, TypeOK
<1>3. wire' = Tail(wire) /\ Head(wire) = wire[1]
  BY <1>1, <1>2, EndsAreErased
<1>4. receivedCommands' \o wire' = receivedCommands \o wire
  BY <1>1, <1>2, <1>3, HandedOn
<1>5. UNCHANGED <<pc, smsHeader, Delivered>>
  BY <1>1 DEF thread, local, shared, inbox, Delivered
<1> QED
  BY <1>1, <1>4, <1>5, NothingDelivered DEF SmsOnTheWay

\* The client fetches an SMS: it was delivered before.
LEMMA FetchStep ==
  ASSUME EngineTypeOK, Fetch
  PROVE  Delivered' = Delivered
<1> DEFINE R == [number : InSms \cup InCalls \cup {NoId}, msg : Message]
<1>1. /\ receivedSmses # <<>> /\ receivedSmses' = Tail(receivedSmses)
      /\ fetched' = Append(fetched, Head(receivedSmses))
  BY DEF Fetch, GetLastSms
<1>2. fetched \in Seq(R) /\ receivedSmses \in Seq(R)
  BY DEF EngineTypeOK, TypeOK
<1> HIDE DEF R
<1>3. Append(fetched, Head(receivedSmses)) \o Tail(receivedSmses) = fetched \o receivedSmses
  BY <1>1, <1>2, HandedOn
<1> QED
  BY <1>1, <1>3 DEF Delivered

LEMMA SmsStep ==
  ASSUME Undisturbed, EngineTypeOK, IInv, SmsOnTheWay, [EngineNext]_engineVars
  PROVE  SmsOnTheWay'
<1>1. CASE ModemRead
  <2>1. /\ \A i \in DOMAIN reply' : reply'[i].kind \notin {"CMT", "BODY"}
        /\ UNCHANGED <<thread, rx, inbox, wire, console, arrived, fetched>>
    BY <1>1, ReplyIsNoSms DEF ModemRead
  <2>2. /\ UNCHANGED <<pc, waiting, isNewMsgFromAt, receivedCommands, smsHeader>>
        /\ Delivered' = Delivered /\ Written' = Written /\ ConsoleInv'
    BY <2>1 DEF thread, local, rx, inbox, Delivered, Written, SmsOnTheWay, ConsoleInv
  <2> QED
    BY <2>1, <2>2 DEF SmsOnTheWay
<1>2. CASE Return \/ Call \/ Fetch \/ HeartBeatDue \/ UNCHANGED engineVars
  <2>1. UNCHANGED <<pc, waiting, local, rx, wire, reply, console, arrived>>
    <3>1. CASE UNCHANGED engineVars
      BY <3>1 DEF engineVars, vars, thread, modem
    <3>2. CASE HeartBeatDue
      BY <3>2 DEF HeartBeatDue, Tick, modem
    <3>3. CASE Return \/ Fetch
      BY <3>3 DEF Return, Fetch, ClientReturn, ReturnResult, GetLastSms, clientKeeps, thread, modem
    <3>4. CASE Call
      BY <3>4 DEF Call, ClientCall, SetConfig, SendSmsSync, SendSms, Submitted, ReturnTimeout,
                  GetLastCall, Shutdown, clientKeeps, thread, modem
    <3> QED
      BY <1>2, <3>1, <3>2, <3>3, <3>4
  <2>2. Delivered' = Delivered
    <3>1. CASE UNCHANGED engineVars
      BY <3>1 DEF engineVars, vars, shared, inbox, Delivered
    <3>2. CASE HeartBeatDue
      BY <3>2 DEF HeartBeatDue, Tick, shared, inbox, Delivered
    <3>3. CASE Return
      BY <3>3 DEF Return, ClientReturn, ReturnResult, inbox, Delivered
    <3>4. CASE Fetch
      BY <3>4, FetchStep
    <3>5. CASE Call
      BY <3>5 DEF Call, ClientCall, SetConfig, SendSmsSync, SendSms, Submitted, ReturnTimeout,
                  GetLastCall, Shutdown, inbox, Delivered
    <3> QED
      BY <1>2, <3>1, <3>2, <3>3, <3>4, <3>5
  <2> QED
    BY <2>1, <2>2, LineUntouched DEF local, rx
<1> QED
  BY <1>1, <1>2, ThreadSmsStep, ReceiveSmsStep, ReplySmsStep, ConsoleSmsStep, ArrivalStep
     DEF EngineNext

LEMMA SmsInit == EngineInit => SmsOnTheWay
<1> SUFFICES ASSUME EngineInit PROVE SmsOnTheWay
  OBVIOUS
<1>1. /\ pc = "start" /\ receivedCommands = <<>> /\ wire = <<>> /\ console = <<>> /\ reply = <<>>
      /\ arrived = <<>> /\ receivedSmses = <<>> /\ fetched = <<>> /\ smsHeader = NoId
  BY DEF EngineInit, Init
<1>2. Delivered = <<>> /\ Written = 0 /\ receivedCommands \o wire = <<>>
  BY <1>1 DEF Delivered, Written
<1> DEFINE e == <<>>
<1>3. DOMAIN e = {} /\ Len(e) = 0
  OBVIOUS
<1> HIDE DEF e
<1>4. Carried(e, NoId, e, 0 + 1, 0)
  <2> DEFINE D == (0 + 1)..0
             at == [k \in D |-> k]
  <2>1. D = {} /\ DOMAIN at = {}
    OBVIOUS
  <2>2. at \in [D -> DOMAIN e]
    BY <2>1
  <2> HIDE DEF at
  <2>3. InPlace(at, e, NoId, e)
    BY <1>3, <2>1 DEF InPlace
  <2> QED
    BY <2>2, <2>3 DEF Carried
<1> QED
  BY <1>1, <1>2, <1>3, <1>4 DEF SmsOnTheWay, ConsoleInv, e

\* As long as nothing comes between the two lines of an SMS, everything that has
\* arrived and was not delivered is on its way, in order.
THEOREM SmsInvariance == EngineSpec => []SmsInv
<1>1. EngineInit => SmsInv
  BY SmsInit DEF SmsInv
<1>2. EngineTypeOK /\ IInv /\ SmsInv /\ [EngineNext]_engineVars => SmsInv'
  BY SmsStep DEF SmsInv, Undisturbed
<1>3. EngineSpec => [](EngineTypeOK /\ IInv)
  BY EngineInvariance, PTL
<1> QED
  BY <1>1, <1>2, <1>3, PTL DEF EngineSpec

\* What the client fetched and what waits for it are, for any number of SMS
\* messages, the first ones that arrived, in order and each with its own text.
THEOREM SmsInOrder == Undisturbed => (EngineSpec => []SmsDeliveredInOrder)
<1> SUFFICES ASSUME Undisturbed PROVE EngineSpec => []SmsDeliveredInOrder
  OBVIOUS
<1>1. ASSUME EngineTypeOK, SmsInv PROVE SmsDeliveredInOrder
  <2> DEFINE R == [number : InSms \cup InCalls \cup {NoId}, msg : Message]
             t == [j \in DOMAIN arrived |->
                     [number |-> arrived[j], msg |-> [kind |-> "BODY", id |-> arrived[j]]]]
             n == Len(Delivered)
  <2>1. SmsOnTheWay /\ n <= Written
    BY <1>1 DEF SmsInv, SmsOnTheWay
  <2>2. /\ Delivered \in Seq(R) /\ n \in Nat /\ Len(arrived) \in Nat /\ n <= Len(arrived)
        /\ DOMAIN Delivered = 1..n /\ DOMAIN arrived = 1..Len(arrived)
    BY <1>1, <2>1, TheLine, LenProperties DEF EngineTypeOK
  <2>3. \A j \in 1..n : Delivered[j] = t[j]
    BY <2>1, <2>2 DEF SmsOnTheWay, Text
  <2>4. \A j \in 1..Len(arrived) : t[j] \in R
    <3>1. \A j \in 1..Len(arrived) : arrived[j] \in InSms
      BY <1>1, ElementOfSeq DEF EngineTypeOK
    <3> QED
      BY <2>2, <3>1 DEF Message, Kinds
  <2>5. t \in Seq(R) /\ DOMAIN t = 1..Len(arrived)
    <3>1. DOMAIN t = 1..Len(arrived) /\ t = [j \in 1..Len(arrived) |-> t[j]]
      BY <2>2
    <3> HIDE DEF t, R
    <3> QED
      BY <2>2, <2>4, <3>1, IsASeq
  <2> HIDE DEF t, R, n
  <2>6. Len(t) = Len(arrived)
    BY <2>2, <2>5, LenProperties, SameLength
  <2>7. SubSeq(Delivered, 1, n) = SubSeq(t, 1, n)
    <3> DEFINE a == SubSeq(Delivered, 1, n)
               b == SubSeq(t, 1, n)
    <3>1. \A j \in 1..n : Delivered[j] \in R /\ t[j] \in R
      BY <2>2, <2>3, <2>4
    <3>2. 1 \in Int /\ n \in Int
      BY <2>2
    <3>3. a \in Seq(R) /\ Len(a) = n /\ \A j \in 1..n : a[j] = Delivered[j]
      BY <2>2, <3>1, <3>2, SubSeqProperties
    <3>4. b \in Seq(R) /\ Len(b) = n /\ \A j \in 1..n : b[j] = t[j]
      BY <2>2, <3>1, <3>2, SubSeqProperties
    <3> HIDE DEF a, b
    <3>5. a = b
      BY <2>3, <3>3, <3>4, SeqEqual
    <3> QED
      BY <3>5 DEF a, b
  <2>8. IsPrefix(Delivered, t)
    BY <2>2, <2>6, <2>7 DEF IsPrefix, n
  <2> QED
    BY <2>8 DEF SmsDeliveredInOrder, t
<1> QED
  BY <1>1, EngineTypeCorrect, SmsInvariance, PTL
=============================================================================
