------------------------------ MODULE GSMEngine ------------------------------
(***************************************************************************)
(* The engine of ATScheduler.tla connected to the modem of                 *)
(* GSMApp/ATEmulator.py.  The modem has two threads: serial_loop answers   *)
(* commands, the console hands over incoming SMS messages; both write to   *)
(* the same line.  The line carries framed messages in order; framing and  *)
(* flow control belong to Serial.  What a real modem does and the emulator *)
(* does not (incoming calls, an accepted ATH) is modelled from how the     *)
(* engine uses it.                                                         *)
(***************************************************************************)
EXTENDS ATScheduler

\* Faults says how the surroundings may misbehave:
\*   "late"       an answer may come after the wait for it ended;
\*   "interleave" an answer may be written between the header and the text of
\*                an incoming SMS, which receive_sms writes in two calls;
\*   "merge"      a line may come so soon after the prompt, which has no line
\*                end, that the framer makes one message of the two.
\* A merged line is modelled as the prompt some wait looks for, so "merge" is
\* not combined with "late".
\* DefaultConfig is what GSMManager::initilize sets, in its order.
CONSTANTS Faults, DefaultConfig
ASSUME FaultsAssumption == /\ Faults \subseteq {"late", "interleave", "merge"}
                           /\ ~{"late", "merge"} \subseteq Faults
ASSUME DefaultConfigAssumption == /\ DefaultConfig \in Seq(ConfigReqs)
                                  /\ IsInjective(DefaultConfig)

VARIABLES
  wire,       \* messages on the way to the engine
  reply,      \* what serial_loop still has to write
  console,    \* what receive_sms still has to write
  echo,
  waiting_for_sms,
  accepted,   \* history: the requests the modem carried out
  arrived,    \* history: the SMS messages received, in order
  rang,       \* the calls that came in
  fetched     \* history: what getLastSms returned

modem == <<wire, reply, console, echo, waiting_for_sms, accepted, arrived, rang>>
engineVars == <<vars, modem, fetched>>

Line(kind) == [kind |-> kind, id |-> NoId]
Lines(kinds) == [i \in DOMAIN kinds |-> Line(kinds[i])]

EngineInit ==
  /\ Init
  /\ wire = <<>> /\ reply = <<>> /\ console = <<>>
  /\ echo = TRUE /\ waiting_for_sms = FALSE
  /\ accepted = {} /\ arrived = <<>> /\ rang = {} /\ fetched = <<>>

-----------------------------------------------------------------------------
(* serial_loop *)

\* What handle_command answers, when it carries the command out and when not.
\* Unknown commands, ATH among them, are ERROR to the emulator.
Answers(command) ==
  CASE command.kind \in {"AT", "ATE0"} -> {<<"OK">>}
    [] command.kind = "CONFIG"         -> {<<"OK">>, <<"ERROR">>}
    [] command.kind = "ATH"            -> {<<"ERROR">>, <<"NOCARRIER", "OK">>}
    [] command.kind = "CMGS"           -> {<<"PROMPT">>}

Echoed(command) ==
  IF echo THEN <<IF command.kind = "ATE0" THEN "ECHO" ELSE "OTHER">> ELSE <<>>

HandleCommand(command) ==
  /\ \E answer \in Answers(command) :
       /\ reply' = Lines(Echoed(command) \o answer)
       /\ accepted' = IF command.kind = "CONFIG" /\ answer = <<"OK">>
                      THEN accepted \cup {command.req} ELSE accepted
  /\ echo' = (echo /\ command.kind # "ATE0")
  /\ waiting_for_sms' = (waiting_for_sms \/ command.kind = "CMGS")

\* SUB ends the text: process_sms.
ProcessSms(req) ==
  /\ waiting_for_sms /\ waiting_for_sms' = FALSE
  /\ reply' = Lines(<<"CMGS", "OK">>)
  /\ accepted' = accepted \cup {req}
  /\ UNCHANGED echo

\* One command or text out of the buffer of serial_loop; its answer is written
\* before the next is looked at.  A text that was read before SUB followed is
\* taken for a command, and SUB then ends an empty text.
ModemRead ==
  /\ reply = <<>> /\ toModem # <<>>
  /\ LET item == Head(toModem) IN
     \/ /\ item.kind \notin {"TEXT", "SUB"}
        /\ HandleCommand(item)
        /\ toModem' = Tail(toModem)
     \/ /\ item.kind = "TEXT" /\ Len(toModem) > 1
        /\ ProcessSms(item.req)
        /\ toModem' = Tail(Tail(toModem))
     \/ /\ item.kind = "TEXT"
        /\ reply' = Lines(<<"ERROR">>)
        /\ toModem' = Tail(toModem)
        /\ UNCHANGED <<echo, waiting_for_sms, accepted>>
     \/ /\ item.kind = "SUB"
        /\ ProcessSms(item.req)
        /\ toModem' = Tail(toModem)
  /\ UNCHANGED <<thread, rx, requests, completion, caller, inbox, life,
                 wire, console, arrived, rang, fetched>>

ModemReply ==
  /\ reply # <<>>
  /\ reply' = Tail(reply)
  /\ wire' = Append(wire, Head(reply))
  /\ UNCHANGED <<vars, console, echo, waiting_for_sms, accepted, arrived, rang, fetched>>

-----------------------------------------------------------------------------
(* The console: incoming SMS messages and calls *)

ReceiveSms(i) ==
  /\ console = <<>>
  /\ i \in InSms \ ToSet(arrived)
  /\ console' = <<[kind |-> "CMT", id |-> i], [kind |-> "BODY", id |-> i]>>
  /\ arrived' = Append(arrived, i)
  /\ UNCHANGED <<vars, wire, reply, echo, waiting_for_sms, accepted, rang, fetched>>

\* A modem rings, and names the caller because of AT+CLIP=1.
ReceiveCall(n) ==
  /\ console = <<>>
  /\ n \in InCalls \ rang
  /\ console' = <<[kind |-> "RING", id |-> NoId], [kind |-> "CLIP", id |-> n]>>
  /\ rang' = rang \cup {n}
  /\ UNCHANGED <<vars, wire, reply, echo, waiting_for_sms, accepted, arrived, fetched>>

\* Each write takes write_lock by itself.
ConsoleWrite ==
  /\ console # <<>>
  /\ \/ "interleave" \in Faults /\ wire' = Append(wire, Head(console)) /\ console' = Tail(console)
     \/ "interleave" \notin Faults /\ wire' = wire \o console /\ console' = <<>>
  /\ UNCHANGED <<vars, reply, echo, waiting_for_sms, accepted, arrived, rang, fetched>>

-----------------------------------------------------------------------------
(* The composition *)

Quiet == toModem = <<>> /\ reply = <<>> /\ console = <<>> /\ wire = <<>>

\* Without "late" every answer comes within the time the engine waits for it.
Timeout == /\ "late" \in Faults \/ Quiet
           /\ ATTimeout
           /\ UNCHANGED <<modem, fetched>>

Step == ATStep /\ UNCHANGED <<modem, fetched>>

\* Serial::readThread hands over the next message, and with it the line that
\* follows a prompt too closely.
Receive ==
  \E n \in 1..2 :
    /\ n <= Len(wire)
    /\ n = 2 => "merge" \in Faults /\ Head(wire).kind = "PROMPT"
    /\ ReadEvent(Head(wire))
    /\ wire' = SubSeq(wire, n + 1, Len(wire))
    /\ UNCHANGED <<reply, console, echo, waiting_for_sms, accepted, arrived, rang,
                   fetched>>

Return == ClientReturn /\ UNCHANGED <<modem, fetched>>

\* setDefaultConfig makes one setting after another and stops at the first that
\* fails, which a setting that timed out does too, whatever becomes of it.
DueAfterReturn(r) ==                                       \* mutant: no break
  \A i \in DOMAIN DefaultConfig : DefaultConfig[i] = r =>
    \A j \in 1..(i - 1) : caller[DefaultConfig[j]] \notin {"idle", "waiting"}
SettingDue(r) ==
  \A i \in DOMAIN DefaultConfig : DefaultConfig[i] = r =>
    \A j \in 1..(i - 1) : caller[DefaultConfig[j]] = "succeeded"

Call == /\ ClientCall
        /\ \A r \in ConfigReqs : caller[r] = "idle" /\ caller'[r] # "idle" => SettingDue(r)
        /\ UNCHANGED <<modem, fetched>>
Fetch == /\ GetLastSms
         /\ fetched' = Append(fetched, Head(receivedSmses))
         /\ UNCHANGED modem

HeartBeatDue == Tick /\ UNCHANGED <<modem, fetched>>

EngineNext == \/ Step \/ Timeout \/ Receive
              \/ ModemRead \/ ModemReply \/ ConsoleWrite
              \/ \E i \in InSms : ReceiveSms(i)
              \/ \E n \in InCalls : ReceiveCall(n)
              \/ Return \/ Call \/ Fetch \/ HeartBeatDue

\* The AT thread, the serial threads and the modem keep running; waits are
\* bounded by their timeouts.  Clients, callers and the clock owe nothing.
EngineSpec ==
  /\ EngineInit /\ [][EngineNext]_engineVars
  /\ WF_engineVars(Step) /\ WF_engineVars(Timeout)
  /\ WF_engineVars(Receive)
  /\ WF_engineVars(ModemRead) /\ WF_engineVars(ModemReply) /\ WF_engineVars(ConsoleWrite)

-----------------------------------------------------------------------------
(* Properties *)

EngineTypeOK ==
  /\ TypeOK
  /\ wire \in Seq(Message) /\ reply \in Seq(Message) /\ console \in Seq(Message)
  /\ echo \in BOOLEAN /\ waiting_for_sms \in BOOLEAN
  /\ accepted \subseteq Requests /\ arrived \in Seq(InSms) /\ rang \subseteq InCalls
  /\ fetched \in Seq([number : InSms \cup InCalls \cup {NoId}, msg : Message])

\* The answer a client gets is what the modem did: a request is reported
\* successful if the modem carried it out and failed if it did not, although
\* an answer names no request and answers, calls and SMS messages share a line.
AnswerIsTrue ==
  \A r \in Promised :
    completion[r] # "pending" => (completion[r] = "succeeded" <=> r \in accepted)

\* The half of it that clients rely on: "Setting ... was successful"
\* (ATCommander.cpp:38) is said of a setting the modem made.
SuccessIsTrue == \A r \in Promised : completion[r] = "succeeded" => r \in accepted

\* GSMManager::initilize never leaves the modem with a later setting and without
\* an earlier one: the modem may reject a setting or the client give up on one
\* that is still queued, and what was queued before is carried out before.
SettingsInOrder ==
  \A i, j \in DOMAIN DefaultConfig :
    i < j /\ DefaultConfig[j] \in accepted => DefaultConfig[i] \in accepted

\* Incoming SMS messages reach the client in the order they came, each with its
\* own text; none is lost, doubled or mixed with another or with an answer.
Delivered == fetched \o receivedSmses
SmsDeliveredInOrder ==
  IsPrefix(Delivered,
           [j \in DOMAIN arrived |->
              [number |-> arrived[j], msg |-> [kind |-> "BODY", id |-> arrived[j]]]])

\* The engine ends by "Heart beat timeout" only when the modem is silent; the
\* modem of this module answers every command.
AnsweringModemKeepsEngine == [][pc' = "exited" => pc \notin {"sync", "synced"}]_engineVars

\* A request is answered, or the AT thread has ended.
RequestAnswered ==
  \A r \in Promised :
    caller[r] = "waiting" ~> completion[r] # "pending" \/ pc = "exited"

\* An incoming SMS is made available, or the AT thread has ended.
SmsMadeAvailable ==
  \A i \in InSms :
    i \in ToSet(arrived) ~>
      pc = "exited" \/ \E j \in DOMAIN Delivered : Delivered[j].number = i

\* After shutdown() the AT thread ends, so that the destructor's join returns.
ShutdownEndsThread == ~isAliveFlag ~> pc = "exited"
-----------------------------------------------------------------------------
(* Why AnswerIsTrue holds: the dialogue of the engine and the modem *)

\* What the surroundings must not do, and the texts must not contain, for the
\* answers to be told apart.
Reliable == Faults \subseteq {"interleave"} /\ TextTokens = {}

\* The lines that answer a command, other than ERROR, which no wait looks for.
AnswerTokens == {"OK", "PROMPT", "CMGS", "NOCARRIER"}

NoneOf(messages, kind) == \A i \in DOMAIN messages : messages[i].kind # kind
OneOf(messages, kind) ==
  \E i \in DOMAIN messages :
    /\ messages[i].kind = kind
    /\ \A j \in DOMAIN messages : messages[j].kind = kind => j = i

\* A line on its way from the modem to the wait that consumes it is in one of
\* three places.
Absent(kind) ==
  NoneOf(reply, kind) /\ NoneOf(wire, kind) /\ NoneOf(receivedCommands, kind)
UnderWay(kind) ==
  \/ OneOf(reply, kind) /\ NoneOf(wire, kind) /\ NoneOf(receivedCommands, kind)
  \/ NoneOf(reply, kind) /\ OneOf(wire, kind) /\ NoneOf(receivedCommands, kind)
  \/ NoneOf(reply, kind) /\ NoneOf(wire, kind) /\ OneOf(receivedCommands, kind)

\* Exactly these answers are under way, each once.
OnLine(kinds) ==
  \A kind \in AnswerTokens : IF kind \in kinds THEN UnderWay(kind) ELSE Absent(kind)

Asked(items) == toModem = items /\ OnLine({})
Told(kinds) == toModem = <<>> /\ OnLine(kinds)
Item(kind, r) == [kind |-> kind, req |-> r]

\* Between two commands nothing of an earlier answer is left.
NothingAsked == {"start", "loop", "drain", "smsText", "configCheck", "config",
                 "smsCheck", "sms", "beat", "synced", "text"}

AwaitsSetting ==
  /\ expect = <<"OK">>
  /\ \/ Asked(<<Item("CONFIG", task)>>) /\ task \notin accepted
     \/ Told(IF task \in accepted THEN {"OK"} ELSE {})

AwaitsHangUp ==
  \/ /\ expect = <<"NOCARRIER", "OK">>
     /\ Asked(<<Item("ATH", ATH)>>) \/ Told({"NOCARRIER", "OK"}) \/ Told({})
  \/ /\ expect = <<"OK">>
     /\ Told({"OK"}) \/ Told({})

AwaitsSms ==
  \/ /\ expect = <<"PROMPT", "CMGS", "OK">>
     /\ Asked(<<Item("CMGS", task)>>) \/ Told({"PROMPT"})
  \/ /\ expect = <<"CMGS", "OK">>
     /\ \/ Asked(<<Item("TEXT", task), Item("SUB", task)>>)
        \/ Asked(<<Item("SUB", task)>>)
        \/ Told({"CMGS", "OK"}) /\ task \in accepted
  \/ expect = <<"OK">> /\ Told({"OK"}) /\ task \in accepted

\* One command at a time: what is under way is the answer to it, and an SMS or
\* a call between two lines of the answer changes nothing of that.
Dialogue ==
  /\ pc \in NothingAsked => Asked(<<>>)
  /\ pc = "text" => task \in SmsTask /\ expect = <<"CMGS", "OK">>
  /\ pc \in {"ate0First", "ate0Second"} =>
       Asked(<<Item("ATE0", NoTask)>>) \/ Told({"OK"})
  /\ pc = "sync" => Asked(<<Item("AT", NoTask)>>) \/ Told({"OK"})
  /\ pc = "await" => \/ task \in ConfigReqs /\ AwaitsSetting
                     \/ task = ATH /\ AwaitsHangUp
                     \/ task \in SmsTask /\ AwaitsSms
  /\ pc = "exited" => \A i \in DOMAIN toModem : toModem[i].kind \in {"ATE0", "AT"}
  /\ \A i \in DOMAIN console : console[i].kind \notin AnswerTokens

\* The wait for an answer has not passed it over: it is newer than the command,
\* and newer than what was searched before the wait began, which is everything
\* while the flag is down.
NotPassedOver ==
  /\ pc = "await" => older <= Len(receivedCommands)
  /\ pc = "await" =>
       \A i \in DOMAIN receivedCommands :
         /\ receivedCommands[i].kind \in AnswerTokens => older < i
         /\ waiting /\ receivedCommands[i].kind = Head(expect) => numberOfMsg < i
  /\ pc = "await" /\ waiting /\ ~isNewMsgFromAt => numberOfMsg = Len(receivedCommands)

\* What the modem did is known of no request before it is sent, and is what the
\* promise says after.
Truth ==
  /\ AnswerIsTrue
  /\ \A r \in Promised : r \in accepted => completion[r] # "pending" \/ task = r
  /\ task # ATH => success

\* A caller is told what the promise of its request holds, and the modem only
\* sees what was called for, one default setting after the other.
CallersTold ==
  /\ \A r \in Promised : r \in accepted => caller[r] # "idle"
  /\ \A r \in Promised : caller[r] = "succeeded" => completion[r] = "succeeded"
  /\ \A i, j \in DOMAIN DefaultConfig :
       i < j /\ caller[DefaultConfig[j]] # "idle" => caller[DefaultConfig[i]] = "succeeded"

\* Settings and SMS messages are sent as what they are, the text of an SMS only
\* after the prompt that an SMS request alone waits for.
Sent == {c \in Command : /\ c.kind = "CONFIG" => c.req \in ConfigReqs
                         /\ c.kind \in {"TEXT", "SUB"} => c.req \in SmsTask}
SentInv ==
  /\ toModem \in Seq(Sent)
  /\ pc = "text" => task \in SmsTask
  /\ \A i \in DOMAIN expect : expect[i] = "PROMPT" => task \in SmsTask

\* The inductive invariant.
DialogueInv ==
  SentInv /\ (Reliable => Dialogue /\ NotPassedOver /\ Truth /\ CallersTold)
-----------------------------------------------------------------------------
(* Why SmsDeliveredInOrder holds: the way of an SMS to the client *)

\* What the surroundings must not do, and the texts must not contain, for the
\* two lines of an SMS to stay together.
Undisturbed == Faults = {} /\ TextTokens = {}

Header(i) == [kind |-> "CMT", id |-> i]
Text(i) == [kind |-> "BODY", id |-> i]

\* at[k] is the place on the line of the text of sms[k]: the texts come in order,
\* each behind its header unless the engine has taken that, and there are no others.
InPlace(at, line, taken, sms) ==
  /\ \A j, k \in DOMAIN at : j < k => at[j] < at[k]
  /\ \A k \in DOMAIN at :
       /\ line[at[k]] = Text(sms[k])
       /\ IF at[k] = 1 THEN taken = sms[k] ELSE line[at[k] - 1] = Header(sms[k])
  /\ \A p \in DOMAIN line :
       /\ line[p].kind = "BODY" => \E k \in DOMAIN at : at[k] = p
       /\ line[p].kind = "CMT" => \E k \in DOMAIN at : at[k] = p + 1
  /\ taken # NoId => \E k \in DOMAIN at : at[k] = 1

\* The SMS messages from the one to the other are on the line, and no others.
Carried(line, taken, sms, from, to) ==
  \E at \in [from..to -> DOMAIN line] : InPlace(at, line, taken, sms)

\* How many SMS messages the console has written to the line.
Written == IF console # <<>> /\ Head(console).kind = "CMT" THEN Len(arrived) - 1
           ELSE Len(arrived)

\* The console has written both lines of a message or none.
ConsoleInv ==
  \/ console = <<>>
  \/ /\ arrived # <<>>
     /\ console = <<Header(Last(arrived)), Text(Last(arrived))>>
  \/ \E n \in InCalls : console = <<[kind |-> "RING", id |-> NoId], [kind |-> "CLIP", id |-> n]>>

\* What was delivered are the first messages that arrived; what the engine still
\* has to take are the others.
SmsOnTheWay ==
  /\ ConsoleInv
  /\ \A i \in DOMAIN reply : reply[i].kind \notin {"CMT", "BODY"}
  /\ Len(Delivered) <= Written
  /\ \A j \in DOMAIN Delivered : Delivered[j] = [number |-> arrived[j], msg |-> Text(arrived[j])]
  /\ smsHeader # NoId <=> pc = "smsText"
  /\ pc = "smsText" /\ waiting /\ ~isNewMsgFromAt => receivedCommands = <<>>
  /\ pc # "exited" =>
       Carried(receivedCommands \o wire, smsHeader, arrived, Len(Delivered) + 1, Written)

\* The inductive invariant.
SmsInv == Undisturbed => SmsOnTheWay
=============================================================================
