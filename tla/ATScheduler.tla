----------------------------- MODULE ATScheduler -----------------------------
(***************************************************************************)
(* AT::ATCommanderScheduler and AT::ATCommander: the thread that owns the  *)
(* dialogue with the GSM modem, the callback by which the serial receiver  *)
(* hands it framed messages, and the client API.  Three kinds of threads   *)
(* share this state through mutexes: the AT thread (atCommandManager), the *)
(* serial receiver (ReadEvent) and the clients.  One action is one         *)
(* critical section; a wait on cvATReceiver splits the section it is in.   *)
(*                                                                         *)
(* The modem is arbitrary here: any message of EnvMessages may arrive at   *)
(* any time, so what holds in this module holds whatever the modem does.   *)
(* GSMEngine.tla closes the system with the modem of ATEmulator.py.        *)
(***************************************************************************)
EXTENDS Integers, FiniteSets, SequencesExt

CONSTANTS ConfigReqs,    \* calls of setConfig
          SmsSync,       \* calls of sendSmsSync
          SmsAsync,      \* calls of sendSms
          ATH,           \* the hang-up request the engine makes itself
          NoTask,
          InSms,         \* SMS messages that may be received
          InCalls,       \* calls that may be received
          NoId,
          TextTokens,    \* <<s, t>>: the text of SMS s contains the token t
          ClientThreads, \* how many threads may be blocked in the client API
          EnvMessages,   \* the messages the modem of this instance can say
          MaxReceived, MaxPending, MaxWire   \* bounds, see HasRoom

Tokens == {"OK", "ECHO", "PROMPT", "CMGS", "NOCARRIER"}
Kinds == Tokens \cup {"ERROR", "CMT", "BODY", "RING", "CLIP", "OTHER"}

ConfigTask == ConfigReqs \cup {ATH}
SmsTask == SmsSync \cup SmsAsync
Task == ConfigTask \cup SmsTask
Promised == ConfigReqs \cup SmsSync     \* the requests that carry a promise
Requests == Promised \cup SmsAsync      \* the calls of the client API

\* A framed line from the modem.  OTHER also stands for the +CMT and +CLIP
\* lines that the parsers reject: the engine drops both alike.
Message == [kind : Kinds, id : InSms \cup InCalls \cup {NoId}]
\* An item of Serial's write queue.
Command == [kind : {"ATE0", "AT", "CONFIG", "ATH", "CMGS", "TEXT", "SUB"},
            req : Task \cup {NoTask}]

ASSUME SchedulerAssumption ==
  /\ ConfigReqs \cap SmsTask = {} /\ SmsSync \cap SmsAsync = {}
  /\ ATH \notin Requests /\ NoTask \notin Task
  /\ NoId \notin InSms \cup InCalls
  /\ TextTokens \subseteq InSms \X Tokens
  /\ EnvMessages \subseteq Message
  /\ {ClientThreads, MaxReceived, MaxPending, MaxWire} \subseteq Nat

VARIABLES
  pc,               \* where the AT thread is
  waiting,          \* it is blocked in cvATReceiver.wait_for
  receivedCommands, \* messages received and not consumed, oldest first
  isNewMsgFromAt,   \* the predicate of cvATReceiver
  task,             \* the request being processed, or NoTask
  expect,           \* the tokens it still has to be answered with
  success,          \* configProcessing's local of that name
  older,            \* how many messages of receivedCommands precede `now`
  numberOfMsg,      \* waitForMessageTimeout's local of that name
  smsHeader,        \* the SMS whose header was taken, or NoId
  overdue,          \* more than 10 s since lastRefresh
  atRequestsQueue, atSmsRequestQueue,
  completion,       \* what the promise of each request holds
  caller,           \* what each call of the client API has returned
  receivedSmses, calls,
  isAliveFlag, stopRequested,
  toModem           \* Serial's write queue

local    == <<task, expect, success, older, numberOfMsg, smsHeader>>
thread   == <<pc, waiting, local, overdue>>
rx       == <<receivedCommands, isNewMsgFromAt>>
requests == <<atRequestsQueue, atSmsRequestQueue>>
inbox    == <<receivedSmses, calls>>
life     == <<isAliveFlag, stopRequested>>
shared   == <<requests, completion, caller, inbox, life, toModem>>
vars     == <<thread, rx, shared>>

Init ==
  /\ pc = "start" /\ waiting = FALSE /\ overdue = FALSE
  /\ receivedCommands = <<>> /\ isNewMsgFromAt = FALSE
  /\ task = NoTask /\ expect = <<>> /\ success = TRUE
  /\ older = 0 /\ numberOfMsg = 0 /\ smsHeader = NoId
  /\ atRequestsQueue = <<>> /\ atSmsRequestQueue = <<>>
  /\ completion = [r \in Promised |-> "pending"]
  /\ caller = [r \in Requests |-> "idle"]
  /\ receivedSmses = <<>> /\ calls = <<>>
  /\ isAliveFlag = TRUE /\ stopRequested = FALSE
  /\ toModem = <<>>

-----------------------------------------------------------------------------
(* Helpers *)

\* command.find(token) != npos: a text message carries what its author wrote.
Carries(m, token) == \/ m.kind = token
                     \/ m.kind = "BODY" /\ <<m.id, token>> \in TextTokens

\* Indices after n of the received messages that carry the token.
MatchesAny(n, token) == (n + 1)..Len(receivedCommands)    \* mutant: not compared
Matches(n, token) ==
  {i \in (n + 1)..Len(receivedCommands) : Carries(receivedCommands[i], token)}

\* front() and pop() of the queues.
FrontOfNewest(queue) == Last(queue)                       \* mutant: back()
FrontOf(queue) == Head(queue)
PoppedNot(queue) == queue                                 \* mutant: no pop()
Popped(queue) == Tail(queue)

SendFor(kind, t) == toModem' = Append(toModem, [kind |-> kind, req |-> t])

\* The entry of a wait on cvATReceiver: the flag is cleared, the mutex released.
BeginWaitUncleared == waiting' = TRUE /\ UNCHANGED isNewMsgFromAt  \* mutant
BeginWait == waiting' = TRUE /\ isNewMsgFromAt' = FALSE

\* The wait ended because a message came: flag cleared, heartbeat refreshed.
Woken == waiting /\ isNewMsgFromAt /\ isNewMsgFromAt' = FALSE /\ overdue' = FALSE
TimeUp == waiting /\ ~isNewMsgFromAt /\ UNCHANGED <<isNewMsgFromAt, overdue>>

Exit == pc' = "exited" /\ waiting' = FALSE

-----------------------------------------------------------------------------
(* Start: setConfigATE0, with the echo of the command still on *)

SendATE0 == /\ pc = "start"
            /\ pc' = "ate0First"
            /\ SendFor("ATE0", NoTask)
            /\ UNCHANGED <<waiting, local, overdue, rx, requests, completion,
                           caller, inbox, life>>

\* The newest message decides.
TakeLast ==
  LET m == Last(receivedCommands) IN
  /\ receivedCommands' = Front(receivedCommands)
  /\ pc' = IF Carries(m, "OK") THEN "loop"
           ELSE IF Carries(m, "ECHO") /\ pc = "ate0First" THEN "ate0Second"
           ELSE "exited"

ATE0Get ==
  /\ pc \in {"ate0First", "ate0Second"} /\ ~waiting
  /\ \/ receivedCommands # <<>> /\ TakeLast /\ UNCHANGED <<waiting, isNewMsgFromAt>>
     \/ receivedCommands = <<>> /\ BeginWait /\ UNCHANGED <<pc, receivedCommands>>
  /\ overdue' = (overdue /\ pc' # "loop")
  /\ UNCHANGED <<local, shared>>

ATE0Wake ==
  /\ pc \in {"ate0First", "ate0Second"} /\ Woken
  /\ waiting' = FALSE
  /\ TakeLast
  /\ UNCHANGED <<local, shared>>

\* The thread returns: isAliveFlag keeps its value.
ATE0Timeout ==
  /\ pc \in {"ate0First", "ate0Second"} /\ TimeUp
  /\ Exit
  /\ UNCHANGED <<local, receivedCommands, shared>>

-----------------------------------------------------------------------------
(* The loop: unsolicited messages first *)

LoopForEver == /\ pc = "loop" /\ pc' = "drain"            \* mutant
               /\ UNCHANGED <<waiting, local, overdue, rx, shared>>
Loop == /\ pc = "loop"
        /\ pc' = IF stopRequested THEN "exited" ELSE "drain"
        /\ UNCHANGED <<waiting, local, overdue, rx, shared>>

\* smsProcessing: the header is parsed and the text is awaited.
SmsProcessing(m) == /\ m.kind = "CMT"
                    /\ smsHeader' = m.id /\ pc' = "smsText"
                    /\ UNCHANGED <<atRequestsQueue, calls>>

\* callingProcessing: the call is noted and will be hung up.
CallingProcessing(m) == /\ m.kind = "CLIP"
                        /\ atRequestsQueue' = Append(atRequestsQueue, ATH)
                        /\ calls' = Append(calls, m.id)
                        /\ UNCHANGED <<pc, smsHeader>>

Skipped(m) == /\ m.kind \notin {"CMT", "CLIP"}
              /\ UNCHANGED <<pc, smsHeader, atRequestsQueue, calls>>

\* The oldest message is handled; an empty queue ends the inner loop.
Drain ==
  /\ pc = "drain"
  /\ \/ /\ receivedCommands = <<>> /\ pc' = "configCheck"
        /\ UNCHANGED <<receivedCommands, smsHeader, atRequestsQueue, calls>>
     \/ /\ receivedCommands # <<>>
        /\ receivedCommands' = Popped(receivedCommands)
        /\ LET m == FrontOf(receivedCommands) IN
           SmsProcessing(m) \/ CallingProcessing(m) \/ Skipped(m)
  /\ UNCHANGED <<waiting, task, expect, success, older, numberOfMsg, overdue,
                 isNewMsgFromAt, atSmsRequestQueue, completion, caller,
                 receivedSmses, life, toModem>>

\* smsProcessing takes the next message, whatever it is, as the text.
StoreSms ==
  /\ receivedSmses' = Append(receivedSmses,
                             [number |-> smsHeader, msg |-> FrontOf(receivedCommands)])
  /\ receivedCommands' = Popped(receivedCommands)
  /\ smsHeader' = NoId /\ pc' = "drain"

smsTextKeeps == <<task, expect, success, older, numberOfMsg, requests, completion,
                  caller, calls, life, toModem>>

SmsTextGet ==
  /\ pc = "smsText" /\ ~waiting
  /\ \/ receivedCommands # <<>> /\ StoreSms /\ UNCHANGED <<waiting, isNewMsgFromAt>>
     \/ /\ receivedCommands = <<>> /\ BeginWait
        /\ UNCHANGED <<pc, receivedCommands, smsHeader, receivedSmses>>
  /\ UNCHANGED <<overdue, smsTextKeeps>>

SmsTextWake ==
  /\ pc = "smsText" /\ Woken
  /\ waiting' = FALSE
  /\ StoreSms
  /\ UNCHANGED smsTextKeeps

SmsTextTimeout ==
  /\ pc = "smsText" /\ TimeUp
  /\ waiting' = FALSE /\ smsHeader' = NoId /\ pc' = "drain"
  /\ UNCHANGED <<receivedCommands, receivedSmses, smsTextKeeps>>

-----------------------------------------------------------------------------
(* The loop: configuration requests, then SMS requests *)

\* if(hasRequests && !hasReceivedCommands) before the loop that serves a queue.
Check(here, queue, serve, skip) ==
  /\ pc = here
  /\ pc' = IF queue # <<>> /\ receivedCommands = <<>> THEN serve ELSE skip
  /\ UNCHANGED <<waiting, local, overdue, rx, shared>>

ConfigCheck == Check("configCheck", atRequestsQueue, "config", "smsCheck")
SmsCheck    == Check("smsCheck", atSmsRequestQueue, "sms", "beat")

\* A request is taken: the time is noted and the command sent.
Begin(t, kind, tokens) ==
  /\ pc' = "await"
  /\ task' = t /\ expect' = tokens
  /\ older' = Len(receivedCommands)
  /\ SendFor(kind, t)

\* An empty queue ends the loop that serves it.
NoMore(next) == pc' = next /\ UNCHANGED <<task, expect, older, requests, toModem>>

serveKeeps == <<waiting, success, numberOfMsg, smsHeader, overdue, rx, completion,
                caller, inbox, life>>

TakeConfig ==
  /\ pc = "config"
  /\ \/ atRequestsQueue = <<>> /\ NoMore("smsCheck")
     \/ /\ atRequestsQueue # <<>>
        /\ LET t == FrontOf(atRequestsQueue) IN
           IF t = ATH THEN Begin(t, "ATH", <<"NOCARRIER", "OK">>)
                      ELSE Begin(t, "CONFIG", <<"OK">>)
        /\ atRequestsQueue' = Popped(atRequestsQueue)
        /\ UNCHANGED atSmsRequestQueue
  /\ UNCHANGED serveKeeps

TakeSms ==
  /\ pc = "sms"
  /\ \/ atSmsRequestQueue = <<>> /\ NoMore("beat")
     \/ /\ atSmsRequestQueue # <<>>
        /\ Begin(FrontOf(atSmsRequestQueue), "CMGS", <<"PROMPT", "CMGS", "OK">>)
        /\ atSmsRequestQueue' = Popped(atSmsRequestQueue)
        /\ UNCHANGED atRequestsQueue
  /\ UNCHANGED serveKeeps

\* The prompt came: the text and SUB follow, and `now` is taken again.
SendText ==
  /\ pc = "text"
  /\ pc' = "await"
  /\ older' = Len(receivedCommands)
  /\ toModem' = toModem \o <<[kind |-> "TEXT", req |-> task],
                             [kind |-> "SUB", req |-> task]>>
  /\ UNCHANGED <<task, expect, requests, serveKeeps>>

\* The promise of the request, if it has one, is set.
SetPromiseOnSuccess(ok) ==                                \* mutant: not on failure
  completion' = IF task \in Promised /\ ok
                THEN [completion EXCEPT ![task] = "succeeded"] ELSE completion
SetPromise(ok) ==
  completion' = IF task \in Promised
                THEN [completion EXCEPT ![task] = IF ok THEN "succeeded" ELSE "failed"]
                ELSE completion

Finish(ok) == /\ SetPromise(ok)
              /\ pc' = IF task \in ConfigTask THEN "config" ELSE "sms"
              /\ task' = NoTask /\ expect' = <<>> /\ success' = TRUE /\ older' = 0

\* The wait for Head(expect) returned ok.  An SMS request stops at the first
\* missing answer, a configuration request waits for all of them.
Responded(ok) ==
  \/ ~ok /\ task \in SmsTask /\ Finish(FALSE)
  \/ /\ ok \/ task \in ConfigTask
     /\ \/ Len(expect) = 1 /\ Finish(success /\ ok)
        \/ /\ Len(expect) > 1
           /\ expect' = Tail(expect)
           /\ success' = (success /\ ok)
           /\ pc' = IF Head(expect) = "PROMPT" THEN "text" ELSE "await"
           /\ UNCHANGED <<task, older, completion>>

-----------------------------------------------------------------------------
(* waitForMessageTimeout *)

awaitKeeps == <<smsHeader, requests, caller, inbox, life, toModem>>

\* Message i answers the request and is erased.
Found(i) == receivedCommands' = RemoveAt(receivedCommands, i) /\ Responded(TRUE)

\* None does: the wait begins, or begins again.
NotFound == /\ numberOfMsg' = Len(receivedCommands)
            /\ UNCHANGED <<pc, receivedCommands, task, expect, success, older, completion>>

\* The messages newer than `now` are searched, the newest first.
AwaitScan ==
  /\ pc = "await" /\ ~waiting
  /\ LET I == Matches(older, Head(expect)) IN
     \/ \E i \in I : /\ \A j \in I : j <= i
                     /\ Found(i)
                     /\ UNCHANGED <<waiting, isNewMsgFromAt, numberOfMsg>>
     \/ I = {} /\ NotFound /\ BeginWait
  /\ UNCHANGED <<overdue, awaitKeeps>>

\* Woken: the messages that came during the wait are searched, oldest first.
AwaitWake ==
  /\ pc = "await" /\ Woken
  /\ LET I == Matches(numberOfMsg, Head(expect)) IN
     \/ \E i \in I : /\ \A j \in I : i <= j
                     /\ Found(i)
                     /\ waiting' = FALSE /\ numberOfMsg' = 0
     \/ I = {} /\ NotFound /\ UNCHANGED waiting
  /\ UNCHANGED awaitKeeps

\* The time is up: nothing came, or only messages that do not match.
AwaitTimeout ==
  /\ pc = "await"
  /\ TimeUp \/ (Woken /\ Matches(numberOfMsg, Head(expect)) = {})
  /\ Responded(FALSE)
  /\ waiting' = FALSE /\ numberOfMsg' = 0
  /\ UNCHANGED <<receivedCommands, awaitKeeps>>

-----------------------------------------------------------------------------
(* The loop: heartbeat *)

Beat ==
  /\ pc = "beat"
  /\ \/ /\ receivedCommands = <<>> /\ overdue
        /\ pc' = "sync" /\ SendFor("AT", NoTask)
     \/ /\ receivedCommands # <<>> \/ ~overdue
        /\ pc' = "loop" /\ UNCHANGED toModem
  /\ UNCHANGED <<waiting, local, overdue, rx, requests, completion, caller, inbox, life>>

\* shutdown() and return.
HeartBeatFailed == Exit /\ isAliveFlag' = FALSE /\ stopRequested' = TRUE

syncKeeps == <<local, requests, completion, caller, inbox, toModem>>

\* waitForSyncConfirm searches all messages, the newest first.
SyncScan ==
  /\ pc = "sync" /\ ~waiting
  /\ LET I == Matches(0, "OK") IN
     \/ \E i \in I : /\ \A j \in I : j <= i
                     /\ receivedCommands' = RemoveAt(receivedCommands, i)
                     /\ pc' = "synced"
                     /\ UNCHANGED <<waiting, isNewMsgFromAt>>
     \/ I = {} /\ BeginWait /\ UNCHANGED <<pc, receivedCommands>>
  /\ UNCHANGED <<overdue, life, syncKeeps>>

\* Woken: the oldest message alone is looked at.
SyncWake ==
  /\ pc = "sync" /\ Woken
  /\ \/ /\ Carries(Head(receivedCommands), "OK")
        /\ receivedCommands' = Tail(receivedCommands)
        /\ pc' = "synced" /\ waiting' = FALSE
        /\ UNCHANGED life
     \/ /\ ~Carries(Head(receivedCommands), "OK")
        /\ HeartBeatFailed
        /\ UNCHANGED receivedCommands
  /\ UNCHANGED syncKeeps

SyncTimeout ==
  /\ pc = "sync" /\ TimeUp
  /\ HeartBeatFailed
  /\ UNCHANGED <<receivedCommands, syncKeeps>>

\* sendSync fails when a message is left after the OK.
Synced ==
  /\ pc = "synced"
  /\ \/ /\ receivedCommands = <<>>
        /\ pc' = "loop" /\ overdue' = FALSE
        /\ UNCHANGED <<waiting, life>>
     \/ /\ receivedCommands # <<>>
        /\ HeartBeatFailed
        /\ UNCHANGED overdue
  /\ UNCHANGED <<rx, syncKeeps>>

ATStep == \/ SendATE0 \/ ATE0Get \/ ATE0Wake \/ Loop \/ Drain
          \/ SmsTextGet \/ SmsTextWake
          \/ ConfigCheck \/ TakeConfig \/ SmsCheck \/ TakeSms \/ SendText
          \/ AwaitScan \/ AwaitWake
          \/ Beat \/ SyncScan \/ SyncWake \/ Synced

\* The steps the AT thread takes because a wait lasted too long.
ATTimeout == ATE0Timeout \/ SmsTextTimeout \/ AwaitTimeout \/ SyncTimeout

-----------------------------------------------------------------------------
(* The client API (ATCommander), called by any thread *)

MayCall(r) == /\ caller[r] = "idle"
              /\ Cardinality({q \in Requests : caller[q] = "waiting"}) < ClientThreads

\* The request is queued; the client blocks on the future.
Submitted(r, state) == caller' = [caller EXCEPT ![r] = state]
                       /\ UNCHANGED <<thread, rx, completion, inbox, life, toModem>>

SetConfig(r) == /\ MayCall(r)
                /\ atRequestsQueue' = Append(atRequestsQueue, r)
                /\ Submitted(r, "waiting")
                /\ UNCHANGED atSmsRequestQueue

SendSmsSyncFirst(r) == /\ MayCall(r)                      \* mutant: overtakes
                       /\ atSmsRequestQueue' = <<r>> \o atSmsRequestQueue
                       /\ Submitted(r, "waiting")
                       /\ UNCHANGED atRequestsQueue
SendSmsSync(r) == /\ MayCall(r)
                  /\ atSmsRequestQueue' = Append(atSmsRequestQueue, r)
                  /\ Submitted(r, "waiting")
                  /\ UNCHANGED atRequestsQueue

\* No promise: the call has succeeded once the request is queued.
SendSms(r) == /\ MayCall(r)
              /\ atSmsRequestQueue' = Append(atSmsRequestQueue, r)
              /\ Submitted(r, "succeeded")
              /\ UNCHANGED atRequestsQueue

clientKeeps == <<thread, rx, requests, completion, toModem>>

\* The future is ready, or is not after k_waitForMessageTimeout.
ReturnResultEarly(r) == /\ caller[r] = "waiting"          \* mutant: not awaited
                        /\ caller' = [caller EXCEPT ![r] = completion[r]]
                        /\ UNCHANGED <<inbox, life, clientKeeps>>
ReturnResult(r) == /\ caller[r] = "waiting" /\ completion[r] # "pending"
                   /\ caller' = [caller EXCEPT ![r] = completion[r]]
                   /\ UNCHANGED <<inbox, life, clientKeeps>>
ReturnTimeout(r) == /\ caller[r] = "waiting" /\ completion[r] = "pending"
                    /\ caller' = [caller EXCEPT ![r] = "timeout"]
                    /\ UNCHANGED <<inbox, life, clientKeeps>>

GetLastSms == /\ receivedSmses # <<>>
              /\ receivedSmses' = Tail(receivedSmses)
              /\ UNCHANGED <<calls, caller, life, clientKeeps>>

GetLastCall == /\ calls # <<>>
               /\ calls' = Tail(calls)
               /\ UNCHANGED <<receivedSmses, caller, life, clientKeeps>>

\* notify_all wakes nobody: the waits test isNewMsgFromAt alone.
Shutdown == /\ isAliveFlag
            /\ isAliveFlag' = FALSE /\ stopRequested' = TRUE
            /\ UNCHANGED <<inbox, caller, clientKeeps>>

ClientCall == \/ \E r \in ConfigReqs : SetConfig(r)
              \/ \E r \in SmsSync : SendSmsSync(r)
              \/ \E r \in SmsAsync : SendSms(r)
              \/ \E r \in Promised : ReturnTimeout(r)
              \/ GetLastCall \/ Shutdown
ClientReturn == \E r \in Promised : ReturnResult(r)
ClientStep == ClientCall \/ ClientReturn \/ GetLastSms

-----------------------------------------------------------------------------
(* The surroundings *)

\* The bounds on what the modem may send ahead of the engine and its clients.
HasRoom == /\ Len(receivedCommands) < MaxReceived
           /\ Len(receivedSmses) + Len(calls) + Len(atRequestsQueue) < MaxPending
           /\ Len(toModem) < MaxWire

\* The callback given to Serial::setReadEvent.
ReadEventSilent(m) == /\ receivedCommands' = Append(receivedCommands, m)  \* mutant
                      /\ UNCHANGED <<isNewMsgFromAt, thread, shared>>
ReadEvent(m) == /\ receivedCommands' = Append(receivedCommands, m)
                /\ isNewMsgFromAt' = TRUE
                /\ UNCHANGED <<thread, shared>>

\* Serial::sendThread writes the oldest item.
SerialWrite == /\ toModem # <<>>
               /\ toModem' = Tail(toModem)
               /\ UNCHANGED <<thread, rx, requests, completion, caller, inbox, life>>

\* Ten seconds without a refresh.
Tick == /\ ~overdue /\ pc # "exited" /\ Len(toModem) < MaxWire
        /\ overdue' = TRUE
        /\ UNCHANGED <<pc, waiting, local, rx, shared>>

Environment == \/ \E m \in EnvMessages : HasRoom /\ ReadEvent(m)
               \/ SerialWrite \/ Tick

Next == ATStep \/ ATTimeout \/ ClientStep \/ Environment

Spec == Init /\ [][Next]_vars

-----------------------------------------------------------------------------
(* Properties *)

PCs == {"start", "ate0First", "ate0Second", "loop", "drain", "smsText",
        "configCheck", "config", "smsCheck", "sms", "await", "text",
        "beat", "sync", "synced", "exited"}

\* Every variable has its type, wherever the threads are.
TypeOK ==
  /\ pc \in PCs /\ waiting \in BOOLEAN /\ success \in BOOLEAN /\ overdue \in BOOLEAN
  /\ isNewMsgFromAt \in BOOLEAN /\ isAliveFlag \in BOOLEAN /\ stopRequested \in BOOLEAN
  /\ receivedCommands \in Seq(Message)
  /\ task \in Task \cup {NoTask} /\ expect \in Seq(Tokens)
  /\ older \in Nat /\ numberOfMsg \in Nat
  /\ smsHeader \in InSms \cup InCalls \cup {NoId}
  /\ atRequestsQueue \in Seq(ConfigTask) /\ atSmsRequestQueue \in Seq(SmsTask)
  /\ completion \in [Promised -> {"pending", "succeeded", "failed"}]
  /\ caller \in [Requests -> {"idle", "waiting", "succeeded", "failed", "timeout"}]
  /\ receivedSmses \in Seq([number : InSms \cup InCalls \cup {NoId}, msg : Message])
  /\ calls \in Seq(InSms \cup InCalls \cup {NoId})
  /\ toModem \in Seq(Command)

\* The AT thread never reads past receivedCommands: when a wait ends because a
\* message came, begin() is a message in the three functions that look at the
\* front or the back of the queue, and begin() + numberOfMsg is one in
\* waitForMessageTimeout (ATCommanderScheduler.cpp:243, :296), although the
\* mutex was released during the wait and the flag outlives every wait.
WakeFindsMessage ==
  waiting => /\ numberOfMsg <= Len(receivedCommands)
             /\ isNewMsgFromAt => numberOfMsg < Len(receivedCommands)

\* A client learns from is_alive() that the engine has ended: the monitor's
\* loop runs while it is true and reports a "shutdown" of the GSM module when
\* it no longer is (MonitoringManager.py:73, :103).
AliveMeansRunning == isAliveFlag => pc # "exited"

\* A request whose client was given a future is in the queue, in the AT
\* thread's hands, or answered: none is dropped on a path of configProcessing
\* or smsRequestProcessing that forgets its promise.
NoRequestLost ==
  \A r \in Promised :
    caller[r] # "idle" /\ completion[r] = "pending" =>
      r = task \/ r \in ToSet(atRequestsQueue) \cup ToSet(atSmsRequestQueue)

\* std::promise::set_value throws when it is called twice, which would end the
\* process: a request that was answered, in time or after its client gave up,
\* is never answered again.
PromiseSetOnce ==
  [][\A r \in Promised : completion[r] # "pending" => completion'[r] = completion[r]]_vars

\* What the proofs need beside the properties.  Only five places wait; the
\* index a wait began with is 0 outside waitForMessageTimeout; a request is in
\* the AT thread's hands exactly while its answers are awaited.
ThreadInv ==
  /\ WakeFindsMessage
  /\ waiting => pc \in {"ate0First", "ate0Second", "smsText", "await", "sync"}
  /\ numberOfMsg # 0 => pc = "await" /\ waiting
  /\ task # NoTask <=> pc \in {"await", "text"}
  /\ pc \in {"await", "text"} => expect # <<>>

\* No request with a promise stands twice in a queue.
NoDuplicates(queue) ==
  \A i, j \in DOMAIN queue : queue[i] = queue[j] /\ queue[i] \in Promised => i = j

\* A request with a promise is queued, or in hand, only between the call that
\* made it and its answer, and never both.
PromiseInv ==
  /\ NoDuplicates(atRequestsQueue) /\ NoDuplicates(atSmsRequestQueue)
  /\ \A r \in Promised :
       /\ r \in ToSet(atRequestsQueue) \cup ToSet(atSmsRequestQueue) \cup {task} =>
            caller[r] # "idle" /\ completion[r] = "pending"
       /\ task = r => r \notin ToSet(atRequestsQueue) \cup ToSet(atSmsRequestQueue)
       /\ caller[r] = "idle" => completion[r] = "pending"

\* The inductive invariant: every request with a promise is in exactly one
\* place, and every wait looks at messages that are there.
IInv == TypeOK /\ ThreadInv /\ PromiseInv /\ NoRequestLost

\* atRequestsQueue and atSmsRequestQueue each implement the abstract queue.
outcomeOf(tracked) ==
  [r \in tracked |-> IF caller[r] = "idle" THEN "idle" ELSE completion[r]]

ConfigQueue == INSTANCE TaskQueue WITH
  Task <- ConfigTask, Tracked <- ConfigReqs, queue <- atRequestsQueue,
  current <- IF task \in ConfigTask THEN task ELSE NoTask,
  outcome <- outcomeOf(ConfigReqs)

SmsQueue == INSTANCE TaskQueue WITH
  Task <- SmsTask, Tracked <- SmsSync, queue <- atSmsRequestQueue,
  current <- IF task \in SmsTask THEN task ELSE NoTask,
  outcome <- outcomeOf(SmsSync)

\* Configuration requests, the engine's own ATH among them, are served one at
\* a time in the order they were made, each answered once.
ConfigServedInOrder == ConfigQueue!Spec

\* So are SMS requests.
SmsServedInOrder == SmsQueue!Spec
=============================================================================
