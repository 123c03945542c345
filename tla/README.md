# Verification of IPRecorder

IPRecorder watches the recordings of two IP cameras and tells its users by SMS
when something moves.  It has two halves: a C++ library, the **GSM engine**
(`src/GSMEngine`), that talks AT commands to a GSM modem from several threads,
and a Python service, the **monitor** (`src/MonitoringManager`), that polls the
camera directories, answers SMS commands and calls the engine through a Python
binding.

This directory holds TLA+ models of the program, TLC configurations that check
them on small instances and TLAPS proofs for all instances.  It covers the
engine from the client API down to the bytes of the serial line, and the
monitor: its main loop, its users, the phone book, the analysis of the
recordings and their directories.

Contents: [Inventory](#inventory), [Modules](#modules),
[Model and code](#model-and-code), [Runs](#runs), [Disagreements](#disagreements),
[Proofs](#proofs), [Assumptions and limits](#assumptions-and-limits),
[Plan](#plan).

## Inventory

### GSM engine

| Component | State | Operations | Correct when |
|---|---|---|---|
| **AT scheduler** `ATCommanderScheduler` | `receivedCommands` (deque of timestamped messages), `isNewMsgFromAt` + `cvATReceiver`, `atRequestsQueue`, `atSmsRequestQueue`, `receivedSmses`, `calls`, `isAliveFlag`, the stop token, `lastRefresh` | the AT thread (`atCommandManager`: ATE0 dialogue, drain of messages, requests, heartbeat), the read callback, `shutdown` | no read past the deque; each request answered once, truthfully, in order; each SMS delivered in order with its text; the thread ends only on shutdown or when the modem is silent |
| **AT commander** `ATCommander` | a promise and future per request | `setConfig`, `sendSmsSync` (block 8 s on the future), `sendSms`, `getLastSms`, `getLastCall` | a result says what happened; a timeout does no harm later |
| **Serial** | write queue, `fd`, two mutexes, the read callback and its state, receiver and sender threads | `sendMessage`, `sendChar`, `setReadEvent`, the two threads, destruction | messages neither lost, reordered nor delivered to a destroyed callback; reader and writer do not block each other |
| **ATMessageFramer** | `pendingMessage` | `push`, `flushPending` | the lines of the byte stream, whatever the sizes of the reads |
| **ATParser, Utils, ATConfig** | none | parsing of `+CMT`, `+CLIP` | total: a malformed line is rejected |
| **GSMManager**, **binding** | the commander | `initilize`, forwarding | configuration stops at the first failure |
| **Tasks** | a queue, a worker thread | `addTask`, `callTask` | nothing in the repository uses it |
| **ATEmulator** | `echo`, `waiting_for_sms`, buffers | `serial_loop`, console | stands for the modem in tests |

Clients and the AT thread share the request queues, each under a mutex, and the
promises; the receiver thread and the AT thread share `receivedCommands` and
the flag under `receivedCommandsMutex`, which a wait on `cvATReceiver`
releases.  Everything hard here comes from that: messages of different origin
(answers, incoming SMS messages, calls) on one line without identifiers, waits
that end by a message or by a timeout, and clients that give up first.

### Monitor

| Component | State | Operations | Correct when |
|---|---|---|---|
| **MonitoringManager** | `kill_now`, the list of SMS files and the one in hand, the files of `SMSDir` | `main` loop: message, call, two cameras, SMS files; `splitSMS`; signals; restart by systemd | no file disappears unsent; a split keeps the text; a stop is honoured |
| **NotificationManager** | `usersList`, its file, `readyToSMS`, the phone book, the engine | `checkNewMessage` (STATUS, ALARMON, ALARMOFF), `checkNewCall`, `sendSMSNotification`, `sendSMSAdmin`, `saveToFile` | the list follows the commands and each change is answered; an alarm reaches every active user on its own number; the list survives a stop |
| **Contacts** | `tel` (ordered), its file | add, remove, sort, change numbers, addresses and defaults, look up, save, read | a name is unique, a number keeps its owner, a lookup answers for nobody else, a saved book is read back |
| **CameraAnalyzer** | `theNewestDir`, `countFiles`, `alarmLevel`, the start of the block | `analyzeMoving` every 5 s | every picture is counted once, over midnight and removals; a movement is told at its start and what follows at the end of the block |
| **DetectObjects** | none | `analyzeMinuteDir`: group pictures into events, sample them, classify | events are bursts of pictures; something seen is told |
| **StatusManager, Logger, mailManager** | none of interest | | a status is answered or raises |
| **scripts** (`autoRemove.sh`, `NetworkMonitoring.py`, ...) | the recordings; a file in `SMSDir` | removal of old days; writing an SMS file | the analyzer survives them; no file is lost half written |

The monitor is one thread; everything around it is not.  The camera and
`autoRemove.sh` change the disk between and during polls, other programs open,
write and close files in `SMSDir` while the loop lists, reads, splits and
removes them, the engine ends by itself, signals come at any time, and any
exception ends the process, which systemd starts again with what is on disk.

What is hard to test in all of this is listed, line by line, under `hazards` in
`PROJECT.json`.

## Modules

| Module | What it is |
|---|---|
| `TaskQueue` | what a request queue promises: one at a time, in order, each promise set once (abstract) |
| `ATScheduler` | the scheduler and the commander in detail, against an arbitrary modem |
| `GSMEngine` | `ATScheduler` composed with the modem of `ATEmulator.py` |
| `SerialLink` | `Serial` and `ATMessageFramer` byte by byte, from construction to destruction |
| `Alarm` | what a camera analyzer promises (abstract) |
| `DetectObjects` | the pictures of a minute: events, samples, decision (operators only) |
| `CameraAnalyzer` | one analyzer over the disk that the camera and `autoRemove.sh` change |
| `Lists` | what several modules compute from sequences (operators only) |
| `PhoneBook` | what `Contacts.py` computes from a list: lookups, the list as a file (operators only) |
| `Contacts` | a program that edits, saves and reads the phone book |
| `Roster` | what the program promises of its active users (abstract) |
| `Notification` | the effects of the methods of `NotificationManager`, over `PhoneBook` |
| `Monitor` | `main` over `Notification`, with its surroundings |
| `MCScheduler`, `MCEngine`, `MCSerialLink`, `MCCameraAnalyzer`, `MCContacts`, `MCMonitor` | instances for TLC |
| `ATScheduler_proofs` | the inductive invariant, types, memory safety, requests and promises |
| `ATQueues_proofs` | both request queues implement `TaskQueue` |
| `GSMEngine_proofs` | the dialogue of the engine and its modem: answers are true, settings and SMS messages come in order |
| `SerialLink_proofs` | the invariant of the link; no answer is dropped; the wire keeps its order; messages are whole |
| `Contacts_proofs` | the invariant of the phone book, and all its properties |
| `CameraAnalyzer_proofs` | the invariant of the analyzer; it implements `Alarm`; events are bursts |
| `Monitor_proofs` | the invariant of the monitor; the list implements `Roster`; alarms and changes are told; splits keep the text; no file is removed unsent |
| `Lists_proofs` | lemmas about sequences that these rest on |

`ATScheduler` has the open environment (`Environment`: any message of
`EnvMessages` at any time), so what holds there holds for every modem and is
what the proofs are about.  `GSMEngine` extends it, replaces that environment
by the modem and the line, and states what needs an honest modem: that answers
are true, that SMS messages arrive, that everything is answered.

`SerialLink` justifies what the other two assume of the link: `ATScheduler`
hands messages to a queue and gets messages one by one, `GSMEngine` has them in
order and whole, and its fault `"merge"` is the one way in which
`MessagesWhole` lets a message be more than a line.

`Notification` EXTENDS `PhoneBook` and `Monitor` EXTENDS `Notification`, as the
Python classes hold one another.  The monitor and the camera analyzers meet in
`processCamera` only: a result (`Alarm`), none (`NoAlarm`), or an exception
(`CameraRaises`), all three of which `CameraAnalyzer` has.

Operators marked `mutant` are variants of the operator below them with a
plausible bug.  `PROJECT.json` pairs each with a property that
catches it; no specification uses them.

## Model and code

The grain is the critical section.  A function that holds a mutex throughout is
one action; a function that waits on `cvATReceiver` is an action up to the wait
and one for each way the wait ends, because the mutex is free in between.  `pc`
says where the AT thread is:

| `pc` | code |
|---|---|
| `start`, `ate0First`, `ate0Second` | `setConfigATE0` and `getLastMessageWithTimeout` |
| `loop`, `drain` | the head of the loop of `atCommandManager`; its inner loop over messages |
| `smsText` | `smsProcessing` in `getOldestMessageWithTimeout` |
| `configCheck`, `config`, `smsCheck`, `sms` | the two tests and the two inner loops over requests |
| `await`, `text` | `waitForMessageTimeout`, and `smsRequestProcessing` after the prompt |
| `beat`, `sync`, `synced` | `heartBeatTick`, `waitForSyncConfirm`, the end of `sendSync` |
| `exited` | the thread has returned |

`waiting` says that it is inside `wait_for`.  `task`, `expect` and `success` are
the locals of `configProcessing` and `smsRequestProcessing`: the request, the
answers it still waits for, and whether all came so far.

Abstractions:

* **Messages** are records of a kind (what the code's `find` calls tell apart:
  `OK`, the ATE0 echo, the prompt, `+CMGS`, `NO CARRIER`, `ERROR`, `+CMT`,
  `RING`, `+CLIP`, a text, anything else) and the SMS or call they belong to.
  A text may contain tokens as well: `TextTokens`.
* **Time**: a timeout may happen in any state in which the wait is on
  (`ATTimeout`); ten seconds without a refresh are the flag `overdue`, set by
  `Tick`.  The timestamps that tell old messages from new ones are the index
  `older`: timestamps grow along the deque.  As waits do not consume older
  messages, the index stays right until the request ends.
* **hasRequests and hasReceivedCommands** are two critical sections and one
  action (`Check`): queues only grow between the two tests, so the outcome is
  that of a test at one moment.
* **Serial** is its write queue `toModem` and, in `GSMEngine`, the line `wire`.
* **GSMManager**: `DefaultConfig` is its list of settings, `SettingDue` the
  loop over it; everything else it does is to forward a call.
* The **modem** answers as `handle_command` does, each command accepted or
  rejected.  `receive_sms` writes header and text in two calls.  The emulator
  knows neither calls nor an accepted `ATH`; both are modelled from what
  `callingProcessing` expects.

### SerialLink

| State | Code |
|---|---|
| `life` | the owner of `Serial`: constructed and in use, `~Serial` has asked both threads to stop, `readEvent` is destroyed, both threads are joined and `fd` is closed |
| `spc`, `m_messagesWriteQueue`, `isNewMessageToSend`, `bytesWritten` | `sendThread` (inside `wait_for`, inside `writeAll`, returned) and `writeAll` |
| `rpc`, `pendingMessage`, `framed` | `readThread` (at the loop condition, in `select`, in the loop over messages, returned) and its framer |
| `inDev`, `outDev`, `device` | the buffers of the device; whether the modem hangs or is unplugged |
| `talk`, `said`, `taken` | the modem: what it says, how far, what it has read |

Only the sender keeps a mutex while it waits: `spc = "writing"` stands for both
mutexes being taken, and every other critical section is one action with
`spc # "writing"` in its guard.  A write takes any number of bytes that fit; a
full device is a write that is not enabled, until `GivesUp`.  A read takes what
is there, up to the buffer, so lines come in pieces of every size.  `select`
times out when nothing is there and the modem is between two lines, or hangs:
400 ms of silence inside a line are not modelled otherwise.  The sender's wait
ends by the flag or by its timeout, and the code does not look which.

After `DropReadEvent` the receiver may still call `readEvent`, which is
destroyed.  That is undefined behaviour; the function is a single captured
pointer, which libstdc++ does not clear, and the callback finds the scheduler's
deque and mutex, which outlive `Serial`.  The model counts such a message as
notified.

### CameraAnalyzer

A poll is one action.  `readyToNotify` and `isAlarmLevelCalculateFinish` are no
variables, because every call that sets one clears it before it returns.  Time
is counted in polls: a poll comes 1 to `MaxLate` intervals after the last one,
and `window` is the time since `alarmLevelCalculateStartTimestamp`, up to
`BlockDuration`, where it ends.  The files of the minute directory that the
detector looks at are `minute`, in the order of `os.listdir`: a new one may come
at any place; those of a day are numbers, which is all that `compute_added_files`
looks at.  `Start` is the constructor, with a disk or without one (`built`).
The detector's network is the input: a picture is a second and a frame, a frame
a scene and the objects that would be reported.

`Alarm` counts what came (`fresh`), what is added up (`pending`), for how long
notifications are blocked and what was told.  `CameraAnalyzer` implements it
with `fresh <- AddedFiles`: the difference between two states of the disk is,
whatever was removed and whatever day it is, the number of pictures since the
last poll.

### Contacts, Notification, Monitor

A contact is a record; the list keeps its order, because the first match
decides.  Names are single words and *within* is a relation (`Within`), as
substrings are.  A line of the file has its words as data, with the empty word
that `"%s %s %s %s"` leaves where a contact has numbers and no address; it is
what makes the next start raise.  `SaveToFile` is two steps, since `open(...,
"w")` empties the file and a small book is written when it is closed.

`Notification` has one operator per method, in terms of `sent`, what the last
call handed to the engine.  `Monitor` has the loop: `pc` is the place in `main`.
One turn is a message, a call, the two cameras, the files.  What the engine
delivers (any message of `Incoming`) is an input.  An exception anywhere is
`Crash` or, where the code raises by what it finds, an action of its own
(`AlarmRaises`, `StatusFails`, `CameraRaises`); it loses everything but the
files.  `dir` maps names to texts; a file that another program has open is in
`writing`, empty until it is closed.  `splitSMS` reads the file again, opens and
writes its parts one by one (`part`) and then removes the file, an action each,
so that a crash may leave some of the parts, the last one empty.  `touched` is a history variable: the file in
hand was written to after it was read.

## Runs

| Run | Checks | Shows |
|---|---|---|
| `scheduler` | `TypeOK`, `WakeFindsMessage`, `NoRequestLost`, `IInv`, `PromiseSetOnce`, `ConfigServedInOrder`, `SmsServedInOrder` | with a modem that says anything, the scheduler reads only messages that are there, loses no request, answers none twice, and serves both queues as `TaskQueue` does |
| `engine_safety` | `EngineTypeOK`, `AnswerIsTrue`, `SettingsInOrder`, `SmsDeliveredInOrder`, `DialogueInv`, `SmsInv` | with an honest modem, a result says what the modem did, the initialization skips no setting, and SMS messages come in order with their texts; and the invariants from which this is proved |
| `engine_live` | `AnswerIsTrue`, `RequestAnswered`, `SmsMadeAvailable`, `ShutdownEndsThread` | requests are answered, SMS messages become available and shutdown ends the thread, with calls, heartbeats and split SMS messages in between |
| `serial` | `LinkInv`, `MessagesWhole`, `WireInOrder`, `AnswersNotDropped`, `StopEnds`, `EverythingArrives` | however reads and writes cut the stream, messages are whole lines or prompts, but for what an overflow leaves, no text is lost and commands reach the modem in order; no answer comes before the callback; what is sent arrives both ways while the link is up; the destructor ends even when the device takes nothing |
| `camera` | `CameraInv`, `EventsAreBursts`, `AlarmPromised`, `MovementTold` | over restarts, a disk that disappears, removals and midnight the analyzer implements `Alarm` and a movement is told within its block, or the process ends; events are exactly the bursts of pictures |
| `contacts` | `ContactsInv`, `DefaultIsOwn`, `SoleMatchFound`, `SavedIsRead`, `NumberKeepsItsOwner` | any legal sequence of edits, saves, crashes and restarts keeps names unique, numbers with their owners, and lookups about the right contact; a saved book is read back unless a contact has a number and no address |
| `monitor` | `MonitorInv`, `PartsKeepText`, `AlarmTold`, `ChangeIsTold`, `RemovedWasSent`, `RosterKept`, `StopHonoured`, `FirstSmsSent` | alarms reach every active user once and on its own number, up to one that cannot be reached; a change of the list is answered to the user it is about; the list implements `Roster`; no file disappears unsent; a stop is honoured; the first file is sent |
| `engine_heartbeat`, `engine_text_ok`, `engine_late`, `scheduler_alive`, `monitor_next_sms` | one property each | violated: see below |

Bounds.  `scheduler` has one request of each kind and one client thread; what
may arrive is one message of each kind the engine distinguishes, two of them
unread at a time (`MaxReceived`), one SMS, call or `ATH` unfetched
(`MaxPending`) and one command unsent (`MaxWire`).  Two unread messages are
what the searches need to differ: one they skip and one they find, one older
than the request and one newer; 4.4 million states.  The order among *several*
requests of a queue is the part a single instance cannot show (the engine's own
`ATH` beside `c1`, and `s1` beside `a1`, are two each); the proofs have no
bound.  In `GSMEngine` nothing but `Tick` is bounded: every client makes its
calls once, every message comes once, and `MaxWire` bounds the heartbeats that
may be unanswered.  `engine_safety` has two SMS messages (their order), two
settings and one SMS request, 1.06 million states; `engine_live` one SMS, one call, one request
and shutdown at any time.  `CHECK_DEADLOCK FALSE` because the program may stop:
the thread ends, clients have made their calls.  `SmsSymmetry` is used only
where no liveness is checked.

`serial`: 368 000 states.  Three conversations (a prompt and a line at once; an
empty line, a line, a prompt; a line longer than the pending message may be,
and one after it, long enough that the overflow may come between CR and LF), reads of at most 2 bytes, so that every delimiter is cut in
every way, writes of 1 or 2, devices of 3 and 2 bytes, so that both are full at
times; a text of two bytes and a single character, so that a message is
written in parts and a second one waits.

`camera`: 273 000 states, three days (two midnights, so that `autoRemove.sh`
with `KeptDays` 2 removes one), at most three pictures a day and a minute, a
threshold of 2 and a block of 3 intervals of 1 or 2: a level below and above
the threshold, a block that ends exactly and one that is missed.  The three
pictures are of one burst, of the next, and 2 s apart; the detector sees
something in one of them.  `contacts`: 200 000 states, two contacts of three
persons whose names are within one another, three numbers (one of which is not
valid), one address, two values a call, all different.  The two valid numbers are
symmetric; no liveness is checked.  `CHECK_DEADLOCK FALSE` because a file that is
not readable stops every start.  `monitor`: 447 000 states, two phone
books: two users who may be active and a third contact, without a number, within
whose names the words of the first are; and one in which the first user is
missing, so that the third is found instead, and shares a number with the
second, who has two.  One
file with texts of 2 and 5 characters at `Limit` 2 (no split; three parts, the
last one empty), commands from either user and from a stranger.
`monitor_next_sms` has two files and one text that fits.

Fairness (`EngineSpec`).  Weak fairness of the AT thread's own steps, of the
end of its waits (each is a `wait_for` with a timeout), of the receiver and of
the modem's threads: these loop without condition.  Clients, callers and the
clock owe nothing: `RequestAnswered` speaks of the promise, which the engine
sets whether or not the client still waits.  In the runs without `"late"` a
timeout happens only when the modem and the line are at rest, that is, the
modem answers within the 2 s (8 s for SMS) the engine waits.

The other specifications.  `SerialLink`: weak fairness of each thread (they
loop, and each wait has a timeout), of the rest of the destructor, and of a
modem that reads and goes on with its line as long as it does not hang; nothing
makes the owner call or stop.  `StopEnds` does not use the modem's.
`CameraAnalyzer`: weak fairness of `Polls`, because the loop of `main` polls as
long as it runs; the camera, the disk and systemd owe nothing.  `Monitor`: weak
fairness of `Steps`, the loop itself; restarts, signals, crashes, writers and
the engine owe nothing.

`Faults` names what the surroundings may do wrong, so that each run says what
it relies on: `"late"` (an answer after its wait ended), `"interleave"` (an
answer between the two writes of an SMS), `"merge"` (a line delivered in one
message with the prompt before it).  `SmsDeliveredInOrder` needs all three
absent: with `"interleave"` an answer that nobody waits for can be taken for
the text, with `"merge"` a header that follows the prompt is lost with it.

## Disagreements

Five things the repository says and TLC refutes; the quotations are in
`PROJECT.json`.

1. **`engine_heartbeat`** - the engine reports a *heartbeat timeout* and ends
   although the modem answers: an SMS header that arrives while `AT` is being
   confirmed is the first message `waitForSyncConfirm` looks at, or is left
   after the `OK`, and either counts as failure.
2. **`engine_text_ok`** - an incoming SMS with `OK` in its text is consumed as
   an answer; its header then takes another message for the text.
3. **`engine_late`** - after a timeout the late `OK` confirms the next request.
4. **`scheduler_alive`** - when ATE0 is not confirmed the thread returns and
   `is_alive()` remains true: the monitor keeps running with a dead engine.
5. **`monitor_next_sms`** - the "next sms on other cycle" is never sent:
   `readyToSMS` becomes true in the constructor only, so a process sends one
   file, and the parts of a split text go out one per restart.

A sixth needs no run: `DetectObjects.py:256` calls `drawDetectionsRed`, which no
class defines, so that the first picture in which the detector sees something
ends the monitor without a message (`NotifyRaises`).  What follows that call in
`analyzeMoving` is never reached and not modelled.

Nor does a seventh: `main` says "Error with Disk" and returns if `theNewestDir`
is 0 (`MonitoringManager.py:67`), but without a disk it is `None`
(`CameraAnalyzer.py:239`).  The program goes on with an analyzer without
`alarmLevel`, which raises at the first movement after the disk came back
(`HalfBuiltRaises`).  `MovementTold` demands of it only that it ends then; of one
that has not polled since it was built it demands nothing, because the pictures
before a midnight that comes first are counted for no day.

Two more hazards are what the code does and no property forbids: a line that
follows the prompt at once is delivered with it (`ATMessageFramer.cpp:40`), and a
file of `SMSDir` that is written to after it was read is removed with a text that
nobody sent (`MonitoringManager.py:89`).  The properties about messages and files
except these, and PROJECT.json lists them without a property.

## Proofs

Every safety property that a passing run checks, invariant or action property
or refinement, is also a theorem, for all values of the constants under the named
assumptions.  What remains with TLC is at the end of this chapter.

### The scheduler

`ATScheduler_proofs` and `ATQueues_proofs` prove, for every set of requests,
messages and clients and every bound, under `SchedulerAssumption` (the sets of
requests are disjoint, the null values are no members, the environment's
messages are messages):

| Theorem | States |
|---|---|
| `Invariance` | `Spec => []IInv` |
| `TypeCorrect` | `Spec => []TypeOK` |
| `WakeSafe` | `Spec => []WakeFindsMessage` |
| `RequestsKept` | `Spec => []NoRequestLost` |
| `PromiseOnce` | `Spec => PromiseSetOnce` |
| `ConfigQueueImplemented`, `SmsQueueImplemented` | `Spec => ConfigServedInOrder`, `Spec => SmsServedInOrder` |

The argument.  None of the invariants is inductive alone.  `TypeOK` needs
`WakeFindsMessage`, because after a wait the code takes a message without
looking whether there is one.  `WakeFindsMessage` needs to know that only the
five waits set `waiting` and that `numberOfMsg` is a size taken when the wait
began: `ThreadInv`.  The scheduler never consumes a message while it waits, the
flag is false when a wait begins, and the callback sets it only together with a
new message; so the flag set means one message more than `numberOfMsg`.
`ThreadStep` is that proof, one step per action.

`NoRequestLost` and `PromiseSetOnce` need that a request is in one place only:
`PromiseInv` says that one with a promise is queued at most once, never queued
and in hand, and only while its promise is unset.  `StepKinds` reduces the
thirty actions to four kinds as far as requests are concerned (`Quiet`,
`Queued`, `Taken`, `Answered`), and `RequestsStep`, `PromiseOnce` and the two
refinements follow from these four.  The refinement mapping takes the queue for
the queue, `task` for the request being served if it belongs to that queue, and
the promise, or "idle" before the call, for the outcome.

### The engine and its modem

`GSMEngine_proofs` proves, for every number of clients, settings, SMS messages
and calls, every list of default settings and every order in which they meet on
the line:

| Theorem | States |
|---|---|
| `EngineTypeCorrect` | `EngineSpec => []EngineTypeOK` |
| `EngineServes` | `EngineSpec =>` the scheduler's properties: `WakeFindsMessage`, `NoRequestLost`, `PromiseSetOnce`, `ConfigServedInOrder`, `SmsServedInOrder` |
| `EngineInvariance` | `EngineSpec => [](EngineTypeOK /\ IInv /\ DialogueInv)` |
| `AnswersTrue` | `Reliable => (EngineSpec => []AnswerIsTrue)` |
| `SettingsOrdered` | `Reliable => (EngineSpec => []SettingsInOrder)` |
| `SmsInvariance` | `EngineSpec => []SmsInv` |
| `SmsInOrder` | `Undisturbed => (EngineSpec => []SmsDeliveredInOrder)` |

`Reliable` says that no answer comes late or in the line of another message and
that no text holds a token; `Undisturbed` also that nothing comes between the
two lines of an SMS.  Without them the properties are false: `engine_late`,
`engine_text_ok` and `engine_heartbeat` show how.

`EngineStepIsOpen` makes every step of the composed system one of the scheduler
in an open environment, so that `EngineServes` follows from the lemmas about
the latter.  `DialogueInv` is what the code relies on and nowhere says: between
two commands nothing of an earlier answer is on the line; after a command
either it is still to be read or its answer is under way, each of its lines
once and in one of three places (`UnderWay`: in the modem, on the wire, among
the received); and the wait for it has not searched past it (`NotPassedOver`:
it is newer than the command, and while the flag is down the search has seen
everything).  An OK therefore belongs to the request in hand, which `Truth`
says.  `SmsOnTheWay` lays the messages that were not delivered out on the line:
the texts in order, each behind its header unless the engine holds that
(`InPlace`), and no others; what erases an answer, appends a line or takes a
text keeps that, by lemmas about one element more or less in a sequence.

### The serial link

`SerialLink_proofs` proves, for every modem, every sequence of commands and
every size of buffer under `LinkAssumption` (CR and LF are two bytes,
conversations and commands are sequences of bytes, and CR LF is said only at the
end of a line):

| Theorem | States |
|---|---|
| `LinkInvariance` | `Spec => []LinkInv` |
| `AnswersHeard` | `Spec => AnswersNotDropped` |
| `WireKeepsOrder` | `Spec => []WireInOrder` |
| `MessagesAreWhole` | `Spec => []MessagesWhole` |

`LinkInv` is inductive by itself.  Its part about the callback (nothing is
queued, on the line or read by the modem before it is set) is what
`AnswersHeard` follows from: the receiver is started too early to see every
message, but no answer can be among those it drops.

`WireInOrder` is inductive with it: what was handed over is what is on the line
followed by what is left, as long as the sender may still write, and the line
stays a beginning of it afterwards.  Each step moves a piece from one to the
other.

`MessagesWhole` needs `StreamInv`, which says of everything the receiver holds
which piece of the modem's stream it is: the device's buffer is the end of what
is said, what is pending comes before it, begins where a line or a prompt ends
and has no delimiter in it, and the text of what was notified and framed is that
of all that comes before.  `FramedCuts` is the lemma about `push`: for any data
its messages are the pieces between delimiters, the rest has none, and no text
is lost.

The proof found the property wrong as it was first stated, that a message begins
where a line or a prompt does.  The limit of the framer may be passed by a
CR without its LF: `push` then clears what is pending, the LF is left, and the
next line is notified behind it (`Whole` says so, and a conversation of `serial`
does it).  The engine looks for its tokens with `find`, so that it does no harm
to an answer.

### The phone book

`Contacts_proofs` proves, for all people, numbers and addresses and every
relation of words within words, under `PhoneBookAssumption` and
`ContactsAssumption` (every word is within itself, the alphabet has no word
twice, numbers, addresses, the blank and "nothing" are told apart):

| Theorem | States |
|---|---|
| `ContactsInvariance` | `Spec => []ContactsInv` |
| `NumberKept` | `Spec => NumberKeepsItsOwner` |
| `DefaultsAreOwn` | `Spec => []DefaultIsOwn` |
| `SoleMatches` | `Spec => []SoleMatchFound` |
| `SavedIsReadBack` | `Spec => []SavedIsRead` |

`ContactsInv` is inductive: a call changes a contact where it is, adds one whose
name is new, removes one, or sorts; what is read from a file that such a list
was written to, or that a crash emptied, is such a list again.  `NumberKept`
follows the first contact that has a number through each of these.  The other
three are about every reachable list: a search by the full name finds the
contact itself, so it finds it alone or finds several and answers for nobody;
and a line is read back by its blanks, which is ambiguous just when a contact
has numbers and no address.

### Sequences

The code computes with loops over lists: filters, splits, framing, grouping.
They are recursive functions in the models (`Only`, `Framed`, `Grouped`,
`FlattenSeq` of the community modules), and `Lists_proofs` has what is needed of
them.  The provers have no induction over data, but `UpTo` is one for sets: a
set that has 0 and with each number below n the next one has them all, by the
least number it lacks.  `Recursion` is its use for the existence of a function
that is defined step by step, which a proof needs before it can unfold one.

### The camera analyzer

`CameraAnalyzer_proofs` proves, for every number of days, files and pictures,
every threshold, block and delay under `CameraAssumption` (these are positive,
and `autoRemove.sh` keeps at least two days) and `DetectAssumption` (seconds and
the gap are numbers):

| Theorem | States |
|---|---|
| `CameraInvariance` | `Spec => []CameraInv` |
| `AlarmImplemented` | `Spec => AlarmPromised` |
| `BurstsFound` | `Spec => []EventsAreBursts` |

`CameraInv` is inductive: the counter is of today or yesterday and not ahead of
its directory (`CounterBehindDisk`), a level is kept only while notifications
are blocked (`LevelOnlyWhileBlocked`), and days to come are empty (`DiskInv`).
From it `Measured` computes the difference that `compute_added_files` returns,
and `Elapses` relates the code's timestamp to `Alarm`'s remaining block.  Each
poll is then one of the three outcomes of `Alarm`'s poll (`PollAdded`,
`PollTold`, `PollDropped`), a blind one, or the end of the process.  That
`autoRemove.sh` keeps two days is used once, where the theorem needs it: with
one, pictures of yesterday could go before they are counted.

`BurstsFound` is about `groupImagesIntoEvents` and every directory: that the
places of the sorted pictures are a permutation (`BySecond` counts how many come
before each), that the loop keeps what it has read as its events and the current
one, with a gap exactly before each event (`GroupedSoFar`), and that pictures
are therefore counted the same before and after.

### The monitor

`Monitor_proofs` proves, for every contacts file, every set of files and texts
and every limit under `MonitorAssumption` (a contacts file has no name twice, a
text is a sequence of characters, an SMS has more than one); the first is what
`ContactsInvariance` proves of the program that writes the file:

| Theorem | States |
|---|---|
| `MonitorInvariance` | `Spec => []MonitorInv` |
| `RosterImplemented` | `Spec => RosterKept` |
| `AlarmsTold` | `Spec => AlarmTold` |
| `ChangesTold` | `Spec => ChangeIsTold` |
| `SplitKeepsText` | `Spec => []PartsKeepText` |
| `RemovedFilesSent` | `Spec => RemovedWasSent` |

`MonitorInv` has three parts.  `UsersInv` is about the list: the
refinement needs that it holds nobody twice, because `removeUserFromActive`
removes the first match only (`RemovesUser`), and that the file is empty while
it is being saved.  `FilesInv` is about `SMSDir`: that what is in hand is what
was read, unless it was touched, is inductive only together with the fact that
a file in hand is not among those still to be read and that `splitSMS` does not
overwrite the file it is splitting; the latter because parts are never too long
(`PartFits`), so that only whole files are split.  `PartsInv` says that what was
split so far is there, and that the file is removed when all parts are.  `StepKinds` and `FileKinds`
reduce the actions to the few that touch either half.

`AlarmsTold` follows the loop over the users with what a lookup by name finds.
Its proof showed that the property did not hold of a user whose contact was
removed while the program was down: such a user is still on the saved list, and a
contact within whose names its own are gets its messages.  `AlarmTold` says
this now, and the second phone book of `monitor` has it.  `ChangesTold` needs
that the sender of a command, who is found by its number, is the contact whose
state changes and no other.  `SplitKeepsText` is the loop of `splitSMS` for
every text and limit: the parts so far are the text so far without the
characters at its boundaries.

### What is only model-checked

Every liveness property (`RequestAnswered`, `SmsMadeAvailable`,
`ShutdownEndsThread`, `StopEnds`, `EverythingArrives`, `MovementTold`,
`StopHonoured`, `FirstSmsSent`): the prover cannot treat fairness.

## Assumptions and limits

* The memory model is that of the mutexes: every shared variable of the
  scheduler is accessed under its mutex or is atomic.  `lastRefresh` belongs to
  the AT thread alone.
* A spurious wake-up is not modelled: `wait_for` tests its predicate and waits on.
* The message a text is stored from is modelled as the message; `parseSmsBody`
  only strips the line end.  SMS texts of several lines are not modelled.
* The emulator collects what it has read before it looks for the end of a text;
  the model covers the text read before SUB and with it.  A SUB that no prompt
  preceded does not occur in the runs.
* `maxReceivedCommands` is not enforced by the code, and not in the model.
* The engine's own limits do not appear in `Monitor`: `sendSms` only queues and
  is taken to succeed, and what the engine delivers is arbitrary.
* Between two polls at most one new day begins; the interval of a poll is the
  unit of time (5 s in the code, where the block lasts 12 of them).
* The detection code behind `savePreview` is dead (see Disagreements).
* Names of contacts are single words.  Types of numbers and addresses go with
  them and are left out, and so are files edited by hand: lines without a space,
  duplicates.  A save is truncated to nothing or complete, which is true of books
  below the 8 KB of Python's buffer.
* `AddNumbers` and `AddEmails` get values that are all different.
* An SMS may be sent empty when its writer has just opened the file:
  `RemovedWasSent` says that what was removed is sent as it was.
* A crash goes back to the list of users of the last stop, and one that cuts
  the saving leaves nobody: `Roster` says so, because the code does no better.
* While `initilize` runs, the model lets the program make its other calls too,
  which the program, whose main thread it blocks, does not.
* **Not modelled**: `Tasks`, which nothing in the repository instantiates; the Python binding and the example programs, which only
  forward; the neural network, logging, mail, formatting, packaging.

## Plan

1. What the liveness properties rest on and a proof can reach: that the steps
   which fairness must take lead closer to the end, for the AT thread's waits
   and for the destructor of `Serial`.
2. The operators of `DetectObjects` beside grouping: that the samples of an event
   are its own pictures and that the decision depends on no other.
3. The parsers: `+CMT` and `+CLIP` as operators over a few characters.
