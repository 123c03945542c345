------------------------------ MODULE Monitor ------------------------------
(***************************************************************************)
(* main of MonitoringManager.py, from a start by systemd to the next: the  *)
(* loop over messages, calls, cameras and the files that other programs    *)
(* leave in SMSDir, the stop, and the crash that any exception is.         *)
(***************************************************************************)
EXTENDS Notification

CONSTANTS
  Names,     \* the files that other programs write into SMSDir
  Texts,     \* what they write
  Limit,     \* the 150 characters of an SMS
  Books      \* the contents of the contacts file

\* The contacts file is as Contacts leaves it: no two contacts of one name.
ASSUME MonitorAssumption ==
  /\ Limit \in Nat \ {0, 1}
  /\ Books \subseteq Seq(FileLine)
  /\ \A lines \in Books : \A i, j \in DOMAIN lines : Is(lines[i], lines[j]) => i = j
  /\ \A t \in Texts : t \in Seq(Range(t))

VARIABLES
  pc,
  killNow,
  contacts,   \* the lines of the contacts file
  dir,        \* SMSDir: the texts of its files
  writing,    \* the names that another program has open and not lost
  todo,       \* the rest of listSMSFiles
  smsFile, text,
  part,       \* of splitSMS, the number of the part it comes to
  touched     \* history: smsFile was written to after it was read

files == <<dir, writing>>
reading == <<todo, smsFile, text, part, touched>>
vars == <<notification, pc, killNow, contacts, files, reading>>

\* The part i of a split file.
Part(name, i) == <<name, i>>
Whole(name) == <<name, 0>>

\* The part k of a text of n parts: a character whose place, counted from 0,
\* is a multiple of Limit ends the part before it and is in none.
PartOf(t, k, n) ==
  SubSeq(t, IF k = 1 THEN 1 ELSE (k - 1) * Limit + 2, IF k = n THEN Len(t) ELSE k * Limit)

Boundaries(t) == IF t = <<>> THEN 0 ELSE (Len(t) - 1) \div Limit

\* mutant: x > 0 is not asked for, and the first character ends a part, too.
PartsFromZero(t) ==
  IF t = <<>> THEN <<t>>
  ELSE LET n == Boundaries(t) + 1
       IN  << <<>> >> \o [k \in 1..n |->
             SubSeq(t, (k - 1) * Limit + 2, IF k = n THEN Len(t) ELSE k * Limit)]

\* splitSMS, the texts.
Parts(t) == [k \in 1..Boundaries(t) + 1 |-> PartOf(t, k, Boundaries(t) + 1)]

Forget == /\ todo' = {} /\ smsFile' = Nothing /\ text' = <<>>
          /\ part' = 0 /\ touched' = FALSE

Init == /\ pc = "down" /\ killNow = FALSE
        /\ tel = <<>> /\ usersList = <<>> /\ activeUsersFile = <<>>
        /\ readyToSMS = FALSE /\ alive = FALSE /\ sent = <<>>
        /\ contacts \in Books
        /\ dir = [x \in {} |-> <<>>] /\ writing = {}
        /\ todo = {} /\ smsFile = Nothing /\ text = <<>>
        /\ part = 0 /\ touched = FALSE

\* A contacts file that is not readable ends the process before the loop.
Start == /\ pc = "down" /\ Construct(contacts)
         /\ pc' = "loop" /\ killNow' = FALSE
         /\ UNCHANGED <<contacts, files, reading>>

\* The process ends without a stop.
Dies == /\ pc # "down"
        /\ pc' = "down" /\ killNow' = FALSE
        /\ tel' = <<>> /\ usersList' = <<>> /\ readyToSMS' = FALSE /\ alive' = FALSE
        /\ Forget
        /\ UNCHANGED <<activeUsersFile, contacts, files>>

Crash == Dies /\ sent' = <<>>

Goes(from, to) == /\ pc = from /\ pc' = to
                  /\ UNCHANGED <<killNow, contacts, files>>

Quiet == sent' = <<>> /\ UNCHANGED <<tel, usersList, activeUsersFile, readyToSMS, alive>>
Tells == UNCHANGED <<tel, activeUsersFile, readyToSMS, alive, reading>>

\* mutant: the signal is not looked at.
LoopWhileAlive == /\ Goes("loop", "message") /\ Quiet /\ UNCHANGED reading
                  /\ alive

Loop == /\ Goes("loop", "message") /\ Quiet /\ UNCHANGED reading
        /\ ~killNow /\ alive

Message(sms) == /\ Goes("message", "call") /\ Tells
                /\ alive /\ checkNewMessage(sms)

NoMessage == Goes("message", "call") /\ Quiet /\ UNCHANGED reading

StatusFails(sms) == /\ pc = "message" /\ alive /\ StatusRaises(sms)
                    /\ Dies /\ sent' = <<>>

\* checkNewCall
Call == /\ Goes("call", "cameras") /\ Tells
        /\ alive /\ sendSMSAdmin("call") /\ UNCHANGED usersList

NoCall == Goes("call", "cameras") /\ Quiet /\ UNCHANGED reading

\* The two calls of processCamera; the second follows the first.
Cameras == {"cameras", "brama"}
After(camera) == IF camera = "cameras" THEN "brama" ELSE "files"

\* The analyzer has a result, an alarm or an error of the disk.
Alarm(camera) == /\ Goes(camera, After(camera)) /\ Tells
                 /\ ~NotificationRaises
                 /\ sendSMSNotification("alarm") /\ UNCHANGED usersList

AlarmRaises(camera) == /\ pc = camera /\ NotificationRaises
                       /\ Dies /\ sendSMSNotification("alarm")

NoAlarm(camera) == Goes(camera, After(camera)) /\ Quiet /\ UNCHANGED reading

NotDue == Goes("cameras", "files") /\ Quiet /\ UNCHANGED reading

\* analyzeMoving raises.
CameraRaises(camera) == pc = camera /\ Crash

NotReady == Goes("files", "loop") /\ ~readyToSMS /\ Quiet /\ UNCHANGED reading

ListFiles == /\ Goes("files", "next") /\ readyToSMS /\ Quiet
             /\ todo' = DOMAIN dir
             /\ UNCHANGED <<smsFile, text, part, touched>>

NoMoreFiles == Goes("next", "loop") /\ todo = {} /\ Quiet /\ Forget

\* mutant: a text that just fits is split.
ReadFileAtLimit(file) ==
  /\ Goes("next", IF Len(dir[file]) >= Limit THEN "split" ELSE "send")
  /\ Quiet
  /\ todo' = todo \ {file}
  /\ smsFile' = file /\ text' = dir[file] /\ touched' = FALSE
  /\ UNCHANGED part

ReadFile(file) == /\ Goes("next", IF Len(dir[file]) > Limit THEN "split" ELSE "send")
                  /\ Quiet
                  /\ todo' = todo \ {file}
                  /\ smsFile' = file /\ text' = dir[file] /\ touched' = FALSE
                  /\ UNCHANGED part

\* The files of SMSDir after others were written.
With(written) == [x \in DOMAIN written \cup DOMAIN dir |->
                    IF x \in DOMAIN written THEN written[x] ELSE dir[x]]
Without(file) == Restrict(dir, DOMAIN dir \ {file})

Leaves(newDir) == dir' = newDir /\ UNCHANGED <<killNow, contacts>>

\* splitSMS reads the file again ...
Split == /\ Goes("split", "open") /\ Quiet
         /\ text' = dir[smsFile] /\ part' = 1 /\ touched' = FALSE
         /\ UNCHANGED <<todo, smsFile>>

\* ... opens the file of each part, which empties it, and writes the part,
\* which is there when the file is closed ...
OpenPart == /\ pc = "open" /\ pc' = "write" /\ Quiet
            /\ Leaves(With([x \in {Part(smsFile[1], part)} |-> <<>>]))
            /\ UNCHANGED <<writing, reading>>

\* mutant: the last of several parts is left out.
WriteButLast ==
  /\ pc = "write" /\ Quiet
  /\ Leaves([dir EXCEPT ![Part(smsFile[1], part)] = Parts(text)[part]])
  /\ pc' = IF part + 1 >= Len(Parts(text)) THEN "splitRemove" ELSE "open"
  /\ part' = part + 1
  /\ UNCHANGED <<writing, todo, smsFile, text, touched>>

WritePart ==
  /\ pc = "write" /\ Quiet
  /\ Leaves([dir EXCEPT ![Part(smsFile[1], part)] = Parts(text)[part]])
  /\ pc' = IF part = Len(Parts(text)) THEN "splitRemove" ELSE "open"
  /\ part' = part + 1
  /\ UNCHANGED <<writing, todo, smsFile, text, touched>>

\* ... and removes the file.  Who has it open writes into nothing.
SplitRemove == /\ pc = "splitRemove" /\ pc' = "next" /\ Quiet
               /\ Leaves(Without(smsFile)) /\ writing' = writing \ {smsFile}
               /\ part' = 0 /\ UNCHANGED <<todo, smsFile, text, touched>>

\* mutant: nothing is sent when the engine has ended.
SendIfAlive == /\ Goes("send", "remove")
               /\ IF alive THEN sendSMSAdmin(text) ELSE sent' = <<>>
               /\ UNCHANGED usersList /\ Tells

Send == /\ Goes("send", "remove")
        /\ sendSMSAdmin(text) /\ UNCHANGED usersList /\ Tells

RemoveFile == /\ pc = "remove" /\ pc' = "loop"
              /\ Leaves(Without(smsFile)) /\ writing' = writing \ {smsFile}
              /\ readyToSMS' = FALSE
              /\ sent' = <<>> /\ Forget
              /\ UNCHANGED <<tel, usersList, activeUsersFile, alive>>

\* The loop's condition fails: shutdown() of the engine.
Stop == /\ Goes("loop", "save")
        /\ killNow \/ ~alive
        /\ alive' = FALSE /\ sent' = <<>>
        /\ UNCHANGED <<tel, usersList, activeUsersFile, readyToSMS, reading>>

\* mutant: the file is opened to append.
OpenToAppend == /\ Goes("save", "saving")
                /\ sent' = <<>>
                /\ UNCHANGED <<tel, usersList, activeUsersFile, readyToSMS, alive, reading>>

\* saveToFile: open empties the file ...
OpenToSave == /\ Goes("save", "saving")
              /\ activeUsersFile' = <<>> /\ sent' = <<>>
              /\ UNCHANGED <<tel, usersList, readyToSMS, alive, reading>>

\* ... and what was written is there when the function returns.
Saved == /\ pc = "saving" /\ pc' = "down" /\ killNow' = FALSE
         /\ activeUsersFile' = activeUsersFile \o usersList
         /\ tel' = <<>> /\ usersList' = <<>> /\ readyToSMS' = FALSE /\ alive' = FALSE
         /\ sent' = <<>> /\ Forget
         /\ UNCHANGED <<contacts, files>>

-----------------------------------------------------------------------------
(* The surroundings *)

\* SIGTERM, SIGINT
Signal == /\ pc # "down" /\ killNow' = TRUE
          /\ UNCHANGED <<notification, pc, contacts, files, reading>>

EngineEnds == /\ alive /\ alive' = FALSE
              /\ UNCHANGED <<tel, usersList, activeUsersFile, readyToSMS, sent,
                             pc, killNow, contacts, files, reading>>

EditContacts == /\ pc = "down" /\ contacts' \in Books
                /\ UNCHANGED <<notification, pc, killNow, files, reading>>

Writes(name) == /\ touched' = (touched \/ smsFile = Whole(name))
                /\ UNCHANGED <<notification, pc, killNow, contacts, todo, smsFile, text, part>>

\* NetworkMonitoring.py opens its file, and closes it.
WriterOpens(name) == /\ Whole(name) \notin writing
                     /\ dir' = With([x \in {Whole(name)} |-> <<>>])
                     /\ writing' = writing \cup {Whole(name)}
                     /\ Writes(name)

WriterCloses(name, t) == /\ Whole(name) \in writing
                         /\ dir' = [dir EXCEPT ![Whole(name)] = t]
                         /\ writing' = writing \ {Whole(name)}
                         /\ Writes(name)

-----------------------------------------------------------------------------
Steps ==
  \/ Loop \/ NoMessage \/ Call \/ NoCall \/ NotDue
  \/ \E camera \in Cameras : \/ NoAlarm(camera) \/ Alarm(camera)
                             \/ AlarmRaises(camera) \/ CameraRaises(camera)
  \/ NotReady \/ ListFiles \/ NoMoreFiles \/ Send \/ RemoveFile
  \/ Split \/ OpenPart \/ WritePart \/ SplitRemove
  \/ \E file \in todo : ReadFile(file)
  \/ Stop \/ OpenToSave \/ Saved
  \/ \E sms \in Incoming : Message(sms) \/ StatusFails(sms)

Environment == \/ Start \/ Crash \/ Signal \/ EngineEnds \/ EditContacts
               \/ \E name \in Names : \/ WriterOpens(name)
                                      \/ \E t \in Texts : WriterCloses(name, t)

Next == Steps \/ Environment

Spec == Init /\ [][Next]_vars

\* The process runs; nothing makes systemd, signals or writers act.
LiveSpec == Spec /\ WF_vars(Steps)

-----------------------------------------------------------------------------
(* Properties *)

Once(list) == \A i, j \in DOMAIN list : list[i] = list[j] => i = j

User == [name : Words, surname : Words]
Characters == UNION {Range(t) : t \in Texts}

\* Nobody is on the list twice, nor in the phone book; a stop begins to write an
\* empty file.
UsersInv ==
  /\ usersList \in Seq(User) /\ Once(usersList)
  /\ activeUsersFile \in Seq(User) /\ Once(activeUsersFile)
  /\ tel \in Seq(Contact) /\ \A i, j \in DOMAIN tel : Is(tel[i], tel[j]) => i = j
  /\ contacts \in Books
  /\ pc = "down" => usersList = <<>> /\ ~alive /\ ~readyToSMS
  /\ pc = "saving" => activeUsersFile = <<>>

Splitting == {"open", "write", "splitRemove"}

\* Every file the loop is still to open or to remove is there, whatever was
\* split and written meanwhile; what it has read and what it has sent is the
\* file, unless that was written to; no part is split again.
FilesInv ==
  /\ DOMAIN dir \subseteq Names \X Nat
  /\ \A file \in DOMAIN dir : /\ dir[file] \in Seq(Characters)
                              /\ file[2] # 0 => Len(dir[file]) <= Limit
  /\ writing \subseteq DOMAIN dir
  /\ todo \subseteq DOMAIN dir
  /\ pc \in {"next", "split", "send", "remove"} \cup Splitting => readyToSMS
  /\ pc \in {"split", "send", "remove"} \cup Splitting => smsFile \in DOMAIN dir \ todo
  /\ pc \in {"split"} \cup Splitting => smsFile[2] = 0
  /\ pc \in {"send"} \cup Splitting /\ ~touched => text = dir[smsFile]
  /\ pc = "remove" /\ ~touched => sent = <<Sms(Admin, dir[smsFile])>>

\* While a file is split, no part that was written is lost or written to again,
\* and the file goes when all are there.
PartsInv ==
  pc \in Splitting =>
    /\ text \in Seq(Characters)
    /\ part \in 1..Len(Parts(text)) + 1
    /\ pc = "splitRemove" <=> part = Len(Parts(text)) + 1
    /\ pc = "write" => Part(smsFile[1], part) \in DOMAIN dir
    /\ \A k \in 1..part - 1 : /\ Part(smsFile[1], k) \in DOMAIN dir
                             /\ dir[Part(smsFile[1], k)] = Parts(text)[k]

MonitorInv == UsersInv /\ FilesInv /\ PartsInv

\* A text without the characters whose place, counted from 0, is a multiple of
\* Limit, but with its first.
Unbroken(t) ==
  LET f[i \in 0..Len(t)] ==
        IF i = 0 THEN <<>>
        ELSE IF i = 1 \/ (i - 1) % Limit # 0 THEN Append(f[i - 1], t[i]) ELSE f[i - 1]
  IN  f[Len(t)]

\* A split loses the characters at its boundaries and no other, and its parts
\* fit into an SMS.
PartsKeepText ==
  pc = "splitRemove" =>
    LET n == Len(text) - Len(Unbroken(text)) + 1
        parts == [k \in 1..n |-> dir[Part(smsFile[1], k)]]
    IN  /\ \A k \in 1..n : Part(smsFile[1], k) \in DOMAIN dir
        /\ FlattenSeq(parts) = Unbroken(text)
        /\ \A k \in DOMAIN parts : Len(parts[k]) <= Limit

\* An active user who has a number of its own and no namesake.
Reachable(user) ==
  \E i \in DOMAIN tel :
    /\ Is(tel[i], user) /\ tel[i].numbers # <<>>
    /\ \A j \in DOMAIN tel \ {i} : ~(In(user.name, tel[j].name)
                                      /\ In(user.surname, tel[j].surname))

\* An alarm is told once to every active user, on its own number, and to
\* nobody else, as long as it is in the phone book: a user that is not may be
\* taken for the only contact whose names its own are within.  A user that
\* cannot be reached ends the process, and those after it are not told.
AlarmTold ==
  [][(\E camera \in Cameras : Alarm(camera) \/ AlarmRaises(camera)) =>
       LET n == IF pc' = "down" THEN Len(sent') ELSE Len(usersList)
       IN  /\ Len(sent') = n
           /\ \A i \in 1..n :
                \E c \in Range(tel) :
                  /\ sent'[i].to = Head(c.numbers)
                  /\ In(usersList[i].name, c.name) /\ In(usersList[i].surname, c.surname)
                  /\ (\E d \in Range(tel) : Is(d, usersList[i])) => Is(c, usersList[i])
           /\ pc' = "down" => ~Reachable(usersList[n + 1])]_vars

\* While the program runs, nobody becomes active or inactive without being
\* told so by the same step, and by no more than this one message.
ChangeIsTold ==
  [][pc # "down" /\ pc' # "down" =>
       \A c \in Range(tel) :
         Active(c) # Active(c)' =>
           sent' = <<Sms(Head(c.numbers), IF Active(c) THEN "off" ELSE "on")>>]_vars

\* A file that disappears was sent, or split, as it was, unless another
\* program wrote to it after it was read.
RemovedWasSent ==
  [][\A file \in DOMAIN dir \ DOMAIN dir' :
       \/ touched
       \/ pc = "remove" /\ sent = <<Sms(Admin, dir[file])>>
       \/ pc = "splitRemove" /\ dir[file] = text]_vars

\* The active users over stops and crashes: see Roster.
R == INSTANCE Roster WITH
       Users <- User,
       phase <- CASE pc = "down" -> "stopped" [] pc = "saving" -> "saving"
                  [] OTHER -> "running",
       on <- Range(usersList),
       kept <- Range(activeUsersFile)
RosterKept == R!Spec

\* A signal, or the end of the engine, ends the process.
StopHonoured == (pc # "down" /\ (killNow \/ ~alive)) ~> (pc = "down")

\* If there is any file when a loop begins, one is sent or the process ends.
FirstSmsSent == (pc = "loop" /\ readyToSMS /\ dir # <<>>) ~> ~readyToSMS

\* MonitoringManager.py:98: "next sms on other cycle, when GSM will ready to SMS".
NextSmsSent ==
  \A name \in Names : (pc = "loop" /\ Whole(name) \in DOMAIN dir)
                        ~> (Whole(name) \notin DOMAIN dir \/ pc = "down")
=============================================================================
