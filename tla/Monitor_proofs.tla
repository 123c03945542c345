--------------------------- MODULE Monitor_proofs ---------------------------
(***************************************************************************)
(* The list of active users implements Roster, alarms and changes of the   *)
(* list are told, a split keeps the text, and no SMS file disappears       *)
(* unsent, whatever the contacts, the users, the files and their texts.    *)
(***************************************************************************)
EXTENDS Monitor, Lists_proofs

\* Users are told apart by their names.
LEMMA UserIsPerson ==
  ASSUME NEW user \in User, NEW contact, Person(contact) \in User
  PROVE  Is(user, contact) <=> user = Person(contact)
BY DEF User, Person, Is

\* The user goes and the others stay, each once.
LEMMA RemovesUser ==
  ASSUME NEW contact, Person(contact) \in User, removeUserFromActive(contact),
         usersList \in Seq(User), Once(usersList)
  PROVE  /\ usersList' \in Seq(User) /\ Once(usersList')
         /\ Range(usersList') = Range(usersList) \ {Person(contact)}
<1>0. Len(usersList) \in Nat /\ DOMAIN usersList = 1..Len(usersList)
  BY LenProperties
<1>1. CASE ~\E k \in 1..Len(usersList) : Is(usersList[k], contact)
  <2>1. usersList' = usersList
    BY <1>1 DEF removeUserFromActive, RemoveFirstMatch
  <2>2. Person(contact) \notin Range(usersList)
    BY <1>0, <1>1 DEF Range, Person, Is
  <2> QED
    BY <2>1, <2>2
<1>2. CASE \E k \in 1..Len(usersList) : Is(usersList[k], contact)
  <2> DEFINE I == {k \in 1..Len(usersList) : Is(usersList[k], contact)}
             i == Min(I)
  <2>1. i \in I
    <3>1. I \subseteq Nat /\ I # {}
      BY <1>0, <1>2
    <3> HIDE DEF I
    <3> QED
      BY <3>1, MinIsMember
  <2>2. usersList' = RemoveAt(usersList, i)
    BY <1>2 DEF removeUserFromActive, RemoveFirstMatch, SelectInSeq
  <2>3. i \in 1..Len(usersList) /\ usersList[i] = Person(contact)
    BY <2>1, UserIsPerson
  <2> HIDE DEF i
  <2>4. /\ usersList' \in Seq(User) /\ Len(usersList') = Len(usersList) - 1
        /\ \A j \in 1..Len(usersList) - 1 : usersList'[j] = IF j < i THEN usersList[j] ELSE usersList[j + 1]
    BY <2>2, <2>3, Removed
  <2>5. DOMAIN usersList' = 1..Len(usersList) - 1
    BY <2>4, LenProperties
  <2>6. Once(usersList')
    <3> SUFFICES ASSUME NEW a \in 1..Len(usersList) - 1, NEW b \in 1..Len(usersList) - 1, usersList'[a] = usersList'[b]
                 PROVE  a = b
      BY <2>5 DEF Once
    <3> DEFINE At(j) == IF j < i THEN j ELSE j + 1
    <3>1. usersList'[a] = usersList[At(a)] /\ usersList'[b] = usersList[At(b)]
      BY <2>4
    <3>2. At(a) \in DOMAIN usersList /\ At(b) \in DOMAIN usersList
      BY <1>0, <2>3
    <3>3. At(a) = At(b)
      BY <3>1, <3>2 DEF Once
    <3> QED
      BY <1>0, <2>3, <3>3
  <2>7. ASSUME NEW user \in Range(usersList')
        PROVE  user \in Range(usersList) \ {Person(contact)}
    <3>1. PICK j \in 1..Len(usersList) - 1 : user = usersList'[j]
      BY <2>5 DEF Range
    <3>2. PICK k \in 1..Len(usersList) : user = usersList[k] /\ k # i
      <4>1. j \in 1..Len(usersList) /\ j + 1 \in 1..Len(usersList)
        BY <1>0
      <4>2. CASE j < i
        <5>1. usersList'[j] = usersList[j]
          BY <2>4, <4>2
        <5>2. j # i
          BY <1>0, <2>3, <4>2
        <5> QED
          BY <3>1, <4>1, <5>1, <5>2
      <4>3. CASE j >= i
        <5>1. ~(j < i) /\ j + 1 # i
          BY <1>0, <2>3, <4>3
        <5>2. usersList'[j] = usersList[j + 1]
          BY <2>4, <5>1
        <5> QED
          BY <3>1, <4>1, <5>1, <5>2
      <4>4. j < i \/ j >= i
        BY <1>0, <2>3
      <4> QED
        BY <4>2, <4>3, <4>4
    <3> QED
      BY <1>0, <2>3, <3>2 DEF Range, Once
  <2>8. ASSUME NEW user \in Range(usersList), user # Person(contact)
        PROVE  user \in Range(usersList')
    <3>1. PICK k \in 1..Len(usersList) : user = usersList[k]
      BY <1>0 DEF Range
    <3>2. k # i
      BY <2>3, <2>8, <3>1
    <3>3. CASE k < i
      <4>1. k \in 1..Len(usersList) - 1
        BY <1>0, <2>3, <3>3
      <4>2. usersList'[k] = user
        BY <2>4, <3>1, <3>3, <4>1
      <4> QED
        BY <2>5, <4>1, <4>2 DEF Range
    <3>4. CASE k > i
      <4>1. k - 1 \in 1..Len(usersList) - 1 /\ ~(k - 1 < i) /\ (k - 1) + 1 = k
        BY <1>0, <2>3, <3>4
      <4>2. usersList'[k - 1] = usersList[(k - 1) + 1]
        BY <2>4, <4>1
      <4> QED
        BY <2>5, <3>1, <4>1, <4>2 DEF Range
    <3> QED
      BY <1>0, <2>3, <3>2, <3>3, <3>4
  <2> QED
    BY <2>4, <2>6, <2>7, <2>8
<1> QED
  BY <1>1, <1>2

\* A user who is not on the usersList comes to its end.
LEMMA AddsUser ==
  ASSUME NEW contact, Person(contact) \in User, addUserAsActive(contact),
         ~Active(contact), usersList \in Seq(User), Once(usersList)
  PROVE  /\ usersList' \in Seq(User) /\ Once(usersList')
         /\ Range(usersList') = Range(usersList) \cup {Person(contact)}
<1>1. /\ Len(usersList) \in Nat /\ DOMAIN usersList = 1..Len(usersList)
      /\ usersList' \in Seq(User) /\ DOMAIN usersList' = 1..Len(usersList) + 1
      /\ \A i \in 1..Len(usersList) : usersList'[i] = usersList[i]
      /\ usersList'[Len(usersList) + 1] = Person(contact)
  BY DEF addUserAsActive
<1>2. \A i \in 1..Len(usersList) : usersList[i] # Person(contact)
  BY <1>1, UserIsPerson DEF Active
<1>3. Once(usersList')
  BY <1>1, <1>2 DEF Once
<1>4. Range(usersList') = Range(usersList) \cup {Person(contact)}
  BY <1>1 DEF Range
<1> QED
  BY <1>1, <1>3, <1>4

-----------------------------------------------------------------------------
(* The active users *)

\* What the steps do to the list: most leave it alone.
Aside == /\ UNCHANGED <<tel, usersList, activeUsersFile>>
         /\ contacts' \in {contacts} \cup Books
         /\ pc = "down" <=> pc' = "down"
         /\ pc = "down" /\ ~alive /\ ~readyToSMS => ~alive' /\ ~readyToSMS'
         /\ pc = "saving" <=> pc' = "saving"

\* A step of the program or of its surroundings is one of six.
LEMMA StepKinds ==
  ASSUME [Next]_vars
  PROVE  \/ Aside \/ Start \/ Dies \/ OpenToSave \/ Saved
         \/ \E sms \in Incoming : Message(sms)
<1> USE DEF Aside, Goes, Quiet, Tells, Leaves, Cameras
<1>1. CASE UNCHANGED vars
  BY <1>1 DEF vars, notification
<1>2. CASE \/ Loop \/ NoMessage \/ NoCall \/ NotDue \/ NotReady \/ ListFiles
           \/ NoMoreFiles \/ Split \/ OpenPart \/ WritePart \/ SplitRemove
           \/ RemoveFile \/ Stop
  BY <1>2 DEF Loop, NoMessage, NoCall, NotDue, NotReady, ListFiles, NoMoreFiles,
              Split, OpenPart, WritePart, SplitRemove, RemoveFile, Stop
<1>3. CASE Call \/ Send
  BY <1>3 DEF Call, Send
<1>4. CASE \E file \in todo : ReadFile(file)
  <2>1. PICK file \in todo : ReadFile(file)
    BY <1>4
  <2> QED
    BY <2>1 DEF ReadFile
<1>5. CASE \E camera \in Cameras : \/ NoAlarm(camera) \/ Alarm(camera)
                                   \/ AlarmRaises(camera) \/ CameraRaises(camera)
  <2>1. PICK camera \in Cameras : \/ NoAlarm(camera) \/ Alarm(camera)
                                  \/ AlarmRaises(camera) \/ CameraRaises(camera)
    BY <1>5
  <2> QED
    BY <2>1 DEF NoAlarm, Alarm, AlarmRaises, CameraRaises, Crash, After
<1>6. CASE \E sms \in Incoming : Message(sms) \/ StatusFails(sms)
  BY <1>6 DEF StatusFails
<1>7. CASE Signal \/ EngineEnds \/ EditContacts
  BY <1>7 DEF Signal, EngineEnds, EditContacts, notification
<1>8. CASE \E name \in Names : \/ WriterOpens(name)
                               \/ \E t \in Texts : WriterCloses(name, t)
  BY <1>8 DEF WriterOpens, WriterCloses, Writes, notification
<1>9. CASE Start \/ Crash \/ OpenToSave \/ Saved
  BY <1>9 DEF Crash
<1> QED
  BY <1>1, <1>2, <1>3, <1>4, <1>5, <1>6, <1>7, <1>8, <1>9 DEF Next, Steps, Environment

\* The initial states satisfy UsersInv.
LEMMA InitUsersInv == Init => UsersInv
<1> SUFFICES ASSUME Init PROVE UsersInv
  OBVIOUS
<1>1. /\ <<>> \in Seq(User) /\ Once(<<>>)
      /\ <<>> \in Seq(Contact) /\ DOMAIN <<>> = {} /\ Range(<<>>) = {}
  BY DEF Once, Range
<1> QED
  BY <1>1 DEF Init, UsersInv

\* What the constructor reads from a contacts file.
LEMMA BookRead ==
  ASSUME NEW lines \in Books, Readable(lines)
  PROVE  /\ Read(lines) \in Seq(Contact)
         /\ \A i, j \in DOMAIN Read(lines) : Is(Read(lines)[i], Read(lines)[j]) => i = j
<1> DEFINE Word == Numbers \cup Emails \cup {Blank}
           Mails(i) == Only(lines[i].data, Emails)
           Others(i) == Only(lines[i].data, Range(lines[i].data) \ Emails)
           Made(i) == [name |-> lines[i].name, surname |-> lines[i].surname,
                       emails |-> Mails(i), numbers |-> Others(i)]
<1>1. lines \in Seq(FileLine) /\ DOMAIN lines = 1..Len(lines) /\ Len(lines) \in Nat
  BY MonitorAssumption, LenProperties
<1>2. Read(lines) = [i \in 1..Len(lines) |-> Made(i)]
  BY <1>1 DEF Read
<1>3. ASSUME NEW i \in 1..Len(lines)
      PROVE  Mails(i) \in Seq(Emails) /\ Others(i) \in Seq(Numbers)
  <2> DEFINE d == lines[i].data
             M == Range(d) \ Emails
  <2>1. d \in Seq(Word)
    <3>1. lines[i] \in FileLine
      BY <1>1, ElementOfSeq
    <3> QED
      BY <3>1 DEF FileLine
  <2>2. Blank \notin Range(d) /\ Range(d) \subseteq Word
    <3>1. ~Contains(d, Blank)
      BY <1>1 DEF Readable
    <3> HIDE DEF d
    <3> QED
      BY <2>1, <3>1, ContainsRange, LenProperties DEF Range
  <2>3. M \subseteq Numbers
    BY <2>2
  <2>4. Mails(i) = Only(d, Emails) /\ Others(i) = Only(d, M)
    OBVIOUS
  <2> HIDE DEF d, M, Word, Mails, Others
  <2>5. Only(d, Emails) \in Seq(Word \cap Emails) /\ Only(d, M) \in Seq(Word \cap M)
    BY <2>1, OnlyPicks
  <2> QED
    BY <2>3, <2>4, <2>5
<1> HIDE DEF Mails, Others
<1>4. ASSUME NEW i \in 1..Len(lines)
      PROVE  Made(i) \in Contact /\ Is(Made(i), lines[i])
  <2>1. lines[i].name \in Words /\ lines[i].surname \in Words
    <3>1. lines[i] \in FileLine
      BY <1>1, ElementOfSeq
    <3> QED
      BY <3>1 DEF FileLine
  <2> QED
    BY <1>3, <2>1 DEF Contact, Is
<1> HIDE DEF Made
<1>5. Read(lines) \in Seq(Contact) /\ DOMAIN Read(lines) = 1..Len(lines)
  BY <1>1, <1>2, <1>4
<1>6. ASSUME NEW i \in 1..Len(lines), NEW j \in 1..Len(lines), Is(Read(lines)[i], Read(lines)[j])
      PROVE  i = j
  <2>1. Is(Made(i), Made(j)) /\ Is(Made(i), lines[i]) /\ Is(Made(j), lines[j])
    BY <1>2, <1>4, <1>6
  <2>2. Is(lines[i], lines[j])
    BY <2>1 DEF Is
  <2> QED
    BY <1>1, <2>2, MonitorAssumption
<1> QED
  BY <1>5, <1>6

\* Who writes is somebody of the phone book, or a stranger.
LEMMA OwnerListed ==
  ASSUME tel \in Seq(Contact), NEW number
  PROVE  LET contact == LookingForContactByNumber(tel, number)
         IN  contact = Nothing \/ (contact \in Range(tel) /\ contact \in Contact)
<1> DEFINE I == {i \in 1..Len(tel) : Contains(tel[i].numbers, number)}
<1>1. Len(tel) \in Nat /\ DOMAIN tel = 1..Len(tel)
  BY LenProperties
<1>2. CASE I = {}
  BY <1>2 DEF LookingForContactByNumber, SelectInSeq
<1>3. CASE I # {}
  <2>1. Min(I) \in I
    <3>1. I \subseteq Nat
      BY <1>1
    <3> HIDE DEF I
    <3> QED
      BY <1>3, <3>1, MinIsMember
  <2>2. Min(I) # 0 /\ tel[Min(I)] \in Range(tel) /\ tel[Min(I)] \in Contact
    <3>1. Min(I) # 0 /\ Min(I) \in DOMAIN tel
      BY <1>1, <2>1
    <3>2. tel[Min(I)] \in Contact
      BY <1>1, <3>1
    <3> QED
      BY <3>1, <3>2, Zenon DEF Range
  <2>3. LookingForContactByNumber(tel, number) = tel[Min(I)]
    BY <1>3, <2>2 DEF LookingForContactByNumber, SelectInSeq
  <2> QED
    BY <2>2, <2>3
<1> QED
  BY <1>2, <1>3

\* A message changes the list by its sender at most.
LEMMA MessageSwitches ==
  ASSUME UsersInv, NEW sms \in Incoming, Message(sms)
  PROVE  /\ UNCHANGED <<tel, activeUsersFile, contacts>>
         /\ pc = "message" /\ pc' = "call"
         /\ usersList' \in Seq(User) /\ Once(usersList')
         /\ \/ usersList' = usersList
            \/ \E user \in User : Range(usersList') \in {Range(usersList) \cup {user},
                                                         Range(usersList) \ {user}}
<1>1. UNCHANGED <<tel, activeUsersFile, contacts>> /\ pc = "message" /\ pc' = "call"
  BY DEF Message, Goes, Tells
<1> DEFINE contact == LookingForContactByNumber(tel, sms.number)
<1>2. \/ usersList' = usersList
      \/ contact # Nothing /\ removeUserFromActive(contact)
      \/ contact # Nothing /\ addUserAsActive(contact)
  BY DEF Message, checkNewMessage
<1>3. contact # Nothing => Person(contact) \in User
  BY OwnerListed DEF UsersInv, Contact, Person, User
<1> HIDE DEF contact
<1>4. CASE usersList' = usersList
  BY <1>1, <1>4 DEF UsersInv
<1>5. CASE contact # Nothing /\ removeUserFromActive(contact)
  <2>1. /\ usersList' \in Seq(User) /\ Once(usersList')
        /\ Range(usersList') = Range(usersList) \ {Person(contact)}
    BY <1>3, <1>5, RemovesUser DEF UsersInv
  <2> QED
    BY <1>1, <1>3, <1>5, <2>1
<1>6. CASE contact # Nothing /\ addUserAsActive(contact)
  <2>1. CASE Active(contact)
    BY <1>1, <1>6, <2>1 DEF addUserAsActive, UsersInv
  <2>2. CASE ~Active(contact)
    <3>1. /\ usersList' \in Seq(User) /\ Once(usersList')
          /\ Range(usersList') = Range(usersList) \cup {Person(contact)}
      BY <1>3, <1>6, <2>2, AddsUser DEF UsersInv
    <3> QED
      BY <1>1, <1>3, <1>6, <3>1
  <2> QED
    BY <2>1, <2>2
<1> QED
  BY <1>2, <1>4, <1>5, <1>6

\* Every step keeps UsersInv.
LEMMA UsersInvStep == UsersInv /\ [Next]_vars => UsersInv'
<1> SUFFICES ASSUME UsersInv, [Next]_vars PROVE UsersInv'
  OBVIOUS
<1>0. /\ <<>> \in Seq(User) /\ Once(<<>>)
      /\ <<>> \in Seq(Contact) /\ DOMAIN <<>> = {} /\ Range(<<>>) = {}
  BY DEF Once, Range
<1>1. CASE Aside
  BY <1>1 DEF Aside, UsersInv
<1>2. CASE Start
  <2>1. /\ tel' = Read(contacts) /\ usersList' = activeUsersFile /\ pc' = "loop"
        /\ UNCHANGED <<activeUsersFile, contacts>>
    BY <1>2 DEF Start, Construct
  <2>2. tel' \in Seq(Contact) /\ \A i, j \in DOMAIN tel' : Is(tel'[i], tel'[j]) => i = j
    BY <1>2, <2>1, BookRead DEF UsersInv, Start, Construct
  <2> QED
    BY <2>1, <2>2 DEF UsersInv
<1>3. CASE Dies
  <2>1. /\ tel' = <<>> /\ usersList' = <<>> /\ pc' = "down"
        /\ ~alive' /\ ~readyToSMS' /\ UNCHANGED <<activeUsersFile, contacts>>
    BY <1>3 DEF Dies
  <2> QED
    BY <1>0, <2>1 DEF UsersInv
<1>4. CASE OpenToSave
  <2>1. /\ activeUsersFile' = <<>> /\ pc' = "saving"
        /\ UNCHANGED <<tel, usersList, contacts>>
    BY <1>4 DEF OpenToSave, Goes
  <2> QED
    BY <1>0, <2>1 DEF UsersInv
<1>5. CASE Saved
  <2>1. /\ tel' = <<>> /\ usersList' = <<>> /\ pc' = "down" /\ ~alive' /\ ~readyToSMS'
        /\ activeUsersFile' = activeUsersFile \o usersList
        /\ activeUsersFile = <<>> /\ UNCHANGED contacts
    BY <1>5 DEF Saved, UsersInv
  <2>2. activeUsersFile' = usersList
    BY <2>1, ConcatEmptySeq DEF UsersInv
  <2> QED
    BY <1>0, <2>1, <2>2 DEF UsersInv
<1>6. CASE \E sms \in Incoming : Message(sms)
  <2>1. /\ UNCHANGED <<tel, activeUsersFile, contacts>> /\ pc' = "call"
        /\ usersList' \in Seq(User) /\ Once(usersList')
    BY <1>6, MessageSwitches
  <2> QED
    BY <2>1 DEF UsersInv
<1> QED
  BY <1>1, <1>2, <1>3, <1>4, <1>5, <1>6, StepKinds

\* Every step is one of Roster, or none.
LEMMA RosterStep ==
  ASSUME UsersInv, [Next]_vars
  PROVE  [R!Next]_R!vars
<1>1. CASE Aside
  BY <1>1 DEF Aside, R!vars
<1>2. CASE Start
  <2>1. /\ pc = "down" /\ pc' = "loop" /\ usersList' = activeUsersFile
        /\ UNCHANGED activeUsersFile
    BY <1>2 DEF Start, Construct
  <2> QED
    BY <2>1 DEF R!Next, R!Start
<1>3. CASE Dies
  <2>1. /\ pc # "down" /\ pc' = "down" /\ Range(usersList') = {}
        /\ UNCHANGED activeUsersFile
    BY <1>3 DEF Dies, Range
  <2> QED
    BY <2>1 DEF R!Next, R!Crash
<1>4. CASE OpenToSave
  <2>1. /\ pc = "save" /\ pc' = "saving" /\ Range(activeUsersFile') = {}
        /\ UNCHANGED usersList
    BY <1>4 DEF OpenToSave, Goes, Range
  <2> QED
    BY <2>1 DEF R!Next, R!Save
<1>5. CASE Saved
  <2>1. /\ pc = "saving" /\ pc' = "down" /\ Range(usersList') = {}
        /\ activeUsersFile' = activeUsersFile \o usersList /\ activeUsersFile = <<>>
    BY <1>5 DEF Saved, Range, UsersInv
  <2>2. activeUsersFile' = usersList
    BY <2>1, ConcatEmptySeq DEF UsersInv
  <2> QED
    BY <2>1, <2>2 DEF R!Next, R!Stop
<1>6. CASE \E sms \in Incoming : Message(sms)
  <2>1. /\ pc = "message" /\ pc' = "call" /\ UNCHANGED activeUsersFile
        /\ \/ usersList' = usersList
           \/ \E user \in User : Range(usersList') \in {Range(usersList) \cup {user},
                                                        Range(usersList) \ {user}}
    BY <1>6, MessageSwitches
  <2>2. CASE usersList' = usersList
    BY <2>1, <2>2 DEF R!vars
  <2>3. CASE usersList' # usersList
    <3>1. PICK user \in User : Range(usersList') \in {Range(usersList) \cup {user},
                                                      Range(usersList) \ {user}}
      BY <2>1, <2>3
    <3>2. R!Switch(user)
      BY <2>1, <3>1 DEF R!Switch
    <3> QED
      BY <3>2 DEF R!Next, User
  <2> QED
    BY <2>2, <2>3
<1> QED
  BY <1>1, <1>2, <1>3, <1>4, <1>5, <1>6, StepKinds

\* The list of active users is kept as Roster says (NotificationManager.py,
\* saveToFile and the constructor): a command changes it by its sender, a stop
\* keeps it, a crash goes back to the last stop.
THEOREM RosterImplemented == Spec => RosterKept
<1>1. Init => R!Init
  BY DEF Init, R!Init, Range
<1> QED
  BY <1>1, InitUsersInv, UsersInvStep, RosterStep, PTL DEF Spec, RosterKept, R!Spec

-----------------------------------------------------------------------------
(* The files *)

InHand == {"split", "send", "remove"} \cup Splitting

\* The steps that read, write and remove no file.
Calm == /\ UNCHANGED files
        /\ todo' \subseteq DOMAIN dir
        /\ pc' = "next" => readyToSMS'
        /\ pc' \notin InHand \/ UNCHANGED <<pc, readyToSMS, sent, reading>>

\* A step touches no file, or it is one of those that do.
LEMMA FileKinds ==
  ASSUME FilesInv, [Next]_vars
  PROVE  \/ Calm \/ Split \/ OpenPart \/ WritePart \/ SplitRemove
         \/ Send \/ RemoveFile
         \/ \E file \in todo : ReadFile(file)
         \/ \E name \in Names : \/ WriterOpens(name)
                                \/ \E t \in Texts : WriterCloses(name, t)
<1> USE DEF FilesInv, Calm, InHand, Splitting, Goes, Quiet, Tells, Forget, reading, files, Cameras
<1>1. CASE UNCHANGED vars
  BY <1>1 DEF vars, notification
<1>2. CASE Loop \/ NoMessage \/ NoCall \/ Call \/ NotDue \/ NotReady \/ Stop
  BY <1>2 DEF Loop, NoMessage, NoCall, Call, NotDue, NotReady, Stop
<1>3. CASE ListFiles \/ NoMoreFiles \/ OpenToSave \/ Saved \/ Start
  BY <1>3 DEF ListFiles, NoMoreFiles, OpenToSave, Saved, Start
<1>4. CASE Dies
  BY <1>4 DEF Dies
<1>5. CASE \E camera \in Cameras : \/ NoAlarm(camera) \/ Alarm(camera)
                                   \/ AlarmRaises(camera) \/ CameraRaises(camera)
  <2>1. PICK camera \in Cameras : \/ NoAlarm(camera) \/ Alarm(camera)
                                  \/ AlarmRaises(camera) \/ CameraRaises(camera)
    BY <1>5
  <2> QED
    BY <1>4, <2>1 DEF NoAlarm, Alarm, AlarmRaises, CameraRaises, Crash, After
<1>6. CASE \E sms \in Incoming : Message(sms) \/ StatusFails(sms)
  BY <1>4, <1>6 DEF Message, StatusFails
<1>7. CASE Signal \/ EngineEnds \/ EditContacts \/ Crash
  BY <1>4, <1>7 DEF Signal, EngineEnds, EditContacts, Crash, notification
<1> QED
  BY <1>1, <1>2, <1>3, <1>5, <1>6, <1>7 DEF Next, Steps, Environment

\* How many boundaries a text has.
LEMMA BoundariesOf ==
  ASSUME NEW t \in Seq(Characters)
  PROVE  /\ Boundaries(t) \in Nat /\ Boundaries(t) * Limit <= Len(t)
         /\ Len(t) <= Boundaries(t) * Limit + Limit
<1>1. Len(t) \in Nat /\ Limit \in Nat /\ Limit > 1
  BY MonitorAssumption, LenProperties
<1>2. CASE t = <<>>
  BY <1>1, <1>2 DEF Boundaries
<1>3. CASE t # <<>>
  <2>1. Len(t) - 1 \in Nat
    BY <1>1, <1>3, EmptySeq
  <2> DEFINE m == Len(t) - 1
             q == m \div Limit
  <2>2. q \in Nat /\ q * Limit <= m /\ m < q * Limit + Limit
    BY <1>1, <2>1
  <2> QED
    BY <1>1, <1>3, <2>1, <2>2 DEF Boundaries
<1> QED
  BY <1>2, <1>3

\* The parts of a text are texts that fit into an SMS.
LEMMA PartFits ==
  ASSUME NEW t \in Seq(Characters), NEW k \in 1..Boundaries(t) + 1
  PROVE  /\ PartOf(t, k, Boundaries(t) + 1) \in Seq(Characters)
         /\ Len(PartOf(t, k, Boundaries(t) + 1)) <= Limit
<1> DEFINE n == Boundaries(t) + 1
           first == IF k = 1 THEN 1 ELSE (k - 1) * Limit + 2
           last == IF k = n THEN Len(t) ELSE k * Limit
<1>0. Len(t) \in Nat /\ Limit \in Nat /\ Limit > 1
  BY MonitorAssumption, LenProperties
<1>1. /\ Boundaries(t) \in Nat /\ Boundaries(t) * Limit <= Len(t)
      /\ Len(t) <= Boundaries(t) * Limit + Limit
  BY BoundariesOf
<1>2. first \in Nat /\ last \in Nat /\ first >= 1 /\ last <= Len(t) /\ last - first < Limit
  <2>1. k \in Nat /\ k - 1 \in Nat /\ n - 1 = Boundaries(t) /\ Boundaries(t) \in Nat
    BY <1>1
  <2>2. (k - 1) * Limit \in Nat /\ k * Limit = (k - 1) * Limit + Limit
    BY <1>0, <2>1
  <2>3. CASE k = n
    <3>1. (k - 1) * Limit = Boundaries(t) * Limit
      BY <2>1, <2>3
    <3>2. k = 1 => (k - 1) * Limit = 0
      BY <1>0
    <3> QED
      BY <1>0, <1>1, <2>2, <2>3, <3>1, <3>2
  <2>4. CASE k # n
    <3>1. k <= Boundaries(t)
      BY <2>1, <2>4
    <3>2. k * Limit <= Boundaries(t) * Limit
      BY <1>0, <2>1, <3>1
    <3>3. k = 1 => (k - 1) * Limit = 0
      BY <1>0
    <3> QED
      BY <1>0, <1>1, <2>1, <2>2, <2>4, <3>2, <3>3
  <2> QED
    BY <2>3, <2>4
<1>3. PartOf(t, k, n) = SubSeq(t, first, last)
  BY DEF PartOf
<1> HIDE DEF n, first, last
<1>4. SubSeq(t, first, last) \in Seq(Characters)
      /\ Len(SubSeq(t, first, last)) = IF first <= last THEN last - first + 1 ELSE 0
  BY <1>0, <1>2
<1>5. Len(SubSeq(t, first, last)) <= Limit
  BY <1>0, <1>2, <1>4
<1> QED
  BY <1>3, <1>4, <1>5 DEF n

\* How many parts there are.
LEMMA LenOfParts ==
  ASSUME NEW t \in Seq(Characters)
  PROVE  /\ Len(Parts(t)) = Boundaries(t) + 1
         /\ \A k \in 1..Boundaries(t) + 1 :
              Parts(t)[k] = PartOf(t, k, Boundaries(t) + 1)
<1>1. Boundaries(t) + 1 \in Nat
  BY BoundariesOf
<1> HIDE DEF Boundaries
<1>2. DOMAIN Parts(t) = 1..Boundaries(t) + 1 /\ Parts(t) \in [1..Boundaries(t) + 1 -> Range(Parts(t))]
  BY DEF Parts, Range
<1>3. Parts(t) \in Seq(Range(Parts(t)))
  BY <1>1, <1>2, IsASeq
<1> QED
  BY <1>1, <1>2, <1>3, LenProperties DEF Parts

\* The files are in order at the start.
LEMMA InitFilesInv == Init => FilesInv
BY DEF Init, FilesInv, Splitting

\* What is split is what splitSMS reads.
LEMMA SplitKeeps ==
  ASSUME FilesInv, Split
  PROVE  FilesInv'
BY DEF Split, Goes, Quiet, files, Splitting, FilesInv

\* Opening and writing a part changes no other file, and a part fits.
LEMMA PartKeeps ==
  ASSUME FilesInv, PartsInv, OpenPart \/ WritePart
  PROVE  FilesInv'
<1> DEFINE n == Boundaries(text) + 1
           file == Part(smsFile[1], part)
<1>1. /\ pc \in Splitting /\ smsFile \in DOMAIN dir \ todo /\ readyToSMS
      /\ smsFile \in Names \X Nat /\ smsFile[2] = 0 /\ text \in Seq(Characters)
      /\ part \in 1..Len(Parts(text)) + 1
  BY DEF OpenPart, WritePart, Splitting, FilesInv, PartsInv
<1>2. Boundaries(text) \in Nat /\ Len(Parts(text)) = n
      /\ \A k \in 1..n : Parts(text)[k] = PartOf(text, k, n)
  BY <1>1, BoundariesOf, LenOfParts
<1>3. part \in Nat /\ part # 0 /\ file \in Names \X Nat /\ file[2] = part /\ file # smsFile
  BY <1>1, <1>2 DEF Part
<1> HIDE DEF n, file
<1>4. \E t \in Seq(Characters) :
        /\ Len(t) <= Limit
        /\ DOMAIN dir' = DOMAIN dir \cup {file}
        /\ \A x \in DOMAIN dir' : dir'[x] = IF x = file THEN t ELSE dir[x]
  <2>1. CASE OpenPart
    <3>1. dir' = With([x \in {file} |-> <<>>])
      BY <2>1 DEF OpenPart, Leaves, file
    <3>2. /\ DOMAIN dir' = DOMAIN dir \cup {file}
          /\ \A x \in DOMAIN dir' : dir'[x] = IF x = file THEN <<>> ELSE dir[x]
      BY <3>1 DEF With
    <3>3. <<>> \in Seq(Characters) /\ Len(<<>>) <= Limit
      BY MonitorAssumption
    <3> QED
      BY <3>2, <3>3
  <2>2. CASE WritePart
    <3>1. /\ pc = "write" /\ dir' = [dir EXCEPT ![file] = Parts(text)[part]]
      BY <2>2 DEF WritePart, Leaves, file
    <3>2. file \in DOMAIN dir /\ part \in 1..n
      BY <1>2, <1>1, <1>3, <3>1 DEF PartsInv, Splitting, file
    <3>3. /\ Parts(text)[part] \in Seq(Characters)
          /\ Len(Parts(text)[part]) <= Limit
      BY <1>1, <1>2, <3>2, PartFits DEF n
    <3> QED
      BY <3>1, <3>2, <3>3
  <2> QED
    BY <2>1, <2>2
<1>5. /\ UNCHANGED <<writing, todo, smsFile, text, touched, readyToSMS>>
      /\ pc' \in Splitting
  BY DEF OpenPart, WritePart, Quiet, reading, Splitting
<1>6. /\ smsFile \in DOMAIN dir' /\ dir'[smsFile] = dir[smsFile]
  BY <1>1, <1>3, <1>4
<1>7. ~touched => text = dir[smsFile]
  BY <1>1 DEF FilesInv
<1>8. /\ DOMAIN dir' \subseteq Names \X Nat
      /\ \A x \in DOMAIN dir' : /\ dir'[x] \in Seq(Characters)
                                /\ x[2] # 0 => Len(dir'[x]) <= Limit
      /\ DOMAIN dir \subseteq DOMAIN dir'
  BY <1>3, <1>4 DEF FilesInv
<1> QED
  BY <1>1, <1>5, <1>6, <1>7, <1>8 DEF FilesInv, Splitting

\* Removing leaves all other files, in particular those still to be read.
LEMMA RemovalKeeps ==
  ASSUME FilesInv, SplitRemove \/ RemoveFile
  PROVE  FilesInv'
<1>1. smsFile \in DOMAIN dir \ todo /\ readyToSMS
  BY DEF FilesInv, Splitting, SplitRemove, RemoveFile
<1>2. dir' = Without(smsFile) /\ writing' = writing \ {smsFile} /\ todo' \in {todo, {}}
  BY DEF SplitRemove, RemoveFile, Leaves, reading, Forget
<1>3. /\ DOMAIN dir' = DOMAIN dir \ {smsFile}
      /\ \A x \in DOMAIN dir' : dir'[x] = dir[x]
  BY <1>2 DEF Without, Restrict
<1>4. pc' = "loop" \/ (pc' = "next" /\ readyToSMS' = readyToSMS)
  <2>1. SplitRemove => pc' = "next" /\ readyToSMS' = readyToSMS
    BY DEF SplitRemove, Quiet
  <2>2. RemoveFile => pc' = "loop"
    BY DEF RemoveFile
  <2> QED
    BY <2>1, <2>2
<1>5. pc' = "next" => readyToSMS'
  BY <1>1, <1>4, Zenon
<1> QED
  BY <1>1, <1>2, <1>3, <1>4, <1>5 DEF FilesInv, Splitting

\* A file is taken from those still to be read; what is too long is no part.
LEMMA ReadKeeps ==
  ASSUME FilesInv, NEW file \in todo, ReadFile(file)
  PROVE  FilesInv'
<1>1. /\ UNCHANGED <<dir, writing, readyToSMS>> /\ todo' = todo \ {file}
      /\ smsFile' = file /\ text' = dir[file]
      /\ pc' = IF Len(dir[file]) > Limit THEN "split" ELSE "send"
  BY DEF ReadFile, Goes, Quiet, files
<1>2. file \in DOMAIN dir /\ Len(dir[file]) \in Nat /\ Limit \in Nat
  BY MonitorAssumption, LenProperties DEF FilesInv
<1>3. pc' = "split" => file[2] = 0
  BY <1>1, <1>2 DEF FilesInv
<1>4. readyToSMS
  BY DEF ReadFile, Goes, FilesInv
<1> QED
  BY <1>1, <1>2, <1>3, <1>4 DEF FilesInv, Splitting

\* What is sent is what was read.
LEMMA SendKeeps ==
  ASSUME FilesInv, Send
  PROVE  FilesInv'
BY DEF Send, Goes, Tells, sendSMSAdmin, files, reading, Splitting, FilesInv

\* Another program writes to one file, and what was read of that is touched.
LEMMA WriterKeeps ==
  ASSUME FilesInv, NEW name \in Names,
         WriterOpens(name) \/ \E t \in Texts : WriterCloses(name, t)
  PROVE  FilesInv'
<1>1. /\ touched' = (touched \/ smsFile = Whole(name))
      /\ UNCHANGED <<pc, readyToSMS, sent, todo, smsFile, text, part>>
  BY DEF WriterOpens, WriterCloses, Writes, notification
<1>2. Whole(name) \in Names \X Nat /\ Whole(name)[2] = 0
  BY DEF Whole
<1>3. PICK t \in Texts \cup {<<>>} :
        \/ dir' = With([x \in {Whole(name)} |-> t])
        \/ Whole(name) \in writing /\ dir' = [dir EXCEPT ![Whole(name)] = t]
  BY DEF WriterOpens, WriterCloses
<1>4. t \in Seq(Characters)
  <2>1. CASE t = <<>>
    BY <2>1
  <2>2. CASE t \in Texts
    <3>1. t \in Seq(Range(t)) /\ Range(t) \subseteq Characters
      BY <2>2, MonitorAssumption DEF Characters
    <3> QED
      BY <3>1, SeqMonotonic
  <2> QED
    BY <2>1, <2>2
<1>5. /\ DOMAIN dir' = DOMAIN dir \cup {Whole(name)}
      /\ \A x \in DOMAIN dir' : dir'[x] = IF x = Whole(name) THEN t ELSE dir[x]
  BY <1>3 DEF With, FilesInv
<1>6. writing' \subseteq DOMAIN dir'
  BY <1>5 DEF WriterOpens, WriterCloses, FilesInv
<1> QED
  BY <1>1, <1>2, <1>4, <1>5, <1>6 DEF FilesInv, Splitting

\* Each part is written to once, and only whole files are written to by others.
LEMMA PartsInvStep ==
  ASSUME FilesInv, PartsInv, [Next]_vars
  PROVE  PartsInv'
<1>0. ASSUME UNCHANGED text
      PROVE  Parts(text)' = Parts(text)
  BY <1>0 DEF Parts, Boundaries, PartOf
<1>1. CASE Calm
  <2>1. CASE pc' \in Splitting
    <3>1. UNCHANGED <<pc, text, part, smsFile, dir>>
      BY <1>1, <2>1 DEF Calm, InHand, files, reading
    <3> QED
      BY <1>0, <3>1 DEF PartsInv
  <2>2. CASE pc' \notin Splitting
    BY <2>2 DEF PartsInv
  <2> QED
    BY <2>1, <2>2
<1>2. CASE Split
  <2>1. /\ smsFile \in DOMAIN dir /\ text' = dir[smsFile] /\ dir[smsFile] \in Seq(Characters)
        /\ pc' = "open" /\ part' = 1
    BY <1>2 DEF Split, Goes, FilesInv
  <2>2. text' \in Seq(Characters)
    BY <2>1
  <2>3. Len(Parts(text'))  \in Nat \ {0}
    BY <2>2, BoundariesOf, LenOfParts
  <2>4. Parts(text)' = Parts(text')
    BY DEF Parts, Boundaries, PartOf
  <2> QED
    BY <2>1, <2>2, <2>3, <2>4 DEF PartsInv
<1>3. CASE pc' \notin Splitting
  BY <1>3 DEF PartsInv
<1>4. ASSUME NEW name \in Names, WriterOpens(name) \/ \E t \in Texts : WriterCloses(name, t),
             pc \in Splitting
      PROVE  PartsInv'
  <2>1. UNCHANGED <<pc, text, part, smsFile>>
    BY <1>4 DEF WriterOpens, WriterCloses, Writes, notification
  <2>2. ASSUME NEW k \in Nat, k # 0, Part(smsFile[1], k) \in DOMAIN dir
        PROVE  /\ Part(smsFile[1], k) \in DOMAIN dir'
               /\ dir'[Part(smsFile[1], k)] = dir[Part(smsFile[1], k)]
    <3>1. Part(smsFile[1], k) # Whole(name)
      BY <2>2 DEF Part, Whole
    <3> QED
      BY <1>4, <2>2, <3>1 DEF WriterOpens, WriterCloses, With
  <2>3. part \in Nat \ {0} /\ \A k \in 1..part - 1 : k \in Nat /\ k # 0
    BY <1>4, BoundariesOf, LenOfParts DEF PartsInv
  <2> QED
    BY <1>0, <1>4, <2>1, <2>2, <2>3 DEF PartsInv
<1>5. ASSUME OpenPart \/ WritePart
      PROVE  PartsInv'
  <2> DEFINE n == Len(Parts(text))
             file(k) == Part(smsFile[1], k)
  <2>1. /\ UNCHANGED <<text, smsFile>> /\ text \in Seq(Characters)
        /\ n \in Nat \ {0} /\ part \in 1..n
        /\ \A k \in 1..part - 1 : file(k) \in DOMAIN dir /\ dir[file(k)] = Parts(text)[k]
    BY <1>5, BoundariesOf, LenOfParts DEF OpenPart, WritePart, reading, PartsInv, Splitting
  <2> HIDE DEF n
  <2>2. \A k \in 1..part - 1 : file(k) # file(part)
    BY <2>1 DEF Part
  <2>3. CASE OpenPart
    <3>1. /\ dir' = With([x \in {file(part)} |-> <<>>])
          /\ pc' = "write" /\ part' = part
      BY <2>3 DEF OpenPart, Leaves, reading
    <3>2. file(part) \in DOMAIN dir'
          /\ \A x \in DOMAIN dir \ {file(part)} : x \in DOMAIN dir' /\ dir'[x] = dir[x]
      BY <3>1 DEF With
    <3> QED
      BY <1>0, <2>1, <2>2, <3>1, <3>2 DEF PartsInv, n
  <2>4. CASE WritePart
    <3>1. /\ dir' = [dir EXCEPT ![file(part)] = Parts(text)[part]]
          /\ file(part) \in DOMAIN dir
          /\ pc' = IF part = n THEN "splitRemove" ELSE "open"
          /\ part' = part + 1
      BY <2>4 DEF WritePart, Leaves, PartsInv, Splitting, n
    <3>2. /\ DOMAIN dir' = DOMAIN dir /\ dir'[file(part)] = Parts(text)[part]
          /\ \A x \in DOMAIN dir \ {file(part)} : dir'[x] = dir[x]
      BY <3>1
    <3>3. \A k \in 1..part : file(k) \in DOMAIN dir' /\ dir'[file(k)] = Parts(text)[k]
      BY <2>1, <2>2, <3>1, <3>2
    <3>4. part' \in 1..n + 1 /\ part' - 1 = part /\ (pc' = "splitRemove" <=> part' = n + 1)
      BY <2>1, <3>1
    <3>5. pc' # "write"
      BY <3>1
    <3> QED
      BY <1>0, <2>1, <3>3, <3>4, <3>5 DEF PartsInv, n
  <2> QED
    BY <1>5, <2>3, <2>4
<1> QED
  <2>1. SplitRemove \/ RemoveFile \/ Send => pc' \notin Splitting
    BY DEF SplitRemove, RemoveFile, Send, Goes, Splitting
  <2>2. ASSUME NEW file \in todo, ReadFile(file)
        PROVE  pc' \notin Splitting
    BY <2>2 DEF ReadFile, Goes, Splitting
  <2>3. ASSUME NEW name \in Names, WriterOpens(name) \/ \E t \in Texts : WriterCloses(name, t)
        PROVE  pc' = pc
    BY <2>3 DEF WriterOpens, WriterCloses, Writes
  <2> QED
    BY <1>1, <1>2, <1>3, <1>4, <1>5, <2>1, <2>2, <2>3, FileKinds

\* Every step keeps FilesInv.
LEMMA FilesInvStep == FilesInv /\ PartsInv /\ [Next]_vars => FilesInv'
<1> SUFFICES ASSUME FilesInv, PartsInv, [Next]_vars PROVE FilesInv'
  OBVIOUS
<1>1. CASE Calm
  BY <1>1 DEF Calm, InHand, Splitting, files, reading, FilesInv
<1> QED
  BY <1>1, FileKinds, SplitKeeps, PartKeeps, RemovalKeeps, ReadKeeps, SendKeeps, WriterKeeps

\* Nobody is on the list twice, and every file in hand or still to be read is
\* there, as it was read unless it was written to since.
THEOREM MonitorInvariance == Spec => []MonitorInv
<1>1. Init => MonitorInv
  <2>1. Init => PartsInv
    BY DEF Init, PartsInv, Splitting
  <2> QED
    BY <2>1, InitUsersInv, InitFilesInv DEF MonitorInv
<1>2. MonitorInv /\ [Next]_vars => MonitorInv'
  BY UsersInvStep, FilesInvStep, PartsInvStep DEF MonitorInv
<1> QED
  BY <1>1, <1>2, PTL DEF Spec

\* No file disappears unsent.
LEMMA RemovesSent ==
  ASSUME FilesInv, [Next]_vars, NEW file \in DOMAIN dir \ DOMAIN dir'
  PROVE  \/ touched
         \/ pc = "remove" /\ sent = <<Sms(Admin, dir[file])>>
         \/ pc = "splitRemove" /\ dir[file] = text
<1>1. CASE SplitRemove \/ RemoveFile
  <2>1. dir' = Without(smsFile) /\ pc \in {"splitRemove", "remove"}
    BY <1>1 DEF SplitRemove, RemoveFile, Leaves
  <2>2. file = smsFile
    BY <2>1 DEF Without, Restrict
  <2> QED
    BY <2>1, <2>2 DEF FilesInv, Splitting
<1>2. CASE Split \/ OpenPart \/ WritePart
  BY <1>2 DEF Split, OpenPart, WritePart, Goes, files, Leaves, With
<1>3. CASE Calm \/ Send \/ \E f \in todo : ReadFile(f)
  BY <1>3 DEF Calm, Send, ReadFile, Goes, files
<1>4. CASE \E name \in Names : \/ WriterOpens(name)
                               \/ \E t \in Texts : WriterCloses(name, t)
  BY <1>4 DEF WriterOpens, WriterCloses, With
<1> QED
  BY <1>1, <1>2, <1>3, <1>4, FileKinds

\* A file that disappears was sent, or split, as it was, unless another program
\* wrote to it after it was read (MonitoringManager.py, main and splitSMS).
THEOREM RemovedFilesSent == Spec => RemovedWasSent
<1>1. MonitorInv /\ [Next]_vars =>
        [\A file \in DOMAIN dir \ DOMAIN dir' :
           \/ touched
           \/ pc = "remove" /\ sent = <<Sms(Admin, dir[file])>>
           \/ pc = "splitRemove" /\ dir[file] = text]_vars
  BY RemovesSent DEF MonitorInv
<1> QED
  BY <1>1, MonitorInvariance, PTL DEF Spec, RemovedWasSent
-----------------------------------------------------------------------------
(* Who is told *)

\* The contacts that a user may be taken for.
Alike(user) == {c \in Range(tel) : In(user.name, c.name) /\ In(user.surname, c.surname)}

\* What is found for a user: the only contact that it may be taken for.
LEMMA UserFound ==
  ASSUME NEW user
  PROVE  LET contact == IF Len(Only(tel, Alike(user))) = 1 THEN Only(tel, Alike(user))[1]
                                                           ELSE Nothing
         IN  NumberOf(user) = IF contact = Nothing \/ contact.numbers = <<>>
                              THEN Nothing ELSE Head(contact.numbers)
<1> DEFINE found == Only(tel, Alike(user))
           contact == IF Len(found) = 1 THEN found[1] ELSE Nothing
           query == <<user.name, user.surname>>
<1>1. Len(query) = 2 /\ query[1] = user.name /\ query[2] = user.surname
  OBVIOUS
<1>2. LookingForContacts(tel, query) = found
  BY <1>1 DEF LookingForContacts, LookingForContactByNameAndSurname, Alike
<1>3. LookingForContact(tel, query) = contact
  BY <1>2 DEF LookingForContact
<1> HIDE DEF found, contact
<1>4. NumberOf(user) = IF contact = Nothing \/ contact["numbers"] = <<>>
                       THEN Nothing ELSE Head(contact["numbers"])
  BY <1>3 DEF NumberOf, GetDefaultNumber, Default
<1> QED
  BY <1>4 DEF contact, found

\* A number that is found is that of a contact the user may be taken for, and
\* its own if it is in the phone book.
LEMMA NumberIsOf ==
  ASSUME UsersInv, NEW user \in User, NumberOf(user) # Nothing
  PROVE  \E c \in Range(tel) :
           /\ NumberOf(user) = Head(c.numbers)
           /\ In(user.name, c.name) /\ In(user.surname, c.surname)
           /\ (\E d \in Range(tel) : Is(d, user)) => Is(c, user)
<1> DEFINE S == Alike(user)
           found == Only(tel, S)
           c == found[1]
<1>1. tel \in Seq(Contact) /\ DOMAIN tel = 1..Len(tel)
  BY LenProperties DEF UsersInv
<1>2. Len(found) = 1 /\ NumberOf(user) = Head(c.numbers)
  BY UserFound
<1>3. found \in Seq(Contact) /\ Range(found) = Range(tel) \cap S
  <2> HIDE DEF S
  <2> QED
    BY <1>1, OnlyPicks, OnlyRange
<1>4. c \in Range(tel) \cap S
  <2> HIDE DEF found
  <2>1. found[1] \in Range(found)
    BY <1>2, <1>3, LenProperties DEF Range
  <2> QED
    BY <1>3, <2>1
<1>5. ASSUME NEW d \in Range(tel), Is(d, user)
      PROVE  Is(c, user)
  <2>1. PICK k \in 1..Len(tel) : d = tel[k]
    BY <1>1 DEF Range
  <2>2. d \in S
    BY <1>5, PhoneBookAssumption DEF Alike, In, Is, User
  <2> HIDE DEF S
  <2>3. c = tel[k]
    BY <1>1, <1>2, <2>1, <2>2, OnlyIfSole
  <2> QED
    BY <1>5, <2>1, <2>3
<1>6. In(user.name, c.name) /\ In(user.surname, c.surname)
  BY <1>4 DEF Alike
<1> QED
  BY <1>2, <1>4, <1>5, <1>6

\* Who is in the phone book, has a number and cannot be taken for another is
\* found.
LEMMA ReachableFound ==
  ASSUME UsersInv, NEW user \in User, Reachable(user)
  PROVE  NumberOf(user) # Nothing
<1> DEFINE S == Alike(user)
           found == Only(tel, S)
<1>1. tel \in Seq(Contact) /\ DOMAIN tel = 1..Len(tel)
  BY LenProperties DEF UsersInv
<1>2. PICK i \in DOMAIN tel :
        /\ Is(tel[i], user) /\ tel[i].numbers # <<>>
        /\ \A j \in DOMAIN tel \ {i} : ~(In(user.name, tel[j].name)
                                         /\ In(user.surname, tel[j].surname))
  BY DEF Reachable
<1>3. tel[i] \in S /\ ~\E j \in 1..Len(tel) \ {i} : tel[j] \in S
  BY <1>1, <1>2, PhoneBookAssumption DEF Alike, In, Is, User, Range
<1> HIDE DEF S
<1>4. Len(found) = 1 /\ found[1] = tel[i]
  BY <1>1, <1>3, OnlyIfSole
<1>5. tel[i] \in Contact /\ tel[i] # Nothing
  BY <1>1, PhoneBookAssumption
<1>6. NumberOf(user) = Head(tel[i].numbers)
  BY <1>2, <1>4, <1>5, UserFound DEF S
<1>7. Head(tel[i].numbers) \in Numbers
  <2>1. tel[i].numbers \in Seq(Numbers)
    BY <1>5 DEF Contact
  <2> QED
    BY <1>2, <2>1
<1> QED
  BY <1>6, <1>7, PhoneBookAssumption

\* The users are told in the order of the list, up to the first that no number
\* is found for.
LEMMA NotifiedUsers ==
  ASSUME usersList \in Seq(User)
  PROVE  /\ Notified \in 0..Len(usersList)
         /\ \A i \in 1..Notified : NumberOf(usersList[i]) # Nothing
         /\ Notified < Len(usersList) => NumberOf(usersList[Notified + 1]) = Nothing
<1> DEFINE n == Len(usersList)
           f == [i \in 1..n |-> NumberOf(usersList[i])]
           S == {NumberOf(usersList[i]) : i \in 1..n} \cup {Nothing}
           g == Append(f, Nothing)
           I == {i \in 1..Len(g) : g[i] = Nothing}
<1>1. n \in Nat /\ DOMAIN usersList = 1..n
  BY LenProperties
<1> HIDE DEF n
<1>2. f \in Seq(S) /\ Len(f) = n /\ Nothing \in S
  BY <1>1
<1>3. Len(g) = n + 1 /\ g[n + 1] = Nothing /\ \A i \in 1..n : g[i] = f[i]
  BY <1>1, <1>2, AppendProperties
<1>4. Notified = (IF I # {} THEN Min(I) ELSE 0) - 1
  BY <1>1 DEF Notified, SelectInSeq
<1>5. \A i \in 1..n : f[i] = NumberOf(usersList[i])
  OBVIOUS
<1> HIDE DEF f, g
<1>6. n + 1 \in I /\ I \subseteq 1..n + 1
  BY <1>1, <1>3
<1>7. I # {} /\ I \subseteq Nat
  BY <1>1, <1>6
<1>8. \A i \in 1..n : i \in I <=> NumberOf(usersList[i]) = Nothing
  BY <1>1, <1>3, <1>5
<1> HIDE DEF I
<1>9. Min(I) \in I /\ \A i \in I : Min(I) =< i
  BY <1>7, MinIsMember
<1> DEFINE m == Min(I)
<1>10. m \in 1..n + 1 /\ Notified = m - 1
  BY <1>4, <1>6, <1>7, <1>9
<1>11. \A i \in I : m =< i
  BY <1>9
<1>12. m \in I
  BY <1>9
<1> HIDE DEF m
<1>13. m - 1 \in 0..n /\ (m - 1) + 1 = m /\ (m - 1 < n => m \in 1..n)
  BY <1>1, <1>10
<1>14. ASSUME NEW i \in 1..m - 1
       PROVE  NumberOf(usersList[i]) # Nothing
  <2>1. i \in 1..n /\ ~(m =< i)
    BY <1>1, <1>10
  <2> QED
    BY <1>8, <1>11, <2>1
<1> QED
  BY <1>8, <1>10, <1>12, <1>13, <1>14 DEF n

\* What an alarm tells, and whom.
TellsUsers ==
  LET n == IF pc' = "down" THEN Len(sent') ELSE Len(usersList)
  IN  /\ Len(sent') = n
      /\ \A i \in 1..n :
           \E c \in Range(tel) :
             /\ sent'[i].to = Head(c.numbers)
             /\ In(usersList[i].name, c.name) /\ In(usersList[i].surname, c.surname)
             /\ (\E d \in Range(tel) : Is(d, usersList[i])) => Is(c, usersList[i])
      /\ pc' = "down" => ~Reachable(usersList[n + 1])

LEMMA AlarmTells ==
  ASSUME UsersInv, NEW camera \in Cameras, Alarm(camera) \/ AlarmRaises(camera)
  PROVE  TellsUsers
<1> DEFINE n == Notified
<1>1. /\ usersList \in Seq(User) /\ Len(usersList) \in Nat
      /\ \A i \in 1..Len(usersList) : usersList[i] \in User
  BY LenProperties DEF UsersInv
<1>2. /\ n \in 0..Len(usersList)
      /\ \A i \in 1..n : NumberOf(usersList[i]) # Nothing
      /\ n < Len(usersList) => NumberOf(usersList[n + 1]) = Nothing
  BY <1>1, NotifiedUsers
<1>3. sent' = [i \in 1..n |-> Sms(NumberOf(usersList[i]), "alarm")]
  BY DEF Alarm, AlarmRaises, sendSMSNotification
<1>4. IF pc' = "down" THEN n < Len(usersList) ELSE n = Len(usersList)
  <2>1. CASE Alarm(camera)
    <3>1. pc' \in {"brama", "files"} /\ ~(n < Len(usersList))
      BY <2>1 DEF Alarm, Goes, After, NotificationRaises
    <3> QED
      BY <1>1, <1>2, <3>1
  <2>2. CASE AlarmRaises(camera)
    BY <2>2 DEF AlarmRaises, Dies, NotificationRaises
  <2> QED
    BY <2>1, <2>2
<1> HIDE DEF n
<1>5. Len(sent') = n /\ \A i \in 1..n : sent'[i].to = NumberOf(usersList[i])
  BY <1>1, <1>2, <1>3 DEF Sms
<1>6. ASSUME NEW i \in 1..n
      PROVE  \E c \in Range(tel) :
               /\ sent'[i].to = Head(c.numbers)
               /\ In(usersList[i].name, c.name) /\ In(usersList[i].surname, c.surname)
               /\ (\E d \in Range(tel) : Is(d, usersList[i])) => Is(c, usersList[i])
  <2>1. usersList[i] \in User /\ NumberOf(usersList[i]) # Nothing
    BY <1>1, <1>2
  <2> QED
    BY <1>5, <2>1, NumberIsOf
<1>7. pc' = "down" => ~Reachable(usersList[n + 1])
  <2>1. n < Len(usersList) => usersList[n + 1] \in User
    BY <1>1, <1>2
  <2> QED
    BY <1>2, <1>4, <2>1, ReachableFound
<1> QED
  BY <1>4, <1>5, <1>6, <1>7 DEF TellsUsers

\* Every alarm reaches every active user, until one cannot be reached.
THEOREM AlarmsTold == Spec => AlarmTold
<1>1. MonitorInv /\ [Next]_vars
        => [(\E camera \in Cameras : Alarm(camera) \/ AlarmRaises(camera)) => TellsUsers]_vars
  BY AlarmTells DEF MonitorInv
<1>2. [][(\E camera \in Cameras : Alarm(camera) \/ AlarmRaises(camera)) => TellsUsers]_vars
        => AlarmTold
  BY DEF AlarmTold, TellsUsers
<1> QED
  BY <1>1, <1>2, MonitorInvariance, PTL DEF Spec

\* No two contacts have one name, so the one that wrote is the one that changes.
LEMMA OneOfThatName ==
  ASSUME UsersInv, NEW c \in Range(tel), NEW d \in Range(tel), Person(c) = Person(d)
  PROVE  c = d
<1>1. PICK i \in DOMAIN tel, j \in DOMAIN tel : c = tel[i] /\ d = tel[j]
  BY DEF Range
<1>2. Is(tel[i], tel[j])
  BY <1>1 DEF Person, Is
<1> QED
  BY <1>1, <1>2 DEF UsersInv

\* An active contact is one whose person is on the list.
LEMMA ActiveIsListed ==
  ASSUME NEW list, list \in Seq(User), NEW c \in Contact
  PROVE  (\E i \in DOMAIN list : Is(list[i], c)) <=> Person(c) \in Range(list)
<1>1. Person(c) \in User
  BY DEF Person, User, Contact
<1>2. \A i \in DOMAIN list : list[i] \in User
  BY LenProperties
<1> QED
  BY <1>1, <1>2, UserIsPerson DEF Range

\* The step that switches a contact tells it.
TellsChange(c) ==
  Active(c) # Active(c)' =>
    sent' = <<Sms(Head(c.numbers), IF Active(c) THEN "off" ELSE "on")>>

LEMMA MessageTells ==
  ASSUME UsersInv, UsersInv', NEW sms \in Incoming, Message(sms), NEW c \in Range(tel)
  PROVE  TellsChange(c)
<1> DEFINE contact == LookingForContactByNumber(tel, sms.number)
<1>0. c \in Contact /\ usersList \in Seq(User) /\ usersList' \in Seq(User) /\ Once(usersList)
  BY LenProperties DEF UsersInv, Range
<1>1. /\ Active(c) <=> Person(c) \in Range(usersList)
      /\ Active(c)' <=> Person(c) \in Range(usersList')
  BY <1>0, ActiveIsListed DEF Active
<1>8. Active(c) # Active(c)' =>
        (\/ Active(c) /\ Person(c) \notin Range(usersList')
         \/ ~Active(c) /\ Person(c) \in Range(usersList'))
  <2>1. Active(c) # Active(c)' => ~(Active(c) <=> Active(c)')
    BY DEF Active
  <2> QED
    BY <1>1, <2>1
<1>2. contact = Nothing \/ (contact \in Range(tel) /\ contact \in Contact)
  BY OwnerListed DEF UsersInv
<1>3. \/ usersList' = usersList
      \/ contact # Nothing /\ Reply(contact, "off") /\ removeUserFromActive(contact)
      \/ contact # Nothing /\ Reply(contact, "on") /\ addUserAsActive(contact)
  BY DEF Message, checkNewMessage
<1> HIDE DEF contact
<1>4. contact # Nothing => Person(contact) \in User
  BY <1>2 DEF Person, User, Contact
<1>5. CASE usersList' = usersList
  BY <1>1, <1>5, <1>8 DEF TellsChange
<1>6. CASE contact # Nothing /\ Reply(contact, "off") /\ removeUserFromActive(contact)
  <2>1. Range(usersList') = Range(usersList) \ {Person(contact)}
    BY <1>0, <1>4, <1>6, RemovesUser
  <2>2. ASSUME Active(c) # Active(c)'
        PROVE  c = contact /\ Active(c)
    <3>1. Person(c) = Person(contact) /\ Active(c)
      BY <1>1, <1>8, <2>1, <2>2
    <3> QED
      BY <1>2, <1>6, <3>1, OneOfThatName
  <2> QED
    BY <1>6, <2>2 DEF TellsChange, Reply
<1>7. CASE contact # Nothing /\ Reply(contact, "on") /\ addUserAsActive(contact)
  <2>1. CASE Active(contact)
    BY <1>1, <1>7, <1>8, <2>1 DEF addUserAsActive, TellsChange
  <2>2. CASE ~Active(contact)
    <3>1. Range(usersList') = Range(usersList) \cup {Person(contact)}
      BY <1>0, <1>4, <1>7, <2>2, AddsUser
    <3>2. ASSUME Active(c) # Active(c)'
          PROVE  c = contact /\ ~Active(c)
      <4>1. Person(c) = Person(contact) /\ ~Active(c)
        BY <1>1, <1>8, <3>1, <3>2
      <4> QED
        BY <1>2, <1>7, <4>1, OneOfThatName
    <3> QED
      BY <1>7, <3>2 DEF TellsChange, Reply
  <2> QED
    BY <2>1, <2>2
<1> QED
  BY <1>3, <1>5, <1>6, <1>7

\* Nobody is switched on or off without being told.
THEOREM ChangesTold == Spec => ChangeIsTold
<1>1. ASSUME UsersInv, UsersInv', Next, pc # "down", pc' # "down", NEW c \in Range(tel)
      PROVE  TellsChange(c)
  <2>1. CASE usersList' = usersList
    BY <2>1 DEF TellsChange, Active
  <2>2. CASE \E sms \in Incoming : Message(sms)
    BY <1>1, <2>2, MessageTells
  <2> QED
    BY <1>1, <2>1, <2>2, StepKinds DEF Aside, Start, Dies, OpenToSave, Saved
<1>2. MonitorInv /\ MonitorInv' /\ [Next]_vars
        => [pc # "down" /\ pc' # "down" => \A c \in Range(tel) : TellsChange(c)]_vars
  BY <1>1 DEF MonitorInv
<1>3. [][pc # "down" /\ pc' # "down" => \A c \in Range(tel) : TellsChange(c)]_vars => ChangeIsTold
  BY DEF ChangeIsTold, TellsChange
<1> QED
  BY <1>2, <1>3, MonitorInvariance, PTL DEF Spec
-----------------------------------------------------------------------------
(* The split *)

\* What is left of a number by a divisor that it is a multiple of, and more.
LEMMA Remainder ==
  ASSUME NEW d \in Nat \ {0}, NEW k \in Nat, NEW r \in 0..d - 1
  PROVE  (k * d + r) % d = r
<1> DEFINE i == k * d + r
           q == i \div d
           m == i % d
<1>1. k * d \in Nat /\ i \in Nat /\ i = k * d + r /\ r < d /\ r >= 0
  OBVIOUS
<1> HIDE DEF i
<1>2. q \in Nat /\ m \in Nat /\ m < d /\ i = q * d + m
  BY <1>1
<1> HIDE DEF q, m
<1>3. ASSUME NEW a \in Nat, NEW b \in Nat, a < b
      PROVE  a * d + d <= b * d
  <2>1. b - a - 1 \in Nat
    BY <1>3
  <2>2. (b - a - 1) * d >= 0
    BY <2>1
  <2>3. (b - a - 1) * d = b * d - a * d - d
    BY <2>1
  <2> QED
    BY <2>2, <2>3
<1>4. ~(q < k)
  <2>1. q < k => q * d + d <= k * d
    BY <1>2, <1>3
  <2>2. q * d \in Nat
    BY <1>2
  <2> QED
    BY <1>1, <1>2, <2>1, <2>2
<1>5. ~(k < q)
  <2>1. k < q => k * d + d <= q * d
    BY <1>2, <1>3
  <2>2. q * d \in Nat
    BY <1>2
  <2> QED
    BY <1>1, <1>2, <2>1, <2>2
<1>6. q = k
  BY <1>2, <1>4, <1>5
<1>7. m = r
  BY <1>1, <1>2, <1>6
<1> QED
  BY <1>7 DEF i, m

\* f[i] is what Unbroken makes of the first i characters.
UnbrokenUpTo(f, t, V) ==
  /\ f \in [0..Len(t) -> V]
  /\ f[0] = <<>>
  /\ \A i \in 1..Len(t) :
       f[i] = IF i = 1 \/ (i - 1) % Limit # 0 THEN Append(f[i - 1], t[i]) ELSE f[i - 1]
  /\ Unbroken(t) = f[Len(t)]

\* The recursion of Unbroken defines such a function.
LEMMA UnbrokenBuilt ==
  ASSUME NEW A, NEW t \in Seq(A)
  PROVE  \E f : UnbrokenUpTo(f, t, Seq(A))
<1> DEFINE n == Len(t)
           V == Seq(A)
           Kept(i) == i = 1 \/ (i - 1) % Limit # 0
           Step(g, i) == IF i = 0 THEN <<>>
                         ELSE IF Kept(i) THEN Append(g[i - 1], t[i]) ELSE g[i - 1]
           Extend(i, l) == IF Kept(i) THEN Append(l, t[i]) ELSE l
           F == CHOOSE f : f = [i \in 0..n |-> Step(f, i)]
<1>4. Unbroken(t) = F[n]
  BY DEF Unbroken
<1> HIDE DEF Kept
<1>1. n \in Nat /\ \A i \in 1..n : t[i] \in A
  BY LenProperties
<1>2. <<>> \in V /\ 0 \in 0..n
  BY <1>1
<1>3. ASSUME NEW i \in 1..n, NEW l \in V
      PROVE  Extend(i, l) \in V
  BY <1>1, AppendProperties
<1>5. \E g : g = [i \in 0..n |-> Step(g, i)]
  <2> DEFINE step == [p \in (1..n) \X V |-> Extend(p[1], p[2])]
  <2>1. step \in [(1..n) \X V -> V]
    <3> HIDE DEF Extend, V
    <3> QED
      BY <1>3
  <2>2. PICK g \in [0..n -> V] : g[0] = <<>> /\ \A i \in 1..n : g[i] = step[<<i, g[i - 1]>>]
    <3> HIDE DEF step, V, n
    <3>1. \E g : Unrolls(g, n, V, <<>>, step)
      BY <1>1, <1>2, <2>1, Recursion, Zenon
    <3> QED
      BY <3>1 DEF Unrolls
  <2>3. ASSUME NEW i \in 0..n
        PROVE  g[i] = Step(g, i)
    <3>1. CASE i = 0
      BY <2>2, <3>1
    <3>2. CASE i # 0
      <4>1. i \in 1..n /\ i - 1 \in 0..n
        BY <1>1, <3>2
      <4>2. g[i - 1] \in V
        BY <2>2, <4>1
      <4>3. step[<<i, g[i - 1]>>] = Extend(i, g[i - 1])
        <5> HIDE DEF Extend, V
        <5> QED
          BY <4>1, <4>2
      <4> QED
        BY <2>2, <3>2, <4>1, <4>3
    <3> QED
      BY <3>1, <3>2
  <2>4. g = [i \in 0..n |-> Step(g, i)]
    <3> HIDE DEF Step
    <3> QED
      BY <2>2, <2>3
  <2> QED
    BY <2>4
<1>6. F = [i \in 0..n |-> Step(F, i)]
  BY <1>5
<1> HIDE DEF F
<1>7. ASSUME NEW i \in 0..n
      PROVE  F[i] = Step(F, i)
  <2> HIDE DEF Step
  <2>1. [j \in 0..n |-> Step(F, j)][i] = Step(F, i)
    OBVIOUS
  <2> QED
    BY <1>6, <2>1
<1>8. F[0] = <<>>
  BY <1>2, <1>7
<1>9. ASSUME NEW i \in 1..n
      PROVE  F[i] = Extend(i, F[i - 1])
  BY <1>1, <1>7
<1>10. 0..n \subseteq {i \in 0..n : F[i] \in V}
  <2> DEFINE Q == {i \in 0..n : F[i] \in V}
  <2>1. 0 \in Q
    BY <1>2, <1>8
  <2>2. ASSUME NEW i \in 1..n, i - 1 \in Q
        PROVE  i \in Q
    <3>1. F[i - 1] \in V /\ i \in 0..n
      BY <1>1, <2>2
    <3> HIDE DEF Extend, V
    <3> QED
      BY <1>3, <1>9, <3>1
  <2> HIDE DEF Q
  <2>3. 0..n \subseteq Q
    BY <1>1, <2>1, <2>2, UpTo
  <2> QED
    BY <2>3 DEF Q
<1>11. F \in [0..n -> V]
  BY <1>6, <1>10
<1>12. \A i \in 1..n : F[i] = IF i = 1 \/ (i - 1) % Limit # 0 THEN Append(F[i - 1], t[i]) ELSE F[i - 1]
  BY <1>9 DEF Kept
<1> QED
  BY <1>4, <1>8, <1>11, <1>12 DEF UnbrokenUpTo

\* One more character of a stretch.
LEMMA StretchMore ==
  ASSUME NEW A, NEW t \in Seq(A), NEW base \in Seq(A), NEW a \in Nat, NEW i \in 1..Len(t),
         a <= i - 1
  PROVE  Append(base \o SubSeq(t, a + 1, i - 1), t[i]) = base \o SubSeq(t, a + 1, i)
<1>1. SubSeq(t, a + 1, i - 1) \in Seq(A) /\ t[i] \in A
  <2>1. \A k \in a + 1..i - 1 : t[k] \in A
    BY LenProperties
  <2> QED
    BY <2>1, LenProperties
<1>2. SubSeq(t, a + 1, i) = Append(SubSeq(t, a + 1, i - 1), t[i])
  BY LenProperties
<1>3. PICK before \in Seq(A), e \in A : before = SubSeq(t, a + 1, i - 1) /\ e = t[i]
  BY <1>1
<1>4. ComesLast(base, before, e)
  BY AppendConcat
<1> QED
  BY <1>2, <1>3, <1>4, Zenon DEF ComesLast

\* What lies between two boundaries is kept as it is.
LEMMA StretchKept ==
  ASSUME NEW A, NEW t \in Seq(A), NEW f, UnbrokenUpTo(f, t, Seq(A)),
         NEW a \in 0..Len(t), NEW b \in a..Len(t),
         \A i \in a + 1..b : i = 1 \/ (i - 1) % Limit # 0
  PROVE  f[b] = f[a] \o SubSeq(t, a + 1, b)
<1> DEFINE Q == {j \in 0..b - a : f[a + j] = f[a] \o SubSeq(t, a + 1, a + j)}
<1>1. Len(t) \in Nat /\ a \in Nat /\ b \in Nat /\ b - a \in Nat /\ a + 1 \in Nat
  BY LenProperties
<1>2. f[a] \in Seq(A)
  BY DEF UnbrokenUpTo
<1>3. 0 \in Q
  <2>1. SubSeq(t, a + 1, a) = <<>>
    BY <1>1
  <2>2. f[a] \o <<>> = f[a]
    BY <1>2, ConcatEmptySeq
  <2>3. a + 0 = a /\ 0 \in 0..b - a
    BY <1>1
  <2> QED
    BY <2>1, <2>2, <2>3
<1>4. ASSUME NEW j \in 1..b - a, j - 1 \in Q
      PROVE  j \in Q
  <2> DEFINE i == a + j
             before == SubSeq(t, a + 1, i - 1)
  <2>1. i \in 1..Len(t) /\ i \in a + 1..b /\ i - 1 = a + (j - 1) /\ j \in 0..b - a /\ i - 1 >= a
    BY <1>1
  <2>2. f[i - 1] = f[a] \o before
    BY <1>4, <2>1
  <2> HIDE DEF i
  <2>3. f[i] = Append(f[i - 1], t[i])
    BY <2>1 DEF UnbrokenUpTo
  <2>4. Append(f[a] \o SubSeq(t, a + 1, i - 1), t[i]) = f[a] \o SubSeq(t, a + 1, i)
    BY <1>1, <1>2, <2>1, StretchMore
  <2> QED
    BY <2>1, <2>2, <2>3, <2>4 DEF i
<1> HIDE DEF Q
<1>5. 0..b - a \subseteq Q
  BY <1>1, <1>3, <1>4, UpTo
<1>6. b - a \in 0..b - a /\ a + (b - a) = b
  BY <1>1
<1> QED
  BY <1>5, <1>6 DEF Q

\* More than one boundary means that the last one is a character.
LEMMA LastBoundary ==
  ASSUME NEW t \in Seq(Characters), Boundaries(t) # 0
  PROVE  Boundaries(t) * Limit < Len(t)
<1>1. Len(t) \in Nat /\ Limit \in Nat /\ Limit > 1 /\ t # <<>>
  BY MonitorAssumption, LenProperties DEF Boundaries
<1>2. Len(t) - 1 \in Nat
  BY <1>1, EmptySeq
<1> DEFINE m == Len(t) - 1
           q == m \div Limit
<1>3. q \in Nat /\ q * Limit <= m
  BY <1>1, <1>2
<1> QED
  BY <1>1, <1>2, <1>3 DEF Boundaries

\* Where the parts of a text end.
Ends(t, k) == IF k = Boundaries(t) + 1 THEN Len(t) ELSE k * Limit

\* What is before the part k, without the boundary.
Before(t, k) == IF k = 1 THEN 0 ELSE (k - 1) * Limit + 1

\* A part is a stretch of the text.
LEMMA PartIsStretch ==
  ASSUME NEW t \in Seq(Characters), NEW k \in 1..Boundaries(t) + 1
  PROVE  /\ Before(t, k) \in 0..Len(t) /\ Ends(t, k) \in Before(t, k)..Len(t)
         /\ PartOf(t, k, Boundaries(t) + 1) = SubSeq(t, Before(t, k) + 1, Ends(t, k))
         /\ \A i \in Before(t, k) + 1..Ends(t, k) : i = 1 \/ (i - 1) % Limit # 0
<1> DEFINE n == Boundaries(t) + 1
           base == (k - 1) * Limit
<1>0. Len(t) \in Nat /\ Limit \in Nat /\ Limit > 1 /\ Limit \in Nat \ {0}
  BY MonitorAssumption, LenProperties
<1>1. /\ Boundaries(t) \in Nat /\ Boundaries(t) * Limit <= Len(t)
      /\ Len(t) <= Boundaries(t) * Limit + Limit
  BY BoundariesOf
<1>2. /\ k \in Nat /\ k - 1 \in Nat /\ k - 1 <= Boundaries(t)
      /\ base \in Nat /\ k * Limit = base + Limit
      /\ (k = 1 => base = 0) /\ (k = n => base = Boundaries(t) * Limit)
  <2>1. k \in Nat /\ k - 1 \in Nat /\ k - 1 <= Boundaries(t)
    BY <1>1
  <2>2. base \in Nat /\ k * Limit = base + Limit
    BY <1>0, <2>1
  <2>3. k = 1 => base = 0
    BY <1>0
  <2>4. k = n => k - 1 = Boundaries(t)
    BY <1>1, <2>1
  <2> QED
    BY <2>1, <2>2, <2>3, <2>4
<1>3. k # n => base + Limit <= Boundaries(t) * Limit
  <2>1. k # n => k <= Boundaries(t)
    BY <1>1
  <2>2. k # n => k * Limit <= Boundaries(t) * Limit
    BY <1>0, <1>1, <1>2, <2>1
  <2> QED
    BY <1>2, <2>2
<1>4. k # 1 /\ k = n => base < Len(t)
  <2>1. k # 1 /\ k = n => Boundaries(t) # 0
    BY <1>1
  <2> QED
    BY <1>2, <2>1, LastBoundary
<1> HIDE DEF base
<1>5. /\ Before(t, k) = IF k = 1 THEN 0 ELSE base + 1
      /\ Ends(t, k) = IF k = n THEN Len(t) ELSE base + Limit
  BY <1>2 DEF Before, Ends, base
<1>6. Boundaries(t) * Limit \in Nat
  BY <1>0, <1>1
<1>7. Before(t, k) \in 0..Len(t) /\ Ends(t, k) \in Before(t, k)..Len(t)
  <2> HIDE DEF n
  <2> QED
    BY <1>0, <1>1, <1>2, <1>3, <1>4, <1>5, <1>6
<1>8. PartOf(t, k, n) = SubSeq(t, Before(t, k) + 1, Ends(t, k))
  <2>1. Before(t, k) + 1 = IF k = 1 THEN 1 ELSE (k - 1) * Limit + 2
    BY <1>2, <1>5 DEF base
  <2> QED
    BY <2>1 DEF PartOf, Ends
<1>9. ASSUME NEW i \in Before(t, k) + 1..Ends(t, k), i # 1
      PROVE  (i - 1) % Limit # 0
  <2> DEFINE r == i - 1 - base
  <2>1. r \in 1..Limit - 1 /\ i - 1 = base + r
    <3> HIDE DEF n
    <3> QED
      BY <1>0, <1>1, <1>2, <1>5, <1>6, <1>7, <1>9
  <2> HIDE DEF r
  <2>2. (base + r) % Limit = r
    <3>1. r \in 0..Limit - 1
      BY <1>0, <2>1
    <3> QED
      BY <1>0, <1>2, <3>1, Remainder DEF base
  <2> QED
    BY <2>1, <2>2
<1> QED
  BY <1>7, <1>8, <1>9

\* After the part k as much is kept as the first k parts are, which is all but
\* the boundaries.
KeptSoFar(f, t, k) ==
  /\ f[Ends(t, k)] = FlattenSeq([j \in 1..k |-> PartOf(t, j, Boundaries(t) + 1)])
  /\ Len(f[Ends(t, k)]) = Ends(t, k) - (IF k = 0 THEN 0 ELSE k - 1)

\* One more part.
LEMMA OnePartMore ==
  ASSUME NEW t \in Seq(Characters), NEW f, UnbrokenUpTo(f, t, Seq(Characters)),
         NEW k \in 1..Boundaries(t) + 1, KeptSoFar(f, t, k - 1)
  PROVE  KeptSoFar(f, t, k)
<1> DEFINE n == Boundaries(t) + 1
           P(j) == PartOf(t, j, n)
           a == Before(t, k)
           b == Ends(t, k)
           before == [j \in 1..k - 1 |-> P(j)]
           now == [j \in 1..k |-> P(j)]
<1>0. /\ Len(t) \in Nat /\ Limit \in Nat /\ Limit > 1 /\ Limit \in Nat \ {0}
      /\ Boundaries(t) \in Nat /\ k \in Nat /\ k - 1 \in Nat
  BY MonitorAssumption, LenProperties, BoundariesOf
<1>1. /\ a \in 0..Len(t) /\ b \in a..Len(t)
      /\ P(k) = SubSeq(t, a + 1, b)
      /\ \A i \in a + 1..b : i = 1 \/ (i - 1) % Limit # 0
  BY PartIsStretch
<1>2. f[b] = f[a] \o SubSeq(t, a + 1, b)
  BY <1>1, StretchKept
<1>3. f[a] = f[Ends(t, k - 1)] /\ a = Ends(t, k - 1) + (IF k = 1 THEN 0 ELSE 1)
  <2>1. Ends(t, k - 1) = (k - 1) * Limit
    BY <1>0 DEF Ends
  <2>2. CASE k = 1
    BY <1>0, <2>1, <2>2 DEF Before
  <2>3. CASE k # 1
    <3>1. a = (k - 1) * Limit + 1
      BY <2>3 DEF Before
    <3>2. (k - 1) * Limit >= Limit /\ (k - 1) * Limit \in Nat
      <4>1. k - 2 \in Nat /\ (k - 2) * Limit >= 0 /\ (k - 1) * Limit = (k - 2) * Limit + Limit
        BY <1>0, <2>3
      <4> QED
        BY <1>0, <4>1
    <3>3. a \in 1..Len(t) /\ a # 1 /\ a - 1 = (k - 1) * Limit
      BY <1>0, <1>1, <3>1, <3>2
    <3>4. ((k - 1) * Limit) % Limit = 0
      <4>1. ((k - 1) * Limit + 0) % Limit = 0
        BY <1>0, Remainder
      <4> QED
        BY <3>2, <4>1
    <3> HIDE DEF a
    <3>5. f[a] = f[a - 1]
      BY <3>3, <3>4 DEF UnbrokenUpTo
    <3> QED
      BY <2>1, <2>3, <3>1, <3>3, <3>5
  <2> QED
    BY <2>2, <2>3
<1>4. before \in Seq(Seq(Characters)) /\ P(k) \in Seq(Characters)
  <2>1. ASSUME NEW j \in 1..k
        PROVE  P(j) \in Seq(Characters)
    <3>1. j \in 1..n
      BY <1>0
    <3> QED
      BY <3>1, PartFits
  <2>2. before \in [1..k - 1 -> Seq(Characters)]
    <3> HIDE DEF P
    <3> QED
      BY <1>0, <2>1
  <2>3. P(k) \in Seq(Characters)
    BY <1>0, <2>1
  <2> HIDE DEF before, P
  <2> QED
    BY <1>0, <2>2, <2>3
<1>5. now = Append(before, P(k))
  <2> HIDE DEF P
  <2> QED
    BY <1>0
<1>6. FlattenSeq(now) = FlattenSeq(before) \o P(k)
  <2> HIDE DEF before, now, P
  <2> QED
    BY <1>4, <1>5, FlatAppend
<1>7. f[b] = FlattenSeq(now)
  BY <1>1, <1>2, <1>3, <1>6 DEF KeptSoFar
<1>8. f[a] \in Seq(Characters)
  BY <1>1 DEF UnbrokenUpTo
<1> HIDE DEF a, b, P, now, before
<1>9. Len(f[b]) = Len(f[a]) + Len(P(k))
  BY <1>1, <1>2, <1>4, <1>8, ConcatProperties
<1>10. Len(P(k)) = b - a
  BY <1>0, <1>1
<1>11. Len(f[a]) = Ends(t, k - 1) - (IF k - 1 = 0 THEN 0 ELSE k - 2)
  BY <1>0, <1>3 DEF KeptSoFar
<1>12. Len(f[b]) = b - (k - 1)
  <2>1. Ends(t, k - 1) \in Int
    BY <1>0 DEF Ends
  <2> DEFINE e == Ends(t, k - 1)
             l == Len(f[a])
  <2>2. /\ l = e - (IF k - 1 = 0 THEN 0 ELSE k - 2) /\ a = e + (IF k = 1 THEN 0 ELSE 1)
        /\ e \in Int /\ Len(f[b]) = l + (b - a)
    BY <1>3, <1>9, <1>10, <1>11, <2>1
  <2>3. b \in Int
    BY <1>0, <1>1
  <2> HIDE DEF e, l
  <2>4. CASE k = 1
    BY <2>2, <2>3, <2>4
  <2>5. CASE k # 1
    BY <1>0, <2>2, <2>3, <2>5
  <2> QED
    BY <2>4, <2>5
<1> QED
  BY <1>0, <1>7, <1>12 DEF KeptSoFar, b, now, P

\* What the parts of a text are together.
LEMMA PartsAreUnbroken ==
  ASSUME NEW t \in Seq(Characters)
  PROVE  /\ FlattenSeq(Parts(t)) = Unbroken(t)
         /\ Len(t) - Len(Unbroken(t)) = Boundaries(t)
<1> DEFINE n == Boundaries(t) + 1
<1>1. PICK f : UnbrokenUpTo(f, t, Seq(Characters))
  BY UnbrokenBuilt
<1>2. n \in Nat /\ n >= 1 /\ Boundaries(t) \in Nat /\ Limit \in Nat /\ Len(t) \in Nat
  BY BoundariesOf, MonitorAssumption, LenProperties
<1> DEFINE Q == {k \in 0..n : KeptSoFar(f, t, k)}
<1>3. 0 \in Q
  <2>1. Ends(t, 0) = 0
    BY <1>2 DEF Ends
  <2>2. [j \in 1..0 |-> PartOf(t, j, Boundaries(t) + 1)] = <<>>
    OBVIOUS
  <2>3. f[0] = <<>> /\ Len(<<>>) = 0
    BY <1>1 DEF UnbrokenUpTo
  <2>4. KeptSoFar(f, t, 0)
    BY <2>1, <2>2, <2>3, FlatEmpty DEF KeptSoFar
  <2> QED
    BY <1>2, <2>4
<1>4. ASSUME NEW k \in 1..n, k - 1 \in Q
      PROVE  k \in Q
  <2>1. KeptSoFar(f, t, k)
    BY <1>1, <1>4, OnePartMore
  <2> QED
    BY <1>2, <2>1
<1>5. 0..n \subseteq Q
  <2> HIDE DEF Q, n
  <2> QED
    BY <1>2, <1>3, <1>4, UpTo
<1>6. KeptSoFar(f, t, n)
  BY <1>2, <1>5
<1>7. Ends(t, n) = Len(t) /\ f[Len(t)] = Unbroken(t)
  BY <1>1 DEF Ends, UnbrokenUpTo
<1>8. FlattenSeq(Parts(t)) = Unbroken(t)
  BY <1>6, <1>7 DEF KeptSoFar, Parts
<1>9. Len(Unbroken(t)) = Len(t) - (n - 1)
  BY <1>2, <1>6, <1>7 DEF KeptSoFar
<1> QED
  BY <1>2, <1>8, <1>9

\* A split loses the characters at its boundaries and no other, and its parts
\* fit into an SMS: splitSMS, whatever the text and the limit are.
THEOREM SplitKeepsText == Spec => []PartsKeepText
<1>1. MonitorInv => PartsKeepText
  <2> SUFFICES ASSUME MonitorInv, pc = "splitRemove"
               PROVE  PartsKeepText
    BY DEF PartsKeepText
  <2>1. /\ text \in Seq(Characters) /\ part = Len(Parts(text)) + 1
        /\ \A j \in 1..part - 1 : /\ Part(smsFile[1], j) \in DOMAIN dir
                                 /\ dir[Part(smsFile[1], j)] = Parts(text)[j]
    BY DEF MonitorInv, PartsInv, Splitting
  <2> DEFINE n == Boundaries(text) + 1
             k == Len(text) - Len(Unbroken(text)) + 1
             parts == [j \in 1..n |-> dir[Part(smsFile[1], j)]]
  <2>2. k = n /\ FlattenSeq(Parts(text)) = Unbroken(text) /\ Boundaries(text) \in Nat
    BY <2>1, PartsAreUnbroken, BoundariesOf
  <2>3. \A j \in 1..n : /\ Part(smsFile[1], j) \in DOMAIN dir
                        /\ dir[Part(smsFile[1], j)] = Parts(text)[j]
    <3>1. part - 1 = n
      BY <2>1, <2>2, LenOfParts
    <3> QED
      BY <2>1, <3>1
  <2>4. parts = Parts(text)
    BY <2>3 DEF Parts
  <2>5. \A j \in DOMAIN parts : Len(parts[j]) <= Limit
    BY <2>1, <2>4, PartFits DEF Parts
  <2> HIDE DEF n, k
  <2> QED
    BY <2>2, <2>3, <2>4, <2>5 DEF PartsKeepText, k
<1> QED
  BY <1>1, MonitorInvariance, PTL
=============================================================================
