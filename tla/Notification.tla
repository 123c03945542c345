---------------------------- MODULE Notification ----------------------------
(***************************************************************************)
(* NotificationManager.py: the users who are told of alarms, and what the  *)
(* program answers to messages and calls.  Each operator is the effect of  *)
(* one method; who calls them, and what happens when one raises, is        *)
(* Monitor's.  sent is what the last call handed to the GSM engine.        *)
(***************************************************************************)
EXTENDS PhoneBook

CONSTANTS
  Admin,       \* adminNumber
  Strangers    \* numbers that write and are in no contact

VARIABLES
  tel,               \* phoneContacts.tel
  usersList,
  activeUsersFile,
  readyToSMS,
  alive,             \* gsmManager.is_alive()
  sent

notification == <<tel, usersList, activeUsersFile, readyToSMS, alive, sent>>

\* The constructor.  A modem that cannot be initialised is only a warning.
Construct(lines) ==
  /\ Readable(lines) /\ tel' = Read(lines)
  /\ usersList' = activeUsersFile
  /\ readyToSMS' = TRUE /\ alive' \in BOOLEAN /\ sent' = <<>>
  /\ UNCHANGED activeUsersFile

Sms(to, message) == [to |-> to, message |-> message]

\* What an incoming text contains of the words that are looked for.
Commands == {"STATUS", "ALARMOFF", "ALARMON"}
Incoming == [number : Numbers \cup Strangers, words : SUBSET Commands]

Active(person) == \E i \in DOMAIN usersList : Is(usersList[i], person)

Person(contact) == [name |-> contact.name, surname |-> contact.surname]

\* The contact was found in tel, so it exists.
addUserAsActive(contact) ==
  usersList' = IF Active(contact) THEN usersList
                                  ELSE Append(usersList, Person(contact))

\* mutant: pop without the index.
removeLastUser(contact) ==
  usersList' = IF Active(contact) THEN Front(usersList) ELSE usersList

removeUserFromActive(contact) ==
  usersList' = RemoveFirstMatch(usersList, LAMBDA u : Is(u, contact))

NumberOf(user) == GetDefaultNumber(tel, <<user.name, user.surname>>)

\* The users before the first without a number; with that one, sendSMS raises.
Notified ==
  SelectInSeq(Append([i \in DOMAIN usersList |-> NumberOf(usersList[i])], Nothing),
              LAMBDA number : number = Nothing) - 1

sendSMSNotification(message) ==
  sent' = [i \in 1..Notified |-> Sms(NumberOf(usersList[i]), message)]

NotificationRaises == Notified < Len(usersList)

sendSMSAdmin(message) == sent' = <<Sms(Admin, message)>>

\* The first number of the contact, whichever it wrote from.
Reply(contact, message) == sent' = <<Sms(Head(contact.numbers), message)>>

\* The body of checkNewMessage after checkSender.
checkNewMessage(sms) ==
  LET contact == LookingForContactByNumber(tel, sms.number)
      Has(word) == contact # Nothing /\ word \in sms.words
      Off == Has("ALARMOFF") /\ ~Has("STATUS")
      On == Has("ALARMON") /\ ~Has("STATUS") /\ ~Has("ALARMOFF")
  IN  \/ /\ contact = Nothing
         /\ sendSMSAdmin("forwarded") /\ UNCHANGED usersList
      \/ /\ Has("STATUS")
         /\ Reply(contact, "status") /\ UNCHANGED usersList
      \/ /\ Off
         /\ Reply(contact, "off") /\ removeUserFromActive(contact)
      \/ /\ On
         /\ Reply(contact, "on") /\ addUserAsActive(contact)
      \/ /\ contact # Nothing /\ sms.words = {}
         /\ Reply(contact, "unknown command") /\ UNCHANGED usersList

\* STATUS is answered with what checkMemory finds; that raises if df lists one
\* of the two disks not.
StatusRaises(sms) ==
  /\ LookingForContactByNumber(tel, sms.number) # Nothing
  /\ "STATUS" \in sms.words
=============================================================================
