----------------------------- MODULE PhoneBook -----------------------------
(***************************************************************************)
(* What Contacts.py computes from a list of contacts: who matches a name,  *)
(* who has a number, and what the list is as a file.                       *)
(*                                                                         *)
(* Names and surnames are single words; which word is within which, as     *)
(* substrings are, is a constant.  Types of numbers and addresses go with  *)
(* them and are left out.                                                  *)
(***************************************************************************)
EXTENDS Lists

CONSTANTS
  Alphabet,   \* the words, in the order of strings
  Within,     \* pairs of words: the first is a substring of the second
  Numbers, Emails,
  Nothing     \* Python's None

Words == Range(Alphabet)

Contact == [name : Words, surname : Words, emails : Seq(Emails), numbers : Seq(Numbers)]

Blank == "blank"   \* the empty word between two spaces

ASSUME PhoneBookAssumption ==
  /\ Alphabet \in Seq(Words) /\ IsInjective(Alphabet)
  /\ \A w \in Words : <<w, w>> \in Within
  /\ Numbers \cap Emails = {} /\ Blank \notin Numbers \cup Emails
  /\ Nothing \notin Numbers \cup Emails \cup Contact

In(word, text) == <<word, text>> \in Within

Is(contact, person) ==
  contact.name = person.name /\ contact.surname = person.surname

LookingForContactByName(tel, name) == Only(tel, {c \in Range(tel) : In(name, c.name)})

LookingForContactBySurName(tel, surname) ==
  Only(tel, {c \in Range(tel) : In(surname, c.surname)})

\* mutant: the surname alone is looked for.
LookingForEither(tel, name, surname) == Only(tel, {c \in Range(tel) : In(surname, c.surname)})

LookingForContactByNameAndSurname(tel, name, surname) ==
  Only(tel, {c \in Range(tel) : In(name, c.name) /\ In(surname, c.surname)})

\* mutant: the surname is looked for only when no name matches.
LookingForNameFirst(tel, query) ==
  IF Len(query) = 2
  THEN LookingForContactByNameAndSurname(tel, query[1], query[2])
  ELSE IF LookingForContactByName(tel, query[1]) # <<>>
       THEN LookingForContactByName(tel, query[1])
       ELSE LookingForContactBySurName(tel, query[1])

\* A query is one word or two.
LookingForContacts(tel, query) ==
  IF Len(query) = 2
  THEN LookingForContactByNameAndSurname(tel, query[1], query[2])
  ELSE LookingForContactByName(tel, query[1]) \o LookingForContactBySurName(tel, query[1])

LookingForContact(tel, query) ==
  LET found == LookingForContacts(tel, query)
  IN  IF Len(found) = 1 THEN found[1] ELSE Nothing

LookingForContactByNumber(tel, number) ==
  LET owner == SelectInSeq(tel, LAMBDA c : Contains(c.numbers, number))
  IN  IF owner = 0 THEN Nothing ELSE tel[owner]

Default(tel, query, field) ==
  LET contact == LookingForContact(tel, query)
  IN  IF contact = Nothing \/ contact[field] = <<>>
      THEN Nothing ELSE Head(contact[field])

GetDefaultNumber(tel, query) == Default(tel, query, "numbers")
GetDefaultEmail(tel, query) == Default(tel, query, "emails")

-----------------------------------------------------------------------------
(* The file *)

\* A line of the file, as saved or as edited by hand.
FileLine == [name : Words, surname : Words, data : Seq(Numbers \cup Emails \cup {Blank})]

\* A contact as a line: "%s %s %s %s".  strip removes blanks from the end but
\* not the one that is left where the addresses would be.
LineOf(contact) ==
  [name |-> contact.name, surname |-> contact.surname,
   data |-> contact.emails
            \o (IF contact.emails = <<>> /\ contact.numbers # <<>> THEN <<Blank>> ELSE <<>>)
            \o contact.numbers]

Lines(tel) == [i \in DOMAIN tel |-> LineOf(tel[i])]

\* readContacts takes a word without @ for a number and raises if it has no type.
Readable(lines) == \A i \in DOMAIN lines : ~Contains(lines[i].data, Blank)

\* mutant: every word after the surname is a number.
ReadNumbers(lines) ==
  [i \in DOMAIN lines |-> [name |-> lines[i].name, surname |-> lines[i].surname,
                           emails |-> <<>>, numbers |-> lines[i].data]]

Read(lines) ==
  [i \in DOMAIN lines |->
     [name |-> lines[i].name, surname |-> lines[i].surname,
      emails |-> Only(lines[i].data, Emails),
      numbers |-> Only(lines[i].data, Range(lines[i].data) \ Emails)]]
=============================================================================
