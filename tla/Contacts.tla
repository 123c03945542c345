------------------------------ MODULE Contacts ------------------------------
(***************************************************************************)
(* A program that uses the class Contacts: it reads the file, edits the    *)
(* list, saves it, and may end at any time, also in the middle of a save.  *)
(***************************************************************************)
EXTENDS PhoneBook

CONSTANTS
  Valid,         \* the numbers of nine digits and the addresses with an @
  People,        \* those who may get a contact: a name and a surname
  MaxContacts,   \* bound: contacts
  MaxData        \* bound: numbers, or addresses, given to one call, all different

ASSUME ContactsAssumption ==
  People \subseteq [name : Words, surname : Words] /\ MaxData \in Nat

VARIABLES
  tel,
  file,   \* the lines of the file
  book    \* closed: no Contacts object; saving: inside SaveToFile

vars == <<tel, file, book>>

Init == tel = <<>> /\ file = <<>> /\ book = "closed"

\* The constructor.  A file that is not readable makes it raise.
Load == /\ book = "closed" /\ Readable(file)
        /\ tel' = Read(file) /\ book' = "open"
        /\ UNCHANGED file

\* open(..., "w") empties the file; close writes what a small book has.
SaveToFile == /\ book = "open"
              /\ file' = <<>> /\ book' = "saving"
              /\ UNCHANGED tel

Close == /\ book = "saving"
         /\ file' = Lines(tel) /\ book' = "open"
         /\ UNCHANGED tel

End == /\ book # "closed"
       /\ tel' = <<>> /\ book' = "closed"
       /\ UNCHANGED file

NewContact(person, emails, numbers) ==
  [name |-> person.name, surname |-> person.surname, emails |-> emails, numbers |-> numbers]

Edit == book = "open" /\ UNCHANGED <<file, book>>

\* mutant: a contact of that name may exist.
AddContactAgain(person, emails, numbers) ==
  /\ Edit
  /\ Range(emails) \cup Range(numbers) \subseteq Valid
  /\ tel' = Append(tel, NewContact(person, emails, numbers))

AddContact(person, emails, numbers) ==
  /\ Edit
  /\ Range(emails) \cup Range(numbers) \subseteq Valid
  /\ \A i \in DOMAIN tel : ~Is(tel[i], person)
  /\ tel' = Append(tel, NewContact(person, emails, numbers))

\* The first contact of that name.
PlaceOf(person) ==
  CHOOSE i \in DOMAIN tel : Is(tel[i], person) /\ \A j \in 1..i - 1 : ~Is(tel[j], person)

Known(person) == \E i \in DOMAIN tel : Is(tel[i], person)

RemoveContact(person) == /\ Edit /\ Known(person)
                         /\ tel' = RemoveAt(tel, PlaceOf(person))

\* Python's sort is stable.
SortedBy(field) ==
  FlattenSeq([k \in DOMAIN Alphabet |->
                Only(tel, {c \in Range(tel) : c[field] = Alphabet[k]})])

SetSortingByName == Edit /\ tel' = SortedBy("name")
SetSortingBySurname == Edit /\ tel' = SortedBy("surname")

Taken(field) == UNION {Range(tel[i][field]) : i \in DOMAIN tel}

\* mutant: only the contact's own numbers are looked at.
AddsUnlessOwn(field, person, new) ==
  /\ Edit
  /\ Range(new) \subseteq Valid /\ Known(person)
  /\ Range(new) \cap Range(tel[PlaceOf(person)][field]) = {}
  /\ tel' = [i \in DOMAIN tel |->
               IF Is(tel[i], person) THEN [tel[i] EXCEPT ![field] = @ \o new]
                                     ELSE tel[i]]

\* All or none of them.
Adds(field, person, new) ==
  /\ Edit
  /\ Range(new) \subseteq Valid /\ Range(new) \cap Taken(field) = {}
  /\ tel' = [i \in DOMAIN tel |->
               IF Is(tel[i], person) THEN [tel[i] EXCEPT ![field] = @ \o new]
                                     ELSE tel[i]]

AddNumbers(person, numbers) == Adds("numbers", person, numbers)
AddEmails(person, emails) == Adds("emails", person, emails)

Removes(field, person, old) ==
  /\ Edit /\ Known(person)
  /\ tel' = [tel EXCEPT ![PlaceOf(person)][field] =
               Only(@, Range(@) \ Range(old))]

RemoveNumbers(person, numbers) == Removes("numbers", person, numbers)
RemoveEmails(person, emails) == Removes("emails", person, emails)

SetsDefault(field, query, value) ==
  /\ Edit
  /\ LookingForContact(tel, query) # Nothing
  /\ LET i == PlaceOf(LookingForContact(tel, query))
     IN  /\ Contains(tel[i][field], value)
         /\ tel' = [tel EXCEPT ![i][field] = <<value>> \o RemoveFirst(@, value)]

setDefaultNumber(query, number) == SetsDefault("numbers", query, number)
setDefaultEmail(query, email) == SetsDefault("emails", query, email)

-----------------------------------------------------------------------------
Queries == {<<w>> : w \in Words} \cup (Words \X Words)

Data(values) == {s \in UNION {[1..n -> values] : n \in 1..MaxData} : IsInjective(s)}

Edits ==
  \/ \E person \in People : \/ RemoveContact(person)
                            \/ /\ Len(tel) < MaxContacts
                               /\ \E emails \in Data(Emails) \cup {<<>>}, numbers \in Data(Numbers) \cup {<<>>} :
                                    AddContact(person, emails, numbers)
                            \/ \E numbers \in Data(Numbers) :
                                 \/ AddNumbers(person, numbers)
                                 \/ RemoveNumbers(person, numbers)
                            \/ \E emails \in Data(Emails) :
                                 \/ AddEmails(person, emails)
                                 \/ RemoveEmails(person, emails)
  \/ \E query \in Queries : \/ \E number \in Numbers : setDefaultNumber(query, number)
                            \/ \E email \in Emails : setDefaultEmail(query, email)
  \/ SetSortingByName \/ SetSortingBySurname

Next == Load \/ SaveToFile \/ Close \/ End \/ Edits

Spec == Init /\ [][Next]_vars

-----------------------------------------------------------------------------
(* Properties *)

\* A list of contacts, no two of one name, with numbers and addresses that
\* were checked.
Legal(list) ==
  /\ list \in Seq(Contact)
  /\ \A i \in DOMAIN list : Range(list[i].emails) \cup Range(list[i].numbers) \subseteq Valid
  /\ \A i, j \in DOMAIN list : Is(list[i], list[j]) => i = j

\* So is the list of a program that was given nothing but legal calls, and so
\* is what the next start reads from the file, whenever this one ended.
ContactsInv ==
  /\ book \in {"closed", "open", "saving"} /\ (book = "closed" => tel = <<>>)
  /\ Legal(tel)
  /\ file \in Seq(FileLine)
  /\ \A i \in DOMAIN file : Range(file[i].data) \subseteq Valid \cup {Blank}
  /\ \A i, j \in DOMAIN file : Is(file[i], file[j]) => i = j

\* A number that AddNumbers gave or a new contact brought does not change
\* hands: who is found by it stays so until the contact loses it or the list is
\* sorted.  A new contact may bring a number that is taken.
NumberKeepsItsOwner ==
  [][\A number \in Taken("numbers") :
       LET owner == LookingForContactByNumber(tel, number)
           after == LookingForContactByNumber(tel', number)
           kept == \E i \in DOMAIN tel' : /\ Is(tel'[i], owner)
                                          /\ Contains(tel'[i].numbers, number)
       IN  kept => Is(after, owner) \/ SetSortingByName \/ SetSortingBySurname]_vars

\* Asked for by its full name, a contact answers with its own default, unless
\* it has none or the words are within another contact's name and surname too.
\* Nobody answers for somebody else.
DefaultIsOwn ==
  \A i \in DOMAIN tel :
    LET contact == tel[i]
        query == <<contact.name, contact.surname>>
        alike == \E j \in DOMAIN tel \ {i} : /\ In(contact.name, tel[j].name)
                                             /\ In(contact.surname, tel[j].surname)
        Own(field) == IF alike \/ contact[field] = <<>> THEN Nothing
                                                        ELSE contact[field][1]
    IN  /\ GetDefaultNumber(tel, query) = Own("numbers")
        /\ GetDefaultEmail(tel, query) = Own("emails")

\* One word finds the only contact that has it in its name or its surname, but
\* not one that has it in both, which is found twice.
SoleMatchFound ==
  \A w \in Words :
    LET hits == {i \in DOMAIN tel : In(w, tel[i].name) \/ In(w, tel[i].surname)}
        twice == \E i \in hits : In(w, tel[i].name) /\ In(w, tel[i].surname)
    IN  LookingForContact(tel, <<w>>)
          = IF Cardinality(hits) = 1 /\ ~twice
            THEN tel[CHOOSE i \in hits : TRUE] ELSE Nothing

\* What is saved is read back as it was, or not at all: the constructor raises
\* when a contact has a number and no address.
SavedIsRead ==
  /\ Readable(Lines(tel)) <=> \A i \in DOMAIN tel : tel[i].numbers = <<>>
                                                    \/ tel[i].emails # <<>>
  /\ Readable(Lines(tel)) => Read(Lines(tel)) = tel
=============================================================================
