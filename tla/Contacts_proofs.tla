--------------------------- MODULE Contacts_proofs ---------------------------
(***************************************************************************)
(* The phone book: what any sequence of edits, saves and ends of the       *)
(* program keeps, and what the lookups find, for every set of people,      *)
(* numbers and addresses and every relation of words within words.         *)
(***************************************************************************)
EXTENDS Contacts, Lists_proofs, FiniteSetTheorems

\* Numbers and addresses that were checked.
Checked(contact) == Range(contact.emails) \cup Range(contact.numbers) \subseteq Valid

\* What a legal list is made of.
LEMMA BookType ==
  ASSUME NEW list, Legal(list)
  PROVE  /\ list \in Seq(Contact) /\ Len(list) \in Nat /\ DOMAIN list = 1..Len(list)
         /\ \A i \in DOMAIN list : list[i] \in Contact /\ Checked(list[i])
BY LenProperties DEF Legal, Checked

\* A list that is changed where it is, with the same names.
LEMMA ChangedInPlace ==
  ASSUME NEW list, Legal(list), NEW new \in [DOMAIN list -> Contact],
         \A i \in DOMAIN list : Is(new[i], list[i]) /\ Checked(new[i])
  PROVE  Legal(new)
<1>1. Len(list) \in Nat /\ DOMAIN list = 1..Len(list)
  BY BookType
<1>2. new \in Seq(Contact)
  BY <1>1
<1>3. DOMAIN new = DOMAIN list
  OBVIOUS
<1>4. ASSUME NEW i \in DOMAIN list, NEW j \in DOMAIN list, Is(new[i], new[j])
      PROVE  i = j
  <2>1. Is(list[i], list[j])
    <3>1. Is(new[i], list[i]) /\ Is(new[j], list[j])
      OBVIOUS
    <3> QED
      BY <1>4, <3>1 DEF Is
  <2> QED
    BY <2>1 DEF Legal
<1> QED
  BY <1>2, <1>3, <1>4 DEF Legal, Checked

\* The contact of that name is found at its place.
LEMMA PlaceFound ==
  ASSUME NEW person, tel \in Seq(Contact), Known(person)
  PROVE  PlaceOf(person) \in DOMAIN tel /\ Is(tel[PlaceOf(person)], person)
<1> DEFINE I == {i \in DOMAIN tel : Is(tel[i], person)}
<1>1. DOMAIN tel = 1..Len(tel) /\ Len(tel) \in Nat
  BY LenProperties
<1>2. I # {} /\ I \subseteq Nat
  BY <1>1 DEF Known
<1>3. PICK i \in I : \A j \in I : i =< j
  <2> HIDE DEF I
  <2> QED
    BY <1>2, MinIsMember
<1>4. ASSUME NEW j \in 1..i - 1
      PROVE  ~Is(tel[j], person)
  <2>1. j \in DOMAIN tel /\ ~(i =< j)
    BY <1>1
  <2> QED
    BY <1>3, <2>1
<1>5. i \in DOMAIN tel /\ Is(tel[i], person) /\ \A j \in 1..i - 1 : ~Is(tel[j], person)
  BY <1>4
<1> QED
  BY <1>5 DEF PlaceOf

\* A contact with other numbers or other addresses.
LEMMA OtherNumbers ==
  ASSUME NEW contact \in Contact, Checked(contact), NEW s \in Seq(Numbers), Range(s) \subseteq Valid
  PROVE  LET new == [contact EXCEPT !.numbers = s]
         IN  new \in Contact /\ Is(new, contact) /\ Checked(new) /\ new.numbers = s
BY DEF Contact, Is, Checked

\* The same for addresses.
LEMMA OtherEmails ==
  ASSUME NEW contact \in Contact, Checked(contact), NEW s \in Seq(Emails), Range(s) \subseteq Valid
  PROVE  LET new == [contact EXCEPT !.emails = s]
         IN  new \in Contact /\ Is(new, contact) /\ Checked(new) /\ new.numbers = contact.numbers
BY DEF Contact, Is, Checked

-----------------------------------------------------------------------------
(* The edits of one contact *)

\* What one call is given is a sequence.
LEMMA DataType ==
  ASSUME NEW values, NEW s \in Data(values)
  PROVE  s \in Seq(values)
BY ContactsAssumption DEF Data

\* What a step leaves of the list: the same names at the same places, and no
\* number at a place where it was not, if it was taken.
Amends(new) ==
  /\ new \in [DOMAIN tel -> Contact]
  /\ \A i \in DOMAIN tel :
       /\ Is(new[i], tel[i]) /\ Checked(new[i])
       /\ \A number \in Taken("numbers") :
            Contains(new[i].numbers, number) => Contains(tel[i].numbers, number)

\* Numbers that nobody has are put behind those of a contact.
LEMMA AddsNumbers ==
  ASSUME NEW person, NEW s \in Seq(Numbers), Adds("numbers", person, s), Legal(tel)
  PROVE  Amends(tel')
<1>1. /\ tel' = [i \in DOMAIN tel |->
                   IF Is(tel[i], person) THEN [tel[i] EXCEPT !.numbers = @ \o s] ELSE tel[i]]
      /\ Range(s) \subseteq Valid /\ Range(s) \cap Taken("numbers") = {}
  BY DEF Adds
<1>2. ASSUME NEW i \in DOMAIN tel
      PROVE  /\ tel'[i] \in Contact /\ Is(tel'[i], tel[i]) /\ Checked(tel'[i])
             /\ \A number \in Taken("numbers") :
                  Contains(tel'[i].numbers, number) => Contains(tel[i].numbers, number)
  <2>1. tel[i] \in Contact /\ Checked(tel[i])
    BY BookType
  <2>2. CASE ~Is(tel[i], person)
    <3>1. tel'[i] = tel[i]
      BY <1>1, <2>2
    <3> QED
      BY <2>1, <3>1 DEF Is
  <2>3. CASE Is(tel[i], person)
    <3> DEFINE old == tel[i].numbers
               u == old \o s
    <3>1. old \in Seq(Numbers) /\ Range(old) \subseteq Valid
      BY <2>1 DEF Contact, Checked
    <3>2. tel'[i] = [tel[i] EXCEPT !.numbers = u]
      BY <1>1, <2>3
    <3> HIDE DEF old
    <3>3. u \in Seq(Numbers) /\ Range(u) = Range(old) \cup Range(s)
      BY <3>1, ConcatParts, RangeOfConcat
    <3> HIDE DEF u
    <3>4. Range(u) \subseteq Valid
      BY <1>1, <3>1, <3>3
    <3>5. tel'[i] \in Contact /\ Is(tel'[i], tel[i]) /\ Checked(tel'[i]) /\ tel'[i].numbers = u
      BY <2>1, <3>2, <3>3, <3>4, OtherNumbers
    <3>6. ASSUME NEW number \in Taken("numbers"), Contains(u, number)
          PROVE  Contains(old, number)
      <4>1. number \in Range(u)
        BY <3>3, <3>6, ContainsRange
      <4>2. number \in Range(old)
        BY <1>1, <3>3, <4>1
      <4> QED
        BY <3>1, <4>2, ContainsRange
    <3> QED
      BY <3>5, <3>6 DEF old
  <2> QED
    BY <2>2, <2>3
<1> QED
  BY <1>1, <1>2 DEF Amends

\* So are addresses.
LEMMA AddsEmails ==
  ASSUME NEW person, NEW s \in Seq(Emails), Adds("emails", person, s), Legal(tel)
  PROVE  Amends(tel')
<1>1. /\ tel' = [i \in DOMAIN tel |->
                   IF Is(tel[i], person) THEN [tel[i] EXCEPT !.emails = @ \o s] ELSE tel[i]]
      /\ Range(s) \subseteq Valid
  BY DEF Adds
<1>2. ASSUME NEW i \in DOMAIN tel
      PROVE  /\ tel'[i] \in Contact /\ Is(tel'[i], tel[i]) /\ Checked(tel'[i])
             /\ tel'[i].numbers = tel[i].numbers
  <2>1. tel[i] \in Contact /\ Checked(tel[i])
    BY BookType
  <2>2. CASE ~Is(tel[i], person)
    <3>1. tel'[i] = tel[i]
      BY <1>1, <2>2
    <3> QED
      BY <2>1, <3>1 DEF Is
  <2>3. CASE Is(tel[i], person)
    <3> DEFINE old == tel[i].emails
               u == old \o s
    <3>1. old \in Seq(Emails) /\ Range(old) \subseteq Valid
      BY <2>1 DEF Contact, Checked
    <3>2. tel'[i] = [tel[i] EXCEPT !.emails = u]
      BY <1>1, <2>3
    <3> HIDE DEF old
    <3>3. u \in Seq(Emails) /\ Range(u) = Range(old) \cup Range(s)
      BY <3>1, ConcatParts, RangeOfConcat
    <3> HIDE DEF u
    <3>4. Range(u) \subseteq Valid
      BY <1>1, <3>1, <3>3
    <3> QED
      BY <2>1, <3>2, <3>3, <3>4, OtherEmails
  <2> QED
    BY <2>2, <2>3
<1> QED
  BY <1>1, <1>2 DEF Amends

\* One contact gets other numbers, of which none was somebody else's.
LEMMA PutsNumbers ==
  ASSUME Legal(tel), NEW i \in DOMAIN tel, NEW s \in Seq(Numbers),
         Range(s) \subseteq Range(tel[i].numbers),
         tel' = [tel EXCEPT ![i] = [@ EXCEPT !.numbers = s]]
  PROVE  Amends(tel')
<1>1. DOMAIN tel = 1..Len(tel) /\ tel \in [DOMAIN tel -> Contact]
  BY BookType
<1>2. ASSUME NEW j \in DOMAIN tel
      PROVE  /\ tel'[j] \in Contact /\ Is(tel'[j], tel[j]) /\ Checked(tel'[j])
             /\ \A number : Contains(tel'[j].numbers, number) => Contains(tel[j].numbers, number)
  <2>1. tel[j] \in Contact /\ Checked(tel[j])
    BY BookType
  <2>2. CASE j # i
    <3>1. tel'[j] = tel[j]
      BY <1>1, <2>2
    <3> QED
      BY <2>1, <3>1 DEF Is
  <2>3. CASE j = i
    <3> DEFINE old == tel[j].numbers
    <3>1. old \in Seq(Numbers) /\ Range(old) \subseteq Valid
      BY <2>1 DEF Contact, Checked
    <3>2. tel'[j] = [tel[j] EXCEPT !.numbers = s] /\ Range(s) \subseteq Range(old)
      BY <1>1, <2>3
    <3> HIDE DEF old
    <3>3. tel'[j] \in Contact /\ Is(tel'[j], tel[j]) /\ Checked(tel'[j]) /\ tel'[j].numbers = s
      BY <2>1, <3>1, <3>2, OtherNumbers
    <3>4. ASSUME NEW number, Contains(s, number)
          PROVE  Contains(old, number)
      BY <3>1, <3>2, <3>4, ContainsRange
    <3> QED
      BY <3>3, <3>4 DEF old
  <2> QED
    BY <2>2, <2>3
<1>3. tel' \in [DOMAIN tel -> Contact]
  <2>1. DOMAIN tel' = DOMAIN tel /\ tel' = [j \in DOMAIN tel |-> tel'[j]]
    OBVIOUS
  <2> QED
    BY <1>2, <2>1
<1> QED
  BY <1>2, <1>3 DEF Amends

\* One contact gets other addresses.
LEMMA PutsEmails ==
  ASSUME Legal(tel), NEW i \in DOMAIN tel, NEW s \in Seq(Emails),
         Range(s) \subseteq Range(tel[i].emails),
         tel' = [tel EXCEPT ![i] = [@ EXCEPT !.emails = s]]
  PROVE  Amends(tel')
<1>1. DOMAIN tel = 1..Len(tel) /\ tel \in [DOMAIN tel -> Contact]
  BY BookType
<1>2. ASSUME NEW j \in DOMAIN tel
      PROVE  /\ tel'[j] \in Contact /\ Is(tel'[j], tel[j]) /\ Checked(tel'[j])
             /\ tel'[j].numbers = tel[j].numbers
  <2>1. tel[j] \in Contact /\ Checked(tel[j])
    BY BookType
  <2>2. CASE j # i
    <3>1. tel'[j] = tel[j]
      BY <1>1, <2>2
    <3> QED
      BY <2>1, <3>1 DEF Is
  <2>3. CASE j = i
    <3>1. tel'[j] = [tel[j] EXCEPT !.emails = s] /\ Range(s) \subseteq Range(tel[j].emails)
      BY <1>1, <2>3
    <3>2. Range(s) \subseteq Valid
      BY <2>1, <3>1 DEF Checked
    <3> QED
      BY <2>1, <3>1, <3>2, OtherEmails
  <2> QED
    BY <2>2, <2>3
<1>3. tel' \in [DOMAIN tel -> Contact]
  <2>1. DOMAIN tel' = DOMAIN tel /\ tel' = [j \in DOMAIN tel |-> tel'[j]]
    OBVIOUS
  <2> QED
    BY <1>2, <2>1
<1> QED
  BY <1>2, <1>3 DEF Amends

\* Numbers that a contact has are taken from it.
LEMMA RemovesNumbers ==
  ASSUME Legal(tel), NEW person, NEW old, Removes("numbers", person, old)
  PROVE  Amends(tel')
<1> DEFINE i == PlaceOf(person)
           had == tel[i].numbers
           s == Only(had, Range(had) \ Range(old))
<1>1. i \in DOMAIN tel
  BY PlaceFound DEF Removes, Legal
<1>2. tel' = [tel EXCEPT ![i] = [@ EXCEPT !.numbers = s]]
  BY DEF Removes
<1>3. had \in Seq(Numbers)
  BY <1>1, BookType DEF Contact
<1> HIDE DEF i
<1> HIDE DEF had
<1>4. s \in Seq(Numbers) /\ Range(s) \subseteq Range(had)
  BY <1>3, OnlyPicks, OnlyRange
<1> HIDE DEF s
<1> QED
  BY <1>1, <1>2, <1>4, PutsNumbers DEF had

\* So are addresses.
LEMMA RemovesEmails ==
  ASSUME Legal(tel), NEW person, NEW old, Removes("emails", person, old)
  PROVE  Amends(tel')
<1> DEFINE i == PlaceOf(person)
           had == tel[i].emails
           s == Only(had, Range(had) \ Range(old))
<1>1. i \in DOMAIN tel
  BY PlaceFound DEF Removes, Legal
<1>2. tel' = [tel EXCEPT ![i] = [@ EXCEPT !.emails = s]]
  BY DEF Removes
<1>3. had \in Seq(Emails)
  BY <1>1, BookType DEF Contact
<1> HIDE DEF i
<1> HIDE DEF had
<1>4. s \in Seq(Emails) /\ Range(s) \subseteq Range(had)
  BY <1>3, OnlyPicks, OnlyRange
<1> HIDE DEF s
<1> QED
  BY <1>1, <1>2, <1>4, PutsEmails DEF had

\* A value that a sequence has comes first in it.
LEMMA ValueFirst ==
  ASSUME NEW S, NEW had \in Seq(S), NEW value, Contains(had, value)
  PROVE  /\ <<value>> \o RemoveFirst(had, value) \in Seq(S)
         /\ Range(<<value>> \o RemoveFirst(had, value)) = Range(had)
<1> DEFINE one == <<value>>
           rest == RemoveFirst(had, value)
<1>1. rest \in Seq(S) /\ Range(had) = Range(rest) \cup {value}
  BY RemoveFirstRange
<1>2. value \in S
  BY LenProperties DEF Contains
<1>3. one \in Seq(S) /\ Range(one) = {value}
  BY <1>2 DEF Range
<1> HIDE DEF one, rest
<1>4. one \o rest \in Seq(S) /\ Range(one \o rest) = Range(one) \cup Range(rest)
  BY <1>1, <1>3, ConcatParts, RangeOfConcat
<1> QED
  BY <1>1, <1>3, <1>4 DEF one, rest

\* What a lookup finds is in the list.
LEMMA FoundIsThere ==
  ASSUME NEW list \in Seq(Contact), NEW query, LookingForContact(list, query) # Nothing
  PROVE  LookingForContact(list, query) \in Range(list)
<1> DEFINE names == LookingForContactByName(list, query[1])
           surnames == LookingForContactBySurName(list, query[1])
           both == LookingForContactByNameAndSurname(list, query[1], query[2])
           found == LookingForContacts(list, query)
<1>1. /\ names \in Seq(Contact) /\ Range(names) \subseteq Range(list)
      /\ surnames \in Seq(Contact) /\ Range(surnames) \subseteq Range(list)
      /\ both \in Seq(Contact) /\ Range(both) \subseteq Range(list)
  BY OnlyPicks, OnlyRange
     DEF LookingForContactByName, LookingForContactBySurName, LookingForContactByNameAndSurname
<1> HIDE DEF names, surnames, both
<1>2. /\ names \o surnames \in Seq(Contact)
      /\ Range(names \o surnames) = Range(names) \cup Range(surnames)
  BY <1>1, ConcatParts, RangeOfConcat
<1>3. found = both \/ found = names \o surnames
  BY DEF LookingForContacts, names, surnames, both
<1>4. found \in Seq(Contact) /\ Range(found) \subseteq Range(list)
  BY <1>1, <1>2, <1>3
<1>5. Len(found) = 1 /\ LookingForContact(list, query) = found[1]
  BY DEF LookingForContact
<1> HIDE DEF found
<1>6. found[1] \in Range(found)
  BY <1>4, <1>5, LenProperties DEF Range
<1> QED
  BY <1>4, <1>5, <1>6

\* A number becomes the default of the contact that has it.
LEMMA SetsDefaultNumber ==
  ASSUME Legal(tel), NEW query, NEW value, SetsDefault("numbers", query, value)
  PROVE  Amends(tel')
<1> DEFINE person == LookingForContact(tel, query)
           i == PlaceOf(person)
           had == tel[i].numbers
           s == <<value>> \o RemoveFirst(had, value)
<1>1. /\ person # Nothing /\ Contains(had, value)
      /\ tel' = [tel EXCEPT ![i] = [@ EXCEPT !.numbers = s]]
  BY DEF SetsDefault
<1>2. tel \in Seq(Contact)
  BY BookType
<1>3. person \in Range(tel)
  BY <1>1, <1>2, FoundIsThere
<1>4. Known(person)
  BY <1>3 DEF Known, Range, Is
<1> HIDE DEF person
<1>5. i \in DOMAIN tel
  BY <1>2, <1>4, PlaceFound
<1> HIDE DEF i
<1>6. had \in Seq(Numbers)
  BY <1>5, BookType DEF Contact
<1> HIDE DEF had
<1>7. s \in Seq(Numbers) /\ Range(s) = Range(had)
  BY <1>1, <1>6, ValueFirst
<1> HIDE DEF s
<1> QED
  BY <1>1, <1>5, <1>7, PutsNumbers DEF had

\* So does an address.
LEMMA SetsDefaultEmail ==
  ASSUME Legal(tel), NEW query, NEW value, SetsDefault("emails", query, value)
  PROVE  Amends(tel')
<1> DEFINE person == LookingForContact(tel, query)
           i == PlaceOf(person)
           had == tel[i].emails
           s == <<value>> \o RemoveFirst(had, value)
<1>1. /\ person # Nothing /\ Contains(had, value)
      /\ tel' = [tel EXCEPT ![i] = [@ EXCEPT !.emails = s]]
  BY DEF SetsDefault
<1>2. tel \in Seq(Contact)
  BY BookType
<1>3. person \in Range(tel)
  BY <1>1, <1>2, FoundIsThere
<1>4. Known(person)
  BY <1>3 DEF Known, Range, Is
<1> HIDE DEF person
<1>5. i \in DOMAIN tel
  BY <1>2, <1>4, PlaceFound
<1> HIDE DEF i
<1>6. had \in Seq(Emails)
  BY <1>5, BookType DEF Contact
<1> HIDE DEF had
<1>7. s \in Seq(Emails) /\ Range(s) = Range(had)
  BY <1>1, <1>6, ValueFirst
<1> HIDE DEF s
<1> QED
  BY <1>1, <1>5, <1>7, PutsEmails DEF had

\* The list that was amended is legal.
LEMMA AmendedIsLegal ==
  ASSUME Legal(tel), Amends(tel')
  PROVE  Legal(tel')
BY ChangedInPlace DEF Amends
-----------------------------------------------------------------------------
(* The list itself *)

\* A list without repetitions keeps each element at one place.
LEMMA OnlyOnce ==
  ASSUME NEW A, NEW s \in Seq(A), NEW S, IsInjective(s),
         NEW k \in 1..Len(Only(s, S)), NEW l \in 1..Len(Only(s, S)),
         Only(s, S)[k] = Only(s, S)[l]
  PROVE  k = l
<1> DEFINE r == Only(s, S)
<1>1. PICK at : Picks(at, r, s, Len(s), S)
  BY OnlyPicks
<1>2. r \in Seq(A)
  BY OnlyPicks
<1> HIDE DEF r
<1>3. k \in 1..Len(r) /\ l \in 1..Len(r) /\ r[k] = r[l]
  BY DEF r
<1>4. /\ at[k] \in 1..Len(s) /\ at[l] \in 1..Len(s)
      /\ r[k] = s[at[k]] /\ r[l] = s[at[l]]
      /\ (k < l => at[k] < at[l]) /\ (l < k => at[l] < at[k])
  BY <1>1, <1>3 DEF Picks
<1>5. at[k] = at[l]
  BY <1>3, <1>4, LenProperties DEF IsInjective
<1>6. Len(r) \in Nat /\ Len(s) \in Nat
  BY <1>2, LenProperties
<1>7. ~(k < l) /\ ~(l < k)
  BY <1>4, <1>5, <1>6
<1> QED
  BY <1>3, <1>6, <1>7

\* Sorting neither adds a contact nor repeats one.
LEMMA SortedIsLegal ==
  ASSUME Legal(tel), NEW field, NEW new, new = SortedBy(field)
  PROVE  Legal(new)
<1> DEFINE n == Len(Alphabet)
           Class(k) == {c \in Range(tel) : c[field] = Alphabet[k]}
           ss == [k \in 1..n |-> Only(tel, Class(k))]
<1>0. n \in Nat /\ DOMAIN Alphabet = 1..n
  BY PhoneBookAssumption, LenProperties
<1>1. new = FlattenSeq(ss)
  BY <1>0 DEF SortedBy
<1>2. tel \in Seq(Contact) /\ IsInjective(tel)
  BY BookType DEF Legal, IsInjective, Is
<1> HIDE DEF n
<1>3. \A k \in 1..n : Only(tel, Class(k)) \in Seq(Contact)
  <2>1. ASSUME NEW k
        PROVE  Only(tel, Class(k)) \in Seq(Contact)
    <3> HIDE DEF Class
    <3> QED
      BY <1>2, OnlyPicks
  <2> QED
    BY <2>1
<1>4. \A k \in 1..n : Range(Only(tel, Class(k))) \subseteq Class(k)
  <2>1. ASSUME NEW k
        PROVE  Range(Only(tel, Class(k))) \subseteq Class(k)
    <3> HIDE DEF Class
    <3> QED
      BY <1>2, OnlyRange
  <2> QED
    BY <2>1
<1> DEFINE Entry(k, l) == Only(tel, Class(k))[l]
<1>5. ASSUME NEW k \in 1..n, NEW l \in 1..Len(Only(tel, Class(k)))
      PROVE  Entry(k, l) \in Class(k)
  <2> DEFINE r == Only(tel, Class(k))
  <2>1. r \in Seq(Contact) /\ Range(r) \subseteq Class(k) /\ l \in 1..Len(r)
    BY <1>3, <1>4
  <2> HIDE DEF r
  <2>2. r[l] \in Range(r)
    BY <2>1, LenProperties DEF Range
  <2>3. r[l] \in Class(k)
    BY <2>1, <2>2
  <2> QED
    BY <2>3 DEF r
<1>6. ss \in Seq(Seq(Contact)) /\ Len(ss) = n /\ \A k \in 1..n : ss[k] = Only(tel, Class(k))
  <2> HIDE DEF Class
  <2>1. ss \in [1..n -> Seq(Contact)]
    BY <1>3
  <2> QED
    BY <1>0, <2>1 DEF n
<1> HIDE DEF ss
<1>7. PICK at : Pieces(at, new, ss, n)
  BY <1>1, <1>6, FlatPieces
<1>8. new \in Seq(Contact)
  BY <1>1, <1>6, FlatType
<1>9. Len(new) \in Nat /\ DOMAIN new = 1..Len(new)
  BY <1>8, LenProperties
<1>10. ASSUME NEW p \in 1..Len(new)
       PROVE  /\ at[p][1] \in 1..n /\ at[p][2] \in 1..Len(Only(tel, Class(at[p][1])))
              /\ new[p] = Entry(at[p][1], at[p][2])
              /\ new[p] \in Class(at[p][1])
  <2>1. /\ at[p][1] \in 1..n /\ at[p][2] \in 1..Len(ss[at[p][1]])
        /\ new[p] = ss[at[p][1]][at[p][2]]
    BY <1>7 DEF Pieces
  <2>2. ss[at[p][1]] = Only(tel, Class(at[p][1]))
    BY <1>6, <2>1
  <2>3. at[p][2] \in 1..Len(Only(tel, Class(at[p][1]))) /\ new[p] = Entry(at[p][1], at[p][2])
    BY <2>1, <2>2
  <2> QED
    BY <1>5, <2>1, <2>3
<1>11. ASSUME NEW p \in 1..Len(new)
       PROVE  \E i \in DOMAIN tel : new[p] = tel[i] /\ Checked(tel[i])
  <2>1. new[p] \in Range(tel)
    BY <1>10
  <2> QED
    BY <2>1, BookType DEF Range
<1>12. ASSUME NEW p \in 1..Len(new), NEW q \in 1..Len(new), Is(new[p], new[q])
       PROVE  p = q
  <2> DEFINE k == at[p][1]
             l == at[q][1]
  <2>1. new[p] = new[q]
    BY <1>11, <1>12 DEF Legal
  <2>2. k \in 1..n /\ l \in 1..n /\ new[p] \in Class(k) /\ new[p] \in Class(l)
    BY <1>10, <2>1
  <2>3. Alphabet[k] = Alphabet[l]
    BY <2>2
  <2>4. k = l
    BY <1>0, <2>2, <2>3, PhoneBookAssumption DEF IsInjective
  <2>5. at[p][2] = at[q][2]
    <3> DEFINE x == at[p][2]
               y == at[q][2]
               C == Class(k)
    <3>1. x \in 1..Len(Only(tel, C)) /\ Only(tel, C)[x] = new[p]
      BY <1>10
    <3>2. y \in 1..Len(Only(tel, Class(l))) /\ Only(tel, Class(l))[y] = new[q]
      BY <1>10
    <3>3. y \in 1..Len(Only(tel, C)) /\ Only(tel, C)[y] = new[p]
      BY <2>1, <2>4, <3>2
    <3> HIDE DEF x, y, C
    <3>4. x = y
      BY <1>2, <3>1, <3>3, OnlyOnce
    <3> QED
      BY <3>4 DEF x, y
  <2> QED
    BY <1>7, <2>4, <2>5 DEF Pieces
<1> QED
  BY <1>8, <1>9, <1>11, <1>12 DEF Legal, Checked

\* A new contact of another name goes to the end.
LEMMA AddedIsLegal ==
  ASSUME Legal(tel), NEW person \in People,
         NEW emails \in Data(Emails) \cup {<<>>}, NEW numbers \in Data(Numbers) \cup {<<>>},
         AddContact(person, emails, numbers)
  PROVE  Legal(tel')
<1> DEFINE contact == NewContact(person, emails, numbers)
           n == Len(tel)
<1>1. tel \in Seq(Contact) /\ n \in Nat /\ DOMAIN tel = 1..n
  BY BookType
<1>2. emails \in Seq(Emails) /\ numbers \in Seq(Numbers)
  <2>1. <<>> \in Seq(Emails) /\ <<>> \in Seq(Numbers)
    OBVIOUS
  <2> QED
    BY <2>1, DataType
<1>3. contact \in Contact /\ Is(contact, person)
  BY <1>2, ContactsAssumption DEF NewContact, Contact, Is
<1>4. Checked(contact)
  BY DEF AddContact, Checked, NewContact
<1>5. \A i \in 1..n : ~Is(tel[i], person)
  BY <1>1 DEF AddContact
<1>6. tel' = Append(tel, contact)
  BY DEF AddContact
<1> HIDE DEF contact, n
<1>7. /\ tel' \in Seq(Contact) /\ Len(tel') = n + 1
      /\ \A i \in 1..n : tel'[i] = tel[i]
      /\ tel'[n + 1] = contact
  BY <1>1, <1>3, <1>6, AppendProperties DEF n
<1>8. DOMAIN tel' = 1..n + 1
  BY <1>7, LenProperties
<1>9. \A i \in 1..n + 1 : i \in 1..n \/ i = n + 1
  BY <1>1
<1>10. \A i \in 1..n + 1 : Checked(tel'[i])
  BY <1>1, <1>4, <1>7, <1>9, BookType
<1>11. ASSUME NEW i \in 1..n + 1, NEW j \in 1..n + 1, Is(tel'[i], tel'[j])
       PROVE  i = j
  <2>1. ASSUME NEW k \in 1..n
        PROVE  ~Is(tel'[k], contact) /\ ~Is(contact, tel'[k])
    BY <1>3, <1>5, <1>7 DEF Is
  <2>2. CASE i \in 1..n /\ j \in 1..n
    BY <1>1, <1>7, <1>11, <2>2 DEF Legal
  <2>3. CASE i = n + 1 /\ j \in 1..n
    BY <1>7, <1>11, <2>1, <2>3
  <2>4. CASE i \in 1..n /\ j = n + 1
    BY <1>7, <1>11, <2>1, <2>4
  <2> QED
    BY <1>9, <2>2, <2>3, <2>4
<1> QED
  BY <1>7, <1>8, <1>10, <1>11 DEF Legal, Checked

\* A contact goes.
LEMMA RemovedIsLegal ==
  ASSUME Legal(tel), NEW person, RemoveContact(person)
  PROVE  Legal(tel')
<1> DEFINE at == PlaceOf(person)
           n == Len(tel)
           Old(i) == IF i < at THEN i ELSE i + 1
<1>1. tel \in Seq(Contact) /\ n \in Nat /\ DOMAIN tel = 1..n
  BY BookType
<1>2. at \in 1..n /\ tel' = RemoveAt(tel, at)
  BY <1>1, PlaceFound DEF RemoveContact
<1> HIDE DEF at
<1>3. /\ tel' \in Seq(Contact) /\ Len(tel') = n - 1
      /\ \A i \in 1..n - 1 : tel'[i] = IF i < at THEN tel[i] ELSE tel[i + 1]
  BY <1>1, <1>2, Removed
<1> HIDE DEF n
<1>4. DOMAIN tel' = 1..n - 1
  BY <1>3, LenProperties
<1>5. \A i \in 1..n - 1 : Old(i) \in 1..n /\ tel'[i] = tel[Old(i)]
  BY <1>1, <1>2, <1>3
<1>6. \A i, j \in 1..n - 1 : Old(i) = Old(j) => i = j
  BY <1>1, <1>2
<1> HIDE DEF Old
<1>7. \A i \in 1..n - 1 : Checked(tel'[i])
  BY <1>1, <1>5, BookType
<1>8. \A i, j \in 1..n - 1 : Is(tel'[i], tel'[j]) => i = j
  BY <1>1, <1>5, <1>6 DEF Legal
<1> QED
  BY <1>3, <1>4, <1>7, <1>8 DEF Legal, Checked

-----------------------------------------------------------------------------
(* The file *)

\* What a list is as a file.
LEMMA LinesType ==
  ASSUME NEW contact \in Contact, Checked(contact)
  PROVE  /\ LineOf(contact) \in FileLine /\ Is(LineOf(contact), contact)
         /\ Range(LineOf(contact).data) \subseteq Valid \cup {Blank}
<1> DEFINE Word == Numbers \cup Emails \cup {Blank}
           e == contact.emails
           b == IF contact.emails = <<>> /\ contact.numbers # <<>> THEN <<Blank>> ELSE <<>>
           s == contact.numbers
<1>1. e \in Seq(Word) /\ s \in Seq(Word) /\ Range(e) \cup Range(s) \subseteq Valid
  <2>1. e \in Seq(Emails) /\ s \in Seq(Numbers)
    BY DEF Contact
  <2> QED
    BY <2>1 DEF Checked
<1>2. b \in Seq(Word) /\ Range(b) \subseteq {Blank}
  <2>1. <<Blank>> \in Seq(Word) /\ <<>> \in Seq(Word)
    OBVIOUS
  <2>2. Range(<<Blank>>) \subseteq {Blank} /\ Range(<<>>) \subseteq {Blank}
    BY DEF Range
  <2> QED
    BY <2>1, <2>2
<1>3. LineOf(contact) = [name |-> contact.name, surname |-> contact.surname, data |-> e \o b \o s]
  BY DEF LineOf
<1>4. contact.name \in Words /\ contact.surname \in Words
  BY DEF Contact
<1> HIDE DEF e, b, s, Word
<1> DEFINE eb == e \o b
           d == eb \o s
<1>5. eb \in Seq(Word) /\ Range(eb) = Range(e) \cup Range(b)
  BY <1>1, <1>2, ConcatParts, RangeOfConcat
<1>6. LineOf(contact) = [name |-> contact.name, surname |-> contact.surname, data |-> d]
  BY <1>3
<1> HIDE DEF eb
<1>7. d \in Seq(Word) /\ Range(d) = Range(eb) \cup Range(s)
  BY <1>1, <1>5, ConcatParts, RangeOfConcat
<1> HIDE DEF d
<1>8. Range(d) \subseteq Valid \cup {Blank}
  BY <1>1, <1>2, <1>5, <1>7
<1>9. d \in Seq(Numbers \cup Emails \cup {Blank})
  BY <1>7 DEF Word
<1>10. LineOf(contact) \in FileLine
  BY <1>4, <1>6, <1>9 DEF FileLine
<1> QED
  BY <1>6, <1>8, <1>10 DEF Is

\* What a line that can be read gives.
LEMMA ReadType ==
  ASSUME NEW line \in FileLine, ~Contains(line.data, Blank),
         Range(line.data) \subseteq Valid \cup {Blank}
  PROVE  LET contact == [name |-> line.name, surname |-> line.surname,
                         emails |-> Only(line.data, Emails),
                         numbers |-> Only(line.data, Range(line.data) \ Emails)]
         IN  contact \in Contact /\ Is(contact, line) /\ Checked(contact)
<1> DEFINE Word == Numbers \cup Emails \cup {Blank}
           d == line.data
           M == Range(d) \ Emails
           e == Only(d, Emails)
           s == Only(d, M)
<1>1. d \in Seq(Word) /\ line.name \in Words /\ line.surname \in Words
  BY DEF FileLine
<1>2. Blank \notin Range(d) /\ Range(d) \subseteq Valid \cup {Blank} /\ Range(d) \subseteq Word
  BY <1>1, ContainsRange, LenProperties DEF Range
<1>3. M \subseteq Numbers
  BY <1>2
<1> HIDE DEF M, d, Word
<1>4. /\ e \in Seq(Word \cap Emails) /\ Range(e) = Range(d) \cap Emails
      /\ s \in Seq(Word \cap M) /\ Range(s) = Range(d) \cap M
  BY <1>1, OnlyPicks, OnlyRange
<1>5. e \in Seq(Emails) /\ s \in Seq(Numbers)
  BY <1>3, <1>4
<1>6. Range(e) \cup Range(s) \subseteq Valid
  BY <1>2, <1>4
<1> DEFINE contact == [name |-> line.name, surname |-> line.surname, emails |-> e, numbers |-> s]
<1> HIDE DEF e, s
<1>7. contact \in Contact /\ Is(contact, line) /\ Checked(contact)
  BY <1>1, <1>5, <1>6 DEF Contact, Is, Checked
<1> QED
  BY <1>7 DEF e, s, d, M

\* What the constructor reads from a file.
LEMMA LoadedIsLegal ==
  ASSUME ContactsInv, Load
  PROVE  Legal(tel')
<1> DEFINE Made(line) == [name |-> line.name, surname |-> line.surname,
                          emails |-> Only(line.data, Emails),
                          numbers |-> Only(line.data, Range(line.data) \ Emails)]
<1>1. file \in Seq(FileLine) /\ Len(file) \in Nat /\ DOMAIN file = 1..Len(file)
  BY LenProperties DEF ContactsInv
<1>2. tel' = [i \in DOMAIN file |-> Made(file[i])]
  BY DEF Load, Read
<1>3. ASSUME NEW i \in DOMAIN file
      PROVE  Made(file[i]) \in Contact /\ Is(Made(file[i]), file[i]) /\ Checked(Made(file[i]))
  <2>1. file[i] \in FileLine
    BY <1>1
  <2>2. ~Contains(file[i].data, Blank) /\ Range(file[i].data) \subseteq Valid \cup {Blank}
    BY <1>3 DEF Load, Readable, ContactsInv
  <2> QED
    BY <2>1, <2>2, ReadType
<1> HIDE DEF Made
<1>4. tel' \in Seq(Contact) /\ DOMAIN tel' = DOMAIN file
  BY <1>1, <1>2, <1>3
<1>5. \A i \in DOMAIN tel' : tel'[i] \in Contact /\ Is(tel'[i], file[i]) /\ Checked(tel'[i])
  BY <1>2, <1>3
<1>6. ASSUME NEW i \in DOMAIN tel', NEW j \in DOMAIN tel', Is(tel'[i], tel'[j])
      PROVE  i = j
  <2>1. Is(file[i], file[j])
    <3>1. Is(tel'[i], file[i]) /\ Is(tel'[j], file[j])
      BY <1>5
    <3> QED
      BY <1>6, <3>1 DEF Is
  <2> QED
    BY <1>4, <2>1 DEF ContactsInv
<1> QED
  BY <1>4, <1>5, <1>6 DEF Legal, Checked

\* What SaveToFile leaves when the file is closed.
LEMMA ClosedFile ==
  ASSUME Legal(tel), NEW lines, lines = Lines(tel)
  PROVE  /\ lines \in Seq(FileLine)
         /\ \A i \in DOMAIN lines : Range(lines[i].data) \subseteq Valid \cup {Blank}
         /\ \A i, j \in DOMAIN lines : Is(lines[i], lines[j]) => i = j
<1>1. tel \in Seq(Contact) /\ Len(tel) \in Nat /\ DOMAIN tel = 1..Len(tel)
  BY BookType
<1>2. lines = [i \in 1..Len(tel) |-> LineOf(tel[i])]
  BY <1>1 DEF Lines
<1>3. \A i \in 1..Len(tel) : /\ LineOf(tel[i]) \in FileLine /\ Is(LineOf(tel[i]), tel[i])
                             /\ Range(LineOf(tel[i]).data) \subseteq Valid \cup {Blank}
  BY <1>1, BookType, LinesType
<1>4. lines \in Seq(FileLine) /\ DOMAIN lines = 1..Len(tel)
  BY <1>1, <1>2, <1>3
<1>5. \A i \in 1..Len(tel) : Is(lines[i], tel[i]) /\ Range(lines[i].data) \subseteq Valid \cup {Blank}
  BY <1>2, <1>3
<1>6. ASSUME NEW i \in 1..Len(tel), NEW j \in 1..Len(tel), Is(lines[i], lines[j])
      PROVE  i = j
  <2>1. Is(tel[i], tel[j])
    <3>1. Is(lines[i], tel[i]) /\ Is(lines[j], tel[j])
      BY <1>5
    <3> QED
      BY <1>6, <3>1 DEF Is
  <2> QED
    BY <1>1, <2>1 DEF Legal
<1> QED
  BY <1>4, <1>5, <1>6

\* An empty list, and an empty file, are legal.
LEMMA EmptyIsLegal ==
  /\ Legal(<<>>)
  /\ <<>> \in Seq(FileLine) /\ DOMAIN <<>> = {}
BY DEF Legal

-----------------------------------------------------------------------------
(* What every behaviour keeps *)

\* What the step is.
LEMMA EditCases ==
  ASSUME Edits
  PROVE  /\ Edit
         /\ \/ \E person : RemoveContact(person)
            \/ \E person \in People, emails \in Data(Emails) \cup {<<>>}, numbers \in Data(Numbers) \cup {<<>>} :
                 AddContact(person, emails, numbers)
            \/ \E person : \/ \E numbers \in Data(Numbers) : AddNumbers(person, numbers) \/ RemoveNumbers(person, numbers)
                           \/ \E emails \in Data(Emails) : AddEmails(person, emails) \/ RemoveEmails(person, emails)
            \/ \E query, value : setDefaultNumber(query, value) \/ setDefaultEmail(query, value)
            \/ SetSortingByName \/ SetSortingBySurname
<1>1. CASE \E person \in People : RemoveContact(person)
  BY <1>1 DEF RemoveContact
<1>2. CASE \E person \in People : \E emails \in Data(Emails) \cup {<<>>}, numbers \in Data(Numbers) \cup {<<>>} :
             AddContact(person, emails, numbers)
  BY <1>2 DEF AddContact
<1>3. CASE \E person \in People : \E numbers \in Data(Numbers) : AddNumbers(person, numbers)
  BY <1>3 DEF AddNumbers, Adds
<1>4. CASE \E person \in People : \E numbers \in Data(Numbers) : RemoveNumbers(person, numbers)
  BY <1>4 DEF RemoveNumbers, Removes
<1>5. CASE \E person \in People : \E emails \in Data(Emails) : AddEmails(person, emails)
  BY <1>5 DEF AddEmails, Adds
<1>6. CASE \E person \in People : \E emails \in Data(Emails) : RemoveEmails(person, emails)
  BY <1>6 DEF RemoveEmails, Removes
<1>7. CASE \E query, value : setDefaultNumber(query, value)
  BY <1>7 DEF setDefaultNumber, SetsDefault
<1>8. CASE \E query, value : setDefaultEmail(query, value)
  BY <1>8 DEF setDefaultEmail, SetsDefault
<1>9. CASE SetSortingByName \/ SetSortingBySurname
  BY <1>9 DEF SetSortingByName, SetSortingBySurname
<1> QED
  BY <1>1, <1>2, <1>3, <1>4, <1>5, <1>6, <1>7, <1>8, <1>9 DEF Edits

\* An edit amends contacts where they are, adds one, removes one, or sorts.
LEMMA EditShape ==
  ASSUME Legal(tel), Edits
  PROVE  \/ Amends(tel')
         \/ \E person : RemoveContact(person)
         \/ \E person \in People, emails \in Data(Emails) \cup {<<>>}, numbers \in Data(Numbers) \cup {<<>>} :
              AddContact(person, emails, numbers)
         \/ SetSortingByName \/ SetSortingBySurname
<1>1. ASSUME NEW person, NEW numbers \in Data(Numbers),
             AddNumbers(person, numbers) \/ RemoveNumbers(person, numbers)
      PROVE  Amends(tel')
  BY <1>1, DataType, AddsNumbers, RemovesNumbers DEF AddNumbers, RemoveNumbers
<1>2. ASSUME NEW person, NEW emails \in Data(Emails),
             AddEmails(person, emails) \/ RemoveEmails(person, emails)
      PROVE  Amends(tel')
  BY <1>2, DataType, AddsEmails, RemovesEmails DEF AddEmails, RemoveEmails
<1>3. ASSUME NEW query, NEW value, setDefaultNumber(query, value) \/ setDefaultEmail(query, value)
      PROVE  Amends(tel')
  BY <1>3, SetsDefaultNumber, SetsDefaultEmail DEF setDefaultNumber, setDefaultEmail
<1> QED
  BY <1>1, <1>2, <1>3, EditCases

\* What a step does to the list and the file.
LEMMA ContactsStep ==
  ASSUME ContactsInv, [Next]_vars
  PROVE  ContactsInv'
<1> DEFINE Sound(lines) == /\ lines \in Seq(FileLine)
                           /\ \A i \in DOMAIN lines : Range(lines[i].data) \subseteq Valid \cup {Blank}
                           /\ \A i, j \in DOMAIN lines : Is(lines[i], lines[j]) => i = j
<1>0. Legal(tel) /\ Sound(file) /\ book \in {"closed", "open", "saving"} /\ (book = "closed" => tel = <<>>)
  BY DEF ContactsInv
<1>1. Legal(<<>>) /\ Sound(<<>>)
  BY EmptyIsLegal
<1>2. ASSUME Legal(tel'), Sound(file'), book' \in {"closed", "open", "saving"}, book' = "closed" => tel' = <<>>
      PROVE  ContactsInv'
  BY <1>2 DEF ContactsInv, Legal
<1>3. CASE Load
  <2>1. Legal(tel')
    BY <1>3, LoadedIsLegal
  <2>2. file' = file /\ book' = "open"
    BY <1>3 DEF Load
  <2> HIDE DEF Sound
  <2>3. Sound(file')
    BY <1>0, <2>2
  <2> QED
    BY <1>2, <2>1, <2>2, <2>3
<1>4. CASE SaveToFile
  <2>1. file' = <<>> /\ tel' = tel /\ book' = "saving"
    BY <1>4 DEF SaveToFile
  <2> HIDE DEF Sound
  <2>2. Legal(tel') /\ Sound(file')
    BY <1>0, <1>1, <2>1
  <2> QED
    BY <1>2, <2>1, <2>2
<1>5. CASE Close
  <2>1. file' = Lines(tel) /\ tel' = tel /\ book' = "open"
    BY <1>5 DEF Close
  <2>2. Sound(file')
    BY <1>0, <2>1, ClosedFile
  <2> HIDE DEF Sound
  <2>3. Legal(tel')
    BY <1>0, <2>1
  <2> QED
    BY <1>2, <2>1, <2>2, <2>3
<1>6. CASE End
  <2>1. file' = file /\ tel' = <<>> /\ book' = "closed"
    BY <1>6 DEF End
  <2> HIDE DEF Sound
  <2>2. Legal(tel') /\ Sound(file')
    BY <1>0, <1>1, <2>1
  <2> QED
    BY <1>2, <2>1, <2>2
<1>7. CASE Edits
  <2>1. file' = file /\ book' = "open"
    BY <1>7, EditCases DEF Edit
  <2>2. Legal(tel')
    <3>1. CASE Amends(tel')
      BY <1>0, <3>1, AmendedIsLegal
    <3>2. CASE SetSortingByName \/ SetSortingBySurname
      <4>1. tel' = SortedBy("name") \/ tel' = SortedBy("surname")
        BY <3>2 DEF SetSortingByName, SetSortingBySurname
      <4> QED
        BY <1>0, <4>1, SortedIsLegal
    <3> QED
      BY <1>0, <1>7, <3>1, <3>2, EditShape, AddedIsLegal, RemovedIsLegal
  <2> HIDE DEF Sound
  <2>3. Sound(file')
    BY <1>0, <2>1
  <2> QED
    BY <1>2, <2>1, <2>2, <2>3
<1>8. CASE UNCHANGED vars
  BY <1>8 DEF vars, ContactsInv, Legal
<1> QED
  BY <1>3, <1>4, <1>5, <1>6, <1>7, <1>8 DEF Next

\* However the calls are mixed and whenever the program ends, the list and the
\* file have no two contacts of one name and nothing that was not checked.
THEOREM ContactsInvariance == Spec => []ContactsInv
<1>1. Init => ContactsInv
  BY EmptyIsLegal DEF Init, ContactsInv
<1>2. ContactsInv /\ [Next]_vars => ContactsInv'
  BY ContactsStep
<1> QED
  BY <1>1, <1>2, PTL DEF Spec
-----------------------------------------------------------------------------
(* Who has a number *)

\* The first contact that has the number.
FirstHolder(list, number, i) ==
  /\ i \in 1..Len(list) /\ Contains(list[i].numbers, number)
  /\ \A j \in 1..Len(list) : Contains(list[j].numbers, number) => i <= j

\* A number that somebody has finds the first who has it.
LEMMA HolderFound ==
  ASSUME NEW list \in Seq(Contact), NEW number,
         NEW k \in 1..Len(list), Contains(list[k].numbers, number)
  PROVE  \E i : FirstHolder(list, number, i) /\ LookingForContactByNumber(list, number) = list[i]
<1> DEFINE I == {i \in 1..Len(list) : Contains(list[i].numbers, number)}
<1>1. I # {} /\ I \subseteq Nat
  OBVIOUS
<1>2. Min(I) \in I /\ \A i \in I : Min(I) =< i
  <2> HIDE DEF I
  <2> QED
    BY <1>1, MinIsMember
<1>3. LookingForContactByNumber(list, number) = IF Min(I) = 0 THEN Nothing ELSE list[Min(I)]
  BY <1>1 DEF LookingForContactByNumber, SelectInSeq
<1>4. Min(I) # 0
  BY <1>2
<1>5. FirstHolder(list, number, Min(I))
  BY <1>2 DEF FirstHolder
<1> QED
  BY <1>3, <1>4, <1>5

\* The number is still found with the same owner.
Keeps(number) ==
  LET owner == LookingForContactByNumber(tel, number)
      after == LookingForContactByNumber(tel', number)
      kept == \E i \in DOMAIN tel' : /\ Is(tel'[i], owner)
                                     /\ Contains(tel'[i].numbers, number)
  IN  kept => Is(after, owner) \/ SetSortingByName \/ SetSortingBySurname

\* It is so if the first holder of the new list, when the owner still has the
\* number there, is the owner.
LEMMA KeptBy ==
  ASSUME Legal(tel), Legal(tel'), NEW number \in Taken("numbers"),
         \A i, j, k : /\ FirstHolder(tel, number, i) /\ FirstHolder(tel', number, j)
                      /\ k \in 1..Len(tel') /\ Is(tel'[k], tel[i]) /\ Contains(tel'[k].numbers, number)
                      => Is(tel'[j], tel[i])
  PROVE  Keeps(number)
<1>1. PICK m \in DOMAIN tel : number \in Range(tel[m].numbers)
  BY DEF Taken
<1>2. tel \in Seq(Contact) /\ DOMAIN tel = 1..Len(tel) /\ tel[m] \in Contact
  BY BookType
<1>3. Contains(tel[m].numbers, number)
  BY <1>1, <1>2, ContainsRange DEF Contact
<1>4. PICK i : FirstHolder(tel, number, i) /\ LookingForContactByNumber(tel, number) = tel[i]
  BY <1>2, <1>3, HolderFound
<1>5. tel' \in Seq(Contact) /\ DOMAIN tel' = 1..Len(tel')
  BY LenProperties DEF Legal
<1>6. ASSUME NEW k \in DOMAIN tel', Is(tel'[k], tel[i]), Contains(tel'[k].numbers, number)
      PROVE  Is(LookingForContactByNumber(tel', number), tel[i])
  <2>1. PICK j : FirstHolder(tel', number, j) /\ LookingForContactByNumber(tel', number) = tel'[j]
    BY <1>5, <1>6, HolderFound
  <2> QED
    BY <1>4, <1>5, <1>6, <2>1
<1> QED
  BY <1>4, <1>6 DEF Keeps

\* Contacts that are amended where they are.
LEMMA AmendedKeeps ==
  ASSUME Legal(tel), Legal(tel'), Amends(tel'), NEW number \in Taken("numbers")
  PROVE  Keeps(number)
<1>1. DOMAIN tel' = DOMAIN tel /\ DOMAIN tel = 1..Len(tel) /\ DOMAIN tel' = 1..Len(tel') /\ Len(tel) \in Nat
  BY LenProperties DEF Amends, Legal
<1>2. ASSUME NEW i, NEW j, NEW k, FirstHolder(tel, number, i), FirstHolder(tel', number, j),
             k \in 1..Len(tel'), Is(tel'[k], tel[i]), Contains(tel'[k].numbers, number)
      PROVE  Is(tel'[j], tel[i])
  <2>1. i \in DOMAIN tel /\ j \in DOMAIN tel /\ k \in DOMAIN tel
    BY <1>1, <1>2 DEF FirstHolder
  <2>2. k = i
    <3>1. Is(tel'[k], tel[k])
      BY <2>1 DEF Amends
    <3>2. Is(tel[k], tel[i])
      BY <1>2, <3>1 DEF Is
    <3> QED
      BY <2>1, <3>2 DEF Legal
  <2>3. Contains(tel[j].numbers, number)
    BY <1>2, <2>1 DEF Amends, FirstHolder
  <2>4. i =< j /\ j =< i
    BY <1>1, <1>2, <2>1, <2>2, <2>3 DEF FirstHolder
  <2>5. i = j
    BY <1>1, <2>1, <2>4
  <2> QED
    BY <2>1, <2>5 DEF Amends
<1> QED
  BY <1>2, KeptBy

\* A new contact comes behind all who have the number.
LEMMA AddedKeeps ==
  ASSUME Legal(tel), Legal(tel'), NEW contact, tel' = Append(tel, contact),
         NEW number \in Taken("numbers")
  PROVE  Keeps(number)
<1> DEFINE n == Len(tel)
<1>1. tel \in Seq(Contact) /\ n \in Nat /\ DOMAIN tel = 1..n
  BY BookType
<1>2. Len(tel') = n + 1 /\ \A i \in 1..n : tel'[i] = tel[i]
  BY <1>1
<1> HIDE DEF n
<1>3. ASSUME NEW i, NEW j, NEW k, FirstHolder(tel, number, i), FirstHolder(tel', number, j),
             k \in 1..Len(tel'), Is(tel'[k], tel[i]), Contains(tel'[k].numbers, number)
      PROVE  Is(tel'[j], tel[i])
  <2>1. i \in 1..n /\ j \in 1..n + 1 /\ i \in 1..n + 1
    BY <1>1, <1>2, <1>3 DEF FirstHolder, n
  <2>2. j =< i
    BY <1>2, <1>3, <2>1 DEF FirstHolder
  <2>3. j \in 1..n
    BY <1>1, <2>1, <2>2
  <2>4. i =< j
    BY <1>2, <1>3, <2>3 DEF FirstHolder, n
  <2>5. i = j
    BY <1>1, <2>1, <2>2, <2>4
  <2> QED
    BY <1>2, <2>1, <2>5 DEF Is
<1> QED
  BY <1>3, KeptBy

\* Without another contact, the order of those who have the number stays.
LEMMA RemovedKeeps ==
  ASSUME Legal(tel), Legal(tel'), NEW person, RemoveContact(person),
         NEW number \in Taken("numbers")
  PROVE  Keeps(number)
<1> DEFINE at == PlaceOf(person)
           n == Len(tel)
           Old(i) == IF i < at THEN i ELSE i + 1
<1>1. tel \in Seq(Contact) /\ n \in Nat /\ DOMAIN tel = 1..n
  BY BookType
<1>2. at \in 1..n /\ tel' = RemoveAt(tel, at)
  BY <1>1, PlaceFound DEF RemoveContact
<1> HIDE DEF at
<1>3. /\ Len(tel') = n - 1
      /\ \A i \in 1..n - 1 : tel'[i] = IF i < at THEN tel[i] ELSE tel[i + 1]
  BY <1>1, <1>2, Removed
<1>4. \A i \in 1..n - 1 : Old(i) \in 1..n /\ tel'[i] = tel[Old(i)]
  BY <1>1, <1>2, <1>3
<1>5. \A i, j \in 1..n - 1 : i =< j => Old(i) =< Old(j)
  BY <1>1, <1>2
<1> HIDE DEF Old, n
<1>6. ASSUME NEW i, NEW j, NEW k, FirstHolder(tel, number, i), FirstHolder(tel', number, j),
             k \in 1..Len(tel'), Is(tel'[k], tel[i]), Contains(tel'[k].numbers, number)
      PROVE  Is(tel'[j], tel[i])
  <2>1. i \in 1..n /\ j \in 1..n - 1 /\ k \in 1..n - 1
    BY <1>3, <1>6 DEF FirstHolder, n
  <2>2. Old(k) = i
    BY <1>1, <1>4, <1>6, <2>1 DEF Legal
  <2>3. j =< k
    BY <1>3, <1>6, <2>1 DEF FirstHolder
  <2>4. Contains(tel[Old(j)].numbers, number)
    BY <1>4, <1>6, <2>1 DEF FirstHolder
  <2>5. i =< Old(j) /\ Old(j) =< i
    BY <1>4, <1>5, <1>6, <2>1, <2>2, <2>3, <2>4 DEF FirstHolder, n
  <2>6. i = Old(j)
    BY <1>1, <1>4, <2>1, <2>5
  <2> QED
    BY <1>4, <2>1, <2>6 DEF Is
<1> QED
  BY <1>6, KeptBy

\* A number keeps its owner in every step but a sort.
THEOREM NumberKept == Spec => NumberKeepsItsOwner
<1>1. ASSUME ContactsInv, ContactsInv', Next
      PROVE  \A number \in Taken("numbers") : Keeps(number)
  <2>0. Legal(tel) /\ Legal(tel')
    BY <1>1 DEF ContactsInv, Legal
  <2> SUFFICES ASSUME NEW number \in Taken("numbers")
               PROVE  Keeps(number)
    OBVIOUS
  <2>1. CASE Load
    BY <1>1, <2>1 DEF Load, ContactsInv, Taken
  <2>2. CASE tel' = tel
    BY <2>2 DEF Keeps, Is
  <2>3. CASE End
    BY <2>3 DEF End, Keeps
  <2>4. CASE Edits
    <3>1. CASE Amends(tel')
      BY <2>0, <3>1, AmendedKeeps
    <3>2. CASE SetSortingByName \/ SetSortingBySurname
      BY <3>2 DEF Keeps
    <3>3. CASE \E person \in People, emails \in Data(Emails) \cup {<<>>}, numbers \in Data(Numbers) \cup {<<>>} :
                 AddContact(person, emails, numbers)
      <4>1. \E contact : tel' = Append(tel, contact)
        BY <3>3 DEF AddContact
      <4> QED
        BY <2>0, <4>1, AddedKeeps
    <3> QED
      BY <2>0, <2>4, <3>1, <3>2, <3>3, EditShape, RemovedKeeps
  <2> QED
    BY <1>1, <2>1, <2>2, <2>3, <2>4 DEF Next, SaveToFile, Close
<1>2. ContactsInv /\ ContactsInv' /\ [Next]_vars
        => [\A number \in Taken("numbers") : Keeps(number)]_vars
  BY <1>1
<1>3. [][\A number \in Taken("numbers") : Keeps(number)]_vars => NumberKeepsItsOwner
  BY DEF NumberKeepsItsOwner, Keeps
<1> QED
  BY <1>2, <1>3, ContactsInvariance, PTL DEF Spec
-----------------------------------------------------------------------------
(* What the lookups find *)

\* The name of a contact is a word, within itself.
LEMMA NameIsWithin ==
  ASSUME NEW contact \in Contact
  PROVE  In(contact.name, contact.name) /\ In(contact.surname, contact.surname)
BY PhoneBookAssumption DEF Contact, In

\* The full name finds the contact at i, unless it is within another's.
LEMMA FullNameFinds ==
  ASSUME NEW list \in Seq(Contact), NEW i \in 1..Len(list), NEW query,
         query = <<list[i].name, list[i].surname>>
  PROVE  LET alike == \E j \in DOMAIN list \ {i} : /\ In(list[i].name, list[j].name)
                                                   /\ In(list[i].surname, list[j].surname)
         IN  LookingForContact(list, query) = IF alike THEN Nothing ELSE list[i]
<1> DEFINE S == {c \in Range(list) : In(list[i].name, c.name) /\ In(list[i].surname, c.surname)}
           found == Only(list, S)
           alike == \E j \in DOMAIN list \ {i} : /\ In(list[i].name, list[j].name)
                                                 /\ In(list[i].surname, list[j].surname)
<1>0. DOMAIN list = 1..Len(list) /\ Len(list) \in Nat
  BY LenProperties
<1>1. LookingForContact(list, query) = IF Len(found) = 1 THEN found[1] ELSE Nothing
  BY DEF LookingForContact, LookingForContacts, LookingForContactByNameAndSurname
<1>2. \A j \in 1..Len(list) : list[j] \in S <=> /\ In(list[i].name, list[j].name)
                                                /\ In(list[i].surname, list[j].surname)
  BY <1>0 DEF Range
<1>3. list[i] \in S
  BY <1>2, NameIsWithin
<1> HIDE DEF S
<1>4. ASSUME alike
      PROVE  LookingForContact(list, query) = Nothing
  <2>1. PICK j \in 1..Len(list) \ {i} : list[j] \in S
    BY <1>0, <1>2, <1>4
  <2>2. Len(found) >= 2 /\ Len(found) \in Nat
    BY <1>3, <2>1, OnlySome, OnlyPicks, LenProperties
  <2>3. ASSUME NEW n \in Nat, n >= 2
        PROVE  n # 1
    BY <2>3
  <2>4. Len(found) # 1
    <3> HIDE DEF found
    <3> QED
      BY <2>2, <2>3
  <2> QED
    BY <1>1, <2>4
<1>5. ASSUME ~alike
      PROVE  LookingForContact(list, query) = list[i]
  <2>1. Sole(i, list, S)
    BY <1>0, <1>2, <1>3, <1>5 DEF Sole
  <2>2. Len(found) = 1 /\ found[1] = list[i]
    BY <2>1, OnlyOne
  <2> QED
    BY <1>1, <2>2
<1> QED
  BY <1>4, <1>5

\* In every reachable list, a contact that is asked for by its full name
\* answers with its own default or, if the name is within another's, not at
\* all.
THEOREM DefaultsAreOwn == Spec => []DefaultIsOwn
<1>1. ASSUME ContactsInv
      PROVE  DefaultIsOwn
  <2> DEFINE Alike(i) == \E j \in DOMAIN tel \ {i} : /\ In(tel[i].name, tel[j].name)
                                                     /\ In(tel[i].surname, tel[j].surname)
  <2>1. tel \in Seq(Contact) /\ DOMAIN tel = 1..Len(tel) /\ Len(tel) \in Nat
    BY <1>1, BookType DEF ContactsInv
  <2>2. ASSUME NEW i \in DOMAIN tel, NEW query, query = <<tel[i].name, tel[i].surname>>
        PROVE  LookingForContact(tel, query) = IF Alike(i) THEN Nothing ELSE tel[i]
    BY <2>1, <2>2, FullNameFinds
  <2>3. ASSUME NEW i \in DOMAIN tel
        PROVE  tel[i] # Nothing /\ tel[i] \in Contact
    BY <2>1, PhoneBookAssumption
  <2> HIDE DEF Alike
  <2>4. ASSUME NEW i \in DOMAIN tel, NEW query, query = <<tel[i].name, tel[i].surname>>
        PROVE  /\ GetDefaultNumber(tel, query)
                    = IF Alike(i) \/ tel[i]["numbers"] = <<>> THEN Nothing ELSE tel[i]["numbers"][1]
               /\ GetDefaultEmail(tel, query)
                    = IF Alike(i) \/ tel[i]["emails"] = <<>> THEN Nothing ELSE tel[i]["emails"][1]
    <3>1. LookingForContact(tel, query) = IF Alike(i) THEN Nothing ELSE tel[i]
      BY <2>2, <2>4
    <3>2. tel[i] # Nothing
      BY <2>3
    <3>3. /\ tel[i]["numbers"] \in Seq(Numbers) /\ tel[i]["emails"] \in Seq(Emails)
      BY <2>3 DEF Contact
    <3>4. /\ tel[i]["numbers"] # <<>> => Head(tel[i]["numbers"]) = tel[i]["numbers"][1]
          /\ tel[i]["emails"] # <<>> => Head(tel[i]["emails"]) = tel[i]["emails"][1]
      BY <3>3
    <3> QED
      BY <3>1, <3>2, <3>4 DEF GetDefaultNumber, GetDefaultEmail, Default
  <2> QED
    BY <2>4 DEF DefaultIsOwn, Alike
<1> QED
  BY <1>1, ContactsInvariance, PTL

\* One word finds by name, then by surname.
LEMMA OneWordFinds ==
  ASSUME NEW list \in Seq(Contact), NEW w
  PROVE  LET Names == {c \in Range(list) : In(w, c.name)}
             Surnames == {c \in Range(list) : In(w, c.surname)}
             found == Only(list, Names) \o Only(list, Surnames)
         IN  LookingForContact(list, <<w>>) = IF Len(found) = 1 THEN found[1] ELSE Nothing
BY DEF LookingForContact, LookingForContacts, LookingForContactByName, LookingForContactBySurName

\* Two sequences that are one element together.
LEMMA OneOfTwo ==
  ASSUME NEW A, NEW a \in Seq(A), NEW b \in Seq(A)
  PROVE  /\ Len(a \o b) = Len(a) + Len(b) /\ Len(a) \in Nat /\ Len(b) \in Nat
         /\ Len(a) = 1 => (a \o b)[1] = a[1]
         /\ Len(a) = 0 /\ Len(b) = 1 => (a \o b)[1] = b[1]
<1>1. /\ Len(a \o b) = Len(a) + Len(b) /\ Len(a) \in Nat /\ Len(b) \in Nat
      /\ \A i \in 1..Len(a) : (a \o b)[i] = a[i]
      /\ \A i \in 1..Len(b) : (a \o b)[Len(a) + i] = b[i]
  BY ConcatParts
<1> DEFINE ab == a \o b
<1> HIDE DEF ab
<1>2. Len(a) = 1 => ab[1] = a[1]
  BY <1>1 DEF ab
<1>3. ASSUME Len(a) = 0, Len(b) = 1
      PROVE  ab[1] = b[1]
  <2>1. ab[Len(a) + 1] = b[1]
    BY <1>1, <1>3 DEF ab
  <2>2. Len(a) + 1 = 1
    BY <1>3
  <2> QED
    BY <2>1, <2>2
<1> QED
  BY <1>1, <1>2, <1>3 DEF ab

\* A contact is counted once for its name and once for its surname.
LEMMA OneWordFindsSole ==
  ASSUME NEW list \in Seq(Contact), NEW w, NEW hits,
         hits = {i \in DOMAIN list : In(w, list[i].name) \/ In(w, list[i].surname)}
  PROVE  /\ \A i : /\ hits = {i} /\ ~(In(w, list[i].name) /\ In(w, list[i].surname))
                   => LookingForContact(list, <<w>>) = list[i]
         /\ (~\E i : hits = {i}) => LookingForContact(list, <<w>>) = Nothing
         /\ (\E i \in hits : In(w, list[i].name) /\ In(w, list[i].surname))
              => LookingForContact(list, <<w>>) = Nothing
<1> DEFINE Names == {c \in Range(list) : In(w, c.name)}
           Surnames == {c \in Range(list) : In(w, c.surname)}
           a == Only(list, Names)
           b == Only(list, Surnames)
<1>1. LookingForContact(list, <<w>>) = IF Len(a \o b) = 1 THEN (a \o b)[1] ELSE Nothing
  BY OneWordFinds
<1>2. DOMAIN list = 1..Len(list) /\ Len(list) \in Nat
  BY LenProperties
<1>3. \A j \in 1..Len(list) : /\ list[j] \in Names <=> In(w, list[j].name)
                              /\ list[j] \in Surnames <=> In(w, list[j].surname)
  BY <1>2 DEF Range
<1>4. \A j : j \in hits <=> j \in 1..Len(list) /\ (list[j] \in Names \/ list[j] \in Surnames)
  BY <1>2, <1>3
<1> HIDE DEF Names, Surnames
<1>5. a \in Seq(Contact) /\ b \in Seq(Contact)
  BY OnlyPicks
<1>6. /\ \A i : Sole(i, list, Names) => Len(a) = 1 /\ a[1] = list[i]
      /\ \A i : Sole(i, list, Surnames) => Len(b) = 1 /\ b[1] = list[i]
  BY OnlyOne
<1>7. /\ (\A i \in 1..Len(list) : list[i] \notin Names) => Len(a) = 0
      /\ (\A i \in 1..Len(list) : list[i] \notin Surnames) => Len(b) = 0
  BY OnlyNone
<1>8. /\ \A i \in 1..Len(list) : list[i] \in Names => Len(a) >= 1
      /\ \A i \in 1..Len(list) : list[i] \in Surnames => Len(b) >= 1
      /\ \A i, j \in 1..Len(list) : i # j /\ list[i] \in Names /\ list[j] \in Names => Len(a) >= 2
      /\ \A i, j \in 1..Len(list) : i # j /\ list[i] \in Surnames /\ list[j] \in Surnames => Len(b) >= 2
  BY OnlySome
<1> HIDE DEF a, b
<1> DEFINE ab == a \o b
<1>9. /\ Len(ab) = Len(a) + Len(b) /\ Len(a) \in Nat /\ Len(b) \in Nat
      /\ Len(a) = 1 => ab[1] = a[1]
      /\ Len(a) = 0 /\ Len(b) = 1 => ab[1] = b[1]
  BY <1>5, OneOfTwo
<1>13. LookingForContact(list, <<w>>) = IF Len(ab) = 1 THEN ab[1] ELSE Nothing
  BY <1>1
<1> HIDE DEF ab
<1>10. ASSUME NEW i, hits = {i}, ~(In(w, list[i].name) /\ In(w, list[i].surname))
       PROVE  LookingForContact(list, <<w>>) = list[i]
  <2>1. i \in 1..Len(list) /\ ~(list[i] \in Names /\ list[i] \in Surnames)
    BY <1>3, <1>4, <1>10
  <2>2. \A j \in 1..Len(list) : list[j] \in Names \/ list[j] \in Surnames => j = i
    BY <1>4, <1>10
  <2>3. CASE list[i] \in Names
    <3>1. Sole(i, list, Names) /\ \A j \in 1..Len(list) : list[j] \notin Surnames
      BY <2>1, <2>2, <2>3 DEF Sole
    <3>2. Len(a) = 1 /\ a[1] = list[i] /\ Len(b) = 0
      BY <1>6, <1>7, <3>1
    <3>3. Len(ab) = 1 /\ ab[1] = list[i]
      BY <1>9, <3>2
    <3> QED
      BY <1>13, <3>3
  <2>4. CASE list[i] \in Surnames
    <3>1. Sole(i, list, Surnames) /\ \A j \in 1..Len(list) : list[j] \notin Names
      BY <2>1, <2>2, <2>4 DEF Sole
    <3>2. Len(b) = 1 /\ b[1] = list[i] /\ Len(a) = 0
      BY <1>6, <1>7, <3>1
    <3>3. Len(ab) = 1 /\ ab[1] = list[i]
      BY <1>9, <3>2
    <3> QED
      BY <1>13, <3>3
  <2> QED
    BY <1>4, <1>10, <2>3, <2>4
<1>11. ASSUME ~\E i : hits = {i}
       PROVE  Len(ab) # 1
  <2>1. CASE hits = {}
    <3>1. Len(a) = 0 /\ Len(b) = 0
      BY <1>4, <1>7, <2>1
    <3> QED
      BY <1>9, <3>1
  <2>2. CASE hits # {}
    <3>1. PICK i \in hits : TRUE
      BY <2>2
    <3>2. PICK j \in hits : j # i
      BY <1>11, <3>1
    <3>3. Len(a) >= 2 \/ Len(b) >= 2 \/ (Len(a) >= 1 /\ Len(b) >= 1)
      BY <1>4, <1>8, <3>1, <3>2
    <3> QED
      BY <1>9, <3>3
  <2> QED
    BY <2>1, <2>2
<1>12. ASSUME NEW i \in hits, In(w, list[i].name), In(w, list[i].surname)
       PROVE  Len(ab) # 1
  <2>1. i \in 1..Len(list) /\ list[i] \in Names /\ list[i] \in Surnames
    BY <1>3, <1>4, <1>12
  <2>2. Len(a) >= 1 /\ Len(b) >= 1
    BY <1>8, <2>1
  <2> QED
    BY <1>9, <2>2
<1> QED
  BY <1>10, <1>11, <1>12, <1>13

\* In every reachable list, a word finds the only contact it is in, once.
THEOREM SoleMatches == Spec => []SoleMatchFound
<1>1. ASSUME ContactsInv
      PROVE  SoleMatchFound
  <2>1. tel \in Seq(Contact) /\ DOMAIN tel = 1..Len(tel) /\ Len(tel) \in Nat
    BY <1>1, BookType DEF ContactsInv
  <2>2. ASSUME NEW w, NEW hits, hits = {i \in DOMAIN tel : In(w, tel[i].name) \/ In(w, tel[i].surname)}
        PROVE  LookingForContact(tel, <<w>>)
                 = IF Cardinality(hits) = 1 /\ ~\E i \in hits : In(w, tel[i].name) /\ In(w, tel[i].surname)
                   THEN tel[CHOOSE i \in hits : TRUE] ELSE Nothing
    <3>1. IsFiniteSet(hits)
      <4>1. IsFiniteSet(1..Len(tel)) /\ hits \subseteq 1..Len(tel)
        BY <2>1, <2>2, FS_Interval
      <4> QED
        BY <4>1, FS_Subset
    <3>2. Cardinality(hits) = 1 <=> \E i : hits = {i}
      BY <3>1, FS_Singleton
    <3>3. /\ \A i : /\ hits = {i} /\ ~(In(w, tel[i].name) /\ In(w, tel[i].surname))
                    => LookingForContact(tel, <<w>>) = tel[i]
          /\ (~\E i : hits = {i}) => LookingForContact(tel, <<w>>) = Nothing
          /\ (\E i \in hits : In(w, tel[i].name) /\ In(w, tel[i].surname))
               => LookingForContact(tel, <<w>>) = Nothing
      BY <2>1, <2>2, OneWordFindsSole
    <3>4. \A i : hits = {i} => (CHOOSE j \in hits : TRUE) = i
      OBVIOUS
    <3> QED
      BY <3>2, <3>3, <3>4
  <2> QED
    BY <2>2 DEF SoleMatchFound
<1> QED
  BY <1>1, ContactsInvariance, PTL
-----------------------------------------------------------------------------
(* What is read back *)

\* Numbers and addresses are told apart, and no word of either is blank.
LEMMA WordsApart ==
  ASSUME NEW e \in Seq(Emails), NEW s \in Seq(Numbers)
  PROVE  /\ \A i \in 1..Len(e) : e[i] \in Emails
         /\ \A i \in 1..Len(s) : s[i] \notin Emails
         /\ Range(e) \subseteq Emails /\ Range(s) \subseteq Numbers
         /\ Blank \notin Range(e) /\ Blank \notin Range(s)
BY PhoneBookAssumption, LenProperties DEF Range

\* A contact's line has a blank where its addresses would be, if it has
\* numbers alone.
LEMMA BlankOfLine ==
  ASSUME NEW contact \in Contact
  PROVE  Contains(LineOf(contact).data, Blank) <=> contact.emails = <<>> /\ contact.numbers # <<>>
<1> DEFINE Word == Numbers \cup Emails \cup {Blank}
           e == contact.emails
           b == IF contact.emails = <<>> /\ contact.numbers # <<>> THEN <<Blank>> ELSE <<>>
           s == contact.numbers
           eb == e \o b
           d == eb \o s
<1>1. e \in Seq(Emails) /\ s \in Seq(Numbers)
  BY DEF Contact
<1>2. e \in Seq(Word) /\ s \in Seq(Word) /\ Blank \notin Range(e) /\ Blank \notin Range(s)
  BY <1>1, WordsApart
<1>3. b \in Seq(Word) /\ (Blank \in Range(b) <=> contact.emails = <<>> /\ contact.numbers # <<>>)
  <2>1. <<Blank>> \in Seq(Word) /\ <<>> \in Seq(Word)
    OBVIOUS
  <2>2. Blank \in Range(<<Blank>>) /\ Blank \notin Range(<<>>)
    BY DEF Range
  <2> QED
    BY <2>1, <2>2
<1>4. LineOf(contact).data = d
  BY DEF LineOf
<1> HIDE DEF b, e, s, Word
<1>5. eb \in Seq(Word) /\ Range(eb) = Range(e) \cup Range(b)
  BY <1>2, <1>3, ConcatParts, RangeOfConcat
<1> HIDE DEF eb
<1>6. d \in Seq(Word) /\ Range(d) = Range(eb) \cup Range(s)
  BY <1>2, <1>5, ConcatParts, RangeOfConcat
<1> HIDE DEF d
<1>7. Contains(d, Blank) <=> Blank \in Range(d)
  BY <1>6, ContainsRange
<1> QED
  BY <1>2, <1>3, <1>4, <1>5, <1>6, <1>7

\* A line without a blank gives back the addresses and the numbers.
LEMMA LineReadBack ==
  ASSUME NEW contact \in Contact, ~Contains(LineOf(contact).data, Blank)
  PROVE  LET d == LineOf(contact).data
         IN  /\ Only(d, Emails) = contact.emails
             /\ Only(d, Range(d) \ Emails) = contact.numbers
<1> DEFINE Word == Numbers \cup Emails
           e == contact.emails
           s == contact.numbers
           d == e \o s
           M == Range(d) \ Emails
<1>1. e \in Seq(Emails) /\ s \in Seq(Numbers)
  BY DEF Contact
<1>2. e \in Seq(Word) /\ s \in Seq(Word)
  BY <1>1
<1>3. LineOf(contact).data = d
  <2>1. LineOf(contact).data = (e \o <<>>) \o s
    BY BlankOfLine DEF LineOf
  <2>2. e \o <<>> = e
    BY <1>2, ConcatEmptySeq
  <2> QED
    BY <2>1, <2>2
<1>4. /\ \A i \in 1..Len(e) : e[i] \in Emails
      /\ \A i \in 1..Len(s) : s[i] \notin Emails
      /\ Range(e) \subseteq Emails /\ Range(s) \subseteq Numbers
  BY <1>1, WordsApart
<1> HIDE DEF e, s, Word
<1>5. Range(d) = Range(e) \cup Range(s)
  BY <1>2, RangeOfConcat
<1>6. \A i \in 1..Len(e) : e[i] \notin M
  BY <1>4
<1>7. \A i \in 1..Len(s) : s[i] \in M
  BY <1>2, <1>4, <1>5, LenProperties DEF Range
<1> HIDE DEF M
<1>8. /\ Only(d, Emails) = Only(e, Emails) \o Only(s, Emails)
      /\ Only(d, M) = Only(e, M) \o Only(s, M)
  BY <1>2, OnlyConcat
<1>9. /\ Only(e, Emails) = e /\ Only(s, Emails) = <<>>
      /\ Only(e, M) = <<>> /\ Only(s, M) = s
  BY <1>2, <1>4, <1>6, <1>7, OnlyAll, OnlyNone
<1>10. e \o <<>> = e /\ <<>> \o s = s
  BY <1>2, ConcatEmptySeq
<1>11. Only(d, Emails) = e /\ Only(d, M) = s
  BY <1>8, <1>9, <1>10
<1> QED
  BY <1>3, <1>11 DEF e, s, M

\* In every reachable list, what would be saved would be read as it is, or not
\* at all.
THEOREM SavedIsReadBack == Spec => []SavedIsRead
<1>1. ASSUME ContactsInv
      PROVE  SavedIsRead
  <2>1. tel \in Seq(Contact) /\ DOMAIN tel = 1..Len(tel) /\ \A i \in DOMAIN tel : tel[i] \in Contact
    BY <1>1, BookType DEF ContactsInv
  <2> DEFINE lines == Lines(tel)
             Made(line) == [name |-> line.name, surname |-> line.surname,
                            emails |-> Only(line.data, Emails),
                            numbers |-> Only(line.data, Range(line.data) \ Emails)]
  <2>2. DOMAIN lines = DOMAIN tel /\ \A i \in DOMAIN tel : lines[i] = LineOf(tel[i])
    BY DEF Lines
  <2>3. Read(lines) = [i \in DOMAIN lines |-> Made(lines[i])]
    BY DEF Read
  <2> HIDE DEF lines
  <2>4. Readable(lines) <=> \A i \in DOMAIN tel : tel[i].numbers = <<>> \/ tel[i].emails # <<>>
    BY <2>1, <2>2, BlankOfLine DEF Readable
  <2>5. ASSUME Readable(lines)
        PROVE  Read(lines) = tel
    <3>1. ASSUME NEW i \in DOMAIN tel
          PROVE  Made(LineOf(tel[i])) = tel[i]
      <4>1. tel[i] \in Contact /\ ~Contains(LineOf(tel[i]).data, Blank)
        BY <2>1, <2>2, <2>5 DEF Readable
      <4> DEFINE e == Only(LineOf(tel[i]).data, Emails)
                 s == Only(LineOf(tel[i]).data, Range(LineOf(tel[i]).data) \ Emails)
      <4>2. e = tel[i].emails /\ s = tel[i].numbers
        BY <4>1, LineReadBack
      <4>3. LineOf(tel[i]).name = tel[i].name /\ LineOf(tel[i]).surname = tel[i].surname
        BY DEF LineOf
      <4>4. Made(LineOf(tel[i])) = [name |-> tel[i].name, surname |-> tel[i].surname,
                                    emails |-> tel[i].emails, numbers |-> tel[i].numbers]
        <5> HIDE DEF e, s
        <5>1. Made(LineOf(tel[i])) = [name |-> tel[i].name, surname |-> tel[i].surname,
                                      emails |-> e, numbers |-> s]
          BY <4>3 DEF e, s
        <5> QED
          BY <4>2, <5>1
      <4> QED
        BY <4>1, <4>4 DEF Contact
    <3> HIDE DEF Made
    <3>2. Read(lines) = [i \in DOMAIN tel |-> Made(LineOf(tel[i]))]
      BY <2>2, <2>3
    <3>3. tel = [i \in DOMAIN tel |-> tel[i]]
      BY <2>1
    <3> QED
      BY <3>1, <3>2, <3>3
  <2> QED
    BY <2>4, <2>5 DEF SavedIsRead, lines
<1> QED
  BY <1>1, ContactsInvariance, PTL
=============================================================================
