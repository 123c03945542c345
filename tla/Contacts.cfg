SPECIFICATION Spec
CONSTANTS
  Alphabet <- MCAlphabet
  Within <- MCWithin
  People <- MCPeople
  n1 = n1
  n2 = n2
  Numbers <- MCNumbers
  Emails = {mail}
  Valid = {n1, n2, mail}
  Nothing = Nothing
  MaxContacts = 2
  MaxData = 2
SYMMETRY NumberSymmetry
INVARIANTS ContactsInv DefaultIsOwn SoleMatchFound SavedIsRead
PROPERTY NumberKeepsItsOwner
CHECK_DEADLOCK FALSE
