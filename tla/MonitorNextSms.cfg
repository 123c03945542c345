SPECIFICATION LiveSpec
CONSTANTS
  Alphabet <- MCAlphabet
  Within <- MCWithin
  Numbers = {"n1", "n2"}
  Emails = {"mail"}
  Nothing = Nothing
  Admin = "admin"
  Strangers = {"stranger"}
  Names = {"net", "log"}
  Texts <- MCShort
  Limit = 2
  Books <- MCBooks
PROPERTY NextSmsSent
