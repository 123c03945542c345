SPECIFICATION LiveSpec
CONSTANTS
  Alphabet <- MCAlphabet
  Within <- MCWithin
  Numbers = {"n1", "n2"}
  Emails = {"mail"}
  Nothing = Nothing
  Admin = "admin"
  Strangers = {"stranger"}
  Names = {"net"}
  Texts <- MCTexts
  Limit = 2
  Books <- MCBooks
INVARIANTS MonitorInv PartsKeepText
PROPERTIES AlarmTold ChangeIsTold RemovedWasSent RosterKept StopHonoured FirstSmsSent
