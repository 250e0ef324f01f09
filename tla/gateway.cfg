SPECIFICATION Spec
CONSTANTS
  Text <- MCText
  Utf8 <- MCUtf8
  Int32 <- MCInt32
  Int64 <- MCInt64
  Blobs = {"", "bin"}
  Calls = {c1}
  Digits = {"", "0", "2", "9", "99"}
  Value <- MCValue
  Junk = Junk
  Uids = {1, 2}
  None = None
INVARIANTS
  TypeOK
  OkMeansDone
  
  OnlyTokenHolders
  AnswersAreReadable
CHECK_DEADLOCK FALSE
