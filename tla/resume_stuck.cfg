SPECIFICATION FairSpec
CONSTANTS
  f1 = f1
  f2 = f2
  f3 = f3
  Tabs = {t1}
  Files = {f1}
  Name <- OneName
  Size <- OneSize
  Chunks = 2
  UploadIds = {u1, u2}
  Handlers = {h1, h2}
  MaxFaults = 1
  None = None
  Torn = Torn
PROPERTY
  RetriesSucceed
CHECK_DEADLOCK FALSE
