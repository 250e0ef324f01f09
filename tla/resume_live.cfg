SPECIFICATION FairSpec
CONSTANTS
  f1 = f1
  f2 = f2
  f3 = f3
  Tabs = {t1}
  Files = {f1}
  Name <- OneName
  Size <- OneSize
  Chunks = 2
  UploadIds = {u1, u2, u3, u4}
  Handlers = {h1, h2}
  MaxFaults = 2
  None = None
  Torn = Torn
INVARIANT
  RowsAreAccountedFor
PROPERTY
  UploadedOrStuck
CHECK_DEADLOCK FALSE
