SPECIFICATION Spec
CONSTANTS
  f1 = f1
  f2 = f2
  f3 = f3
  Tabs = {t1, t2}
  Files = {f1, f2, f3}
  Name <- SomeName
  Size <- SomeSize
  Chunks = 2
  UploadIds = {u1, u2}
  Handlers = {h1, h2}
  MaxFaults = 1
  None = None
  Torn = Torn
SYMMETRY Symmetry
INVARIANTS
  TypeOK
  RowsAreAccountedFor
  DoneMeansRegistered
CHECK_DEADLOCK FALSE
