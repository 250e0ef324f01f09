SPECIFICATION Spec
CONSTANTS
  Inits = {i1, i2}
  Chunks = {c1}
  Merges = {m1, m2}
  Users = {u1}
  UploadIds = {x1, x2}
  Versions = {v1}
  MaxChunks = 1
  TTL = 0
  MaxNow = 1
  MaxCrashes = 1
  RenameWorks = FALSE
  Faults = TRUE
  SilentFaults = TRUE
  Monolith = FALSE
  None = None
  Torn = Torn
  Hole = Hole
SYMMETRY Symmetry
CHECK_DEADLOCK FALSE
INVARIANTS
  RowsHaveObjects
  MessagesHaveRows
PROPERTIES
  ImplementsLifecycle
