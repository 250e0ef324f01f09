SPECIFICATION Spec
CONSTANTS
  Inits = {i1, i2, i3}
  Chunks = {c1}
  Merges = {m1}
  Users = {u1}
  UploadIds = {x1, x2, x3}
  Versions = {v1}
  MaxChunks = 1
  TTL = 0
  MaxNow = 2
  MaxCrashes = 1
  RenameWorks = TRUE
  Faults = TRUE
  SilentFaults = FALSE
  Monolith = TRUE
  None = None
  Torn = Torn
  Hole = Hole
SYMMETRY Symmetry
CHECK_DEADLOCK FALSE
INVARIANTS
  DoneSessionsHaveRows
  MergeFindsChunks
  OrphansHaveCause
PROPERTIES
  ImplementsLifecycle
